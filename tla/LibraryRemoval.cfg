SPECIFICATION Spec
CONSTANTS
    None = None
    Profiles = {"profile"}
    Roms <- Listing
    StoreGames = {"s"}
    Directs = {"d"}
    Title <- OneTitle
INVARIANTS
    CardsCanBeRemoved
