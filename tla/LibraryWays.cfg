SPECIFICATION Spec
CONSTANTS
    None = None
    Profiles = {"profile"}
    Roms <- Listing
    StoreGames = {"s"}
    Directs = {}
    Title <- OneTitle
INVARIANTS
    WaysAreShown
