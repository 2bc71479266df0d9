----------------------------- MODULE LibraryCards -----------------------------
(****************************************************************************)
(* The cards of the library (src-tauri/src/catalog.rs, runner_host.rs,      *)
(* lib.rs): what a store sync, an import of a runner, a Windows game given  *)
(* to Wine and a removal do to them.  Each is one commit of the catalog,    *)
(* which is refused when it does not validate.                              *)
(*                                                                          *)
(* A way to start a game is <<owner, game>>; a card is known by its own way *)
(* and may offer others.  Titles are compared as the code normalises them.  *)
(* What else a card records is left out.                                    *)
(****************************************************************************)
EXTENDS Naturals, Sequences, FiniteSets, SequencesExt

CONSTANTS
    Profiles,     \* third-party runner profiles
    Roms,         \* what a folder may hold, in the order a plugin lists it
    StoreGames,   \* the games of a connected store account
    Directs,      \* local Windows executables
    Title,        \* the title of each game
    None

GamesAssumption ==
    /\ Profiles \cap {"store", "direct", "wine"} = {}
    /\ Roms \in Seq(ToSet(Roms)) /\ IsFiniteSet(StoreGames) /\ IsFiniteSet(Directs)
    /\ None \notin (Profiles \cup {"store", "direct", "wine"}) \X DOMAIN Title
    /\ \A g \in ToSet(Roms) \cup StoreGames \cup Directs : g \in DOMAIN Title

VARIABLES
    cards,      \* games, in the order they were added
    profiles,   \* the runner profiles there are
    entries,    \* runner_inventory: the ways their imports recorded
    cursor,     \* how far the import of each profile is in Roms
    folder,     \* the games in the folder of each profile
    wine,       \* wine_inventory: each game given to Wine, and whether it names
                \* the Direct game it stands for
    removed     \* the ways the user removed, with their card, since they were imported

vars == <<cards, profiles, entries, cursor, folder, wine, removed>>

Card(way) == [way |-> way, others |-> {}]
Offers(c) == {c.way} \cup c.others
IsRunner(c) == c.way[1] \in Profiles \cup {"wine"}
Has(cs, way) == \E i \in DOMAIN cs : cs[i].way = way

\* What of a sequence is among some, in its order.
Keep(s, some) ==
    LET kept[n \in 0..Len(s)] ==
            IF n = 0 THEN <<>>
            ELSE IF s[n] \in some THEN Append(kept[n - 1], s[n]) ELSE kept[n - 1]
    IN  kept[Len(s)]
Drop(cs, way) == Keep(cs, {c \in ToSet(cs) : c.way # way})

\* catalog.add, or the insertion of an upsert, of one card after the other; a refresh
\* puts the incoming record in place of the one it refreshes.
UpsertAll(cs, ways) ==
    [i \in DOMAIN cs |-> IF cs[i].way \in ways THEN Card(cs[i].way) ELSE cs[i]]
        \o SetToSeq({Card(w) : w \in {v \in ways : ~Has(cs, v)}})
Upsert(cs, way) == UpsertAll(cs, {way})

\* The cards of that title, but its own.
Named(cs, way) ==
    {i \in DOMAIN cs : cs[i].way # way /\ Title[cs[i].way[2]] = Title[way[2]]}
First(cs, found) == IF found = {} THEN None ELSE cs[Min(found)].way

\* Mutant: the card of the game itself is not left aside.
HostWithItself(cs, way) ==
    First(cs, {i \in DOMAIN cs : Title[cs[i].way[2]] = Title[way[2]]})

\* Mutant: the first card that has the title, whoever owns it.
HostFirst(cs, way) == First(cs, Named(cs, way))

\* host_game_for_title: the first card of that title that is not a runner's, or
\* the first.
Host(cs, way) ==
    LET owned == {i \in Named(cs, way) : ~IsRunner(cs[i])}
    IN  First(cs, IF owned # {} THEN owned ELSE Named(cs, way))

\* attach_alternate_launch
Attach(cs, host, way) ==
    [i \in DOMAIN cs |-> IF cs[i].way = host /\ host # way
                         THEN [cs[i] EXCEPT !.others = @ \cup {way}] ELSE cs[i]]

\* One entry of a page: another card of the title gets the way, and a card of its
\* own is folded in.
File(cs, way) ==
    LET host == Host(cs, way)
    IN  IF host = None THEN Upsert(cs, way) ELSE Drop(Attach(cs, host, way), way)

\* Every entry of a page, one after the other.
FileAll(cs, page) ==
    LET filed[n \in 0..Len(page)] == IF n = 0 THEN cs ELSE File(filed[n - 1], page[n])
    IN  filed[Len(page)]

------------------------------------------------------------------------------
(* Runner profiles and their imports *)

CreateProfile(p) ==
    /\ p \notin profiles
    /\ profiles' = profiles \cup {p}
    /\ UNCHANGED <<cards, entries, cursor, folder, wine, removed>>

\* The next n games a plugin lists after the cursor.
Listed(p) == Keep([i \in 1..Len(Roms) |-> i],
                  {i \in 1..Len(Roms) : i > cursor[p] /\ Roms[i] \in folder[p]})
Page(p, n) == [i \in 1..n |-> <<p, Roms[Listed(p)[i]]>>]

\* commit_resolved_page
CommitPage(p, n) ==
    LET page == Page(p, n)
        complete == n = Len(Listed(p))
    IN  /\ p \in profiles
        /\ cards' = FileAll(cards, page)
        /\ entries' = entries \cup ToSet(page)
        /\ cursor' = [cursor EXCEPT ![p] = IF complete THEN 0 ELSE Listed(p)[n]]
        /\ removed' = removed \ ToSet(page)
        /\ UNCHANGED <<profiles, folder, wine>>

ImportPage(p) == \E n \in 0..Len(Listed(p)) :
    /\ n = 0 => Listed(p) = <<>>
    /\ CommitPage(p, n)

\* detach_alternate_launches_for_profile
Detach(cs, p) ==
    [i \in DOMAIN cs |-> [cs[i] EXCEPT !.others = {w \in @ : w[1] # p}]]

\* The cards of one owner go.
Without(cs, owner) == Keep(cs, {c \in ToSet(cs) : c.way[1] # owner})

\* Mutant: the ways attached to the cards of others stay.
RemoveCardsOnly(p) ==
    /\ p \in profiles
    /\ profiles' = profiles \ {p}
    /\ entries' = {w \in entries : w[1] # p}
    /\ cards' = Without(cards, p)
    /\ cursor' = [cursor EXCEPT ![p] = 0]
    /\ removed' = {w \in removed : w[1] # p}
    /\ UNCHANGED <<folder, wine>>

\* remove_runner_profile
RemoveProfile(p) ==
    /\ p \in profiles
    /\ profiles' = profiles \ {p}
    /\ entries' = {w \in entries : w[1] # p}
    /\ cards' = Without(Detach(cards, p), p)
    /\ cursor' = [cursor EXCEPT ![p] = 0]
    /\ removed' = {w \in removed : w[1] # p}
    /\ UNCHANGED <<folder, wine>>

\* A file is put into the folder.
AddRom(p) ==
    /\ \E rom \in ToSet(Roms) \ folder[p] : folder' = [folder EXCEPT ![p] = @ \cup {rom}]
    /\ UNCHANGED <<cards, profiles, entries, cursor, wine, removed>>

------------------------------------------------------------------------------
(* Stores *)

\* upsert_steam, upsert_source: the games of an account, some of them left out
\* by an answer that is not complete.
SyncStore ==
    /\ \E answer \in SUBSET StoreGames : cards' = UpsertAll(cards, {"store"} \X answer)
    /\ UNCHANGED <<profiles, entries, cursor, folder, wine, removed>>

\* A card goes, and with it the ways it offers.
Removes(c) == (removed \cup Offers(c)) \cap entries

\* remove_source_games
ForgetStore ==
    LET forgotten == {c \in ToSet(cards) : c.way[1] = "store"}
    IN  /\ cards' = Without(cards, "store")
        /\ removed' = removed \cup UNION {Removes(c) : c \in forgotten}
        /\ UNCHANGED <<profiles, entries, cursor, folder, wine>>

------------------------------------------------------------------------------
(* Local executables and Wine *)

Linked == {d \in DOMAIN wine : wine[d]}
Pending(cs) == {d \in Directs : Has(cs, <<"direct", d>>)} \ Linked
Give(ds, links) == [d \in DOMAIN wine \cup ds |-> IF d \in ds THEN links[d] ELSE wine[d]]

\* associate_direct_game_with_wine_profile, for each that validates.
Associate(cs, ds) ==
    /\ cards' = UpsertAll(cs, {"wine"} \X ds)
    /\ wine' = Give(ds, [d \in ds |-> TRUE])

\* import_game, scan_game_folder, register_installed_game; what can be given to
\* the managed Wine profile is.
AddDirect(d) ==
    /\ ~Has(cards, <<"direct", d>>)
    /\ LET added == Append(cards, Card(<<"direct", d>>))
       IN  \E ds \in SUBSET Pending(added) : Associate(added, ds)
    /\ UNCHANGED <<profiles, entries, cursor, folder, removed>>

\* The pass after start-up, or the command.
GiveToWine ==
    /\ \E ds \in SUBSET Pending(cards) : ds # {} /\ Associate(cards, ds)
    /\ UNCHANGED <<profiles, entries, cursor, folder, removed>>

\* A scan of the profile's folders finds the executable: a Direct game of the
\* library is linked, an entry keeps the link it has.
ScanWine(d) ==
    /\ cards' = Upsert(cards, <<"wine", d>>)
    /\ wine' = Give({d}, [x \in {d} |-> d \in Linked \/ Has(cards, <<"direct", d>>)])
    /\ UNCHANGED <<profiles, entries, cursor, folder, removed>>

\* remove_wine_profile
RemoveWineProfile ==
    /\ wine # <<>>
    /\ wine' = <<>>
    /\ cards' = Without(cards, "wine")
    /\ UNCHANGED <<profiles, entries, cursor, folder, removed>>

------------------------------------------------------------------------------
(* The shelf *)

\* presentation_catalog: a Direct game that Wine has a card for is not shown.
Superseded(c) == c.way[1] = "direct" /\ c.way[2] \in Linked /\ Has(cards, <<"wine", c.way[2]>>)
Shelf == {c \in ToSet(cards) : ~Superseded(c)}

\* The rule of validate on associations.
Valid(cs) == \A d \in Linked : Has(cs, <<"direct", d>>)

\* remove_game
RemoveGame(c) ==
    /\ Valid(Drop(cards, c.way))
    /\ cards' = Drop(cards, c.way)
    /\ removed' = removed \cup Removes(c)
    /\ UNCHANGED <<profiles, entries, cursor, folder, wine>>

------------------------------------------------------------------------------

Init ==
    /\ cards = <<>> /\ profiles = {} /\ entries = {} /\ wine = <<>> /\ removed = {}
    /\ cursor = [p \in Profiles |-> 0]
    /\ folder = [p \in Profiles |-> {}]

Next ==
    \/ \E p \in Profiles : CreateProfile(p) \/ ImportPage(p) \/ RemoveProfile(p) \/ AddRom(p)
    \/ SyncStore \/ ForgetStore
    \/ \E d \in Directs : AddDirect(d) \/ ScanWine(d)
    \/ GiveToWine \/ RemoveWineProfile
    \/ \E c \in Shelf : RemoveGame(c)

Spec == Init /\ [][Next]_vars
------------------------------------------------------------------------------
(* Properties *)

RunnerWays == Profiles \X ToSet(Roms)
Ways == RunnerWays \cup ({"store"} \X StoreGames) \cup ({"direct", "wine"} \X Directs)

TypeOK ==
    /\ \A i \in DOMAIN cards : cards[i] \in [way : Ways, others : SUBSET RunnerWays]
    /\ \A i, j \in DOMAIN cards : cards[i].way = cards[j].way => i = j
    /\ profiles \subseteq Profiles /\ entries \subseteq RunnerWays /\ removed \subseteq entries
    /\ cursor \in [Profiles -> 0..Len(Roms)]
    /\ folder \in [Profiles -> SUBSET ToSet(Roms)]
    /\ DOMAIN wine \subseteq Directs /\ \A d \in DOMAIN wine : wine[d] \in BOOLEAN

\* Every way a card offers has the private record a launch reads, and its profile,
\* whatever was folded, refreshed and removed before: "an alternate pointing at a
\* profile that is gone is a Play that cannot work", and validation looks at
\* the first way of a card only.
EveryWayHasEntry ==
    \A c \in ToSet(cards), w \in Ways :
        w \in Offers(c) =>
            /\ w[1] \in Profiles => w \in entries /\ w[1] \in profiles
            /\ w[1] = "wine" => w[2] \in DOMAIN wine

\* A page leaves one card for each of its games: a card of its own stands beside no
\* other of that title; and a game that shares its title with no other of the page
\* is offered, by a runner's card only if the library has no other of that title.
\* "One game, one card", whatever an earlier import, a store or a folder left.
FiledOnce(cs, page) ==
    \A w \in ToSet(page) :
        LET named == {c \in ToSet(cs) : Title[c.way[2]] = Title[w[2]]}
            alone == \A v \in ToSet(page) \ {w} : Title[v[2]] # Title[w[2]]
        IN  /\ Has(cs, w) => \A c \in named : c.way = w
            /\ alone => \E c \in named : w \in Offers(c) /\ (IsRunner(c) => \A o \in named : IsRunner(o))
PageIsFiled ==
    \A p \in Profiles : \A n \in 1..Len(Listed(p)) :
        CommitPage(p, n) => FiledOnce(cards', Page(p, n))
ImportFilesEachGame == [][PageIsFiled]_vars

\* What an import recorded can be started from the shelf until the user removes it:
\* an import "adds that way to the card that is already there"
\* (docs/gamestream.md).
WaysAreShown ==
    \A w \in entries \ removed : \E c \in Shelf : w \in Offers(c)

\* A card that is shown can be removed: remove_game "drops the catalog record so its
\* card and detail page disappear".
CardsCanBeRemoved == \A c \in Shelf : Valid(Drop(cards, c.way))
===============================================================================
