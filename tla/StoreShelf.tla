------------------------------ MODULE StoreShelf -----------------------------
(****************************************************************************)
(* The cache of the Store pages (store.rs): one document with the games on  *)
(* the shelf, their prices, the platforms each is out on, and whether Steam *)
(* answered.  Every visit asks for a refresh.  A refresh takes a snapshot   *)
(* of the document, rebuilds the games from the catalogue and from what the *)
(* storefronts answer, keeps what the snapshot knew and the answers do not  *)
(* tell, and writes the document whole; then it asks IGDB about platforms   *)
(* and writes it again.                                                     *)
(*                                                                          *)
(* A price is the time it was verified at, 0 for the one the catalogue      *)
(* ships with; the platforms of a game are the time they were asked at.     *)
(* The clock is not set back.                                               *)
(****************************************************************************)
EXTENDS Naturals, Sequences, FiniteSets

CONSTANTS Calls,      \* visits whose refresh may run at the same time
          Catalogue,  \* games the build ships with, all sold on Steam
          Releases,   \* what Steam's listing may name besides
          Apps,       \* what the App Store may answer
          Order,      \* the games IGDB can be asked about, in the order of the list
          Batch,      \* games of one question to IGDB
          Most,       \* games asked about in one refresh
          Interval,   \* how long a healthy refresh is good for
          Lifetime,   \* how long an answer of IGDB is
          MaxTime,    \* bound: the clock
          None

ShelfAssumption ==
    /\ {Order[i] : i \in DOMAIN Order} = Catalogue \cup Releases
    /\ {Interval, Lifetime, MaxTime, Most, Batch} \subseteq Nat \ {0}
    /\ Catalogue \cap Releases = {} /\ (Catalogue \cup Releases) \cap Apps = {}
    /\ IsFiniteSet(Releases \cup Apps) /\ None \notin 1..MaxTime

VARIABLES cache,    \* the document on disk, None before the first
          call,     \* what each running refresh knows, None if it is not running
          clock

vars == <<cache, call, clock>>

Games == Catalogue \cup Releases \cup Apps

\* The games without a curation: those a storefront put on the shelf.
Live(games) == DOMAIN games \ Catalogue

GamesOf(document) == IF document = None THEN <<>> ELSE document.games

Init == cache = None /\ call = [c \in Calls |-> None] /\ clock = 1

\* Running: the lock REFRESHING is held.
Running == {c \in Calls : call[c] # None}

Known(c) == [before |-> cache, now |-> clock, document |-> None]

\* refreshed_recently.
Recent == cache # None /\ cache.steam /\ clock - cache.at < Interval

\* Mutant: every visit refreshes, whatever runs already.
BeginBeside(c) ==
    /\ call[c] = None
    /\ ~Recent
    /\ call' = [call EXCEPT ![c] = Known(c)]
    /\ UNCHANGED <<cache, clock>>

\* A refresh begins, unless one runs or the last is recent.
Begin(c) ==
    /\ Running = {}
    /\ ~Recent
    /\ call' = [call EXCEPT ![c] = Known(c)]
    /\ UNCHANGED <<cache, clock>>

\* What the storefronts may answer: the games of the catalogue Steam has a price
\* for, the games it lists besides, and the games of the App Store.  A listing
\* that fails finds nothing, and so does the page of one game.
Prices == SUBSET Catalogue
NewReleases == SUBSET Releases
AppResults == SUBSET Apps

\* refresh_all: the catalogue, with the prices Steam answered, and what the two
\* listings found.
Rebuilt(priced, found, now) ==
    [g \in Catalogue \cup found |->
        [price |-> IF g \in priced \cup found THEN now ELSE 0, asked |-> None]]

\* Mutant: what a refresh found is taken for all there is.
KeptNone(games, steam, before) == games

\* keep_live_games_when_refresh_failed.
Kept(games, steam, before) ==
    IF ~steam /\ Cardinality(Live(before)) > Cardinality(Live(games))
    THEN before
    ELSE games

\* carry_platform_availability.
Carried(games, before) ==
    [g \in DOMAIN games |->
        IF games[g].asked = None /\ g \in DOMAIN before
        THEN [games[g] EXCEPT !.asked = before[g].asked]
        ELSE games[g]]

\* The storefronts have answered, or not, and the document is written.
Publish(c) ==
    /\ call[c] # None /\ call[c].document = None
    /\ \E priced \in Prices, released \in NewReleases, apps \in AppResults :
        LET before == GamesOf(call[c].before)
            steam == priced = Catalogue
            games == Kept(Rebuilt(priced, released \cup apps, call[c].now), steam, before)
            document == [at |-> call[c].now, steam |-> steam, games |-> Carried(games, before)]
        IN /\ cache' = document
           /\ call' = [call EXCEPT ![c].document = document]
    /\ UNCHANGED clock

\* Games whose platforms nobody asked about, or long ago.
Wanted(document, now) ==
    LET stale(g) == /\ g \in DOMAIN document.games
                    /\ \/ document.games[g].asked = None
                       \/ now - document.games[g].asked >= Lifetime
    IN SelectSeq(Order, stale)

\* enrich_platform_availability: batches are answered until one is not.  The
\* document is written again if one was.
Enrich(c) ==
    /\ call[c] # None /\ call[c].document # None
    /\ LET document == call[c].document
           wanted == Wanted(document, call[c].now)
           last == IF Len(wanted) < Most THEN Len(wanted) ELSE Most
       IN \E batches \in 1..last :
           LET told == {wanted[i] : i \in {j \in 1..last : j <= batches * Batch}}
           IN cache' = [document EXCEPT !.games = [g \in DOMAIN document.games |->
                            IF g \in told
                            THEN [document.games[g] EXCEPT !.asked = call[c].now]
                            ELSE document.games[g]]]
    /\ call' = [call EXCEPT ![c] = None]
    /\ UNCHANGED clock

\* A refresh ends where it is: a document cannot be written, there are no
\* credentials for IGDB, its first batch fails, or the program stops.
Return(c) ==
    /\ call[c] # None
    /\ call' = [call EXCEPT ![c] = None]
    /\ UNCHANGED <<cache, clock>>

\* The document is lost: deleted, damaged, or of another schema.
Forget == cache # None /\ cache' = None /\ UNCHANGED <<call, clock>>

Tick == clock < MaxTime /\ clock' = clock + 1 /\ UNCHANGED <<cache, call>>

Next ==
    \/ \E c \in Calls : Begin(c) \/ Publish(c) \/ Enrich(c) \/ Return(c)
    \/ Forget
    \/ Tick

Spec == Init /\ [][Next]_vars
------------------------------------------------------------------------------
Entries == [price : 0..MaxTime, asked : 1..MaxTime \cup {None}]

\* A shelf has at least the catalogue.
IsShelf(games) ==
    /\ Catalogue \subseteq DOMAIN games /\ DOMAIN games \subseteq Games
    /\ \A g \in DOMAIN games : games[g] \in Entries

TypeOK ==
    /\ clock \in 1..MaxTime
    /\ cache # None =>
        cache.at \in 1..clock /\ cache.steam \in BOOLEAN /\ IsShelf(cache.games)
    /\ \A c \in Running :
        /\ call[c].now \in 1..clock
        /\ call[c].document # None => IsShelf(call[c].document.games)

\* One refresh at a time (2840-2845), so that none writes over what another
\* learned: a refresh Steam failed never leaves fewer live games than there
\* were, and an answer of IGDB is never taken back to an older one.
NothingForgotten ==
    cache # None /\ cache' # None =>
        /\ ~cache'.steam => Cardinality(Live(cache'.games)) >= Cardinality(Live(cache.games))
        /\ \A g \in DOMAIN cache.games \cap DOMAIN cache'.games :
              cache.games[g].asked # None =>
                  /\ cache'.games[g].asked # None
                  /\ cache'.games[g].asked >= cache.games[g].asked

==============================================================================
