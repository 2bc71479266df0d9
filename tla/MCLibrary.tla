------------------------------ MODULE MCLibrary ------------------------------
(****************************************************************************)
(* The components that put games and artwork into the library, checked in   *)
(* one run of TLC.  They meet nowhere in the code.  `component` says which  *)
(* one a behaviour is of, and never changes.  They share the slots s1,      *)
(* s2...: the INSTANCE of a component says which of its variables is in     *)
(* which, and the rest hold None.                                           *)
(****************************************************************************)
EXTENDS MCComponents

Builds == {Release, [version |-> 2, channel |-> Unsigned, component |-> newCode]}

\* Two commands at a time, on one profile, while the package changes; as Runner!P, the
\* panel of the profile, with room for one job; as Runner!A, the pictures of a card,
\* three commands and one role; as Runner!K, the cards of two profiles beside a store.
Runner == INSTANCE RunnerProfilesProofs WITH
    Threads <- {w1, w2}, Profiles <- {"profile"}, Folders <- {"folder"},
    Packages <- Builds, Pages <- 1,
    live <- s1, profile <- s2, inventory <- s3, grants <- s4, thread <- s5,
    made <- s6, removed <- s7, consent <- s8,
    Tasks <- {w1, w2}, Jobs <- 1..2, MaxJobs <- 1,
    table <- s1, phase <- s2, ours <- s3, flagged <- s4, worker <- s5, shown <- s6,
    task <- s7, finding <- s8, deleted <- s9,
    Commands <- {w1, w2, "third"}, Roles <- {"background"},
    files <- s1, slots <- s2, command <- s3, missed <- s4,
    Owners <- {w1, w2}, Roms <- <<"r1", "r2">>, StoreGames <- {"s"}, Directs <- {},
    Title <- "r1" :> "T" @@ "r2" :> "T" @@ "s" :> "T",
    cards <- s1, profiles <- s2, entries <- s3, reached <- s4, holding <- s5,
    wine <- s6, gone <- s7

\* The same, over a library of two pages, with one build; as Paged!A, the pictures with
\* a cover as well, and one command fewer; as Paged!K, the cards of one profile beside a
\* store, a local executable and Wine.
Paged == INSTANCE RunnerProfilesProofs WITH
    Threads <- {w1, w2}, Profiles <- {"profile"}, Folders <- {"folder"},
    Packages <- OneRelease, Pages <- 2,
    live <- s1, profile <- s2, inventory <- s3, grants <- s4, thread <- s5,
    made <- s6, removed <- s7, consent <- s8,
    Tasks <- {w1, w2}, Jobs <- 1..2, MaxJobs <- 1,
    table <- s1, phase <- s2, ours <- s3, flagged <- s4, worker <- s5, shown <- s6,
    task <- s7, finding <- s8, deleted <- s9,
    Commands <- {w1, w2}, Roles <- {"cover", "background"},
    files <- s1, slots <- s2, command <- s3, missed <- s4,
    Owners <- {"profile"}, Roms <- <<"r1", "r2">>, StoreGames <- {"s"}, Directs <- {"d"},
    Title <- "r1" :> "T" @@ "r2" :> "U" @@ "s" :> "U" @@ "d" :> "T",
    cards <- s1, profiles <- s2, entries <- s3, reached <- s4, holding <- s5,
    wine <- s6, gone <- s7

\* One command at a time, on two profiles of one plugin.
Shared == INSTANCE RunnerProfilesProofs WITH
    Threads <- {"thread"}, Profiles <- {w1, w2}, Folders <- {"folder"},
    Packages <- Builds, Pages <- 1,
    live <- s1, profile <- s2, inventory <- s3, grants <- s4, thread <- s5,
    made <- s6, removed <- s7, consent <- s8,
    Tasks <- {w1, w2}, Jobs <- 1..2, MaxJobs <- 1,
    table <- s1, phase <- s2, ours <- s3, flagged <- s4, worker <- s5, shown <- s6,
    task <- s7, finding <- s8, deleted <- s9,
    Commands <- {w1, w2}, Roles <- {"cover", "background"},
    files <- s1, slots <- s2, command <- s3, missed <- s4,
    Owners <- {w1, w2}, Roms <- <<"r1", "r2">>, StoreGames <- {"s"}, Directs <- {},
    Title <- "r1" :> "T" @@ "r2" :> "T" @@ "s" :> "T",
    cards <- s1, profiles <- s2, entries <- s3, reached <- s4, holding <- s5,
    wine <- s6, gone <- s7

\* As Epic!H, the pages of the stores; as Epic!D, two requests for artwork, with room on
\* disk for both files.
Epic == INSTANCE EpicInstallProofs WITH
    Games <- {"game"}, Files <- {"f1", "f2"}, Versions <- 3, JournalEvery <- 2,
    Titled <- "game" :> "title", Suffixed <- "game" :> "title-game",
    current <- s1, file <- s2, part <- s3, journal <- s4, records <- s5,
    asking <- s6, task <- s7, cancelled <- s8, remover <- s9,
    disturbed <- s10,
    Calls <- {w1, w2}, Catalogue <- {"a"}, Releases <- {"r1", "r2"}, Apps <- {"p"},
    Order <- <<"a", "r1", "r2">>, Batch <- 1, Most <- 2, Interval <- 2,
    Lifetime <- 2, MaxTime <- 4,
    cache <- s1, call <- s2, clock <- s3,
    Requests <- {w1, w2}, Media <- {"m1", "m2"}, Contents <- {"c1", "c2"},
    Size <- "c1" :> 1 @@ "c2" :> 2, Picks <- {"c1"}, Quota <- 3, Cap <- 2, Permits <- 2,
    saved <- s1, leftovers <- s2, record <- s3, imported <- s4, selected <- s5,
    request <- s6, lock <- s7, inflight <- s8, reserved <- s9

\* Two credentials of one store, one of them in a single piece; as Library!L, two
\* sign-ins at a time; as Library!M, the opening of a library of an older build; as
\* Library!Q, two installs of one title by Quiky.
Library == INSTANCE LibraryProofs WITH
    Calls <- {w1, w2}, Credentials <- {"short", "long"},
    Pieces <- "short" :> 1 @@ "long" :> 3, MaxPieces <- 3,
    items <- s1, cache <- s2, listed <- s3, filed <- s4, call <- s5, promised <- s6,
    wait <- s1, session <- s2, logins <- s3, window <- s4, closing <- s5,
    exchange <- s6, settled <- s7, slot <- s8, saved <- s9, told <- s10,
    OldId <- "path", NewId <- "digest", Media <- {"m1", "m2"}, MaxBackups <- 3,
    MaxEdits <- 2, ReadBackFails <- FALSE,
    catalog <- s1, backups <- s2, games <- s3, start <- s4, library <- s5,
    imports <- s6, choice <- s7,
    Tasks <- {w1, w2}, Chunks <- 2, Versions <- 2,
    offered <- s1, job <- s2, task <- s3, cancelled <- s4, part <- s5,
    package <- s6, destination <- s7, orphan <- s8

\* The values meet what the modules ask of their constants.
ASSUME RunnerAssumption == Runner!ValuesAssumption /\ Runner!PagesAssumption
ASSUME PagedAssumption == Paged!ValuesAssumption /\ Paged!PagesAssumption
ASSUME SharedAssumption == Shared!ValuesAssumption /\ Shared!PagesAssumption
ASSUME EpicAssumption == Epic!BuildsAssumption /\ Epic!ValuesAssumption
ASSUME LoginAssumption == Library!L!NoneAssumption
ASSUME MediaAssumption == Epic!D!SizesAssumption
ASSUME MigrationAssumption == Library!M!BackupsAssumption
ASSUME CardsAssumption == Runner!K!GamesAssumption /\ Paged!K!GamesAssumption
ASSUME ShelfAssumption == Epic!H!ShelfAssumption
ASSUME SourcesAssumption == Library!PiecesAssumption /\ Library!ValuesAssumption
ASSUME PanelAssumption == Runner!P!PanelAssumption
ASSUME QuikyAssumption == Library!Q!InstallAssumption
ASSUME ArtworkAssumption == Runner!A!RolesAssumption /\ Paged!A!RolesAssumption

------------------------------------------------------------------------------
LibraryInit ==
    \/ /\ \/ component = "runner" /\ Runner!Init
          \/ component = "paged" /\ Paged!Init
          \/ component = "shared" /\ Shared!Init
          \/ component = "quiky" /\ Library!Q!Init
       /\ s9 = None /\ s10 = None /\ s11 = None /\ s12 = None /\ s13 = None
    \/ component = "epic" /\ Epic!Init /\ s11 = None /\ s12 = None /\ s13 = None
    \/ component = "login" /\ Library!L!Init /\ s11 = None /\ s12 = None /\ s13 = None
    \/ /\ \/ component = "media" /\ Epic!D!Init
          \/ component = "panel" /\ Runner!P!Init
       /\ s10 = None /\ s11 = None /\ s12 = None /\ s13 = None
    \/ /\ \/ component = "migration" /\ Library!M!Init
          \/ component = "cards" /\ Runner!K!Init
          \/ component = "given" /\ Paged!K!Init
       /\ s8 = None /\ s9 = None /\ s10 = None /\ s11 = None /\ s12 = None /\ s13 = None
    \/ /\ \/ component = "artwork" /\ Runner!A!Init
          \/ component = "covers" /\ Paged!A!Init
       /\ s5 = None /\ s6 = None /\ s7 = None /\ s8 = None /\ s9 = None /\ s10 = None
       /\ s11 = None /\ s12 = None /\ s13 = None
    \/ /\ component = "credentials" /\ Library!Init
       /\ s7 = None /\ s8 = None /\ s9 = None /\ s10 = None
       /\ s11 = None /\ s12 = None /\ s13 = None
    \/ /\ component = "shelf" /\ Epic!H!Init
       /\ s4 = None /\ s5 = None /\ s6 = None /\ s7 = None /\ s8 = None /\ s9 = None
       /\ s10 = None /\ s11 = None /\ s12 = None /\ s13 = None

LibraryNext ==
    \/ Turn("runner") /\ Runner!Next /\ UNCHANGED Free8
    \/ Turn("paged") /\ Paged!Next /\ UNCHANGED Free8
    \/ Turn("shared") /\ Shared!Next /\ UNCHANGED Free8
    \/ Turn("quiky") /\ Library!Q!Next /\ UNCHANGED Free8
    \/ Turn("panel") /\ Runner!P!Next /\ UNCHANGED Free9
    \/ Turn("credentials") /\ Library!Next /\ UNCHANGED Free6
    \/ Turn("shelf") /\ Epic!H!Next /\ UNCHANGED Free3
    \/ Turn("epic") /\ Epic!Next /\ UNCHANGED Free10
    \/ Turn("login") /\ Library!L!Next /\ UNCHANGED Free10
    \/ Turn("media") /\ Epic!D!Next /\ UNCHANGED Free9
    \/ Turn("migration") /\ Library!M!Next /\ UNCHANGED Free7
    \/ Turn("cards") /\ Runner!K!Next /\ UNCHANGED Free7
    \/ Turn("given") /\ Paged!K!Next /\ UNCHANGED Free7
    \/ Turn("artwork") /\ Runner!A!Next /\ UNCHANGED Free4
    \/ Turn("covers") /\ Paged!A!Next /\ UNCHANGED Free4

LibrarySpec == LibraryInit /\ [][LibraryNext]_vars

\* A bound: behaviours end where a profile is deleted, of which nothing more is
\* promised.
ProfileNotRemoved == component \in {"runner", "paged", "shared"} => s7 = {}
------------------------------------------------------------------------------
(* The properties of the components, each where it speaks.                  *)

\* The state of each component has the types of its code.
LibraryTypeOK ==
    CASE component = "runner" -> Runner!TypeOK
      [] component = "paged" -> Paged!TypeOK
      [] component = "shared" -> Shared!TypeOK
      [] component = "epic" -> Epic!TypeOK
      [] component = "login" -> Library!L!TypeOK
      [] component = "media" -> Epic!D!TypeOK
      [] component = "migration" -> Library!M!TypeOK
      [] component = "cards" -> Runner!K!TypeOK
      [] component = "given" -> Paged!K!TypeOK
      [] component = "artwork" -> Runner!A!TypeOK
      [] component = "covers" -> Paged!A!TypeOK
      [] component = "shelf" -> Epic!H!TypeOK
      [] component = "quiky" -> Library!Q!TypeOK
      [] component = "credentials" -> Library!TypeOK
      [] component = "panel" -> Runner!P!TypeOK

\* runner_commands.rs: every value of a grant's scope was allowed by the user
\* to a package that covers the one it is recorded against.
GrantsFollowConsent ==
    /\ component = "runner" => Runner!GrantsFollowConsent
    /\ component = "paged" => Paged!GrantsFollowConsent
    /\ component = "shared" => Shared!GrantsFollowConsent

\* runner_host.rs: every page before the cursor of a profile is in its inventory.
\* runner-manager.ts, runner_commands.rs: an import shown as running is watched, and
\* one shown as over ended as shown.
ImportsGoOn ==
    /\ component = "paged" => Paged!ResumeSkipsNothing
    /\ component = "panel" => Runner!P!RunningIsWatched /\ Runner!P!EndIsTrue

\* runner_host.rs: an import starts with the user's word for its folder and package.
ReadsWithConsent == [][component = "runner" => Runner!ReadHasConsent]_vars

\* epic_android.rs: a game is recorded with every file of its build in place.
RecordedIsComplete == [][component = "epic" => Epic!RecordIsComplete]_vars

\* lib.rs: the callers and the events of a sign-in agree on how it ended.
\* sources.rs: a credential saved alone reads back whole, and one that was
\* disconnected leaves nothing, whatever was left in the keychain before.
SignInsHold ==
    /\ component = "login" => Library!L!OneVerdict
    /\ component = "credentials" => Library!LastCallHolds

\* game_media.rs: the directory never holds more than the quota, and every download
\* in the registry has a command to complete it.  quiky_installer.rs: what runs is
\* what was downloaded and checked, alone, and the table of jobs says so.
DownloadsHold ==
    /\ component = "media" => Epic!D!QuotaHolds /\ Epic!D!EntriesHaveLeader
    /\ component = "quiky" =>
        Library!Q!OnlyVerifiedRuns /\ Library!Q!OneInstaller /\ Library!Q!JobIsTrue

\* catalog.rs: every way a card offers has the record a launch reads.
EveryWayHasEntry ==
    /\ component = "cards" => Runner!K!EveryWayHasEntry
    /\ component = "given" => Paged!K!EveryWayHasEntry

\* runner_host.rs: a page of an import leaves one card for each of its games.
ImportFilesEachGame ==
    [][/\ component = "cards" => Runner!K!PageIsFiled
       /\ component = "given" => Paged!K!PageIsFiled]_vars

\* catalog.rs, game_detail.rs: a library that opens shows all that was imported and
\* selected, and no failed start takes back what an older build added.
NothingOrphaned ==
    component = "migration" => Library!M!NothingOrphaned /\ Library!M!LibraryIsKept

\* artwork_backfill.rs: the top-up takes no picture away, picked or published.
\* store.rs: a refresh of the shelf takes away no answer of IGDB, nor, where Steam
\* failed, live games.
NothingTakenAway ==
    [][/\ component = "artwork" => Runner!A!TopUpFillsGaps
       /\ component = "covers" => Paged!A!TopUpFillsGaps
       /\ component = "shelf" => Epic!H!NothingForgotten]_vars
===============================================================================
