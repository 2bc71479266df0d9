---------------------------- MODULE ComposedProofs ----------------------------
(****************************************************************************)
(* What the theorems of the components say of the two runs that compose     *)
(* them, MCLibrary and MCPlugins.  A behaviour of a run is one of a single  *)
(* component from its start, with the values the run gives its constants:   *)
(* the lemmas LibraryRuns and PluginsRuns say so, and the theorems take     *)
(* what is proved of a component, for any values, over to the property the  *)
(* run checks.                                                              *)
(****************************************************************************)
EXTENDS MCLibrary, MCPlugins, TLAPS

------------------------------------------------------------------------------
(* MCLibrary *)

LEMMA LibraryRuns ==
    LibrarySpec =>
        /\ \/ [](component = "runner") /\ Runner!Spec
           \/ []~(component = "runner")
        /\ \/ [](component = "paged") /\ Paged!Spec
           \/ []~(component = "paged")
        /\ \/ [](component = "shared") /\ Shared!Spec
           \/ []~(component = "shared")
        /\ \/ [](component = "panel") /\ Runner!P!Spec
           \/ []~(component = "panel")
        /\ \/ [](component = "epic") /\ Epic!Spec
           \/ []~(component = "epic")
        /\ \/ [](component = "login") /\ Library!L!Spec
           \/ []~(component = "login")
        /\ \/ [](component = "credentials") /\ Library!Spec
           \/ []~(component = "credentials")
        /\ \/ [](component = "migration") /\ Library!M!Spec
           \/ []~(component = "migration")
        /\ \/ [](component = "artwork") /\ Runner!A!Spec
           \/ []~(component = "artwork")
        /\ \/ [](component = "covers") /\ Paged!A!Spec
           \/ []~(component = "covers")
        /\ \/ [](component = "shelf") /\ Epic!H!Spec
           \/ []~(component = "shelf")
<1>1. LibraryInit =>
        /\ component = "runner" => Runner!Init
        /\ component = "paged" => Paged!Init
        /\ component = "shared" => Shared!Init
        /\ component = "panel" => Runner!P!Init
        /\ component = "epic" => Epic!Init
        /\ component = "login" => Library!L!Init
        /\ component = "credentials" => Library!Init
        /\ component = "migration" => Library!M!Init
        /\ component = "artwork" => Runner!A!Init
        /\ component = "covers" => Paged!A!Init
        /\ component = "shelf" => Epic!H!Init
    BY DEF LibraryInit
<1>2. [LibraryNext]_vars =>
        /\ component' = component
        /\ component = "runner" => [Runner!Next]_(Runner!vars)
        /\ component = "paged" => [Paged!Next]_(Paged!vars)
        /\ component = "shared" => [Shared!Next]_(Shared!vars)
        /\ component = "panel" => [Runner!P!Next]_(Runner!P!vars)
        /\ component = "epic" => [Epic!Next]_(Epic!vars)
        /\ component = "login" => [Library!L!Next]_(Library!L!vars)
        /\ component = "credentials" => [Library!Next]_(Library!vars)
        /\ component = "migration" => [Library!M!Next]_(Library!M!vars)
        /\ component = "artwork" => [Runner!A!Next]_(Runner!A!vars)
        /\ component = "covers" => [Paged!A!Next]_(Paged!A!vars)
        /\ component = "shelf" => [Epic!H!Next]_(Epic!H!vars)
    BY DEF LibraryNext, Turn, vars, Runner!vars, Paged!vars, Shared!vars, Runner!P!vars,
           Epic!vars, Library!L!vars, Library!vars, Library!M!vars, Runner!A!vars, Paged!A!vars,
           Epic!H!vars
<1>3. component' = component =>
        /\ (component = "runner")' <=> component = "runner"
        /\ (component = "paged")' <=> component = "paged"
        /\ (component = "shared")' <=> component = "shared"
        /\ (component = "panel")' <=> component = "panel"
        /\ (component = "epic")' <=> component = "epic"
        /\ (component = "login")' <=> component = "login"
        /\ (component = "credentials")' <=> component = "credentials"
        /\ (component = "migration")' <=> component = "migration"
        /\ (component = "artwork")' <=> component = "artwork"
        /\ (component = "covers")' <=> component = "covers"
        /\ (component = "shelf")' <=> component = "shelf"
    OBVIOUS
<1> QED
    BY <1>1, <1>2, <1>3, PTL
       DEF LibrarySpec, Runner!Spec, Paged!Spec, Shared!Spec, Runner!P!Spec, Epic!Spec,
           Library!L!Spec, Library!Spec, Library!M!Spec, Runner!A!Spec, Paged!A!Spec,
           Epic!H!Spec

\* The same of what a download is written for.
LEMMA DownloadsRun ==
    LibrarySpec =>
        /\ \/ [](component = "media") /\ Epic!D!Spec
           \/ []~(component = "media")
        /\ \/ [](component = "quiky") /\ Library!Q!Spec
           \/ []~(component = "quiky")
<1>1. LibraryInit =>
        /\ component = "media" => Epic!D!Init
        /\ component = "quiky" => Library!Q!Init
    BY DEF LibraryInit
<1>2. [LibraryNext]_vars =>
        /\ component' = component
        /\ component = "media" => [Epic!D!Next]_(Epic!D!vars)
        /\ component = "quiky" => [Library!Q!Next]_(Library!Q!vars)
    BY DEF LibraryNext, Turn, vars, Epic!D!vars, Epic!D!state, Epic!D!registry, Library!Q!vars
<1>3. component' = component =>
        /\ (component = "media")' <=> component = "media"
        /\ (component = "quiky")' <=> component = "quiky"
    OBVIOUS
<1> QED
    BY <1>1, <1>2, <1>3, PTL DEF LibrarySpec, Epic!D!Spec, Library!Q!Spec

\* The same of the cards of the library.
LEMMA CardsRun ==
    LibrarySpec =>
        /\ \/ [](component = "cards") /\ Runner!K!Spec
           \/ []~(component = "cards")
        /\ \/ [](component = "given") /\ Paged!K!Spec
           \/ []~(component = "given")
<1>1. LibraryInit =>
        /\ component = "cards" => Runner!K!Init
        /\ component = "given" => Paged!K!Init
    BY DEF LibraryInit
<1>2. [LibraryNext]_vars =>
        /\ component' = component
        /\ component = "cards" => [Runner!K!Next]_(Runner!K!vars)
        /\ component = "given" => [Paged!K!Next]_(Paged!K!vars)
    BY DEF LibraryNext, Turn, vars, Runner!K!vars, Paged!K!vars
<1>3. component' = component =>
        /\ (component = "cards")' <=> component = "cards"
        /\ (component = "given")' <=> component = "given"
    OBVIOUS
<1> QED
    BY <1>1, <1>2, <1>3, PTL DEF LibrarySpec, Runner!K!Spec, Paged!K!Spec

\* runner_commands.rs: every value of a grant's scope was allowed by the user
\* to a package that covers the one it is recorded against.
THEOREM GrantsAreGiven == LibrarySpec => []GrantsFollowConsent
<1>1. /\ Runner!Spec => []Runner!GrantsFollowConsent
      /\ Paged!Spec => []Paged!GrantsFollowConsent
      /\ Shared!Spec => []Shared!GrantsFollowConsent
    BY RunnerAssumption, Runner!GrantsAreGiven, PagedAssumption, Paged!GrantsAreGiven,
       SharedAssumption, Shared!GrantsAreGiven
<1> QED
    BY <1>1, LibraryRuns, PTL DEF GrantsFollowConsent

\* runner_host.rs: every page before the cursor of a profile is in its inventory.
\* runner-manager.ts, runner_commands.rs: an import shown as running is watched, and
\* one shown as over ended as shown.
THEOREM ImportsStand == LibrarySpec => []ImportsGoOn
<1>1. /\ Paged!Spec => []Paged!ResumeSkipsNothing
      /\ Runner!P!Spec => [](Runner!P!RunningIsWatched /\ Runner!P!EndIsTrue)
    BY PagedAssumption, Paged!ImportsResume, PanelAssumption, Runner!ImportsAreWatched
<1> QED
    BY <1>1, LibraryRuns, PTL DEF ImportsGoOn

\* runner_host.rs: an import starts with the user's word for its folder and package.
THEOREM ReadsAreAllowed == LibrarySpec => ReadsWithConsent
<1>1. Runner!Spec => [][Runner!ReadHasConsent]_(Runner!vars)
    BY RunnerAssumption, Runner!ReadsAreAllowed DEF Runner!ReadsWithConsent
<1>2. /\ [LibraryNext]_vars
      /\ component = "runner" => [Runner!ReadHasConsent]_(Runner!vars)
      => [component = "runner" => Runner!ReadHasConsent]_vars
    BY DEF LibraryNext, Turn, Free8, vars, Runner!vars
<1> QED
    BY <1>1, <1>2, LibraryRuns, PTL DEF LibrarySpec, ReadsWithConsent

\* lib.rs: the callers and the events of a sign-in agree on how it ended.
\* sources.rs: a credential saved alone reads back whole, and one that was
\* disconnected leaves nothing, whatever was left in the keychain before.
THEOREM SignInsStand == LibrarySpec => []SignInsHold
<1>1. /\ Library!L!Spec => []Library!L!OneVerdict
      /\ Library!Spec => []Library!LastCallHolds
    BY LoginAssumption, Library!OneVerdictEach, SourcesAssumption, Library!LastCallStands
<1> QED
    BY <1>1, LibraryRuns, PTL DEF SignInsHold

\* epic_android.rs: a game is recorded with every file of its build in place.
THEOREM RecordsAreComplete == LibrarySpec => RecordedIsComplete
<1>1. Epic!Spec => [][Epic!RecordIsComplete]_(Epic!vars)
    BY EpicAssumption, Epic!RecordsAreComplete DEF Epic!RecordedIsComplete
<1>2. /\ [LibraryNext]_vars
      /\ component = "epic" => [Epic!RecordIsComplete]_(Epic!vars)
      => [component = "epic" => Epic!RecordIsComplete]_vars
    BY DEF LibraryNext, Turn, Free10, vars, Epic!vars
<1> QED
    BY <1>1, <1>2, LibraryRuns, PTL DEF LibrarySpec, RecordedIsComplete

\* game_media.rs: the directory never holds more than the quota, and every download
\* in the registry has a command to complete it.  quiky_installer.rs: what runs is
\* what was downloaded and checked, alone, and the table of jobs says so.
THEOREM DownloadsStand == LibrarySpec => []DownloadsHold
<1>1. /\ Epic!D!Spec => []Epic!D!QuotaHolds
      /\ Epic!D!Spec => []Epic!D!EntriesHaveLeader
      /\ Library!Q!Spec =>
            [](Library!Q!OnlyVerifiedRuns /\ Library!Q!OneInstaller /\ Library!Q!JobIsTrue)
    BY MediaAssumption, Epic!QuotaIsHeld, Epic!DownloadsAreLed, QuikyAssumption,
       Library!InstallsStand
<1> QED
    BY <1>1, DownloadsRun, PTL DEF DownloadsHold

\* catalog.rs, game_detail.rs: a library that opens shows all that was imported and
\* selected, and no failed start takes back what an older build added.
THEOREM NothingIsLost == LibrarySpec => []NothingOrphaned
<1>1. Library!M!Spec => [](Library!M!NothingOrphaned /\ Library!M!LibraryIsKept)
    BY MigrationAssumption, Library!NothingIsLost
<1> QED
    BY <1>1, LibraryRuns, PTL DEF NothingOrphaned

\* catalog.rs: every way a card offers has the record a launch reads.
THEOREM WaysStand == LibrarySpec => []EveryWayHasEntry
<1>1. /\ Runner!K!Spec => [](Runner!K!TypeOK /\ Runner!K!EveryWayHasEntry)
      /\ Paged!K!Spec => [](Paged!K!TypeOK /\ Paged!K!EveryWayHasEntry)
    BY CardsAssumption, Runner!WaysAreRecorded, Paged!WaysAreRecorded
<1> QED
    BY <1>1, CardsRun, PTL DEF EveryWayHasEntry

\* runner_host.rs: a page of an import leaves one card for each of its games.
THEOREM PagesStand == LibrarySpec => ImportFilesEachGame
<1>1. /\ Runner!K!Spec => [][Runner!K!PageIsFiled]_(Runner!K!vars)
      /\ Paged!K!Spec => [][Paged!K!PageIsFiled]_(Paged!K!vars)
    BY CardsAssumption, Runner!PagesAreFiled, Paged!PagesAreFiled
       DEF Runner!K!ImportFilesEachGame, Paged!K!ImportFilesEachGame
<1>2. /\ [LibraryNext]_vars
      /\ component = "cards" => [Runner!K!PageIsFiled]_(Runner!K!vars)
      /\ component = "given" => [Paged!K!PageIsFiled]_(Paged!K!vars)
      => [/\ component = "cards" => Runner!K!PageIsFiled
          /\ component = "given" => Paged!K!PageIsFiled]_vars
    BY DEF LibraryNext, Turn, vars, Free7, Runner!K!vars, Paged!K!vars
<1> QED
    BY <1>1, <1>2, CardsRun, PTL DEF LibrarySpec, ImportFilesEachGame

\* artwork_backfill.rs: the top-up takes no picture away, picked or published.
\* store.rs: a refresh of the shelf takes away no answer of IGDB, nor, where Steam
\* failed, live games.
THEOREM NothingIsTaken == LibrarySpec => NothingTakenAway
<1>1. Runner!A!Spec => [][Runner!A!TopUpFillsGaps]_(Runner!A!vars)
    BY ArtworkAssumption, Runner!GapsAreFilled
<1>2. Paged!A!Spec => [][Paged!A!TopUpFillsGaps]_(Paged!A!vars)
    BY ArtworkAssumption, Paged!GapsAreFilled
<1>3. Epic!H!Spec => [][Epic!H!NothingForgotten]_(Epic!H!vars)
    BY ShelfAssumption, Epic!AnswersAreKept
<1>4. /\ [LibraryNext]_vars
      /\ component = "artwork" => [Runner!A!TopUpFillsGaps]_(Runner!A!vars)
      /\ component = "covers" => [Paged!A!TopUpFillsGaps]_(Paged!A!vars)
      /\ component = "shelf" => [Epic!H!NothingForgotten]_(Epic!H!vars)
      => [/\ component = "artwork" => Runner!A!TopUpFillsGaps
          /\ component = "covers" => Paged!A!TopUpFillsGaps
          /\ component = "shelf" => Epic!H!NothingForgotten]_vars
    BY DEF LibraryNext, Turn, vars, Free4, Runner!A!vars, Paged!A!vars, Free3, Epic!H!vars
<1> QED
    BY <1>1, <1>2, <1>3, <1>4, LibraryRuns, PTL DEF LibrarySpec, NothingTakenAway

------------------------------------------------------------------------------
(* MCPlugins *)

LEMMA PluginsRuns ==
    PluginsSpec =>
        /\ \/ [](component = "index") /\ Console!X!Spec
           \/ []~(component = "index")
        /\ \/ [](component = "failing") /\ Failing!Spec
           \/ []~(component = "failing")
        /\ \/ [](component = "replay") /\ Replay!Spec
           \/ []~(component = "replay")
        /\ \/ [](component = "wine") /\ Paired!S!Spec
           \/ []~(component = "wine")
        /\ \/ [](component = "winlator") /\ Console!W!Spec
           \/ []~(component = "winlator")
        /\ \/ [](component = "started") /\ Started!W!Spec
           \/ []~(component = "started")
        /\ \/ [](component = "console") /\ Console!Spec
           \/ []~(component = "console")
        /\ \/ [](component = "consoles") /\ Consoles!Spec
           \/ []~(component = "consoles")
        /\ \/ [](component = "imports") /\ Imports!Spec
           \/ []~(component = "imports")
        /\ \/ [](component = "paired") /\ Paired!Spec
           \/ []~(component = "paired")
        /\ \/ [](component = "handed") /\ Handed!Spec
           \/ []~(component = "handed")
<1>1. PluginsInit =>
        /\ component = "index" => Console!X!Init
        /\ component = "failing" => Failing!Init
        /\ component = "replay" => Replay!Init
        /\ component = "wine" => Paired!S!Init
        /\ component = "winlator" => Console!W!Init
        /\ component = "started" => Started!W!Init
        /\ component = "console" => Console!Init
        /\ component = "consoles" => Consoles!Init
        /\ component = "imports" => Imports!Init
        /\ component = "paired" => Paired!Init
        /\ component = "handed" => Handed!Init
    BY DEF PluginsInit
<1>2. [PluginsNext]_vars =>
        /\ component' = component
        /\ component = "index" => [Console!X!Next]_(Console!X!vars)
        /\ component = "failing" => [Failing!Next]_(Failing!vars)
        /\ component = "replay" => [Replay!Next]_(Replay!vars)
        /\ component = "wine" => [Paired!S!Next]_(Paired!S!vars)
        /\ component = "winlator" => [Console!W!Next]_(Console!W!vars)
        /\ component = "started" => [Started!W!Next]_(Started!W!vars)
        /\ component = "console" => [Console!Next]_(Console!vars)
        /\ component = "consoles" => [Consoles!Next]_(Consoles!vars)
        /\ component = "imports" => [Imports!Next]_(Imports!vars)
        /\ component = "paired" => [Paired!Next]_(Paired!vars)
        /\ component = "handed" => [Handed!Next]_(Handed!vars)
    BY DEF PluginsNext, Turn, vars, Console!X!vars, Console!X!files, Failing!vars, Replay!vars,
           Paired!S!vars, Console!W!vars, Console!W!profile, Console!W!adoption, Started!W!vars,
           Started!W!profile, Started!W!adoption, Console!vars, Console!files, Console!profiles,
           Consoles!vars, Consoles!files, Consoles!profiles, Imports!vars, Imports!catalog,
           Imports!scans, Imports!over, Paired!vars, Paired!catalog, Paired!scans, Paired!over,
           Handed!vars, Handed!catalog, Handed!scans, Handed!over
<1>3. component' = component =>
        /\ (component = "index")' <=> component = "index"
        /\ (component = "failing")' <=> component = "failing"
        /\ (component = "replay")' <=> component = "replay"
        /\ (component = "wine")' <=> component = "wine"
        /\ (component = "winlator")' <=> component = "winlator"
        /\ (component = "started")' <=> component = "started"
        /\ (component = "console")' <=> component = "console"
        /\ (component = "consoles")' <=> component = "consoles"
        /\ (component = "imports")' <=> component = "imports"
        /\ (component = "paired")' <=> component = "paired"
        /\ (component = "handed")' <=> component = "handed"
    OBVIOUS
<1> QED
    BY <1>1, <1>2, <1>3, PTL
       DEF PluginsSpec, Console!X!Spec, Failing!Spec, Replay!Spec, Paired!S!Spec,
           Console!W!Spec, Started!W!Spec, Console!Spec, Consoles!Spec, Imports!Spec,
           Paired!Spec, Handed!Spec

\* The same of what bounds a plugin.
LEMMA LimitsRun ==
    PluginsSpec =>
        /\ \/ [](component = "host") /\ Limits!H!Spec
           \/ []~(component = "host")
        /\ \/ [](component = "compiled") /\ Limits!C!Spec
           \/ []~(component = "compiled")
        /\ \/ [](component = "refusals") /\ Limits!J!Spec
           \/ []~(component = "refusals")
<1>1. PluginsInit =>
        /\ component = "host" => Limits!H!Init
        /\ component = "compiled" => Limits!C!Init
        /\ component = "refusals" => Limits!J!Init
    BY DEF PluginsInit
<1>2. [PluginsNext]_vars =>
        /\ component' = component
        /\ component = "host" => [Limits!H!Next]_(Limits!H!vars)
        /\ component = "compiled" => [Limits!C!Next]_(Limits!C!vars)
        /\ component = "refusals" => [Limits!J!Next]_(Limits!J!vars)
    BY DEF PluginsNext, Turn, vars, Limits!H!vars, Limits!H!calls, Limits!H!epoch,
           Limits!H!memory, Limits!C!vars, Limits!J!vars
<1>3. component' = component =>
        /\ (component = "host")' <=> component = "host"
        /\ (component = "compiled")' <=> component = "compiled"
        /\ (component = "refusals")' <=> component = "refusals"
    OBVIOUS
<1> QED
    BY <1>1, <1>2, <1>3, PTL DEF PluginsSpec, Limits!H!Spec, Limits!C!Spec, Limits!J!Spec

\* plugin_index.rs: a refresh that runs alone never falls back.
THEOREM IndexGoesForward == PluginsSpec => LoneRefreshNeverFallsBack
<1>1. Console!X!Spec => [][Console!X!NoFallBack]_(Console!X!vars)
    BY IndexAssumption, Console!IndexGoesForward DEF Console!X!LoneRefreshNeverFallsBack
<1>2. /\ [PluginsNext]_vars
      /\ component = "index" => [Console!X!NoFallBack]_(Console!X!vars)
      => [component = "index" => Console!X!NoFallBack]_vars
    BY DEF PluginsNext, Turn, Free9, vars, Console!X!vars, Console!X!files
<1> QED
    BY <1>1, <1>2, PluginsRuns, PTL DEF PluginsSpec, LoneRefreshNeverFallsBack

\* plugin_runtime.rs, plugin_compile_cache.rs: the memory budget is what the live
\* stores charged, below its ceiling; once the stores of artifacts are over theirs
\* holds; and a plugin keeps its own refusals up to its share of the ring.
THEOREM CeilingsAreHeld == PluginsSpec => []CeilingsHold
<1>1. /\ Limits!H!Spec => []Limits!H!CommittedIsCharged
      /\ Limits!C!Spec => []Limits!C!CeilingHolds
      /\ Limits!J!Spec => []Limits!J!KeepsItsShare
    BY BoundsAssumption, Limits!BudgetIsExact, Limits!CeilingIsHeld, Limits!ShareIsKept
<1> QED
    BY <1>1, LimitsRun, PTL DEF CeilingsHold

\* plugin_update.rs: whatever calls fail, only a removal uninstalls.
THEOREM RemovalAlone == PluginsSpec => OnlyRemovalUninstalls
<1>1. Failing!Spec => [][Failing!UninstallsByRemoval]_(Failing!vars)
    <2>1. FaultsSettled \cap Failing!SwapReliedOn = {}
        BY DEF FaultsSettled, Failing!SwapReliedOn, Failing!ReliedOn
    <2> QED
        BY <2>1, StoreAssumption, Failing!RemovalAlone DEF Failing!OnlyRemovalUninstalls
<1>2. /\ [PluginsNext]_vars
      /\ component = "failing" => [Failing!UninstallsByRemoval]_(Failing!vars)
      => [component = "failing" => Failing!UninstallsByRemoval]_vars
    BY DEF PluginsNext, Turn, vars, Failing!vars
<1> QED
    BY <1>1, <1>2, PluginsRuns, PTL DEF PluginsSpec, OnlyRemovalUninstalls

\* plugin_update.rs: whatever calls fail, undoing restores the version there was,
\* and replaying a journal that stayed takes no proved live tree away.
THEOREM UndoKeeps == PluginsSpec => UndoKeepsInstalled
<1>1. Failing!Spec => [][Failing!UndoRestores]_(Failing!vars)
    <2>1. FaultsSettled \cap Failing!SwapReliedOn = {}
        BY DEF FaultsSettled, Failing!SwapReliedOn, Failing!ReliedOn
    <2> QED
        BY <2>1, StoreAssumption, Failing!UndoSafety DEF Failing!UndoKeepsInstalled
<1>2. Replay!Spec => [][Replay!LiveIsKept]_(Replay!vars)
    <2>1. FaultsReplayed \cap Replay!ReplayReliedOn = {}
        BY DEF FaultsReplayed, Replay!ReplayReliedOn
    <2> QED
        BY <2>1, StoreAssumption, Replay!ReplaySafety DEF Replay!ReplayKeepsLive
<1>3. /\ [PluginsNext]_vars
      /\ component = "failing" => [Failing!UndoRestores]_(Failing!vars)
      /\ component = "replay" => [Replay!LiveIsKept]_(Replay!vars)
      => [/\ component = "failing" => Failing!UndoRestores
          /\ component = "replay" => Replay!LiveIsKept]_vars
    BY DEF PluginsNext, Turn, vars, Failing!vars, Replay!vars
<1> QED
    BY <1>1, <1>2, <1>3, PluginsRuns, PTL DEF PluginsSpec, UndoKeepsInstalled

\* lib.rs: a setup that reads as ready has a binary to confirm or chosen.
THEOREM ReadyIsConfirmable == PluginsSpec => []ReadyHasTarget
<1>1. Paired!S!Spec => []Paired!S!ReadyHasTarget
    BY WineAssumption, Paired!ReadyIsConfirmable
<1> QED
    BY <1>1, PluginsRuns, PTL DEF ReadyHasTarget

\* lib.rs: a binary picked by hand is replaced by another pick only.
THEOREM PicksStand == PluginsSpec => ManualChoiceStands
<1>1. Paired!S!Spec => [][Paired!S!PickStands]_(Paired!S!vars)
    BY WineAssumption, Paired!PicksStand DEF Paired!S!ManualChoiceStands
<1>2. /\ [PluginsNext]_vars
      /\ component = "wine" => [Paired!S!PickStands]_(Paired!S!vars)
      => [component = "wine" => Paired!S!PickStands]_vars
    BY DEF PluginsNext, Turn, Free5, vars, Paired!S!vars
<1> QED
    BY <1>1, <1>2, PluginsRuns, PTL DEF PluginsSpec, ManualChoiceStands

\* lib.rs, console_commands.rs: what is imported is what was picked from a list, in
\* that version, and stands on an entry inside the folder of its profile; a Direct
\* game stands behind one card of Wine.
THEOREM ReviewsAreHeld == PluginsSpec => []ReviewHolds
<1>1. /\ Console!W!Spec => [](Console!W!TypeOK /\ Console!W!ImportedWasPicked
                                /\ Console!W!CardsInsideGrant)
      /\ Started!W!Spec => [](Started!W!TypeOK /\ Started!W!ImportedWasPicked
                                /\ Started!W!CardsInsideGrant)
      /\ Console!Spec => []Console!ImportedWasPicked
      /\ Console!Spec => []Console!CardsInsideGrant
      /\ Consoles!Spec => []Consoles!ImportedWasPicked
      /\ Consoles!Spec => []Consoles!CardsInsideGrant
      /\ Imports!Spec => []Imports!LinksHold
      /\ Paired!Spec => []Paired!LinksHold
      /\ Handed!Spec => []Handed!LinksHold
    BY ReviewAssumption, Console!ShortcutsWerePicked, Started!ShortcutsWerePicked,
       Console!ImportsWerePicked, Console!CardsAreInside, Consoles!ImportsWerePicked,
       Consoles!CardsAreInside, ImportsAssumption, Imports!LinksAreSingle,
       Paired!LinksAreSingle, Handed!LinksAreSingle
<1> QED
    BY <1>1, PluginsRuns, PTL DEF ReviewHolds

\* lib.rs: an import is let through only while its list stands, its profile stays as
\* it was compared until the games are in the library, and a profile the user disabled
\* is given nothing.
THEOREM ImportsObey == PluginsSpec => ImportsFollowUser
<1>1. Imports!Spec => /\ [][Imports!LiveListsOnly]_(Imports!vars)
                      /\ [][Imports!EnabledOnly]_(Imports!vars)
    BY ImportsAssumption, Imports!ListsAreLive, Imports!GivenWhenEnabled
<1>2. Paired!Spec => /\ [][Paired!LiveListsOnly]_(Paired!vars)
                     /\ [][Paired!EnabledOnly]_(Paired!vars)
    BY ImportsAssumption, Paired!ListsAreLive, Paired!GivenWhenEnabled
<1>3. Handed!Spec => /\ [][Handed!LiveListsOnly]_(Handed!vars)
                     /\ [][Handed!EnabledOnly]_(Handed!vars)
    BY ImportsAssumption, Handed!ListsAreLive, Handed!GivenWhenEnabled
<1>4. /\ [PluginsNext]_vars
      /\ component = "imports" => /\ [Imports!LiveListsOnly]_(Imports!vars)
                                  /\ [Imports!EnabledOnly]_(Imports!vars)
      /\ component = "paired" => /\ [Paired!LiveListsOnly]_(Paired!vars)
                                 /\ [Paired!EnabledOnly]_(Paired!vars)
      /\ component = "handed" => /\ [Handed!LiveListsOnly]_(Handed!vars)
                                 /\ [Handed!EnabledOnly]_(Handed!vars)
      => [/\ component = "imports" => Imports!LiveListsOnly /\ Imports!EnabledOnly
          /\ component = "paired" => Paired!LiveListsOnly /\ Paired!EnabledOnly
          /\ component = "handed" => Handed!LiveListsOnly /\ Handed!EnabledOnly]_vars
    BY DEF PluginsNext, Turn, vars, Imports!vars, Imports!catalog, Imports!scans,
           Imports!over, Paired!vars, Paired!catalog, Paired!scans, Paired!over, Handed!vars,
           Handed!catalog, Handed!scans, Handed!over
<1> QED
    BY <1>1, <1>2, <1>3, <1>4, PluginsRuns, PTL DEF PluginsSpec, ImportsFollowUser
===============================================================================
