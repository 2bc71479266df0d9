------------------------------ MODULE MCPlugins ------------------------------
(****************************************************************************)
(* The components around a plugin, its store under failing calls, and the   *)
(* runners of the host itself, checked in one run of TLC.  `component` says *)
(* which one a behaviour is of, and never changes.  They share the slots    *)
(* s1, s2...: the INSTANCE of a component says which of its variables is in *)
(* which, and the rest hold None.                                           *)
(****************************************************************************)
EXTENDS MCComponents

CONSTANT Torn

\* The calls that may fail while every operation still settles.
FaultsSettled ==
    {"stage", "preflight", "journal", "archive", "mark", "promote", "trust_install", "commit",
     "discard_live", "clear_smoke", "drop_staged", "drop_discard", "unmark", "trust_displaced",
     "trust_rollback", "trust_settle", "trust_first", "untrust", "remove", "remove_trust",
     "remove_versions", "sweep_staged", "sweep_discard", "scrap_staged", "scrap_previous",
     "clear_discard", "forget", "abandon", "abandon_smoke", "return_discard",
     "promote_previous"}

\* The failing calls that leave a journal behind, to be replayed.
FaultsReplayed == {"clear_journal", "restore", "return_discard"}

\* What bounds a plugin: its memory and time (H), its refusals (J), the artifacts
\* kept for it (C).  No behaviour here is one of the queue in front of them.
Limits == INSTANCE PluginSchedulerProofs WITH
    Workers <- {w1, w2}, Ticks <- 1, Instance <- 2, Total <- 3,
    calling <- s1, due <- s2, ticks <- s3, cancelled <- s4, leases <- s5,
    stop <- s6, ticker <- s7, runtime <- s8, committed <- s9, charged <- s10,
    read <- s11,
    Plugins <- {"quiet", "loud"}, Refusals <- 1..4, MaxEntries <- 5,
    ring <- s1, recorded <- s2,
    Sources <- {"c1", "c2"}, Engines <- {"e1", "e2"}, Ceiling <- 1,
    engine <- s1, artifacts <- s2, leftovers <- s3, prepare <- s4, unswept <- s5,
    Jobs <- {}, MaxConcurrency <- 1, QueueDepth <- 1, MaxFailures <- 1, MaxRetained <- 1,
    Reports <- {}, queue <- s1, health <- s2, jobs <- s3, retired <- s4, inFlight <- s5,
    told <- s6, running <- s7, stopping <- s8, owner <- s9, channel <- s10, caller <- s11,
    at <- s12, task <- s13, report <- s1, closing <- s2

Failing == INSTANCE PluginStoreProofs WITH
    Packages <- OneRelease, FaultSites <- FaultsSettled,
    Signers <- {keyA}, Components <- {oldCode},
    live <- s1, previous <- s2, staged <- s3, discard <- s4, kept <- s5,
    journal <- s6, smoke <- s7, trust <- s8, pc <- s9, then <- s10,
    op <- s11, rec <- s12, boot <- s13

Replay == INSTANCE PluginStoreProofs WITH
    Packages <- OneRelease, FaultSites <- FaultsReplayed,
    Signers <- {keyA}, Components <- {oldCode},
    live <- s1, previous <- s2, staged <- s3, discard <- s4, kept <- s5,
    journal <- s6, smoke <- s7, trust <- s8, pc <- s9, then <- s10,
    op <- s11, rec <- s12, boot <- s13

\* Reviews of two folders, of one emulator's and (W) of Winlator's: two reviews and
\* imports at once; and (X) the index of plugins...
Console == INSTANCE ReviewProofs WITH
    Emulators <- {"emulator"}, Paths <- {<<"fa", "name">>, <<"fb", "name">>},
    Names <- {"name"}, Settled <- TRUE,
    Versions <- {"v1", "v2"}, Threads <- {w1, w2}, MaxTokens <- 2, MaxEdits <- 1,
    disk <- s1, edits <- s2, inventory <- s3, cards <- s4, preview <- s5, tokens <- s6,
    thread <- s7, shown <- s8, agreed <- s9,
    grants <- s10, folder <- s11, scanning <- s12,
    granted <- s10, inFlight <- s11, cancelled <- s12, pass <- s13,
    Refreshes <- {w1, w2}, Minimum <- 1, Latest <- 2,
    published <- s1, expired <- s2, inodes <- s3, cache <- s4,
    temporary <- s5, ttl <- s6, flag <- s7, refresh <- s8, overlapped <- s9

\* ...one beside the pass of the start...
Started == INSTANCE ReviewProofs WITH
    Emulators <- {"emulator"}, Paths <- {<<"fa", "name">>, <<"fb", "name">>},
    Names <- {"name"}, Settled <- FALSE,
    Versions <- {"v1", "v2"}, Threads <- {"thread"}, MaxTokens <- 2, MaxEdits <- 1,
    disk <- s1, edits <- s2, inventory <- s3, cards <- s4, preview <- s5, tokens <- s6,
    thread <- s7, shown <- s8, agreed <- s9,
    grants <- s10, folder <- s11, scanning <- s12,
    granted <- s10, inFlight <- s11, cancelled <- s12, pass <- s13,
    Refreshes <- {w1, w2}, Minimum <- 1, Latest <- 2,
    published <- s1, expired <- s2, inodes <- s3, cache <- s4,
    temporary <- s5, ttl <- s6, flag <- s7, refresh <- s8, overlapped <- s9

\* ...and two emulators that share one folder.
Consoles == INSTANCE ReviewProofs WITH
    Emulators <- {"ea", "eb"}, Paths <- {<<"fa", "name">>},
    Names <- {"name"}, Settled <- TRUE,
    Versions <- {"v1", "v2"}, Threads <- {w1, w2}, MaxTokens <- 2, MaxEdits <- 1,
    disk <- s1, edits <- s2, inventory <- s3, cards <- s4, preview <- s5, tokens <- s6,
    thread <- s7, shown <- s8, agreed <- s9,
    grants <- s10, folder <- s11, scanning <- s12,
    granted <- s10, inFlight <- s11, cancelled <- s12, pass <- s13,
    Refreshes <- {w1, w2}, Minimum <- 1, Latest <- 2,
    published <- s1, expired <- s2, inodes <- s3, cache <- s4,
    temporary <- s5, ttl <- s6, flag <- s7, refresh <- s8, overlapped <- s9

\* The imports of Wine profiles and (S) their setups.  Two scans, of any of two
\* profiles, and one command beside the pass...
Imports == INSTANCE WineProofs WITH
    Mine <- {"mine"}, Managed <- "managed", Games <- {"game"}, Jobs <- {"j1", "j2"},
    MaxJobs <- 1, Commands <- {"command"}, MaxStamp <- 2,
    Setups <- {"s1", "s2"}, MaxSetups <- 1, Found <- "found", Picks <- {"picked"},
    directs <- s1, profile <- s2, used <- s3, inventory <- s4, stamp <- s5, job <- s6,
    live <- s7, main <- s8, command <- s9, backlog <- s10, stopped <- s11,
    void <- s12,
    setups <- s1, detection <- s2, halted <- s3, worker <- s4, asked <- s5

\* ...one scan, and two commands, as on two setups...
Paired == INSTANCE WineProofs WITH
    Mine <- {"mine"}, Managed <- "managed", Games <- {"game"}, Jobs <- {"j1"},
    MaxJobs <- 1, Commands <- {w1, w2}, MaxStamp <- 2,
    Setups <- {"s1", "s2"}, MaxSetups <- 1, Found <- "found", Picks <- {"picked"},
    directs <- s1, profile <- s2, used <- s3, inventory <- s4, stamp <- s5, job <- s6,
    live <- s7, main <- s8, command <- s9, backlog <- s10, stopped <- s11,
    void <- s12,
    setups <- s1, detection <- s2, halted <- s3, worker <- s4, asked <- s5

\* ...and two games, so that the managed profile may be given one more.
Handed == INSTANCE WineProofs WITH
    Mine <- {"mine"}, Managed <- "managed", Games <- {"game", "other"}, Jobs <- {},
    MaxJobs <- 1, Commands <- {"command"}, MaxStamp <- 2,
    Setups <- {"s1", "s2"}, MaxSetups <- 1, Found <- "found", Picks <- {"picked"},
    directs <- s1, profile <- s2, used <- s3, inventory <- s4, stamp <- s5, job <- s6,
    live <- s7, main <- s8, command <- s9, backlog <- s10, stopped <- s11,
    void <- s12,
    setups <- s1, detection <- s2, halted <- s3, worker <- s4, asked <- s5

\* The values meet what the modules ask of their constants.
ASSUME IndexAssumption == Console!X!SequencesAssumption
ASSUME BoundsAssumption ==
    /\ Limits!LimitsAssumption /\ Limits!H!LimitsAssumption
    /\ Limits!J!JournalAssumption /\ Limits!C!CeilingAssumption
ASSUME StoreAssumption ==
    /\ Failing!PackagesAssumption /\ Failing!ValuesAssumption
    /\ Replay!PackagesAssumption /\ Replay!ValuesAssumption
ASSUME WineAssumption == Paired!S!BinariesAssumption
ASSUME ReviewAssumption ==
    /\ Console!BoundsAssumption /\ Consoles!BoundsAssumption
    /\ Console!W!BoundsAssumption /\ Started!W!BoundsAssumption
ASSUME ImportsAssumption ==
    /\ Imports!IdsAssumption /\ Imports!BoundsAssumption
    /\ Paired!IdsAssumption /\ Paired!BoundsAssumption
    /\ Handed!IdsAssumption /\ Handed!BoundsAssumption

------------------------------------------------------------------------------
PluginsInit ==
    \/ /\ component = "index" /\ Console!X!Init
       /\ s10 = None /\ s11 = None /\ s12 = None /\ s13 = None
    \/ /\ \/ component = "compiled" /\ Limits!C!Init
          \/ component = "wine" /\ Paired!S!Init
       /\ s6 = None /\ s7 = None /\ s8 = None /\ s9 = None /\ s10 = None /\ s11 = None
       /\ s12 = None /\ s13 = None
    \/ /\ component = "refusals" /\ Limits!J!Init
       /\ s3 = None /\ s4 = None /\ s5 = None /\ s6 = None /\ s7 = None /\ s8 = None
       /\ s9 = None /\ s10 = None /\ s11 = None /\ s12 = None /\ s13 = None
    \/ component = "host" /\ Limits!H!Init /\ s12 = None /\ s13 = None
    \/ /\ \/ component = "console" /\ Console!Init
          \/ component = "consoles" /\ Consoles!Init
          \/ component = "imports" /\ Imports!Init
          \/ component = "paired" /\ Paired!Init
          \/ component = "handed" /\ Handed!Init
       /\ s13 = None
    \/ component = "failing" /\ Failing!Init
    \/ component = "replay" /\ Replay!Init
    \/ component = "winlator" /\ Console!W!Init
    \/ component = "started" /\ Started!W!Init

PluginsNext ==
    \/ Turn("index") /\ Console!X!Next /\ UNCHANGED Free9
    \/ Turn("compiled") /\ Limits!C!Next /\ UNCHANGED Free5
    \/ Turn("refusals") /\ Limits!J!Next /\ UNCHANGED Free2
    \/ Turn("host") /\ Limits!H!Next /\ UNCHANGED Free11
    \/ Turn("failing") /\ Failing!Next
    \/ Turn("replay") /\ Replay!Next
    \/ Turn("wine") /\ Paired!S!Next /\ UNCHANGED Free5
    \/ Turn("winlator") /\ Console!W!Next
    \/ Turn("started") /\ Started!W!Next
    \/ Turn("console") /\ Console!Next /\ UNCHANGED s13
    \/ Turn("consoles") /\ Consoles!Next /\ UNCHANGED s13
    \/ Turn("imports") /\ Imports!Next /\ UNCHANGED s13
    \/ Turn("paired") /\ Paired!Next /\ UNCHANGED s13
    \/ Turn("handed") /\ Handed!Next /\ UNCHANGED s13

PluginsSpec == PluginsInit /\ [][PluginsNext]_vars
------------------------------------------------------------------------------
(* The properties of the components, each where it speaks.                  *)

\* The state of each component has the types of its code.
PluginsTypeOK ==
    CASE component = "index" -> Console!X!TypeOK
      [] component = "compiled" -> Limits!C!TypeOK
      [] component = "refusals" -> Limits!J!TypeOK
      [] component = "host" -> Limits!H!TypeOK
      [] component = "failing" -> Failing!TypeOK
      [] component = "replay" -> Replay!TypeOK
      [] component = "wine" -> Paired!S!TypeOK
      [] component = "winlator" -> Console!W!TypeOK
      [] component = "started" -> Started!W!TypeOK
      [] component = "console" -> Console!TypeOK
      [] component = "consoles" -> Consoles!TypeOK
      [] component = "imports" -> Imports!TypeOK
      [] component = "paired" -> Paired!TypeOK
      [] component = "handed" -> Handed!TypeOK

\* plugin_index.rs: a refresh that runs alone never falls back.
LoneRefreshNeverFallsBack == [][component = "index" => Console!X!NoFallBack]_vars

\* plugin_runtime.rs, plugin_compile_cache.rs: the memory budget is what the live
\* stores charged, below its ceiling; once the stores of artifacts are over theirs
\* holds; and a plugin keeps its own refusals up to its share of the ring.
CeilingsHold ==
    /\ component = "host" => Limits!H!CommittedIsCharged
    /\ component = "compiled" => Limits!C!CeilingHolds
    /\ component = "refusals" => Limits!J!KeepsItsShare

\* plugin_update.rs: whatever calls fail, only a removal uninstalls.
OnlyRemovalUninstalls == [][component = "failing" => Failing!UninstallsByRemoval]_vars

\* plugin_update.rs: whatever calls fail, undoing restores the version there was,
\* and replaying a journal that stayed takes no proved live tree away.
UndoKeepsInstalled ==
    [][/\ component = "failing" => Failing!UndoRestores
       /\ component = "replay" => Replay!LiveIsKept]_vars

\* lib.rs: a setup that reads as ready has a binary to confirm or chosen.
ReadyHasTarget == component = "wine" => Paired!S!ReadyHasTarget

\* lib.rs: a binary picked by hand is replaced by another pick only.
ManualChoiceStands == [][component = "wine" => Paired!S!PickStands]_vars

\* lib.rs, console_commands.rs: what is imported is what was picked from a list, in
\* that version, and stands on an entry inside the folder of its profile; a Direct
\* game stands behind one card of Wine.
ReviewHolds ==
    /\ component = "winlator" => Console!W!ImportedWasPicked /\ Console!W!CardsInsideGrant
    /\ component = "started" => Started!W!ImportedWasPicked /\ Started!W!CardsInsideGrant
    /\ component = "console" => Console!ImportedWasPicked /\ Console!CardsInsideGrant
    /\ component = "consoles" => Consoles!ImportedWasPicked /\ Consoles!CardsInsideGrant
    /\ component = "imports" => Imports!LinksHold
    /\ component = "paired" => Paired!LinksHold
    /\ component = "handed" => Handed!LinksHold

\* lib.rs: an import is let through only while its list stands, its profile stays as
\* it was compared until the games are in the library, and a profile the user disabled
\* is given nothing.
ImportsFollowUser ==
    [][/\ component = "imports" => Imports!LiveListsOnly /\ Imports!EnabledOnly
       /\ component = "paired" => Paired!LiveListsOnly /\ Paired!EnabledOnly
       /\ component = "handed" => Handed!LiveListsOnly /\ Handed!EnabledOnly]_vars
===============================================================================
