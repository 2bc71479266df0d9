# Orivo in TLA+

Orivo is a game library: a Tauri application whose core is Rust
(`src-tauri/src`) and whose pages are TypeScript (`src`). It installs plugins,
WebAssembly components that run in the host, imports games from stores, folders
and runners, and launches them. This directory holds TLA+ modules for the parts
of it where order matters, the TLC runs that check them on small instances, and
TLAPS proofs of what matters most for any instance.

| file | what it is |
| --- | --- |
| `PackageTree` | a plugin package as it lies on disk, shared by the next two |
| `VersionSwap` | what the plugin store promises, with no file in sight |
| `PluginStore` | the transaction of `plugin_update.rs`, one action per filesystem call |
| `PluginStoreProofs` | its inductive invariants; the proof that it implements `VersionSwap`; theorems on its badges, on what lies there between operations and on replayed journals |
| `PluginQueue` | what the scheduler promises, with no lock in sight |
| `PluginScheduler` | `plugin_scheduler.rs`, one action per critical section |
| `PluginSchedulerProofs` | its inductive invariant, theorems, and the proof that it implements `PluginQueue`; theorems about `PluginHost`, `PluginJournal` and `CompileCache` |
| `PluginHost` | the epoch thread, the deadline and the memory budget of a call |
| `PluginJournal` | the bounded journal of refusals |
| `PluginIndex` | the cached registry index and the refreshes of it |
| `CompileCache` | compiled components kept between sessions |
| `RunnerProfiles` | runner profiles, grants and imports, while the package changes |
| `RunnerProfilesProofs` | theorems about it, and about `RunnerImportPanel`, `ArtworkSlots` and `LibraryCards` |
| `EpicInstall` | the Epic games a phone downloads, resumes and removes |
| `EpicInstallProofs` | theorems about it, and about `StoreShelf` and `GameMedia` |
| `WineSetup` | setting up a Wine profile beside a background search |
| `WineImport` | scans and imports of a Wine profile, and the games given to it |
| `WineProofs` | theorems about `WineImport` and `WineSetup` |
| `WinlatorReview` | reviewing a folder of shortcuts and importing from it |
| `ConsoleReview` | connecting the folder of an emulator and importing from it |
| `ReviewProofs` | theorems about `ConsoleReview`, `WinlatorReview` and `PluginIndex` |
| `SourceLogin` | signing in to a store in a window |
| `SourceCredentials` | the credential of a store, in pieces in the keychain |
| `RunnerImportPanel` | the panel that starts, polls and cancels an import, and the table of jobs behind it |
| `GameMedia` | artwork downloads, their registry and their quota |
| `ArtworkSlots` | the pictures of a card, and who may replace them |
| `CatalogMigration` | opening the library an older build wrote |
| `LibraryCards` | the cards of the library, and what imports, syncs and removals do to them |
| `StoreShelf` | the refreshes of the Store pages and what they keep |
| `QuikyInstall` | downloading a title and unpacking it under Wine |
| `LibraryProofs` | theorems about `SourceCredentials`, `SourceLogin`, `CatalogMigration` and `QuikyInstall` |
| `ComposedProofs` | the theorems of the components as theorems of the runs `library` and `plugins` |
| `MCPluginStores`, `MCPluginScheduler`, `MCLiveness`, `MCLibrary`, `MCPlugins` | the instances of the passing runs |
| `MCPluginStore`, `MCRunnerProfiles`, `MCEpicInstall`, `MCCatalogMigration`, `MCLibraryCards` | those of the runs that find a disagreement |
| `MCComponents` | the slots and values the composed runs share |
| `*.cfg`, `PROJECT.json` | the runs; components, the lines each definition models, findings, hazards |

To check a run: `tlc -workers 2 -config StoreTransaction.cfg MCPluginStores`. To
check the proofs: `tlapm PluginStoreProofs.tla`, and so on for each `*Proofs` module.

## Inventory

*Hard* is what makes a component difficult to test, *right* the properties that
make it correct.

| component | state | operations | hard | right |
| --- | --- | --- | --- | --- |
| **Plugin store** `plugin_update.rs` | four directories per plugin (live, `previous/`, staged, discard), `previous.json`, journal, smoke marker, trust marker; a gate (memory) | install, rollback, remove, recover at start, sweep | crash between, inside and during the recovery of any call; calls whose error is ignored; a file that is not written atomically | a cut leaves a proved version; nothing but a removal uninstalls; the badge follows the code; every journal is settled |
| **Plugin scheduler** `plugin_scheduler.rs` | memory: queue, health of each plugin, job map, retired jobs, cancel tokens; worker threads, a condition variable, one channel per job | submit, cancel, wait, wait_for, resume, work, finish, drop | workers, callers and shutdown interleave; notification outside the lock; counters kept apart from what they count | one call per plugin; bounded queue and map; every waiter gets one true answer; shutdown ends |
| **Plugin runtime** `plugin_runtime.rs` | memory: epoch ticker lease, memory budget, journal of 256 entries, component cache | prepare, invoke, cancel, grow, journal, drop | the last call puts the ticker to sleep while the next starts it; growths race on one counter | a call ends; the budget is what is charged; the journal stays bounded and fair |
| **Plugin index** `plugin_index.rs` | cached signed index, its sequence and tag; one temporary path | refresh, load, touch | overlapping refreshes, expiry, a cut write | a refresh that runs alone never falls back |
| **Compile cache** `plugin_compile_cache.rs` | artifacts, temporary files, install key | load, refuse, store, sweep, purge | sweeps remove each other's files; a cut in a store | the ceiling holds once stores are over |
| **Installer service** `plugin_installer.rs` | one cancel flag (memory), policy file | refresh, install, update, cancel, start-up maintenance | one flag for several operations; checks made before a download | no door goes backwards |
| **Grant ledger** `runner_host.rs`, `lib.rs` 1067-1109 | grants and runner profiles, in the catalog | consent, validate, forget_plugin | identity changes are compared outside the store's gate, observers run on another thread | a permission is used only with a package it was given to |
| **Runner commands** `runner_commands.rs` | profiles, import cursors, verdicts | create, edit, grant, import pages, validate, launch | snapshots written back after a call to the plugin; a cancel and a page | a grant follows consent; an import misses no game |
| **Catalog** `catalog.rs` | the library document, backups of it, the state of the games | migrate, load, save; file, fold, refresh and remove cards | two files published one after the other; a failed or cut start; cards that several owners rewrite | no migration loses what the user made; one game, one card; every way to start has its record |
| **Epic** `epic_android.rs`, `epic_download.rs` | partial files, journal, records | download, resume, cancel, uninstall | a restart in every step, a newer build, a removal under a download | a recorded game is complete |
| **Wine set-up and import, folder reviews, sign-in** `lib.rs`, `console_commands.rs` | memory: setups and their search, scans, previews and tokens, sessions; granted folders; the catalog | begin, confirm, pick, create; scan, review, import; connect, exchange, cancel | a dialog, a search, a walk of a folder or a request between two critical sections | a hand-made choice stands; what is imported was picked; a list that was stopped before it was asked gives nothing; one verdict |
| **Artwork and media** `game_media.rs`, `game_detail.rs` | files, records of the game, registry of downloads (memory) | apply, import, cancel, sweep | transfers share a quota, a registry and the files being swept | the quota holds; a download has an owner |
| **Pictures of a card** `lib.rs`, `artwork_backfill.rs` | files in a cache, slots in the catalog, attempts file | reset, fill, fetch, top up, pick | files swept and written without the lock the slots have | the top-up takes nothing away |
| **Quiky** `quiky_installer.rs` | jobs (memory), package and `.part` file, prefix and folder of each title | install, cancel, query | a cancel, a failure or a restart at each phase; processes that outlive it | what runs was verified and runs alone; the table of jobs is true |
| **Store pages** `store.rs` | one cached document | refresh, read | every visit refreshes, over minutes, from a snapshot | a refresh takes nothing away that it could not ask about |
| **Credentials** `sources.rs` | items of the keychain, a cache for the run, the list of connected stores | load, save, disconnect | several calls to the keychain for one credential, any of which may fail, be cut or meet another command | what was saved reads back whole; what was disconnected is gone |
| **Front end** `src/*.ts` | memory | pollers of imports, installs, updates and launches | answers out of order, after a cancel, a change or navigation | what is shown as running is watched; an end that is shown happened |
| Launcher, registry and manifest, wallpaper, streaming, preferences | caches and documents | request and response | mostly network and parsing | see *Not modelled* |

How they interact: a Tauri command calls the installer service, which downloads
a package and calls the store; the store asks the registry for a verdict twice,
and the registry asks the runtime, which queues the call on the scheduler. When
the store's identity of a plugin changes it calls its observers, which revoke
grants in the catalog: `RunnerProfiles` has both sides of that, with the package
as an abstract variable that another operation may replace. Start-up maintenance
recovers the store and then, with consent, updates plugins. A runner command
queues its calls on the same scheduler, which runs them under the limits of
`PluginHost`. The commands of `lib.rs`, the runner commands and the importers
meet in the catalog, which each of them changes in one commit under a lease.
`PROJECT.json` lists every component with its status, and every hazard at its
line.

## How the runs are composed

Most components meet nowhere in the code: no state of the Wine set-up is read by
the artwork downloads. Composing them as concurrent processes would multiply
their states and show nothing. `MCLibrary`, `MCPlugins` and `MCLiveness` instead
put several components in one run as alternatives: a variable `component` is
chosen at the start and never changes, the components share the slots `s1`,
`s2`, ..., and each `INSTANCE` says which of its variables is in which slot. A
property of such a run speaks of one component (`component = "wine" => ...`),
the type invariant of all. Deadlock is not checked there because some of those
components really stop: a sign-in is over, a runtime is closed.

The instances of the composed runs are instances of the proof modules. A proof module
extends one component and names the others it is about (`RunnerProfilesProofs` has
`P == INSTANCE RunnerImportPanel` and `A == INSTANCE ArtworkSlots`), so that
`MCLibrary`'s `Runner!P!Spec` is the panel that TLC runs, and `Runner!ImportsAreWatched`
is the theorem about it. `ComposedProofs` puts the two together: the lemmas
`LibraryRuns`, `DownloadsRun`, `CardsRun`, `PluginsRuns` and `LimitsRun` say that a
behaviour of a run is one of the component it chose, from its start and for ever, or never
has that component; each theorem then takes what is proved of a component for any values, at the values of the run, to the
property the run checks. The assumptions on constants are assumed there of the values the run
gives, by name (`RunnerAssumption` and so on), and TLC evaluates them.

Two threads or commands that no action names are interchangeable, hence the
symmetry of `w1` and `w2`; the liveness runs do not use it.

| run | distinct states | what is in it |
| --- | --- | --- |
| `store_transaction` | 2.2 million | `PluginStore`, two pairs of packages |
| `scheduler_queue` | 1.9 million | `PluginScheduler` |
| `library` | 1.8 million | `RunnerProfiles` three times, `EpicInstall`, `SourceLogin`, `GameMedia`, `CatalogMigration`, `ArtworkSlots` twice, `LibraryCards` twice, `StoreShelf`, `QuikyInstall`, `SourceCredentials`, `RunnerImportPanel` |
| `plugins` | 2.4 million | `PluginStore` with failing calls twice, `PluginIndex`, `CompileCache`, `PluginJournal`, `PluginHost`, `WineSetup`, `WineImport` three times, `WinlatorReview` and `ConsoleReview` twice each |
| `scheduler_liveness`, `host_and_store_settle` | | `PluginScheduler`; `PluginHost` and `PluginStore`, with fairness |

Six more runs find a disagreement between the code and what a comment of it
says; they are described with their components.

## Plugin store

`PluginStore` models one plugin: nothing is shared between two but the gate, and
the gate runs one operation at a time, so there is one program counter. The
variables are the files and directories of the module's header comment, plus the
operation in memory (`pc`, `op`, `rec`), which a crash erases. `then` is where an
operation continues after the recovery it starts with, and `boot` what start-up
maintenance has still to do.

Each action is one filesystem call with the branch the code takes on its result.
`Goto` names the next one. The table follows the code:

| code | actions |
| --- | --- |
| `install_stopping_before` | `Begin`, `Recover`, `Check`, `Stage`, `Preflight`, `ClearRecord`, `ClearPrevious`, `WriteJournal`, `TrustInstall`, `Commit` |
| `swap_and_prove` | `ArchiveLive`, `MarkUnproven`, `PromoteStaged`, `SmokeTest`, `Unmark` |
| `undo_install` | `Undo`, `UndoClearDiscard`, `UndoDiscardLive`, `Restore`, `TrustDisplaced`, `UndoFirst`, `Untrust` |
| `clear_operation` | `ClearJournal`, `ClearSmoke`, `DropDiscard`, `DropStaged` |
| `rollback_stopping_before` | `Target`, `WriteJournal`, `ClearDiscard`, `DiscardLive`, `PromotePrevious`, `TrustRollback`, `Forget` |
| `remove_locked` | `RemoveLive`, `RemoveTrust`, `RemoveVersions` |
| `recover_plugin` | `Recover` with `InstallRow` and `RollbackRow`, `Abandon`, `ScrapStaged`, `ScrapPrevious`, `TrustSettle`, `CommitSettle`, `TrustFirst`, `FinishPromote`, `ReturnDiscard`, and the undo and clear actions |
| `recover`, `sweep_staging` | `BeginStartup`, `BeginSweep`, `SweepDiscard`, `SweepStaged` |

`Crash` may come before any call, and inside those that are not atomic: `Cut`
lists what a half-written file (`Torn`), a half-unpacked tree or a half-deleted
one looks like. A package is its version, its channel and the digest of its
component; a tree has two files, the manifest and the component, because those
are what the code reads back. `proved` is a ghost field: the smoke test accepted
this component at its final path. `FaultSites` is the set of steps whose call may
fail; a rename onto a directory that is not empty fails whatever it says.

Abstractions: what a cut leaves of a tree in staging is `Litter`, a directory
with something in it, since no code reads it; the versions of the code are
compared as numbers; reads of the disk do not fail; calls reach the disk in
order (a power cut that reorders them is not modelled).

`VersionSwap` is what a user is promised: one installed version and at most one
to go back to, each changed in one step. The refinement mapping is `Installed`,
the tree recovery would leave if the process stopped now, and `Fallback`, what a
rollback would return to. Under it every crash is a stutter.

### Runs

| run | instance | shows |
| --- | --- | --- |
| `store_transaction` | two releases, or a release and a later unsigned build; no failing call, crash anywhere | `StoreInv` (the invariant of the proofs), the type invariant, `CutLeavesProvedVersion`, `IdleServesInstalled`, `KeptDescribesPrevious`, `TrustFollowsLive`, `GuardedInstallGoesForward`, `UnsignedOnlyByReturning`, and that the store implements `VersionSwap` |
| `plugins`, its part `failing` | one release installed again and again, 31 calls that may fail | `OnlyRemovalUninstalls`, `UndoKeepsInstalled` |
| `plugins`, its part `replay` | a journal that cannot be deleted, and renames that put a tree back that may fail | `UndoKeepsInstalled` |
| `host_and_store_settle` | weak fairness, crashes that stop | `EveryOperationSettles` |

Nothing bounds the length of a behaviour: the state is finite, and TLC visits all
of it. Two releases are enough to tell the incoming version, the displaced one
and the one before it apart, because the last of these is deleted before the
swap; the parts with failing calls use one release because what they ask about is
which directory holds a tree, and they would not end with two.

Fairness: a thread that holds the gate is scheduled (`WF_vars(Step)`), and every
start spawns the maintenance task (`BeginStartup`, `BeginSweep`). Nobody has to
begin an operation. `EveryOperationSettles` assumes that crashes stop, because a
process killed in each recovery settles nothing.

### Where the code and its comments differ

`store_stuck_previous` checks one property that quotes a comment, and TLC shows a
behaviour that violates it: the removal of the earlier rollback target ignores its
error. If files remain, the archive rename fails, and the undo takes what is in
`previous/` for the displaced version: it discards the running version and
restores the half-deleted one.

More is read loosely by the model, with no run of its own. After a removal that
left a component and no manifest, an undone signed install is taken for a first
install, and the marker of the release key is written for a component it did not
sign. The undo ignores a
failing rename of the refused tree, then clears the journal and the marker that
said it was refused, so the refused version stays: the proofs and runs assume
that rename works. "previous/ is a complete version": a removal cut halfway can leave a
manifest without a component, which the next install archives and commits, so
`KeptDescribesPrevious` speaks of the channel only for a tree with all its files.
"Before \[the commit point\], the operation is undone": between the smoke test and
the commit rename, recovery completes it, so `Installed` changes at the smoke
test and not at the rename.

### Proofs

`PluginStoreProofs` proves, for any packages, signers and components,

- `StoreInvariant`: `Spec => []StoreInv`,
- `TypeCorrect`: `Spec => []TypeOK`,
- `CutSafety`: `Spec => []CutLeavesProvedVersion`,

with crashes and with any failing calls outside `ReliedOn`. Those five are the
calls whose error the code ignores although what follows relies on their effect;
one of them is the rename of a refused tree described above, so the assumption
cannot be dropped. The other assumptions are `PackagesAssumption` and `ValuesAssumption`:
`Absent` and `Torn` are not values of the data, and the unsigned channel is not a
signer.

`CutLeavesProvedVersion` is not inductive: it says which tree recovery would
choose, and nothing about why the others are safe. `StoreInv` adds that
`previous/` only ever holds a proved tree (`PreviousGood`); that a live tree is
unproven only while its own install journal and its smoke marker are there,
nothing is staged, and what it displaced is still in `previous/` (`LiveGood`);
that a rollback never leaves both directories empty (`RollbackHasTree`); and
what each step of the program counter knows of the request, of the journal and of
the trees (`RequestShape`, `JournalShape`, `TreeShape`). The proof has a lemma
for each group of actions, with one step per action, and lemmas on the operators
on trees (`ScrapIsTree`, `RemnantIsTree` and others).

`PluginStoreProofs` proves what needs to know which *version* each directory
holds, and not only whether it is proved:

- `SwapInvariant`: `Spec => [](StoreInv /\ SwapInv)`,
- `SwapRefinement`: `Spec => ImplementsVersionSwap`,
- `RemovalAlone`, `UndoSafety`, `GuardedForward`: the action properties
  `OnlyRemovalUninstalls`, `UndoKeepsInstalled` and `GuardedInstallGoesForward`.

`SwapInv` has a part for each thing a step relies on: the record an operation
works from is what its caller asked for (`RequestKept`); the candidate is whole
in staging and at its final path (`CandidateKept`); the earlier way back is gone
before anything is journalled (`WayCleared`), or the undo would take it for the
displaced version; where the displaced and the incoming version are under an
install journal (`InstallTrees`), under a rollback journal (`RollbackTrees`) and
with none (`RestTrees`); and what each step of an undo or of a recovery knows
(`UndoTrees`, `SettleTrees`). A second family of lemmas shows that each step has
an `Effect`: none on the abstract store, or one named step of `VersionSwap` from
named program counters. The refinement and the three action properties are then
read off `Effect`, without looking at an action of the store again.

Its second half proves `TrustInvariant`, an invariant on top of that one
about signatures, and from it `BadgeFollowsLive` (`TrustFollowsLive`),
`KeptIsDescribed` (`KeptDescribesPrevious`) and `UnsignedReturns`
(`UnsignedOnlyByReturning`); and `IdleIsInstalled` (`IdleServesInstalled`), by an
invariant on the journals that are left between operations (`IdleInv`). Under an
install journal the marker on disk says nothing by itself once nothing is staged:
`InstallTrust` states which badge recovery has to write from where the trees are.

The stronger the theorem, the more calls may not fail:

| set | calls that must not fail, and why |
| --- | --- |
| `ReliedOn` | the five above |
| `SwapReliedOn` | also the two that clear the earlier way back, and the two renames that put a tree back during a recovery: what they lose, the cleared journal can no longer name |
| `TrustReliedOn` | also the writes of the marker, whose error is ignored, and `archive`, `mark`, `promote` and `scrap_staged` |
| `IdleReliedOn` | as `SwapReliedOn`, and the removal of the smoke marker and the rename of a rollback, which return their error and leave the journal for the next start |

Every other call may fail, at any time, between any crashes. That the sets cannot
be smaller was learned from attempts to prove more, and TLC shows each case on
the instances of the runs: a marker that cannot be written for an unsigned package
leaves the release key's badge over it; and when `archive`, `mark`, `promote` or
`scrap_staged` fails and the process stops in the undo, just before it writes the
marker, the next start finds a staged tree, takes the row that discards it, and
never looks at the marker.

`StoreInv` is an invariant of the run `store_transaction`. `SwapInv`, `TrustInv` and
`IdleInv` were model-checked on that instance before they were proved, and on
smaller ones with every call outside the sets failing; they are in no run, since
they would make that one too long.

With calls that fail inside those sets something still holds. A journal that cannot be
deleted, or a tree that cannot be put back, leaves a journal that the next recovery
replays, on trees it may no longer describe. `ReplaySafety` proves `ReplayKeepsLive`: a
live tree that is not marked unproven is taken away by an install about to replace it,
by a rollback and by a removal, and by no replay, whatever fails but the two calls of
`ReplayReliedOn`, the removal of the last rollback target and the rename of the live tree
into its place (the case `store_stuck_previous` finds). Its invariant, `ReplayInv`, does
without the other ones: an undo meets a live tree only under a smoke marker, and a step
that renames a tree into place found that place empty.

`ComposedProofs` states the parts `failing` and `replay` of the run `plugins` from
`RemovalAlone`, `UndoSafety` and `ReplaySafety`.

Model-checked only: liveness (`EveryOperationSettles`), which is out of the prover's
reach.

## Plugin scheduler

`PluginScheduler` has the fields of `SchedulerState`, and for each job its
plugin, what its channel holds and where its caller is; for each worker the step
of its loop. One action is one critical section of the mutex, or one step taken
outside it. The separation the code makes is kept: a caller is notified after the
lock is released (`Submit`, `Notify`), a worker runs the job without the lock
(`Take`, `Work`, `Finish`), notifies without it (`NotifyFinish`) and only then
delivers (`Deliver`); the drop sets the flag, notifies and joins (`Close`,
`NotifyClose`, `Join`). `WakeSpuriously` is the condition variable's freedom.

Abstractions: a refused submission changes nothing and is not an action, and
`ShuttingDown` cannot be seen because the drop needs exclusive ownership. A panic
in a job is the report "failed" and the message "error"; it is caught where the
sender lives. The outer guard against an unwinding worker is not modelled, since
the journal it mentions does not unwind. Results are one value. A caller that
drops its handle is one that never acts again. `MaxRetained` is 256 in the code:
the instance has three jobs and retains two of those that ended.

`PluginQueue` is the promise: one line of accepted jobs, of which a plugin may have
a bounded number and is served in order, one call of a plugin at a time, a bounded
number in all, and closing empties the line. The refinement mapping reads the queue
(`line`), the plugin of each job, the tokens in flight (`active`) and the flag of the
drop (`open`); it forgets the map, the counters, the workers and the channels, so the
bounds of the promise speak of the jobs and not of what the code counts.

| run | instance | shows |
| --- | --- | --- |
| `scheduler_queue` | 3 jobs, 2 plugins, 2 workers, depth 2, parked after 2 failures, 2 ended jobs retained | `TypeOK`, `OneCallPerPlugin`, `AnswerIsTrue`, `BookkeepingAgrees`, `EndedIsFinal`, and that it implements `PluginQueue` |
| `scheduler_liveness` | 2 jobs, 2 plugins, 2 workers, fairness | `EveryWaiterAnswered`, `EveryJobLeavesQueue`, `ClosingFinishes` |

Two workers are the code's default concurrency. Three jobs over two plugins give
a plugin that is blocked behind itself while another passes it, a full line
(depth 2), a cancel in the middle, and a map that forgets. Plugins and workers
are interchangeable, so the safety run uses that symmetry.

Fairness: threads are scheduled (each worker's own steps, each caller's own
steps, the drop), and a call inside the host ends, which is `CallsEnd` of the
next module. Nobody has to submit, cancel, wait, give up, resume or close, and
no spurious wake-up is assumed: the liveness properties hold by the notifications
alone.

One sentence of the header is not held to: "only a resume restarts it" can be
read as forbidding that a job queued before its plugin was parked still runs,
which `take_next` lets it do.

### Proofs

`PluginSchedulerProofs` proves, for any sets of plugins, jobs and workers and any
limits that meet `LimitsAssumption`,

- `SchedulerInvariant`: `Spec => []SchedulerInv`, the inductive invariant,
- `TypeCorrect`, `OneCallEach`, `AnswersAreTrue`, `BooksAgree` and `NoSecondEnd`: every
  property of `scheduler_queue` but the last,
- `SchedulerRefinement`: `Spec => ImplementsPluginQueue`, the last.

None of the properties is inductive. `OneCallPerPlugin` is about workers, and the
code keeps it by a counter, `health[p].running`, that `take_next` reads: so
`HostInv` ties the workers in the host to the tokens in flight, to the jobs the map
calls running, to the total and to that counter; `WorkerInv` says that two workers
never hold one job, and that what a worker has not yet delivered is still in its
hands; `LineInv` that a job is once in the line, queued and with a sender;
`CountInv` that the count of each plugin is what waits, until the drop forgets the
line and leaves the counts; `RetiredInv` that the list of ended jobs is those the map
holds, or a job that still runs could be forgotten; `OwnerInv` that a fresh job has
left no trace; and `AnswerInv` that a channel carries, and a caller was told, how its
job ended. That last one needs the others: a sender dropped by a cancel and one
dropped by the drop look the same to the caller, who asks the map.

Each part has a step of its own under each action. Below them are lemmas on sequences
(what leaves a line and what stays, `RemoveFirstContains`, `RetiredInv` through
`SetJobKeeps`), on the first index that `take_next` finds (`NextIndexFound`), and on
counting (`CallsCounted`, `UnionBounded`). The eight parts were model-checked on the
instance of `scheduler_queue` before they were proved.

Model-checked only: the liveness properties.

## Plugin host

`PluginHost` is what bounds a call of `plugin_runtime.rs`. A call walks through
`Begin`, `Enter` (the lease is counted), `NotifyTicker`, `Instantiate`, then the
guest runs: it may return, grow its memory (`Grow` reads the budget, `Charge` is
the compare-exchange), or go on until it meets a check of the epoch
(`EpochCallback`), which ends it or gives it another tick; `Leave` drops the lease
and `DropStore` gives the memory back. `TickerCheck` and `Tick` are the epoch
thread; `Close`, `NotifyClose` and `Join` the drop of the runtime. The epoch is
relative: a store is `due` once the epoch passed its deadline. Left out: fuel,
which is one more way for a guest to return, and what a guest asks of the host.

`CommittedIsCharged` (a part of `CeilingsHold` in run `plugins`: two calls, instance
limit 2, total 3, so that both ceilings are met) says that the counter is the sum of what the live
stores charged and never passes its ceiling. `CallsEnd` (run
`host_and_store_settle`) says that a call ends although its guest never returns,
and that the drop of the runtime returns. Fairness: threads are scheduled
(`Host`, `Ticker`, `Owner`); compiled code checks the epoch at every loop and
call, so a guest that runs for ever meets a due check again and again, which is
strong fairness of `EpochCallback`; a compare-exchange does not lose for ever.
Nothing says that a guest returns.

`PluginSchedulerProofs` proves it, as `BudgetIsExact`, for any finite set of calls and any
limits: `committed` is the number of `Charges`, the units of growth the live stores hold.
`CallInv` says of a growth in flight that it still fits what its own store may hold, which
no other thread changes, while what it read of the counter may be old; the compare-exchange
is what makes that enough. The leases are counted in the same way.

`PluginJournal` is the ring of refusals: `Push` with `EvictOne`, which takes the
oldest entry of the plugin that holds the most. `KeepsItsShare` (another part;
2 plugins, 4 refusals, 5 entries) says that what a plugin recorded is still there up to its
share, however loud the others are. `ShareIsKept` of `PluginSchedulerProofs` is the same for
any finite set of plugins and any ring. The step that needs an argument is the eviction: a
full ring of which no plugin held more than its share would map one to one into plugins and
shares, with no room left for the entry that makes it full (`SomeoneIsGreedy`), so the one
that holds the most has something to give.

## Plugin index and compile cache

`PluginIndex` has the refreshes of `plugin_index.rs`, each of them `Begin`, `Ask`,
`Answer`, `Accept` or `Touch`, `Create`, `Fill`, `Rename`, with no lock between;
files are inodes, because two refreshes share one temporary path and
`File::create` empties the file the other is writing. The server publishes and
lags, documents expire, time passes, the process dies, and the cancel flag is the
one of `plugin_installer.rs` that each refresh clears. Two refreshes and two
sequences are enough for one to store the older document last.
`LoneRefreshNeverFallsBack` is what holds: a refresh that ran alone never replaces
a document that verifies by an older one or by one that does not parse.
Overlapping refreshes do fall back, and nothing in the code says they do not.

`ReviewProofs` proves it, as `IndexGoesForward`, for any number of refreshes and any
sequences (`SequencesAssumption`: the refreshes are finitely many and `None` names no
inode). The property speaks of the moment of the rename; `IndexInv` says why it holds
there: a refresh that met no other carries, from `Accept` on, a document no older than
what loads, and the file it fills is the temporary one, which the cache does not name
and nobody else writes. That `create` finds an inode nobody names is a lemma that counts
them: there is one more than there are names, whatever their number.

`CompileCache` has `Load`, `Refuse`, `Rename`, `GiveUp`, and the sweep that every
store starts (`List`, `Sweep`), beside `Purge`, damage, and a restart with another
engine. `CeilingHolds` (a part of `CeilingsHold`; 2 workers, 2 components, 2
engines, room for 1): once the stores are over the directory is under its ceiling,
although sweeps remove each
other's files by name while they count. `CeilingIsHeld` of `PluginSchedulerProofs` is the
same for any components, engines, workers and ceiling. A directory over its ceiling proves
nothing by itself: `CacheInv` says that then a store is still to be swept, or some sweep has
every file of the directory on its list and counts no fewer than there are (`SweptBy`), so
that it goes on until they fit. The other sweeps only take files away.

## Runner profiles, grants and imports

`RunnerProfiles` composes three parts of the code that share the catalog: the
commands of `runner_commands.rs`, the commits of `runner_host.rs` and
`catalog.rs`, and the installer that changes the package (`announcing` in
`plugin_update.rs`, its observer in `lib.rs`). A thread runs one command. A
command that calls the plugin reads the package (`Load`), or a snapshot of its
profile (`EditProfile`, `Ask`), and writes back later what it read then (`Save`,
`Answer`); a permission is taken under the lease (`CommitCreated`, `CommitFolder`,
`RevokeFolder`); an import resolves its grants once (`ResolveGrants`) and commits
page by page (`DiscoverPage`, `MergePage`); the package is replaced between two
reads of its identity (`BeginOperation`, `ReplacePackage`, `CompareIdentity`,
`ForgetPlugin`). The catalog refuses a write that would put an imported game
outside its folder (`Fits`). `consent`, `made` and `removed` are ghosts: what the
user last said yes to, and for which package.

The run `library` has three instances: two threads on one profile while the
package changes between a signed release and an unsigned build; the same on a
library of two pages, so that an import resumes; and one thread on two profiles,
so that a scope has two values. A behaviour ends where a profile is deleted
(`ProfileNotRemoved`): a folder key that outlives its profile is a permission
over nothing.

- `GrantsFollowConsent`: every value of a scope was allowed to a package that
  covers the one it is recorded against.
- `ReadsWithConsent`: an import starts with the user's word for its folder and
  its package.
- `ResumeSkipsNothing` (a part of `ImportsGoOn`): the cursor never passes a game that
  was not imported, whatever stale copies of a profile are written back.
- `runner_grants` finds that `GrantNamesAFolder` is violated: a verdict is
  written back with the profile as it was before the plugin was asked, so a folder
  granted meanwhile is lost and its permission stays, where `grant_directory` says
  that this "would be a permission over nothing".

### Proofs

`RunnerProfilesProofs` proves, for any threads, profiles, folders, packages and a
library of any length, from `ValuesAssumption` and `PagesAssumption`,

- `RunnerInvariant`: `Spec => []RunnerInv`, the inductive invariant,
- `TypeCorrect`, `GrantsAreGiven` (`GrantsFollowConsent`), `ImportsResume`
  (`ResumeSkipsNothing`) and `ReadsAreAllowed` (`ReadsWithConsent`).

`GrantsFollowConsent` is nearly inductive: it needs the types, and that consent to one
package covers what a grant against it applies to (`CoversOn`), which is where a signed
release inherits and an unsigned build does not. `ResumeSkipsNothing` is not: a command
that read a profile an hour ago may write it back. So `ThreadInv` says of every copy a
thread carries (`HasCopy`) what `ProfileInv` says of the catalog: what lies behind the
cursor is in the inventory, which only ever grows, unless the profile was deleted. What
was true of the copy when it was read is then still true when it is written. The invariant
was model-checked on the three instances of `library` before it was proved.
`ComposedProofs` states all three on that run (`GrantsAreGiven`, `ReadsAreAllowed` and,
with the panel's, `ImportsStand`).

## Epic installs

`EpicInstall` is the background task of each game (`RegisterJob`, `ChooseFolder`,
`FetchManifest`, `PlanInstall`, then for each file `StartFile`, `WriteFile`,
`RenameFile`, `JournalFile`, and at the end `FinishFiles`, `ReadRecords`,
`SaveRecord`, `LeaveJob`), with `Cancel` read between files, `Fail` at any await,
the removal of an installed game in three steps, newer builds, and a crash that
loses the tasks and keeps the disk. Builds of a file are of one size, the worst
case for a resume that looks at sizes. A crash never leaves a journal torn: it is
written aside and renamed.

`RecordedIsComplete` (run `library`: one game, two files, a journal every two
files, three builds): a game is recorded as installed only with every file of
that build in place. Three builds, because a folder may hold an older build, the
journal another, and the task a third. It speaks of a download whose folder was
not removed under it (`disturbed`), which the code does not exclude.
`epic_folders` finds `OneGamePerFolder` violated: two games of one title that
download at once take the same folder, where the comment says "two games called
alike never write into one another".

### Proofs

`EpicInstallProofs` proves, for any files, builds, and number of files between two
journals,

- `EpicInvariant`: `Spec => []EpicInv`, and `TypeCorrect`,
- `DownloadsAreComplete`: what a download records is in place, for any games,
- `RecordsAreComplete`: `Spec => RecordedIsComplete`, for one game.

The heart of `EpicInv` is an order (`Ordered`): in a folder the journal is of no newer
build than the files it names, and nothing is newer than what the store has. A resume
believes a journal of its own build only, so a file it believes is of that build or
newer, hence of that build. `Sound` says what a task knows at each step: between the
write of a file and its rename, between a rename and its journal, and what it had to
give up when its folder was removed under it.

The theorems assume that no two games may be given one folder (`FoldersAssumption`):
`epic_folders` shows what the code does without it. `RecordsAreComplete` is of one game
because the record of a game is in one document with all others, which a download and a
removal read and write back whole: with more games another one's write can bring an
older record back. `DownloadsAreComplete` is what stays true of many: when a download
saves its record the files are there. The invariant was model-checked with one game, three
builds and two files, and with two games and one build. The run `library` has one game:
its `RecordedIsComplete` is `RecordsAreComplete` of `ComposedProofs`.

## Five protocols of the application

All are in the run `plugins`, but `SourceLogin`, which is in `library`.

`WineSetup`: a worker searches (`Detect`, `Offer`, `Store`, `Recheck`, `Publish`:
the flag is read, then the mutex is taken, then the flag is read again) beside
`Begin` with its eviction, `CancelDetection`, `Confirm`, `Select`, `Create` and
their second halves after the probe or the dialog. `ReadyHasTarget`: a poll never
sees a search that succeeded with nothing to act on. `ManualChoiceStands`: a
binary picked by hand is replaced by another pick only. Two setups with room for
one, so that one is evicted under its worker; two commands.

`WineProofs` proves both for any number of setups, of commands in flight and of
places for setups, from `BinariesAssumption`: `ReadyIsConfirmable` and `PicksStand`,
beside `SetupTypes` and `SetupInvariant`, the inductive invariant. `SetupInv` adds to
`ReadyHasTarget` what the worker may still believe at each of its steps (`WorkerInv`):
before it starts nothing of the setup is there; one that offers has found something; one
that goes on as ready left a target in its setup, if that is still there, or was told to
stop and will say so at the second read of the flag. What a command confirms was found
(`CommandInv`). Every command keeps a target that is there, which is all that
`CommandKeeps` asks of it.

`WineImport` begins where the set-up ends. A scan runs in the background
(`StartScan`, `FinishScan`) and its list may be cancelled or evicted; an import
takes a list that is ready, reads the profile, validates the files, compares the
profile and asks the job again, and writes (`Import`, `ReadProfile`, `Revalidate`,
`CheckImport`, `CommitImport`); a Direct game is given to a profile by hand
(`Associate`, `CommitAssociation`) or by the pass that follows the start (`StartPass`,
`ApplyPage`) and every addition of a game (`AddDirect`). `Leased` says who holds the
lease over several steps: `Disable` and `Delete`, which change the catalog first and
stop the jobs after (`main`), and an import from its check to its write. `CancelScan`
and the eviction of `StartScan` take the mutexes of the jobs only, and come in between.
Two ghosts: `stopped`, the jobs that were cancelled or evicted, and `void`, those whose
profile was disabled or deleted since. `ImportsFollowUser` has two parts:
`LiveListsOnly`, that an import is let through only if its list is neither stopped nor
void, even if its profile was enabled again or made anew, and that it is still not void
when its games are in the library, and `EnabledOnly`, that no profile is given a game
while it is disabled. `LinksHold`, a part of `ReviewHolds`: every entry is of a profile
there is and inside its folders, and a Direct game stands behind one entry. Three
instances, of one profile of the user and the managed one: two scans with room for one,
so that one is evicted; one scan and two commands; two games, so that the managed
profile may be given one more. Left out: the files, whose bytes an import compares, and
the cards, which `LibraryCards` has.

What `LiveListsOnly` does not say, because the code does not keep it: a list that is
cancelled or evicted after the last question (`lib.rs` 4495-4500) and before the write
(4568-4575) is imported, although its cancellation was confirmed. No document, comment
or test promises otherwise, and no page of the application calls `cancel_wine_scan`. A
pass makes the managed profile again although the user deleted it, with the next game:
no document says that it stays away.

`WineProofs` proves the three, for any profiles, games, scans, commands and places for
scans, from `IdsAssumption` and `BoundsAssumption`: `LinksAreSingle`, `ListsAreLive` and
`GivenWhenEnabled`. `ListsAreLive` is the hard one. An import asks for its list, its
profile and the catalog in three critical sections; the one who stops the list changes
the catalog first and the list after; so at the check a list that may give nothing can
still read as ready. `ListsSound` says when: the disabling that will stop it holds the
lease, which the check needs too, or the profile is gone or was made again since the
import read it, which the check compares. That a profile made again is told from the one
before is the stamp (`ClockAhead`). `WriteSound` says what is left of the check when the
import writes: it has the lease to itself, so the profile is the one it compared and the
list is not void; nothing is said of `stopped`. `JobsSound` and `MainSound` say what a
scan and a half-done `Disable` or `Delete` may still find.

`WinlatorReview`: a review picks or re-reads the folder, points the profile at it,
scans, takes a token and stores its preview; an import checks the token, reads the
grant, revalidates the files and commits. Files change (one edit), two reviews or
imports overlap (two threads, two tokens), and the pass that starts with the
application walks the folder. `ReviewHolds` has these parts: what is in the library
was picked by the user from a list that named that version (`ImportedWasPicked`),
and every card stands on an entry inside the folder the profile has now
(`CardsInsideGrant`). Two folders with one file each; two threads after the pass is
over (`winlator`), and one beside it (`started`).

`ReviewProofs` proves both, as `ShortcutsWerePicked`, for any folders, files, versions,
threads and tokens, by an invariant like the next one's (`WinlatorInv`): whatever a thread
carries from the answer to the commit was agreed to, and the list that may be answered is
the one shown under its token.

`ConsoleReview` is the same for the folder of an emulator's games, and not the same
code: a token is taken before the scan and stops the scan before it (`BeginScan`), the
list is stored with no question whether it was replaced (`StorePreview`), the folder is
one the system granted for good (`Pick`) and a folder no profile points at is given
back (`Sweep`, `Release`). `ReviewHolds` holds it to the same two parts: one emulator
with two folders, and two emulators that share the preview. In the model, with no
property against it: an older scan may replace the snapshot of a newer one, whose list
is then refused; a scan stopped while it reads its last file succeeds without it; and
the sweep may give back the folder that another connect has picked and not yet
pointed at, which the next review asks for again. A listing of the folder is atomic.

`ReviewProofs` proves both parts, as `ImportsWerePicked` and `CardsAreInside`, for
any emulators, files, versions, commands in flight and bounds (`BoundsAssumption`). What
the catalog holds is written by one action, from what a command has carried since the
user answered, while the list was replaced, the files changed and the folder was moved.
`ReviewInv` says of every command from the answer to the commit that whatever it carries
was agreed to (`Sound`); that needs the list that may be answered to be the one shown
under its token (`PreviewInv`), whichever scan stored it last. The scan, the validation
and the disk need nothing but their types.

`SourceLogin`: connect calls that open a window or join one, the window's reads of the
code, `begin_exchange`, the exchange, `settle`, `take`, the deadline, and the window
being closed. `OneVerdict`, a part of `SignInsHold`: what callers and events say of one
sign-in never disagrees, and nobody is told it is connected before the credential is
saved. A caller whose deadline passes is told so (`Late`), which is no verdict: the
sign-in may still be saved, and announced, after it. Two calls, hence two sessions. A
window closed under an exchange that succeeds
reads as closed although the credential is saved, and a caller that joined may hear
nothing because the other took the answer: both are what `settle` and `take` do.

`LibraryProofs` proves it as `OneVerdictEach`, for any number of calls, from
`NoneAssumption`: `VerdictInv` says that nothing is told of a sign-in that is not settled
and that an outcome in its slot is the one that was announced, so that taking it tells
nothing new, and `SavedInv` that an exchange that succeeded, and all that was said of it,
has its credential saved.

## The panel of an import

`RunnerImportPanel` is one profile on the panel of `runner-manager.ts`, and the table
of jobs of `runner_commands.rs` it shares with the other profiles (`StartOther`). A
click begins a call (`StartImport`, `CancelImport`, `SetLaunchMode`, `DeleteProfile`,
each when its button can be clicked), the host takes it up in its own time
(`StartCommand`, `StatusCommand`, `CancelCommand`, `DeleteCommand`), and the panel
acts on the answer later (`Answered`); `Fire` is the timer of a poll, `Finish` the
end of a worker, `FindArtwork` what follows an import that is ready. The generation
of polls is kept by what it does: when it moves on, the polls of the older one are
dropped (`Invalidated`).

`ImportsGoOn` says here, beside `ResumeSkipsNothing`, that an import shown as running
has a poll or a call that will move it, whatever was cancelled, changed or answered
late, and that the table keeps every job with a worker (`RunningIsWatched`); and that
an import shown as ready or cancelled ended that way (`EndIsTrue`). Two calls at a
time, two jobs, a table of one, so that a start meets a full table whose job runs or
has ended.

`RunnerProfilesProofs` proves both, as `ImportsAreWatched`, for any number of jobs, of
calls at once and of places in the table, from `PanelAssumption`. `EndIsTrue` is not
inductive: what is shown is what an answer said, which was true when the host gave it and
is shown later. `PanelInv` says it of every answer on its way as well (`TrueView`,
`TasksSound`), which is enough because what has ended stays as it ended (`EndsStay`). That
every worker has its job in the table (`JobsSound`) needs the bound of the table: a start
that meets a full one drops a job that has ended, or is refused.

In the model, with no run of its own:

- two clicks on Cancel, the second before the first is answered, make two live
  loops of polls, both of the current generation, each of which looks for artwork
  at the end. The comment at 619-628 says why that should not be;
- the answer of a start or of a cancel lands on a card whose mode was changed
  meanwhile: `setLaunchMode` drops polls, and not calls;
- "dropping the oldest" (`runner_commands.rs` 1079-1080) drops the first in the order
  of ids, which are digests: it may be the job that ended last, before its panel has
  read it, and an import that succeeded is then shown as failed;
- a thread that cannot be spawned leaves a job that runs for ever in the table, and
  twelve of them refuse every later import.

Left out: the end of the controller (`dispose`), after which nothing is shown, and
the other pollers.

## The credential of a store

`SourceCredentials` is one namespace of `sources.rs`: the items of the keychain, the
cache, and the list of connected stores with its file. A call to the keychain is one
action, with its failure another: `Read`; `Write` from the second piece on and the
first piece last, `Trim` of what a longer credential left, `Wipe` after a failed write;
`DeletePiece`. `Cache`, `List`, `Unlist` and `Uncache` take a lock each, and none is
held between them. `Restart` ends the program anywhere; `UserClears` is a person in
the keychain application. A refresh of a token is a load and, after a request, a save.
`promised` is a ghost: the outcome of the last save or disconnection that returned
without an error, met no other call and whose list was written.

`LastCallHolds` (a part of `SignInsHold`; two commands, a credential of one
piece and one of three): after such a save the keychain reads back that credential, after a
restart too, the cache agrees and the store is listed; after such a disconnection
nothing is left to read. The history before may be anything: saves that overlapped,
were cut or wiped in part, items cleared by hand, gaps.

`LibraryProofs` proves it, as `LastCallStands`, for any commands, credentials and number of
pieces, from `PiecesAssumption` and `ValuesAssumption`. Nothing is assumed of what the
keychain holds when a call begins, so the invariant follows the one call that met no other
(`Prepared`): which pieces a save has written so far, which of an older credential it has
still to trim, how far a disconnection has got. `Kept` takes over where the call returns:
the items read back whole, or none does, and only loads are under way, which change
neither, since a load that began before the promise is one that met the call (`Loading`
says what the others may still put in the cache).

Read loosely: "a failure keeps the previous credential addressable" (816) holds for
an item that cannot be opened, and not for one that cannot be written, since the wipe
begins with the first piece of the previous credential, even when nothing of the new
one has landed; the session goes on from the cache, and the next start finds the store
not connected. A head and a tail of two saves may parse ("rejected rather than
half-trusted" speaks of a gap): the model lets them be taken for a credential nobody
saved (`Torn`), and the property says when that is excluded.

## Artwork of a game

`GameMedia` is one game and one kind of artwork: `ApplySaved`, `ApplyImported`,
`ApplyOnline` (which joins a running download), `Import`, `Permit`, the reservation
of bytes (`Reserve` lists what may be swept, `Sweep` removes one file, `Reserved`
takes the budget, all under the registry lock, which neither the state nor the
directory takes), `Receive`, `Finish`, `Fail`, `Release`, `Publish`, `Register`,
with cancels, dropped commands and a process that dies.

Abstractions: a listing of the directory is atomic; a picked file does not change
size while it is copied; the poll of a follower is folded into `Publish`, and its
deadline is `GiveUp`; a removal may fail; export, the wallpaper download and videos
are left out.

`DownloadsHold` has two parts. `QuotaHolds`: the directory never holds more than
the quota, whichever of the five ways a promise of bytes is given back.
`EntriesHaveLeader`: every download in the registry has the one command that
completes it. Two requests and two artworks, contents of size 1 and 2, quota 3,
cap 2: two transfers fit only one at a time with a file saved.

`EpicInstallProofs`, which holds the theorems about `GameMedia` too (`D`), proves both for
any requests, contents, sizes, quota, cap and permits, from `SizesAssumption`:
`QuotaIsHeld` and `DownloadsAreLed`. The quota holds although each transfer measures the
directory while others write to it, and the invariant (`MediaInv`) says why. The bytes
promised are the sum of what the transfers under way were promised, so none is given back
twice or lost. What is on disk and what transfers may still write (`Allowed`, the budget or
the cap, whichever is less) fit the quota together. And while a directory is swept, they
are no more than the sweep has measured and what is promised to others: another transfer
may finish, fail or release meanwhile, and each only makes the measure generous; what a
removal subtracts was still there (`left` is a part of `saved`). A budget granted from
that measure then fits. Nobody is promised anything under the sweep, which holds the lock.
Sums are counts of units (`Bytes`, `Sum`), so that a term that changes is an argument on
cardinalities. `LeaderInv` is the other half: requests that lead are one for each entry.

In the model, with no run of its own: a sweep that listed the directory before an
artwork was registered removes its file, and the artwork, which reads as saved, is
refused from then on.

A dead process's `.part` files are counted and never removed, since the comment
takes them for downloads that are still running; the quota holds, and shrinks. A
request that joins a download which is already cancelled is answered "cancelled".

## Pictures of a card

`ArtworkSlots` is one game: the slots of its cover and its background, the files
they name in a cache that the system may empty (`Prune`), and the commands that
fill them. `Start` is `reset_game_artwork`, `fetch_runner_profile_artwork`,
`fetch_game_artwork`, the background top-up or `set_home_image`, each with the
condition it is begun under; then, with no lock, a search for each role finds
nothing (`NotFound`) or a picture, which sweeps the old files (`Sweep`) and is
written (`Write`); `Commit` sets the slots under `catalog_mutation`, or fails.
The picture a store published is a file like the others. Landscape and logo are
left out: each has a slot of its own, as the cover has.

`NothingTakenAway` (run `library`: three commands on the background, and two on both
roles): no step of a top-up changes a slot that shows a picture or removes its file,
"even one chosen while the search was running". The other commands promise less and keep
less. `RunnerProfilesProofs` proves `GapsAreFilled` (`TopUpFillsGaps`) for any commands,
from `RolesAssumption`. The step that could go wrong is the commit, which sets what is
missing by then and removes the pictures it wrote for what is not: `SlotsInv` says that
a slot names what the store published or the picture of a command that is over, and so
no picture of the command that commits. A fill and an unforced fetch decide before their
search and write over a picture chosen meanwhile; a reset sweeps before a write that may
fail; `set_home_image` sweeps a file that the hero slot may still name.

## Cards of the library

`LibraryCards` is the list of games and the private records behind it, with one
action for each commit of the catalog: `CreateProfile`, `ImportPage` (an entry is
filed by `File`: `Host` is the card of that title, `Attach` gives it the way to
start, and a card of its own is dropped), `RemoveProfile` with `Detach`, `AddRom`;
`SyncStore` and `ForgetStore`; `AddDirect` (what can be given to Wine then is),
`GiveToWine`, `ScanWine`, `RemoveWineProfile`; and `RemoveGame`, of a card of the
`Shelf` that `presentation_catalog` shows. A way to start is an owner and a game,
and a card is known by its own. `removed` is a ghost: the ways the user removed
with their card since they were imported. Left out: the hidden mark, play time and
pictures, retitled games, a second Wine profile, and the Winlator and console
cards, which are inserted and removed as Wine's are.

- `EveryWayHasEntry`: every way a card offers has the record a launch reads, and
  its profile. `validate` looks at the first way of a card only.
- `ImportFilesEachGame`: a page leaves one card for each of its games, offered by
  a card of its store or folder if there is one.
- `library_ways` finds `WaysAreShown` violated. A refresh puts the incoming record
  in the place of the card, whose list of other ways is empty: a store sync takes
  away what an import had added, until the next import of that runner. The same
  is lost on the Direct card that hides behind its Wine card, on the card of a
  profile that is removed, and within a page that lists a new file before
  another of its title.
- `library_removal` finds `CardsCanBeRemoved` violated. The removal of the Wine
  card of a Direct game leaves the entry that names the Direct game, whose card is
  shown again; removing that one is then refused, because the association would
  dangle.

In `library`, two profiles with two games of one title beside a store that has it
too, and one profile, a store, a Direct game and Wine with two titles. Two profiles,
because the host of one may be the card of the other; games of one title, because
titles that differ never meet, and a second title so that a page may hold both.

`RunnerProfilesProofs` proves both, as `WaysAreRecorded` and `PagesAreFiled`, for any
profiles, games and titles and pages of any length, from `GamesAssumption`. What a page
and a removal do is a walk over a sequence (`Keep`, `FileAll`), written as a recursive
function; that there is such a function, and what it leaves after each step, is shown by
the least place where it would fail (`KeepExists`, `KeepIs`, `FilingExists`,
`FileAllIs`). Of one entry, `FileIs` says that its card is alone under its title or
that another card of the title, a runner's only if they all are, has its way and its own
card is gone. `FileServes` and `FileSpares` carry the page: an entry is filed when its
turn comes, and stays filed while the others are, but that a later game of the same title
may be the one whose own card, dropped, had its way; hence `FiledOnce` asks for the offer
only of a game whose title is alone in the page. `CardsInv`, the inductive invariant, is that no
two cards are of one way, the types, and that each way a card offers, first or not, is
recorded: a page records what it files, and what removes a record removes the ways with
it (`Detach`; the Wine cards, of which no other card holds a way).

What Wine's card of a Direct game starts with is a copy that leaves out the hidden
mark and some of the pictures, so a hidden game shows again; and a card that is
folded into another takes its play time with it. No document says otherwise.

## The shelf of the Store pages

`StoreShelf` is the document of `store.rs`: the games on the shelf, the time each
price was verified at, the time each game's platforms were asked for, and whether
Steam answered. `Begin` is the lock and the snapshot of `refresh_store_sources`;
`Publish` is the rest up to the first write (`Rebuilt` from the catalogue and the
listings, then `Kept` and `Carried` from the snapshot), with every answer the
storefronts may give; `Enrich` asks IGDB in batches, of which any may be the last,
and writes again. A document may be lost (`Forget`), a refresh may end anywhere.

`NothingTakenAway` says here that a refresh Steam failed leaves no fewer live games
than there were, and that no answer of IGDB is replaced by an older one or none.
It rests on the lock: two refreshes at once break it. `EpicInstallProofs` proves it, as
`AnswersAreKept`, for any catalogue, releases, apps, batches, intervals and clock, from
`ShelfAssumption`: `ShelfInv` says that one refresh runs and that the document on disk is
the one it read or wrote last, or was lost, so that what it carries over is what is there;
and that no answer is dated later than what the refresh takes for now. The comparison of
live games is between two finite sets, one within the other. One game of the catalogue,
two new releases, one of the App Store, batches of one, and a clock to 4 with
intervals of 2, so that a healthy refresh and an answer both go stale.

Read loosely: only a Steam *price* that fails counts as a refresh that "could not
reach the storefronts" (2890). If the prices answer and a listing does not, its
games leave the shelf, and their answers with them. "The remaining games keep the
price they have" (2007) is the price the catalogue ships with. A clock that is set
back stops refreshes until it catches up, since the difference saturates at 0; the
model's clock is not set back.

## Installing a title under Wine

`QuikyInstall` is one title of `quiky_installer.rs`: the entry of the table of jobs,
the installs behind it (`task`), the `.part` file, the package, the folder of the
game, and whether an installer runs that nobody waits for (`orphan`). `Start`,
`Cancel`, `Reuse` or `Connect`, `Receive`, `Store`, `Prepare`, `Attempt` and its
three ends are the code's steps, each with its failures; `Quit` ends the program
and leaves the files and the processes; the plugin may list a newer package
(`NewVersion`) while the old one downloads.

`DownloadsHold` says here: an installer that runs is the one whose digest was checked
(`OnlyVerifiedRuns`), though what is hashed is the stream and what runs is the file;
none runs beside one left over (`OneInstaller`); and the table calls installed what has
files and busy what is running (`JobIsTrue`). Two installs, two chunks, two versions: a
second install starts over what a first one left, at any of its steps. `LibraryProofs`
proves the three, as `InstallsStand`, for any number of installs, pieces and versions,
from `InstallAssumption`: `QuikyInv` says that an install that is not idle is the one
the table names, so there is one, and that from `ready` on the package it will run is
whole and of the version it checked. With what is proved of `GameMedia` this is
`DownloadsStand` of `ComposedProofs`, the property of the run. That the server of Wine ends all processes of
the prefix within the 15 seconds it is given is assumed.

The model shows, without a run of its own: the second attempt begins over what the
first left, although the comment at 1434 says why it should not; a cancel leaves
the folder half written, which the library page reads as installed; a stalled
stream is not cancelled, since the flag is read when a piece arrives. Left out: the
FitGirl pipeline; two titles with one folder name, which empty each other's; the
card a finished install adds to the library, which is `AddDirect` of `LibraryCards`.

## Opening an older library

`CatalogMigration` is a start of the application on a library of an older build,
whose local games are renamed in two files. `Load` reads the catalog, `Backup`
copies it under the first free name, `Stage` rewrites the state of the games in
memory, `Commit` and `Save` publish the two by a rename each, `Verify` reads the
catalog back, and `RestoreState` and `RestoreCatalog` undo both. Any call may fail,
`Stop` may come before any, and a client that syncs files may put the older
catalog back (`Resync`), which is what `verify_published` is there for. Between
starts the older build may open what it wrote and change it (`UseOlder`); a
start that succeeds is used (`Use`).

`NothingOrphaned` (run `library`: two imports, three backups, two edits) says that
a library that opens has its last edit, and shows everything ever imported and
the last selection. One of the imports may be made under the old id and one under
the new, which is what a merge has to get right; the third attempt of a migration
finds no free name. There a catalog that is as it was written can be read back.
`catalog_restore` drops that: the state of the games is put back, the catalog is
not, because the second call fails or the process stops, and every later start
finds a migrated catalog over a state nobody migrates again.

`LibraryProofs` proves it, as `NothingIsLost`, for any pictures, backups and edits, where a
catalog can be read back (`ReadBackFails = FALSE`: `catalog_restore` shows what happens
without that). `MigrationInv` says of the state of the games, of what a start has staged
and of what it would put back that each shows all there is (`Shows`), under the old id, the
new or both; that a start that has begun to migrate holds a backup which is the library
as it is; and that a migrated catalog has a copy of it among the backups and no game under
the old id. That staging shows all of what it read is a lemma on the merge of the two ids.

Left out: what each migration does to a record; a state file that does not
parse, which is put aside before any of this; the older user interface, which
opens the same files; two processes on one library, which no lock prevents;
and a power cut, after which the catalog, saved without a flush, may be empty.

## Plan

Done: the store with its promise; the scheduler with its
promise; the host's limits; the index and the compile cache; profiles, grants and
imports; Epic; the set-up, import, review and sign-in protocols; artwork and the pictures
of a card; the migration of the library and its cards; the shelf of the Store
pages; the install of a title under Wine; the credential of a store; the panel of an
import. Next, in this order:

1. The FitGirl pipeline, which has a job like the one of `QuikyInstall`.
2. The other pollers of `src/*.ts`: installs, updates, launches.

Proved, for any values of the constants: every property of the store and of the scheduler
that a run checks, but liveness, with both refinements; and of the components of
`library` and `plugins`,

| theorem of `ComposedProofs` | property of the run | from |
| --- | --- | --- |
| `GrantsAreGiven`, `ReadsAreAllowed` | `GrantsFollowConsent`, `ReadsWithConsent` | `RunnerProfilesProofs` |
| `ImportsStand` | `ImportsGoOn` | `RunnerProfilesProofs`, profiles and panel |
| `SignInsStand` | `SignInsHold` | `LibraryProofs`, sign-in and credentials |
| `RecordsAreComplete` | `RecordedIsComplete` | `EpicInstallProofs` |
| `DownloadsStand` | `DownloadsHold` | `EpicInstallProofs`, artwork; `LibraryProofs`, Quiky |
| `WaysStand`, `PagesStand` | `EveryWayHasEntry`, `ImportFilesEachGame` | `RunnerProfilesProofs`, cards |
| `NothingIsLost` | `NothingOrphaned` | `LibraryProofs`, migration |
| `NothingIsTaken` | `NothingTakenAway` | `RunnerProfilesProofs`, pictures; `EpicInstallProofs`, shelf |
| `RemovalAlone`, `UndoKeeps` | `OnlyRemovalUninstalls`, `UndoKeepsInstalled` | `PluginStoreProofs` |
| `IndexGoesForward` | `LoneRefreshNeverFallsBack` | `ReviewProofs`, index |
| `ReadyIsConfirmable`, `PicksStand` | `ReadyHasTarget`, `ManualChoiceStands` | `WineProofs`, set-up |
| `ReviewsAreHeld` | `ReviewHolds` | `ReviewProofs`, both reviews; `WineProofs`, links |
| `ImportsObey` | `ImportsFollowUser` | `WineProofs`, imports |
| `CeilingsAreHeld` | `CeilingsHold` | `PluginSchedulerProofs`, host, journal and cache |

The assumptions are the named ones of the component modules: mostly that a placeholder such
as `None` is not a value of the data it stands beside, that a set of jobs or commands is
finite where it is counted, and that a bound is a number. Those that say more are named
where the theorem is described: the sets of calls that must not fail, `FoldersAssumption`,
and `ReadBackFails = FALSE`.

Model-checked only, and why:

- liveness (`EveryWaiterAnswered`, `EveryJobLeavesQueue`, `ClosingFinishes`, `CallsEnd`,
  `EveryOperationSettles`), which needs ENABLED;
- the type invariants of the two composed runs, which say no more than those of their
  components, proved where a proof needs them.

## Not modelled

Network requests, parsing and validation of documents, rendering, the vendored
patches, generated catalogs, assets and scripts: they hold no state whose order
matters here. Launch spawns a process, or sends an intent, from one snapshot. The
registry and the manifest read and judge a directory: their verdict is a
nondeterministic choice of `PluginStore`. Plugin health is a projection of the
scheduler. Wallpaper search and game streaming are requests and answers of other
people's servers. Preferences are one document, written whole.
The order of writes that reach the disk is the order of the calls: a power cut
that reorders them is not modelled anywhere. Components that do have such state
and are not yet modelled are in the plan.
