----------------------------- MODULE PluginStore -----------------------------
(****************************************************************************)
(* The on-disk transaction of src-tauri/src/plugin_update.rs, for one       *)
(* plugin: install, rollback, remove, start-up recovery and the staging     *)
(* sweep, one action per filesystem call, with a crash possible before,     *)
(* after and inside each of them.                                           *)
(*                                                                          *)
(* The store's gate lets one operation run at a time, so there is a single  *)
(* program counter: "idle" is the gate being free.  `then` is where the     *)
(* operation goes on once the recovery it starts with has settled.          *)
(****************************************************************************)
EXTENDS Naturals, PackageTree

CONSTANTS
    Components,  \* digests of component.wasm
    Signers,     \* the release keys this build compiles in
    Unsigned,    \* the Development channel
    Torn,        \* a file whose writing was cut
    FaultSites   \* the steps whose filesystem call may fail

Channels == Signers \cup {Unsigned}
Package == [version : Nat, channel : Channels, component : Components]

Record ==   \* OperationRecord: this version is replacing that one
    [kind : {"install", "rollback"}, version : Nat, channel : Channels,
     displacedVersion : Nat \cup {Absent}, displacedChannel : Channels]
Marker == [signer : Signers, component : Components]

Operation ==
    [kind : {"install"}, package : Packages, guarded : BOOLEAN]
        \cup [kind : {"rollback", "remove", "startup", "sweep"}]

ASSUME PackagesAssumption == Packages \subseteq Package

ASSUME ValuesAssumption ==
    /\ Unsigned \notin Signers
    /\ Absent # Torn
    /\ Absent \notin Tree /\ Absent \notin Nat /\ Absent \notin Operation /\ Absent \notin Components
    /\ Absent \notin Record /\ Torn \notin Record
    /\ Absent \notin Marker /\ Torn \notin Marker

VARIABLES
    live,      \* <root>/<id>/, the only tree discovery reads
    previous,  \* .versions/<id>/previous/, the rollback target
    staged,    \* .staging/<id>~new/, the unpacked candidate
    discard,   \* .staging/<id>~discard/, a tree on its way out
    kept,      \* .versions/<id>/previous.json
    journal,   \* .journal/<id>.json
    smoke,     \* .journal/<id>.smoke exists: the live tree is unproven
    trust,     \* .staging/trusted/<id>: who signed the live component
    pc,        \* the next step of the operation that holds the gate
    then,      \* where that operation continues after its recovery
    op,        \* the operation
    rec,       \* the record it works from, in memory
    boot       \* what start-up maintenance has still to do

trees == <<live, previous, staged, discard>>
marks == <<kept, journal, smoke, trust>>
disk == <<trees, marks>>
vars == <<live, previous, staged, discard, kept, journal, smoke, trust,
          pc, then, op, rec, boot>>

------------------------------------------------------------------------------
(* Reading the disk *)

Whole(package) == [package |-> package, files |-> Files, proved |-> FALSE]

\* Nothing reads a tree in staging once its removal has begun: what a cut leaves
\* of one matters only as a directory with something in it.
Litter == [package |-> CHOOSE package \in Packages : TRUE, files |-> {"component"}, proved |-> FALSE]
Scrap(tree) == IF tree = Absent THEN {} ELSE {Litter}

\* write_tree writes the files in the order of their names.
Unpacked(package) == {[Whole(package) EXCEPT !.files = f] : f \in {{}, {"component"}, Files}}

\* installed_version and component_digest: what the tree's own files say.
VersionIn(tree) ==
    IF tree # Absent /\ "manifest" \in tree.files THEN tree.package.version ELSE Absent
DigestIn(tree) ==
    IF tree # Absent /\ "component" \in tree.files THEN tree.package.component ELSE Absent

\* recorded_channel: the marker counts only for the bytes it was written for.
RecordedChannel(digest) ==
    IF trust \in Marker /\ trust.component = digest THEN trust.signer ELSE Unsigned

\* identity(...).map_or(Development, channel)
LiveChannel ==
    IF VersionIn(live) # Absent /\ DigestIn(live) # Absent
    THEN RecordedChannel(DigestIn(live)) ELSE Unsigned

RollbackTarget ==
    journal = Absent /\ previous # Absent /\ kept # Absent /\ kept.displacedVersion # Absent

\* A rename cannot land on a directory that has something in it.
Occupied(tree) == tree # Absent /\ tree.files # {}

------------------------------------------------------------------------------
(* Steps *)

Fails == pc \in FaultSites

\* What a removal at this step may leave at the path.
RemovalOf(tree) == {Absent} \cup (IF Fails THEN Remnants(tree) ELSE {})
ScrapOf(tree) == {Absent} \cup (IF Fails THEN Scrap(tree) ELSE {})
UnlinkOf(file) == {Absent} \cup (IF Fails THEN {file} ELSE {})

Goto(step) == pc' = step /\ UNCHANGED <<then, op, rec, boot>>

Finish ==   \* the operation returns and releases the gate
    /\ pc' = "idle" /\ then' = "idle" /\ op' = Absent /\ rec' = Absent
    /\ UNCHANGED boot

Resume ==   \* recover_plugin returns to its caller
    \/ then = "idle" /\ Finish
    \/ then # "idle" /\ pc' = then /\ then' = "idle" /\ rec' = Absent /\ UNCHANGED <<op, boot>>

\* Mutant: the digest is not required to be readable.
WriteTrustUnread(channel, onSuccess, onError) ==
    /\ trust' = IF channel = Unsigned THEN Absent
                ELSE [signer |-> channel, component |-> DigestIn(live)]
    /\ Goto(onSuccess)

\* write_trust: the marker is written for the component that is live now.
WriteTrust(channel, onSuccess, onError) ==
    \/ /\ channel = Unsigned
       /\ trust' \in UnlinkOf(trust)
       /\ Goto(onSuccess)
    \/ /\ channel # Unsigned /\ DigestIn(live) # Absent
       /\ trust' = [signer |-> channel, component |-> DigestIn(live)]
       /\ Goto(onSuccess)
    \/ /\ channel # Unsigned /\ (DigestIn(live) = Absent \/ Fails)
       /\ trust' \in {trust} \cup (IF Fails THEN {Torn} ELSE {})
       /\ Goto(onError)

------------------------------------------------------------------------------
(* Install: recover_plugin, then check ... commit *)

FirstStep(kind) ==
    CASE kind = "install" -> "check"
      [] kind = "rollback" -> "target"
      [] kind = "remove" -> "remove"

\* Only the registry's doors ask for the guard, and they take signed packages.
Begin ==
    /\ pc = "idle"
    /\ op' \in {o \in Operation : o.kind \in {"install", "rollback", "remove"}}
    /\ op'.kind = "install" /\ op'.guarded => op'.package.channel # Unsigned
    /\ pc' = "recover" /\ then' = FirstStep(op'.kind)
    /\ UNCHANGED <<disk, rec, boot>>

\* Mutant: without the refusal of an unsigned build over a signed one.
CheckVersionOnly ==
    /\ pc = "check"
    /\ op.guarded /\ VersionIn(live) # Absent => op.package.version > VersionIn(live)
    /\ rec' = [kind |-> "install",
               version |-> op.package.version, channel |-> op.package.channel,
               displacedVersion |-> VersionIn(live), displacedChannel |-> LiveChannel]
    /\ pc' = "stage"
    /\ UNCHANGED <<disk, then, op, boot>>

\* Mutant: without the second look at the live version.
CheckChannelOnly ==
    /\ pc = "check"
    /\ ~(op.package.channel = Unsigned /\ LiveChannel # Unsigned)
    /\ rec' = [kind |-> "install",
               version |-> op.package.version, channel |-> op.package.channel,
               displacedVersion |-> VersionIn(live), displacedChannel |-> LiveChannel]
    /\ pc' = "stage"
    /\ UNCHANGED <<disk, then, op, boot>>

\* An unsigned build never replaces a signed one, and a guarded install is
\* refused unless it is newer than the version that is live under the gate.
Check ==
    /\ pc = "check"
    /\ \/ /\ \/ op.package.channel = Unsigned /\ LiveChannel # Unsigned
             \/ /\ op.guarded /\ VersionIn(live) # Absent
                /\ ~(op.package.version > VersionIn(live))
          /\ Finish
       \/ /\ ~(op.package.channel = Unsigned /\ LiveChannel # Unsigned)
          /\ op.guarded /\ VersionIn(live) # Absent => op.package.version > VersionIn(live)
          /\ rec' = [kind |-> "install",
                     version |-> op.package.version, channel |-> op.package.channel,
                     displacedVersion |-> VersionIn(live), displacedChannel |-> LiveChannel]
          /\ pc' = "stage" /\ UNCHANGED <<then, op, boot>>
    /\ UNCHANGED disk

Stage ==
    /\ pc = "stage"
    /\ \/ staged' = Whole(op.package) /\ Goto("preflight")
       \/ Fails /\ staged' \in Unpacked(op.package) \cup {staged, Absent} /\ Finish
    /\ UNCHANGED <<live, previous, discard, marks>>

Preflight ==    \* verify(staged, Staged): a refusal costs the candidate only
    /\ pc = "preflight"
    /\ \/ UNCHANGED staged /\ Goto("clear_record")
       \/ staged' \in ScrapOf(staged) /\ Finish
    /\ UNCHANGED <<live, previous, discard, marks>>

ClearRecord ==
    /\ pc = "clear_record"
    /\ kept' \in UnlinkOf(kept)
    /\ Goto("clear_previous")
    /\ UNCHANGED <<trees, journal, smoke, trust>>

ClearPrevious ==
    /\ pc = "clear_previous"
    /\ previous' \in RemovalOf(previous)
    /\ Goto("journal")
    /\ UNCHANGED <<live, staged, discard, marks>>

\* Not atomic: the file is created, then written.
WriteJournal ==
    /\ pc = "journal"
    /\ \/ /\ journal' = rec
          /\ Goto(IF rec.kind = "install" THEN "archive" ELSE "clear_discard")
       \/ Fails /\ journal' \in {journal, Torn} /\ Finish
    /\ UNCHANGED <<trees, kept, smoke, trust>>

ArchiveLive ==
    /\ pc = "archive"
    /\ \/ live = Absent /\ UNCHANGED <<live, previous>> /\ Goto("mark")
       \/ /\ live # Absent /\ ~Occupied(previous)
          /\ previous' = live /\ live' = Absent
          /\ Goto("mark")
       \/ /\ live # Absent /\ (Occupied(previous) \/ Fails)
          /\ UNCHANGED <<live, previous>>
          /\ Goto("undo")
    /\ UNCHANGED <<staged, discard, marks>>

\* Mutant: the tree is promoted without its marker.
MarkNothing == pc = "mark" /\ Goto("promote") /\ UNCHANGED disk

MarkUnproven ==
    /\ pc = "mark"
    /\ \/ smoke' = TRUE /\ Goto("promote")
       \/ Fails /\ UNCHANGED smoke /\ Goto("undo")
    /\ UNCHANGED <<trees, kept, journal, trust>>

\* Mutant: a failed promotion clears the operation instead of undoing it.
PromoteOrClear ==
    /\ pc = "promote"
    /\ \/ live' = staged /\ staged' = Absent /\ Goto("prove")
       \/ Fails /\ UNCHANGED <<live, staged>> /\ Goto("clear_journal")
    /\ UNCHANGED <<previous, discard, marks>>

PromoteStaged ==
    /\ pc = "promote"
    /\ \/ live' = staged /\ staged' = Absent /\ Goto("prove")
       \/ Fails /\ UNCHANGED <<live, staged>> /\ Goto("undo")
    /\ UNCHANGED <<previous, discard, marks>>

\* Mutant: a refusal at the final path is returned, not undone.
SmokeTestReturning ==
    /\ pc = "prove"
    /\ \/ live' = [live EXCEPT !.proved = TRUE] /\ Goto("unmark")
       \/ UNCHANGED live /\ Finish
    /\ UNCHANGED <<previous, staged, discard, marks>>

SmokeTest ==    \* verify(live, Live), asked until it is conclusive
    /\ pc = "prove"
    /\ \/ live' = [live EXCEPT !.proved = TRUE] /\ Goto("unmark")
       \/ UNCHANGED live /\ Goto("undo")
    /\ UNCHANGED <<previous, staged, discard, marks>>

Unmark ==
    /\ pc = "unmark"
    /\ smoke' = FALSE \/ (Fails /\ UNCHANGED smoke)
    /\ Goto("trust_install")
    /\ UNCHANGED <<trees, kept, journal, trust>>

TrustInstall ==
    /\ pc = "trust_install"
    /\ WriteTrust(rec.channel, "commit", "recover")
    /\ UNCHANGED <<trees, kept, journal, smoke>>

\* Mutant: the record kept names the version that came in.
CommitIncoming ==
    /\ kept' = IF rec.displacedVersion # Absent
               THEN [journal EXCEPT !.displacedVersion = journal.version] ELSE kept
    /\ journal' = Absent

\* commit_install: the journal becomes the rollback target's description.
CommitRename ==
    /\ kept' = IF rec.displacedVersion # Absent THEN journal ELSE kept
    /\ journal' = Absent

Commit ==
    /\ pc = "commit"
    /\ \/ CommitRename /\ Finish
       \/ /\ Fails /\ UNCHANGED <<kept, journal>>
          /\ IF rec.displacedVersion # Absent THEN Goto("recover") ELSE Finish
    /\ UNCHANGED <<trees, smoke, trust>>

------------------------------------------------------------------------------
(* undo_install: put back what an install displaced, by what is on disk *)

\* Mutant: a missing previous/ is always read as a first install.
UndoAsFirst ==
    /\ pc = "undo"
    /\ Goto(CASE previous # Absent /\ live # Absent -> "undo_clear"
              [] previous # Absent /\ live = Absent -> "restore"
              [] OTHER -> "undo_first")
    /\ UNCHANGED disk

Undo ==
    /\ pc = "undo"
    /\ Goto(CASE previous # Absent /\ live # Absent -> "undo_clear"
              [] previous # Absent /\ live = Absent -> "restore"
              [] previous = Absent /\ rec.displacedVersion = Absent -> "undo_first"
              [] OTHER -> "trust_displaced")
    /\ UNCHANGED disk

UndoClearDiscard ==
    /\ pc = "undo_clear"
    /\ discard' \in ScrapOf(discard)
    /\ Goto("undo_discard")
    /\ UNCHANGED <<live, previous, staged, marks>>

UndoDiscardLive ==
    /\ pc = "undo_discard"
    /\ \/ ~Occupied(discard) /\ discard' = live /\ live' = Absent
       \/ (Occupied(discard) \/ Fails) /\ UNCHANGED <<live, discard>>
    /\ Goto("restore")
    /\ UNCHANGED <<previous, staged, marks>>

Restore ==      \* also restore_previous; an error is ignored
    /\ pc = "restore"
    /\ \/ ~Occupied(live) /\ live' = previous /\ previous' = Absent
       \/ (Occupied(live) \/ Fails) /\ UNCHANGED <<live, previous>>
    /\ Goto("trust_displaced")
    /\ UNCHANGED <<staged, discard, marks>>

TrustDisplaced ==
    /\ pc = "trust_displaced"
    /\ WriteTrust(rec.displacedChannel, "clear_journal", "clear_journal")
    /\ UNCHANGED <<trees, kept, journal, smoke>>

UndoFirst ==
    /\ pc = "undo_first"
    /\ live' \in RemovalOf(live)
    /\ Goto("untrust")
    /\ UNCHANGED <<previous, staged, discard, marks>>

Untrust ==
    /\ pc = "untrust"
    /\ trust' \in UnlinkOf(trust)
    /\ Goto("clear_journal")
    /\ UNCHANGED <<trees, kept, journal, smoke>>

------------------------------------------------------------------------------
(* clear_operation: the journal goes first *)

ClearJournal ==
    /\ pc = "clear_journal"
    /\ journal' \in UnlinkOf(journal)
    /\ Goto("clear_smoke")
    /\ UNCHANGED <<trees, kept, smoke, trust>>

ClearSmoke ==
    /\ pc = "clear_smoke"
    /\ smoke' = FALSE \/ (Fails /\ UNCHANGED smoke)
    /\ Goto("drop_discard")
    /\ UNCHANGED <<trees, kept, journal, trust>>

DropDiscard ==
    /\ pc = "drop_discard"
    /\ discard' \in ScrapOf(discard)
    /\ Goto("drop_staged")
    /\ UNCHANGED <<live, previous, staged, marks>>

DropStaged ==
    /\ pc = "drop_staged"
    /\ staged' \in ScrapOf(staged)
    /\ Resume
    /\ UNCHANGED <<live, previous, discard, marks>>

------------------------------------------------------------------------------
(* Rollback *)

Target ==
    /\ pc = "target"
    /\ \/ ~RollbackTarget /\ Finish
       \/ /\ RollbackTarget
          /\ rec' = [kind |-> "rollback",
                     version |-> kept.displacedVersion, channel |-> kept.displacedChannel,
                     displacedVersion |-> VersionIn(live), displacedChannel |-> LiveChannel]
          /\ pc' = "journal" /\ UNCHANGED <<then, op, boot>>
    /\ UNCHANGED disk

ClearDiscard ==
    /\ pc = "clear_discard"
    /\ discard' \in ScrapOf(discard)
    /\ Goto("discard_live")
    /\ UNCHANGED <<live, previous, staged, marks>>

\* The two renames end in `?`: an error returns with the journal in place.
DiscardLive ==
    /\ pc = "discard_live"
    /\ \/ live = Absent /\ UNCHANGED <<live, discard>> /\ Goto("promote_previous")
       \/ /\ live # Absent /\ ~Occupied(discard)
          /\ discard' = live /\ live' = Absent
          /\ Goto("promote_previous")
       \/ live # Absent /\ (Occupied(discard) \/ Fails) /\ UNCHANGED <<live, discard>> /\ Finish
    /\ UNCHANGED <<previous, staged, marks>>

PromotePrevious ==
    /\ pc = "promote_previous"
    /\ \/ live' = previous /\ previous' = Absent /\ Goto("trust_rollback")
       \/ Fails /\ UNCHANGED <<live, previous>> /\ Finish
    /\ UNCHANGED <<staged, discard, marks>>

\* Mutant: the version returned to inherits the badge of the one left.
TrustRollbackLeft ==
    /\ pc = "trust_rollback"
    /\ WriteTrust(rec.displacedChannel, "forget", "forget")
    /\ UNCHANGED <<trees, kept, journal, smoke>>

TrustRollback ==
    /\ pc = "trust_rollback"
    /\ WriteTrust(rec.channel, "forget", "forget")
    /\ UNCHANGED <<trees, kept, journal, smoke>>

Forget ==       \* finish_rollback
    /\ pc = "forget"
    /\ kept' \in UnlinkOf(kept)
    /\ Goto("clear_journal")
    /\ UNCHANGED <<trees, journal, smoke, trust>>

------------------------------------------------------------------------------
(* Removal: no journal, the tree first *)

RemoveLive ==
    /\ pc = "remove"
    /\ \/ live = Absent /\ UNCHANGED live /\ Finish
       \/ live # Absent /\ live' = Absent /\ Goto("remove_trust")
       \/ live # Absent /\ Fails /\ live' \in Remnants(live) /\ Finish
    /\ UNCHANGED <<previous, staged, discard, marks>>

RemoveTrust ==
    /\ pc = "remove_trust"
    /\ trust' \in UnlinkOf(trust)
    /\ Goto("remove_versions")
    /\ UNCHANGED <<trees, kept, journal, smoke>>

RemoveVersions ==
    /\ pc = "remove_versions"
    /\ kept' \in UnlinkOf(kept) /\ previous' \in RemovalOf(previous)
    /\ Goto("clear_journal")
    /\ UNCHANGED <<live, staged, discard, journal, smoke, trust>>

------------------------------------------------------------------------------
(* recover_plugin: the row is chosen by the directories that exist *)

\* Mutants: recovery trusts every promoted tree, and recovery trusts none.
InstallRowTrusting ==
    CASE staged # Absent -> "scrap_staged"
      [] staged = Absent /\ live # Absent -> "trust_settle"
      [] staged = Absent /\ live = Absent /\ previous # Absent -> "restore"
      [] OTHER -> "clear_journal"
InstallRowDistrusting ==
    CASE staged # Absent -> "scrap_staged"
      [] staged = Absent /\ live # Absent -> "undo"
      [] staged = Absent /\ live = Absent /\ previous # Absent -> "restore"
      [] OTHER -> "clear_journal"

InstallRow ==
    CASE staged # Absent -> "scrap_staged"
      [] staged = Absent /\ live # Absent /\ smoke -> "undo"
      [] staged = Absent /\ live # Absent /\ ~smoke /\ previous # Absent -> "trust_settle"
      [] staged = Absent /\ live # Absent /\ ~smoke /\ previous = Absent ->
            IF journal.displacedVersion = Absent THEN "trust_first" ELSE "trust_displaced"
      [] staged = Absent /\ live = Absent /\ previous # Absent -> "restore"
      [] OTHER -> "clear_journal"

\* Mutant: a rollback cut between its two renames is taken for one not begun.
RollbackRowUnbegun ==
    CASE previous # Absent -> "clear_journal"
      [] live # Absent /\ previous = Absent -> "trust_rollback"
      [] OTHER -> IF discard # Absent THEN "return_discard" ELSE "clear_journal"

RollbackRow ==
    CASE live # Absent /\ previous # Absent -> "clear_journal"
      [] live = Absent /\ previous # Absent -> "finish_promote"
      [] live # Absent /\ previous = Absent -> "trust_rollback"
      [] OTHER -> IF discard # Absent THEN "return_discard" ELSE "clear_journal"

Recover ==
    /\ pc = "recover"
    /\ \/ journal = Absent /\ Resume
       \/ journal = Torn /\ Goto("abandon")
       \/ /\ journal \in Record
          /\ rec' = journal
          /\ pc' = IF journal.kind = "install" THEN InstallRow ELSE RollbackRow
          /\ UNCHANGED <<then, op, boot>>
    /\ UNCHANGED disk

\* Mutant: an unreadable journal is left where it is.
AbandonNothing == pc = "abandon" /\ Goto("abandon_smoke") /\ UNCHANGED disk

Abandon ==      \* an unreadable journal never touches the live tree
    /\ pc = "abandon"
    /\ journal' \in UnlinkOf(journal)
    /\ Goto("abandon_smoke")
    /\ UNCHANGED <<trees, kept, smoke, trust>>

AbandonSmoke ==
    /\ pc = "abandon_smoke"
    /\ smoke' = FALSE \/ (Fails /\ UNCHANGED smoke)
    /\ Resume
    /\ UNCHANGED <<trees, kept, journal, trust>>

ScrapStaged ==  \* nothing was promoted
    /\ pc = "scrap_staged"
    /\ staged' \in ScrapOf(staged)
    /\ Goto(CASE live # Absent -> "scrap_previous"
              [] live = Absent /\ previous # Absent -> "restore"
              [] OTHER -> "clear_journal")
    /\ UNCHANGED <<live, previous, discard, marks>>

ScrapPrevious ==
    /\ pc = "scrap_previous"
    /\ previous' \in RemovalOf(previous)
    /\ Goto("clear_journal")
    /\ UNCHANGED <<live, staged, discard, marks>>

TrustSettle ==  \* promoted and proved: only the commit was missing
    /\ pc = "trust_settle"
    /\ WriteTrust(rec.channel, "commit_settle", "commit_settle")
    /\ UNCHANGED <<trees, kept, journal, smoke>>

CommitSettle ==
    /\ pc = "commit_settle"
    /\ CommitRename \/ (Fails /\ UNCHANGED <<kept, journal>>)
    /\ Resume
    /\ UNCHANGED <<trees, smoke, trust>>

TrustFirst ==
    /\ pc = "trust_first"
    /\ WriteTrust(rec.channel, "clear_journal", "clear_journal")
    /\ UNCHANGED <<trees, kept, journal, smoke>>

FinishPromote ==
    /\ pc = "finish_promote"
    /\ \/ live' = previous /\ previous' = Absent
       \/ Fails /\ UNCHANGED <<live, previous>>
    /\ Goto("trust_rollback")
    /\ UNCHANGED <<staged, discard, marks>>

ReturnDiscard ==
    /\ pc = "return_discard"
    /\ \/ live' = discard /\ discard' = Absent
       \/ Fails /\ UNCHANGED <<live, discard>>
    /\ Goto("trust_displaced")
    /\ UNCHANGED <<previous, staged, marks>>

------------------------------------------------------------------------------
(* Start-up maintenance, and the process dying *)

BeginStartup ==
    /\ pc = "idle" /\ boot = "recover"
    /\ boot' = "sweep"
    /\ op' = [kind |-> "startup"] /\ pc' = "recover"
    /\ UNCHANGED <<disk, then, rec>>

BeginSweep ==
    /\ pc = "idle" /\ boot = "sweep"
    /\ boot' = "done"
    /\ op' = [kind |-> "sweep"] /\ pc' = "sweep_discard"
    /\ UNCHANGED <<disk, then, rec>>

SweepDiscard ==
    /\ pc = "sweep_discard"
    /\ discard' \in ScrapOf(discard)
    /\ Goto("sweep_staged")
    /\ UNCHANGED <<live, previous, staged, marks>>

SweepStaged ==
    /\ pc = "sweep_staged"
    /\ staged' \in ScrapOf(staged)
    /\ Finish
    /\ UNCHANGED <<live, previous, discard, marks>>

\* The steps that are not one atomic call: what a cut inside them leaves.
Cut ==
    \/ UNCHANGED disk
    \/ /\ pc = "stage"
       /\ staged' \in Unpacked(op.package) \cup Scrap(staged) \cup {Absent}
       /\ UNCHANGED <<live, previous, discard, marks>>
    \/ /\ pc \in {"preflight", "drop_staged", "scrap_staged", "sweep_staged"}
       /\ staged' \in Scrap(staged)
       /\ UNCHANGED <<live, previous, discard, marks>>
    \/ /\ pc \in {"undo_clear", "drop_discard", "clear_discard", "sweep_discard"}
       /\ discard' \in Scrap(discard)
       /\ UNCHANGED <<live, previous, staged, marks>>
    \/ /\ pc \in {"clear_previous", "scrap_previous"}
       /\ previous' \in Remnants(previous)
       /\ UNCHANGED <<live, staged, discard, marks>>
    \/ /\ pc \in {"undo_first", "remove"}
       /\ live' \in Remnants(live)
       /\ UNCHANGED <<previous, staged, discard, marks>>
    \/ /\ pc = "remove_versions"
       /\ previous' \in Remnants(previous) \cup {Absent}
       /\ kept' \in {kept, Absent}
       /\ UNCHANGED <<live, staged, discard, journal, smoke, trust>>
    \/ /\ pc = "journal"
       /\ journal' = Torn
       /\ UNCHANGED <<trees, kept, smoke, trust>>
    \/ /\ pc \in {"trust_install", "trust_settle", "trust_first", "trust_rollback",
                  "trust_displaced"}
       /\ trust' = Torn
       /\ UNCHANGED <<trees, kept, journal, smoke>>

Crash ==        \* the process stops, and the next one starts
    /\ Cut
    /\ pc' = "idle" /\ then' = "idle" /\ op' = Absent /\ rec' = Absent
    /\ boot' = "recover"

------------------------------------------------------------------------------

Init ==
    /\ live = Absent /\ previous = Absent /\ staged = Absent /\ discard = Absent
    /\ kept = Absent /\ journal = Absent /\ smoke = FALSE /\ trust = Absent
    /\ pc = "idle" /\ then = "idle" /\ op = Absent /\ rec = Absent
    /\ boot = "recover"

InstallStep ==
    \/ Check \/ Stage \/ Preflight \/ ClearRecord \/ ClearPrevious \/ WriteJournal
    \/ ArchiveLive \/ MarkUnproven \/ PromoteStaged \/ SmokeTest \/ Unmark
    \/ TrustInstall \/ Commit
UndoStep ==
    \/ Undo \/ UndoClearDiscard \/ UndoDiscardLive \/ Restore \/ TrustDisplaced
    \/ UndoFirst \/ Untrust
ClearStep == ClearJournal \/ ClearSmoke \/ DropDiscard \/ DropStaged
RollbackStep ==
    \/ Target \/ ClearDiscard \/ DiscardLive \/ PromotePrevious \/ TrustRollback \/ Forget
RemoveStep == RemoveLive \/ RemoveTrust \/ RemoveVersions
RecoverStep ==
    \/ Recover \/ Abandon \/ AbandonSmoke \/ ScrapStaged \/ ScrapPrevious
    \/ TrustSettle \/ CommitSettle \/ TrustFirst \/ FinishPromote \/ ReturnDiscard
SweepStep == SweepDiscard \/ SweepStaged

\* The steps of an operation that already holds the gate.
Step ==
    \/ InstallStep \/ UndoStep \/ ClearStep \/ RollbackStep \/ RemoveStep
    \/ RecoverStep \/ SweepStep

Startup == BeginStartup \/ BeginSweep

Next == Begin \/ Startup \/ Step \/ Crash

Spec == Init /\ [][Next]_vars

\* A thread holding the gate is scheduled, and every start spawns maintenance.
FairSpec == Spec /\ WF_vars(Step) /\ WF_vars(BeginStartup) /\ WF_vars(BeginSweep)

------------------------------------------------------------------------------
(* What holds *)

\* A tree whose manifest cannot be read is not a package (identity, None).
Named(tree) == IF VersionIn(tree) = Absent THEN Absent ELSE tree

\* The tree recovery would leave live if the process stopped now: the version
\* the plugin is at, whatever the directories look like.
Settled ==
    IF journal \notin Record THEN live
    ELSE IF journal.kind = "rollback"
         THEN CASE live # Absent -> live
                [] live = Absent /\ previous # Absent -> previous
                [] OTHER -> discard
         ELSE CASE live = Absent -> previous
                [] staged # Absent /\ live # Absent -> live
                [] OTHER -> IF ~smoke THEN live
                            ELSE IF previous # Absent THEN previous
                            ELSE IF journal.displacedVersion = Absent THEN Absent
                            ELSE live
Installed == Named(Settled)

\* The version a rollback would return to once the operation has settled.
KeptTree ==
    IF journal \notin Record
    THEN IF kept # Absent /\ kept.displacedVersion # Absent THEN previous ELSE Absent
    ELSE IF journal.kind = "rollback"
         THEN IF live # Absent THEN previous ELSE Absent
         ELSE IF staged = Absent /\ live # Absent /\ ~smoke /\ journal.displacedVersion # Absent
              THEN previous ELSE Absent
Fallback == Named(KeptTree)

TypeOK ==
    /\ live \in Tree \cup {Absent}
    /\ previous \in Tree \cup {Absent}
    /\ staged \in Tree \cup {Absent}
    /\ discard \in Tree \cup {Absent}
    /\ kept \in Record \cup {Absent}
    /\ journal \in Record \cup {Absent, Torn}
    /\ smoke \in BOOLEAN
    /\ trust \in Marker \cup {Absent, Torn}
    /\ op \in Operation \cup {Absent}
    /\ rec \in Record \cup {Absent}
    /\ then \in {"idle", "check", "target", "remove"}
    /\ boot \in {"recover", "sweep", "done"}

\* A cut at any step leaves the previous version or a smoke-tested new one:
\* whatever recovery would make live at this moment has been proved.
CutLeavesProvedVersion == Installed # Absent => Installed.proved

\* Between operations the tree discovery reads is the version the plugin is
\* at; only a crash not yet recovered from may hide it.
IdleServesInstalled == pc = "idle" /\ boot # "recover" => Named(live) = Installed

\* Once an operation has settled, the badge is exactly the one the live
\* package arrived with: neither lost by an undo nor inherited by a swap.
TrustFollowsLive ==
    pc = "idle" /\ journal = Absent /\ live # Absent /\ live.files = Files
        => LiveChannel = live.package.channel

\* previous.json describes the tree beside it: the version, the signer it will
\* be blessed with, and that it once passed its smoke test.
KeptDescribesPrevious ==
    Fallback # Absent =>
        /\ Fallback.proved
        /\ LET record == IF journal \in Record /\ journal.kind = "install" THEN journal ELSE kept
           IN  /\ record # Absent
               /\ record.displacedVersion = Fallback.package.version
               /\ Fallback.files = Files => record.displacedChannel = Fallback.package.channel

\* An unsigned build takes over from a signed one only by going back to it.
UnsignedOnlyByReturning ==
    [][/\ Installed # Absent /\ Installed.files = Files /\ Installed.package.channel # Unsigned
       /\ Installed' # Absent /\ Installed'.package.channel = Unsigned
       => Installed' = Fallback]_vars

\* A registry install moves the plugin forward or not at all: while it holds the
\* gate, undoing and the recovery it starts with included, no version takes the
\* place of a newer one, whatever was live when its package was requested.
GuardedInstallGoesForward ==
    [][/\ op # Absent /\ op.kind = "install" /\ op.guarded
       /\ Installed # Absent /\ Installed' # Absent /\ Installed' # Installed
       => VersionIn(Installed') > VersionIn(Installed)]_vars

\* Only a removal the user asked for leaves the plugin without a version.
UninstallsByRemoval ==
    Installed # Absent /\ Installed' = Absent => op # Absent /\ op.kind = "remove"
OnlyRemovalUninstalls == [][UninstallsByRemoval]_vars

\* However often a journal is replayed, only an install about to replace it, a
\* rollback and a removal take away a live tree that is not marked unproven.
LiveIsKept ==
    live # Absent /\ ~smoke /\ live' = Absent => pc \in {"archive", "discard_live", "remove"}
ReplayKeepsLive == [][LiveIsKept]_vars

UndoSteps ==
    {"undo_clear", "undo_discard", "restore", "trust_displaced", "undo_first", "untrust",
     "clear_journal", "clear_smoke"}

\* Undoing an install and clearing up after an operation never change the
\* version the plugin is at: every failure past the journal restores the tree.
UndoRestores == pc \in UndoSteps => Installed' = Installed
UndoKeepsInstalled == [][UndoRestores]_vars

\* The installed version and the rollback target change only as the abstract
\* store allows, each in one step of the transaction: a crash changes neither.
Version == INSTANCE VersionSwap WITH installed <- Installed, fallback <- Fallback
ImplementsVersionSwap == Version!Spec

\* After the last crash, every interrupted operation is eventually settled.
EveryOperationSettles == <>[][~Crash]_vars => (journal # Absent ~> journal = Absent)
==============================================================================
