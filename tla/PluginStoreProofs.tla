-------------------------- MODULE PluginStoreProofs --------------------------
(****************************************************************************)
(* Theorems about PluginStore, for any set of packages, signers and         *)
(* components.  The inductive invariant says, beside the types, which trees *)
(* can be unproven and when: only the live one, only while its install      *)
(* journal and its smoke marker are both there, and only while whatever it  *)
(* displaced is still in previous/.                                         *)
(****************************************************************************)
EXTENDS PluginStore, TLAPS

\* The steps whose error is ignored although what follows relies on their
\* effect; the theorems hold whatever other filesystem calls fail.
ReliedOn == {"undo_clear", "undo_discard", "undo_first", "clear_journal", "commit_settle"}

Installing == journal \in Record /\ journal.kind = "install"
RollingBack == journal \in Record /\ journal.kind = "rollback"

Good(tree) == VersionIn(tree) # Absent => tree.proved

\* previous/ only ever receives a settled live tree.
PreviousGood == Good(previous)

\* What the record says was displaced is still there to be put back.
Undoable(record) == previous # Absent \/ record.displacedVersion = Absent

\* An unproven live tree is one that recovery will undo.
LiveGood == ~Good(live) => Installing /\ staged = Absent /\ smoke /\ Undoable(journal)

\* A rollback never leaves both directories empty.
RollbackHasTree == RollingBack => live # Absent \/ previous # Absent

OwnInstall == Installing /\ journal = rec
OwnRollback == RollingBack /\ journal = rec

RequestSteps == {"check", "stage", "preflight"}
UnjournalledSteps ==
    {"check", "stage", "preflight", "clear_record", "clear_previous", "journal", "target",
     "remove", "remove_trust", "remove_versions", "abandon", "abandon_smoke",
     "clear_smoke", "drop_discard", "drop_staged"}
InstallSteps ==
    {"archive", "mark", "promote", "prove", "unmark", "trust_install", "commit", "undo",
     "undo_clear", "undo_discard", "undo_first", "untrust", "scrap_staged", "scrap_previous",
     "trust_settle", "commit_settle", "trust_first"}
RollbackSteps == {"clear_discard", "discard_live", "promote_previous", "finish_promote"}
RecordSteps ==
    InstallSteps \cup RollbackSteps
        \cup {"stage", "preflight", "clear_record", "clear_previous", "journal",
              "restore", "trust_displaced", "trust_rollback"}
ProvedSteps ==
    {"unmark", "trust_install", "commit", "untrust", "trust_settle", "trust_first",
     "trust_displaced", "trust_rollback", "commit_settle", "clear_journal", "restore",
     "forget", "scrap_staged", "scrap_previous"}

\* What each step of the program counter knows of the request, of the record
\* and journal, and of the trees.
RequestShape ==
    /\ pc = "idle" => then = "idle"
    /\ then = "check" \/ pc \in RequestSteps => op # Absent /\ op.kind = "install"
    /\ pc \in RecordSteps => rec \in Record
    /\ pc \in {"stage", "preflight", "clear_record", "clear_previous"} => rec.kind = "install"

JournalShape ==
    /\ pc \in UnjournalledSteps => journal \notin Record
    /\ pc \in InstallSteps => OwnInstall
    /\ pc \in RollbackSteps => OwnRollback
    /\ pc # "return_discard"

TreeShape ==
    /\ pc \in {"stage", "preflight", "clear_record", "clear_previous", "archive"}
           => rec.displacedVersion = VersionIn(live)
    /\ pc = "journal" =>
           IF rec.kind = "install" THEN rec.displacedVersion = VersionIn(live)
                                   ELSE previous # Absent
    /\ pc \in {"preflight", "clear_record", "clear_previous", "archive", "mark", "promote"}
           => staged # Absent
    /\ pc = "journal" /\ rec.kind = "install" => staged # Absent
    /\ pc \in {"mark", "promote"} => live = Absent /\ Undoable(rec)
    /\ pc \in {"promote", "prove"} => smoke
    /\ pc \in {"prove", "unmark", "trust_install", "commit"} =>
           live # Absent /\ staged = Absent
    /\ pc \in {"undo_clear", "undo_discard"} => previous # Absent /\ live # Absent
    /\ pc = "undo_discard" => discard = Absent
    /\ pc \in {"restore", "finish_promote", "untrust"} => live = Absent
    /\ pc = "finish_promote" => previous # Absent
    /\ pc \in {"clear_discard", "discard_live", "promote_previous"} => previous # Absent
    /\ pc \in ProvedSteps => Good(live)

StoreInv ==
    TypeOK /\ PreviousGood /\ LiveGood /\ RollbackHasTree
        /\ RequestShape /\ JournalShape /\ TreeShape

------------------------------------------------------------------------------
(* What the operators on trees return *)

\* Whatever a cut leaves of a tree in staging is a tree, and nothing is left of
\* nothing.
LEMMA ScrapIsTree ==
    Scrap(Absent) = {} /\ \A tree \in Tree \cup {Absent} : Scrap(tree) \subseteq Tree
<1> SUFFICES ASSUME NEW tree \in Tree PROVE Litter \in Tree
    BY DEF Scrap
<1>1. tree.package \in Packages
    BY DEF Tree
<1>2. (CHOOSE package \in Packages : TRUE) \in Packages
    BY <1>1, Zenon
<1> QED
    BY <1>2 DEF Litter, Tree, Files

\* A half-deleted tree is a tree, and deleting part of a proved one leaves
\* nothing unproven that still has a version.
LEMMA RemnantIsTree ==
    \A tree \in Tree \cup {Absent} : \A left \in Remnants(tree) :
        left \in Tree /\ (Good(tree) => Good(left))
<1> USE ValuesAssumption
<1> SUFFICES ASSUME NEW tree \in Tree, NEW left \in Remnants(tree)
             PROVE  left \in Tree /\ (Good(tree) => Good(left))
    BY DEF Remnants
<1>1. PICK f \in SUBSET tree.files : left = [tree EXCEPT !.files = f]
    BY DEF Remnants
<1>2. /\ left \in Tree
      /\ left.package = tree.package /\ left.files = f /\ left.proved = tree.proved
    BY <1>1 DEF Tree
<1> QED
    BY <1>1, <1>2 DEF Good, VersionIn, Tree

\* The smoke test changes what is known of a tree and nothing else.
LEMMA ProvedIsTree ==
    \A tree \in Tree :
        [tree EXCEPT !.proved = TRUE] \in Tree /\ [tree EXCEPT !.proved = TRUE].proved
BY DEF Tree

\* Unpacking, whole or cut, yields a tree of the package.
LEMMA UnpackedIsTree ==
    \A package \in Packages : Whole(package) \in Tree /\ Unpacked(package) \subseteq Tree
<1> SUFFICES ASSUME NEW package \in Packages
             PROVE  Whole(package) \in Tree /\ Unpacked(package) \subseteq Tree
    OBVIOUS
<1>1. Whole(package) \in Tree
    BY DEF Whole, Tree, Files
<1>2. ASSUME NEW f \in {{}, {"component"}, Files}
      PROVE  [Whole(package) EXCEPT !.files = f] \in Tree
    BY <1>1 DEF Tree, Files, Whole
<1> QED
    BY <1>1, <1>2 DEF Unpacked

\* What a tree's own files say is a version and a digest, or nothing.
LEMMA ReadTypes ==
    ASSUME NEW tree \in Tree \cup {Absent}
    PROVE  VersionIn(tree) \in Nat \cup {Absent} /\ DigestIn(tree) \in Components \cup {Absent}
BY PackagesAssumption DEF VersionIn, DigestIn, Tree, Package

\* The badge of the live tree is always one of the channels.
LEMMA ChannelType == LiveChannel \in Channels
BY DEF LiveChannel, RecordedChannel, Channels, Marker

\* An install request carries a package, with its version and its channel.
LEMMA InstallOffersPackage ==
    \A o \in Operation :
        o.kind = "install" =>
            /\ o.package \in Packages
            /\ o.package.version \in Nat /\ o.package.channel \in Channels
BY PackagesAssumption DEF Operation, Package

\* Start-up recovery and the sweep hold the gate as operations do.
LEMMA MaintenanceIsOperation ==
    [kind |-> "startup"] \in Operation /\ [kind |-> "sweep"] \in Operation
BY DEF Operation

------------------------------------------------------------------------------
(* Every step preserves the invariant *)

\* Install, from the check to the commit point.
LEMMA InstallPreserves ==
    ASSUME FaultSites \cap ReliedOn = {}, StoreInv, InstallStep
    PROVE  StoreInv'
<1> USE PackagesAssumption, ValuesAssumption
    DEF StoreInv, TypeOK, PreviousGood, LiveGood, RollbackHasTree, RequestShape, JournalShape,
        TreeShape, Good, Installing, RollingBack, Undoable, OwnInstall, OwnRollback,
        RequestSteps, UnjournalledSteps, InstallSteps, RollbackSteps, RecordSteps,
        ProvedSteps, ReliedOn, VersionIn, Files, Record, Marker, Channels
<1>1. CASE Check
    BY <1>1, ChannelType, InstallOffersPackage, ReadTypes
    DEF Check, Finish, disk, trees, marks
<1>2. CASE Stage
    BY <1>2, InstallOffersPackage, UnpackedIsTree
    DEF Stage, Goto, Fails, Finish, marks
<1>3. CASE Preflight
    BY <1>3, ScrapIsTree
    DEF Preflight, Goto, ScrapOf, Fails, Finish, marks
<1>4. CASE ClearRecord
    BY <1>4
    DEF ClearRecord, UnlinkOf, Fails, Goto, trees
<1>5. CASE ClearPrevious
    BY <1>5, RemnantIsTree
    DEF ClearPrevious, RemovalOf, Fails, Goto, marks
<1>6. CASE WriteJournal
    BY <1>6
    DEF WriteJournal, Goto, Fails, Finish, trees
<1>7. CASE ArchiveLive
    BY <1>7
    DEF ArchiveLive, Goto, Occupied, Fails, marks
<1>8. CASE MarkUnproven
  <2>1. smoke' \in BOOLEAN
      BY <1>8, Zenon DEF MarkUnproven, TypeOK
  <2> QED
      BY <1>8, <2>1
      DEF MarkUnproven, Goto, Fails, trees
<1>9. CASE PromoteStaged
    BY <1>9
    DEF PromoteStaged, Goto, Fails, marks
<1>10. CASE SmokeTest
  <2>1. CASE live' = [live EXCEPT !.proved = TRUE] /\ Goto("unmark")
    <3>1. live' \in Tree /\ live'.proved
        BY <1>10, <2>1, ProvedIsTree DEF SmokeTest
    <3>2. pc = "prove" /\ pc' = "unmark" /\ UNCHANGED <<previous, staged, discard, marks>>
        BY <1>10, <2>1 DEF SmokeTest, Goto
    <3>3. UNCHANGED <<then, op, rec, boot>>
        BY <2>1 DEF Goto
    <3> QED
        BY <3>1, <3>2, <3>3 DEF marks
  <2>2. CASE UNCHANGED live /\ Goto("undo")
      BY <1>10, <2>2 DEF SmokeTest, Goto, marks
  <2> QED
      BY <1>10, <2>1, <2>2 DEF SmokeTest
<1>11. CASE Unmark
  <2>1. smoke' \in BOOLEAN
      BY <1>11, Zenon DEF Unmark, TypeOK
  <2> QED
      BY <1>11, <2>1
      DEF Unmark, Fails, Goto, trees
<1>12. CASE TrustInstall
    BY <1>12, ReadTypes
    DEF TrustInstall, WriteTrust, UnlinkOf, Fails, Goto, trees
<1>13. CASE Commit
    BY <1>13
    DEF Commit, CommitRename, Finish, Fails, Goto, trees
<1> QED
    BY <1>1, <1>2, <1>3, <1>4, <1>5, <1>6, <1>7, <1>8, <1>9, <1>10, <1>11, <1>12, <1>13
    DEF InstallStep

\* Putting back what an install displaced.
LEMMA UndoPreserves ==
    ASSUME FaultSites \cap ReliedOn = {}, StoreInv, UndoStep
    PROVE  StoreInv'
<1> USE PackagesAssumption, ValuesAssumption
    DEF StoreInv, TypeOK, PreviousGood, LiveGood, RollbackHasTree, RequestShape, JournalShape,
        TreeShape, Good, Installing, RollingBack, Undoable, OwnInstall, OwnRollback,
        RequestSteps, UnjournalledSteps, InstallSteps, RollbackSteps, RecordSteps,
        ProvedSteps, ReliedOn, VersionIn, Files, Record, Marker, Channels
<1>1. CASE Undo
    BY <1>1
    DEF Undo, Goto, disk, trees, marks
<1>2. CASE UndoClearDiscard
    BY <1>2, ScrapIsTree
    DEF UndoClearDiscard, ScrapOf, Fails, Goto, marks
<1>3. CASE UndoDiscardLive
    BY <1>3
    DEF UndoDiscardLive, Occupied, Fails, Goto, marks
<1>4. CASE Restore
    BY <1>4
    DEF Restore, Occupied, Fails, Goto, marks
<1>5. CASE TrustDisplaced
    BY <1>5, ReadTypes
    DEF TrustDisplaced, WriteTrust, UnlinkOf, Fails, Goto, trees
<1>6. CASE UndoFirst
    BY <1>6, RemnantIsTree
    DEF UndoFirst, RemovalOf, Fails, Goto, marks
<1>7. CASE Untrust
    BY <1>7
    DEF Untrust, UnlinkOf, Fails, Goto, trees
<1> QED
    BY <1>1, <1>2, <1>3, <1>4, <1>5, <1>6, <1>7
    DEF UndoStep

\* Forgetting the operation.
LEMMA ClearPreserves ==
    ASSUME FaultSites \cap ReliedOn = {}, StoreInv, ClearStep
    PROVE  StoreInv'
<1> USE PackagesAssumption, ValuesAssumption
    DEF StoreInv, TypeOK, PreviousGood, LiveGood, RollbackHasTree, RequestShape, JournalShape,
        TreeShape, Good, Installing, RollingBack, Undoable, OwnInstall, OwnRollback,
        RequestSteps, UnjournalledSteps, InstallSteps, RollbackSteps, RecordSteps,
        ProvedSteps, ReliedOn, VersionIn, Files, Record, Marker, Channels
<1>1. CASE ClearJournal
    BY <1>1
    DEF ClearJournal, UnlinkOf, Fails, Goto, trees
<1>2. CASE ClearSmoke
  <2>1. smoke' \in BOOLEAN
      BY <1>2, Zenon DEF ClearSmoke, TypeOK
  <2> QED
      BY <1>2, <2>1
      DEF ClearSmoke, Fails, Goto, trees
<1>3. CASE DropDiscard
    BY <1>3, ScrapIsTree
    DEF DropDiscard, ScrapOf, Fails, Goto, marks
<1>4. CASE DropStaged
    BY <1>4, ScrapIsTree
    DEF DropStaged, ScrapOf, Fails, Resume, Finish, marks
<1> QED
    BY <1>1, <1>2, <1>3, <1>4
    DEF ClearStep

\* Rollback.
LEMMA RollbackPreserves ==
    ASSUME FaultSites \cap ReliedOn = {}, StoreInv, RollbackStep
    PROVE  StoreInv'
<1> USE PackagesAssumption, ValuesAssumption
    DEF StoreInv, TypeOK, PreviousGood, LiveGood, RollbackHasTree, RequestShape, JournalShape,
        TreeShape, Good, Installing, RollingBack, Undoable, OwnInstall, OwnRollback,
        RequestSteps, UnjournalledSteps, InstallSteps, RollbackSteps, RecordSteps,
        ProvedSteps, ReliedOn, VersionIn, Files, Record, Marker, Channels
<1>1. CASE Target
    BY <1>1, ChannelType, ReadTypes
    DEF Target, RollbackTarget, Finish, disk, trees, marks
<1>2. CASE ClearDiscard
    BY <1>2, ScrapIsTree
    DEF ClearDiscard, ScrapOf, Fails, Goto, marks
<1>3. CASE DiscardLive
    BY <1>3
    DEF DiscardLive, Goto, Occupied, Fails, Finish, marks
<1>4. CASE PromotePrevious
    BY <1>4
    DEF PromotePrevious, Goto, Fails, Finish, marks
<1>5. CASE TrustRollback
    BY <1>5, ReadTypes
    DEF TrustRollback, WriteTrust, UnlinkOf, Fails, Goto, trees
<1>6. CASE Forget
    BY <1>6
    DEF Forget, UnlinkOf, Fails, Goto, trees
<1> QED
    BY <1>1, <1>2, <1>3, <1>4, <1>5, <1>6
    DEF RollbackStep

\* Removal.
LEMMA RemovePreserves ==
    ASSUME FaultSites \cap ReliedOn = {}, StoreInv, RemoveStep
    PROVE  StoreInv'
<1> USE PackagesAssumption, ValuesAssumption
    DEF StoreInv, TypeOK, PreviousGood, LiveGood, RollbackHasTree, RequestShape, JournalShape,
        TreeShape, Good, Installing, RollingBack, Undoable, OwnInstall, OwnRollback,
        RequestSteps, UnjournalledSteps, InstallSteps, RollbackSteps, RecordSteps,
        ProvedSteps, ReliedOn, VersionIn, Files, Record, Marker, Channels
<1>1. CASE RemoveLive
    BY <1>1, RemnantIsTree
    DEF RemoveLive, Finish, Goto, Fails, marks
<1>2. CASE RemoveTrust
    BY <1>2
    DEF RemoveTrust, UnlinkOf, Fails, Goto, trees
<1>3. CASE RemoveVersions
    BY <1>3, RemnantIsTree
    DEF RemoveVersions, UnlinkOf, Fails, RemovalOf, Goto
<1> QED
    BY <1>1, <1>2, <1>3
    DEF RemoveStep

\* Every row of the recovery table.
LEMMA RecoverPreserves ==
    ASSUME FaultSites \cap ReliedOn = {}, StoreInv, RecoverStep
    PROVE  StoreInv'
<1> USE PackagesAssumption, ValuesAssumption
    DEF StoreInv, TypeOK, PreviousGood, LiveGood, RollbackHasTree, RequestShape, JournalShape,
        TreeShape, Good, Installing, RollingBack, Undoable, OwnInstall, OwnRollback,
        RequestSteps, UnjournalledSteps, InstallSteps, RollbackSteps, RecordSteps,
        ProvedSteps, ReliedOn, VersionIn, Files, Record, Marker, Channels
<1>1. CASE Recover
    BY <1>1
    DEF Recover, Resume, Finish, Goto, InstallRow, RollbackRow, disk, trees, marks
<1>2. CASE Abandon
    BY <1>2
    DEF Abandon, UnlinkOf, Fails, Goto, trees
<1>3. CASE AbandonSmoke
  <2>1. smoke' \in BOOLEAN
      BY <1>3, Zenon DEF AbandonSmoke, TypeOK
  <2> QED
      BY <1>3, <2>1
      DEF AbandonSmoke, Fails, Resume, Finish, trees
<1>4. CASE ScrapStaged
    BY <1>4, ScrapIsTree
    DEF ScrapStaged, ScrapOf, Fails, Goto, marks
<1>5. CASE ScrapPrevious
    BY <1>5, RemnantIsTree
    DEF ScrapPrevious, RemovalOf, Fails, Goto, marks
<1>6. CASE TrustSettle
    BY <1>6, ReadTypes
    DEF TrustSettle, WriteTrust, UnlinkOf, Fails, Goto, trees
<1>7. CASE CommitSettle
  <2>1. smoke' \in BOOLEAN
      BY <1>7, Zenon DEF CommitSettle, TypeOK
  <2> QED
      BY <1>7, <2>1
      DEF CommitSettle, CommitRename, Fails, Resume, Finish, trees
<1>8. CASE TrustFirst
    BY <1>8, ReadTypes
    DEF TrustFirst, WriteTrust, UnlinkOf, Fails, Goto, trees
<1>9. CASE FinishPromote
    BY <1>9
    DEF FinishPromote, Fails, Goto, marks
<1>10. CASE ReturnDiscard
    BY <1>10
    DEF ReturnDiscard, Fails, Goto, marks
<1> QED
    BY <1>1, <1>2, <1>3, <1>4, <1>5, <1>6, <1>7, <1>8, <1>9, <1>10
    DEF RecoverStep

\* Taking the gate, and the sweep of the staging directory.
LEMMA GatePreserves ==
    ASSUME FaultSites \cap ReliedOn = {}, StoreInv, (Begin \/ Startup \/ SweepStep)
    PROVE  StoreInv'
<1> USE PackagesAssumption, ValuesAssumption
    DEF StoreInv, TypeOK, PreviousGood, LiveGood, RollbackHasTree, RequestShape, JournalShape,
        TreeShape, Good, Installing, RollingBack, Undoable, OwnInstall, OwnRollback,
        RequestSteps, UnjournalledSteps, InstallSteps, RollbackSteps, RecordSteps,
        ProvedSteps, ReliedOn, VersionIn, Files, Record, Marker, Channels
<1>1. CASE Begin
    BY <1>1
    DEF Begin, FirstStep, disk, trees, marks
<1>2. CASE BeginStartup
    BY <1>2, MaintenanceIsOperation
    DEF BeginStartup, disk, trees, marks
<1>3. CASE BeginSweep
    BY <1>3, MaintenanceIsOperation
    DEF BeginSweep, disk, trees, marks
<1>4. CASE SweepDiscard
    BY <1>4, ScrapIsTree
    DEF SweepDiscard, ScrapOf, Fails, Goto, marks
<1>5. CASE SweepStaged
    BY <1>5, ScrapIsTree
    DEF SweepStaged, ScrapOf, Fails, Finish, marks
<1> QED
    BY <1>1, <1>2, <1>3, <1>4, <1>5
    DEF Startup, SweepStep

\* A cut in the middle of any call, and the restart after it.
LEMMA CrashPreserves ==
    ASSUME StoreInv, Crash
    PROVE  StoreInv'
<1> USE PackagesAssumption, ValuesAssumption
    DEF StoreInv, TypeOK, PreviousGood, LiveGood, RollbackHasTree, RequestShape, JournalShape,
        TreeShape, Good, Installing, RollingBack, Undoable, OwnInstall, OwnRollback,
        RequestSteps, UnjournalledSteps, InstallSteps, RollbackSteps, RecordSteps,
        ProvedSteps, ReliedOn, VersionIn, Files, Record, Marker, Channels
<1>1. pc' = "idle" /\ then' = "idle" /\ op' = Absent /\ rec' = Absent /\ boot' = "recover"
    BY DEF Crash
<1>2. CASE UNCHANGED disk
    BY <1>1, <1>2 DEF disk, trees, marks
<1>3. CASE /\ pc \in {"stage", "preflight", "drop_staged", "scrap_staged", "sweep_staged"}
           /\ staged' \in Unpacked(op.package) \cup Scrap(staged) \cup {Absent}
           /\ pc # "stage" => staged' \in Scrap(staged)
           /\ UNCHANGED <<live, previous, discard, marks>>
  <2>1. staged' \in Tree \cup {Absent}
      BY <1>3, ScrapIsTree, UnpackedIsTree, InstallOffersPackage
  <2>2. staged = Absent /\ pc # "stage" => staged' = Absent
      BY <1>3, ScrapIsTree
  <2> QED
      BY <1>1, <1>3, <2>1, <2>2 DEF marks
<1>4. CASE /\ pc \in {"undo_clear", "drop_discard", "clear_discard", "sweep_discard"}
           /\ discard' \in Scrap(discard)
           /\ UNCHANGED <<live, previous, staged, marks>>
    BY <1>1, <1>4, ScrapIsTree DEF marks
<1>5. CASE /\ pc \in {"clear_previous", "scrap_previous"}
           /\ previous' \in Remnants(previous)
           /\ UNCHANGED <<live, staged, discard, marks>>
    BY <1>1, <1>5, RemnantIsTree DEF marks
<1>6. CASE /\ pc \in {"undo_first", "remove"}
           /\ live' \in Remnants(live)
           /\ UNCHANGED <<previous, staged, discard, marks>>
    BY <1>1, <1>6, RemnantIsTree DEF marks
<1>7. CASE /\ pc = "remove_versions"
           /\ previous' \in Remnants(previous) \cup {Absent}
           /\ kept' \in {kept, Absent}
           /\ UNCHANGED <<live, staged, discard, journal, smoke, trust>>
    BY <1>1, <1>7, RemnantIsTree
<1>8. CASE /\ pc = "journal"
           /\ journal' = Torn
           /\ UNCHANGED <<trees, kept, smoke, trust>>
    BY <1>1, <1>8 DEF trees
<1>9. CASE trust' = Torn /\ UNCHANGED <<trees, kept, journal, smoke>>
    BY <1>1, <1>9 DEF trees
<1> QED
    BY <1>2, <1>3, <1>4, <1>5, <1>6, <1>7, <1>8, <1>9, ScrapIsTree DEF Crash, Cut

\* No step at all.
LEMMA StutterPreserves ==
    ASSUME StoreInv, UNCHANGED vars
    PROVE  StoreInv'
<1> USE PackagesAssumption, ValuesAssumption
    DEF StoreInv, TypeOK, PreviousGood, LiveGood, RollbackHasTree, RequestShape, JournalShape,
        TreeShape, Good, Installing, RollingBack, Undoable, OwnInstall, OwnRollback,
        RequestSteps, UnjournalledSteps, InstallSteps, RollbackSteps, RecordSteps,
        ProvedSteps, ReliedOn, VersionIn, Files, Record, Marker, Channels
<1>1. smoke' \in BOOLEAN
    BY Zenon DEF vars, TypeOK
<1> QED
    BY <1>1 DEF vars

\* An empty plugin folder satisfies the invariant.
LEMMA InitEstablishes == Init => StoreInv
<1> USE PackagesAssumption, ValuesAssumption
    DEF StoreInv, TypeOK, PreviousGood, LiveGood, RollbackHasTree, RequestShape, JournalShape,
        TreeShape, Good, Installing, RollingBack, Undoable, OwnInstall, OwnRollback,
        RequestSteps, UnjournalledSteps, InstallSteps, RollbackSteps, RecordSteps,
        ProvedSteps, ReliedOn, VersionIn, Files, Record, Marker, Channels
<1> QED
    BY DEF Init

------------------------------------------------------------------------------
(* The theorems *)

\* The invariant of the store holds through every install, rollback, removal,
\* recovery, failed call and crash, for any packages and keys, as long as the
\* steps whose errors the code ignores and relies on do not fail.
THEOREM StoreInvariant ==
    ASSUME FaultSites \cap ReliedOn = {}
    PROVE  Spec => []StoreInv
<1>1. StoreInv /\ [Next]_vars => StoreInv'
    BY InstallPreserves, UndoPreserves, ClearPreserves, RollbackPreserves, RemovePreserves,
       RecoverPreserves, GatePreserves, CrashPreserves, StutterPreserves
    DEF Next, Step
<1> QED
    BY InitEstablishes, <1>1, PTL DEF Spec

\* Type correctness.
THEOREM TypeCorrect ==
    ASSUME FaultSites \cap ReliedOn = {}
    PROVE  Spec => []TypeOK
<1>1. StoreInv => TypeOK
    BY DEF StoreInv
<1> QED
    BY StoreInvariant, <1>1, PTL

\* "A cut at any step leaves either the previous version intact, or the new one
\* complete and smoke-tested" (plugin_update.rs:16).
THEOREM CutSafety ==
    ASSUME FaultSites \cap ReliedOn = {}
    PROVE  Spec => []CutLeavesProvedVersion
<1>1. StoreInv => CutLeavesProvedVersion
    BY ValuesAssumption
    DEF StoreInv, TypeOK, PreviousGood, LiveGood, RollbackHasTree, Good, Installing, RollingBack,
        Undoable, CutLeavesProvedVersion, Installed, Settled, Named, VersionIn, Record
<1> QED
    BY StoreInvariant, <1>1, PTL

------------------------------------------------------------------------------
(****************************************************************************)
(* PluginStore implements VersionSwap: however an operation is cut, refused *)
(* or failed, the version the plugin is at and the version it can go back   *)
(* to change only in the single steps the abstract store allows.            *)
(*                                                                          *)
(* The invariant SwapInv says which version each directory holds while an   *)
(* operation runs: the candidate, the version it displaces, or the one a    *)
(* rollback returns to.  Effect says what one step of the transaction does  *)
(* to the abstract store, and the theorems are read off it.                 *)
(****************************************************************************)

\* The steps that must not fail for the two versions to stay what they are: an
\* install relies on having cleared previous/ and previous.json although it
\* ignores their errors, and a tree that is not renamed back is lost with the
\* journal.  Every other call of the transaction may fail.
SwapReliedOn ==
    ReliedOn \cup {"clear_record", "clear_previous", "restore", "finish_promote"}

InstallFlow ==
    {"stage", "preflight", "clear_record", "clear_previous", "archive", "mark", "promote",
     "prove", "unmark", "trust_install", "commit"}
StagedFlow == {"preflight", "clear_record", "clear_previous", "archive", "mark", "promote"}

\* An install at work on its own request, recovery excluded.
Installer == pc \in InstallFlow \/ (pc = "journal" /\ rec.kind = "install")

\* The record an operation works from says what its caller asked for.
RequestKept ==
    /\ then = "target" \/ pc \in {"target", "clear_discard", "discard_live", "promote_previous"}
           => op # Absent /\ op.kind = "rollback"
    /\ then = "remove" \/ pc \in {"remove", "remove_trust", "remove_versions"}
           => op # Absent /\ op.kind = "remove"
    /\ pc = "journal" => op # Absent /\ op.kind = rec.kind
    /\ Installer =>
           /\ op # Absent /\ op.kind = "install" /\ rec.kind = "install"
           /\ rec.version = op.package.version
           /\ op.guarded /\ rec.displacedVersion # Absent => rec.version > rec.displacedVersion

\* The candidate is whole, in staging and then at its final path.
CandidateKept ==
    /\ Installer /\ (pc \in StagedFlow \/ pc = "journal") => staged = Whole(op.package)
    /\ pc = "prove" => live = Whole(op.package)
    /\ pc \in {"unmark", "trust_install", "commit"} =>
           live = [Whole(op.package) EXCEPT !.proved = TRUE]
    /\ pc = "unmark" => smoke
    /\ pc \in {"prove", "unmark", "trust_install", "commit"} => Undoable(rec)

\* The earlier way back is gone before an install journals anything.
WayCleared ==
    /\ Installer /\ pc \in {"clear_previous", "journal"} => kept = Absent
    /\ Installer /\ pc \in {"journal", "archive"} => previous = Absent

\* Under an install journal the displaced version is in previous/ or, before
\* the swap and after an undo, live.
InstallTrees ==
    Installing =>
        /\ kept = Absent
        /\ previous # Absent => VersionIn(previous) = journal.displacedVersion
        /\ live # Absent /\ staged # Absent => previous = Absent
        /\ live # Absent /\ previous = Absent
           /\ (staged # Absent \/ journal.displacedVersion # Absent)
               => VersionIn(live) = journal.displacedVersion
        /\ pc \in {"idle", "sweep_discard", "sweep_staged"} /\ boot # "recover" => staged = Absent

\* A removal cut while it deletes the kept version leaves nothing live.
KeptIs(version) ==
    VersionIn(previous) = version \/ (live = Absent /\ VersionIn(previous) = Absent)

RollbackTrees ==
    /\ pc = "journal" /\ rec.kind = "rollback" =>
           kept # Absent /\ kept.displacedVersion = rec.version
    /\ RollingBack /\ previous # Absent =>
           kept # Absent /\ kept.displacedVersion = journal.version /\ KeptIs(journal.version)

RestTrees ==
    journal \notin Record /\ previous # Absent /\ kept # Absent /\ kept.displacedVersion # Absent
        => KeptIs(kept.displacedVersion)

\* What the steps that undo, settle and clear rely on.
UndoTrees ==
    /\ pc = "undo" /\ live # Absent /\ staged = Absent => smoke
    /\ pc \in {"undo_clear", "undo_discard"} => staged = Absent /\ smoke
    /\ pc \in {"undo_first", "untrust"} => Installed = Absent /\ previous = Absent
    /\ pc = "restore" => OwnInstall /\ previous # Absent
    /\ pc = "trust_displaced" => OwnInstall /\ previous = Absent /\ Installed = Named(live)
SettleTrees ==
    /\ pc = "scrap_staged" => staged # Absent
    /\ pc = "scrap_previous" => live # Absent /\ previous = Absent /\ Installed = Named(live)
    /\ pc \in {"trust_settle", "commit_settle", "trust_first"} =>
           live # Absent /\ staged = Absent /\ ~smoke
    /\ pc = "trust_first" => previous = Absent
    /\ pc = "promote_previous" => live = Absent
    /\ pc = "trust_rollback" => OwnRollback
    /\ pc \in {"trust_rollback", "forget"} => RollingBack /\ live # Absent /\ previous = Absent
    /\ pc = "clear_journal" =>
           /\ Installed = Named(live)
           /\ Installing => previous = Absent
           /\ RollingBack => live # Absent
    /\ pc \in {"remove_trust", "remove_versions"} => live = Absent

SwapInv ==
    RequestKept /\ CandidateKept /\ WayCleared /\ InstallTrees /\ RollbackTrees /\ RestTrees
        /\ UndoTrees /\ SettleTrees

\* What one step does to the abstract store, and which step it is.
Effect ==
    \/ UNCHANGED <<Installed, Fallback>>
    \/ /\ pc \in {"unmark", "commit"}
       /\ Installed = Named(previous) /\ Installed' = live /\ Version!Upgrade
    \/ pc \in {"clear_record", "remove_versions"} /\ Version!SpendFallback
    \/ pc \in {"journal", "discard_live"} /\ op # Absent /\ op.kind = "rollback" /\ Version!Return
    \/ pc = "remove" /\ Version!Uninstall
    \/ pc = "remove_versions" /\ Version!ForgetFallback

\* The proofs below are about these state predicates throughout.
USE PackagesAssumption, ValuesAssumption
DEF StoreInv, TypeOK, PreviousGood, LiveGood, RollbackHasTree, RequestShape, JournalShape,
    TreeShape, Good, Installing, RollingBack, Undoable, OwnInstall, OwnRollback, RequestSteps,
    UnjournalledSteps, InstallSteps, RollbackSteps, RecordSteps, ProvedSteps, ReliedOn,
    SwapInv, SwapReliedOn, RequestKept, InstallFlow, Installer, StagedFlow, CandidateKept,
    WayCleared, InstallTrees, KeptIs, RollbackTrees, RestTrees, UndoTrees, SettleTrees,
    Installed, Settled, Named, VersionIn, Whole, Files, Record, Marker, Channels, Operation,
    Package, Tree

------------------------------------------------------------------------------
(* Every step preserves the invariant *)

\* Install, from the check to the commit point.
LEMMA InstallSwaps ==
    ASSUME FaultSites \cap SwapReliedOn = {}, StoreInv, SwapInv, InstallStep, TypeOK'
    PROVE  SwapInv'
<1>1. CASE Check
    BY <1>1, ChannelType, InstallOffersPackage, ReadTypes
    DEF Check, Finish, disk, trees, marks
<1>2. CASE Stage
    BY <1>2, InstallOffersPackage, UnpackedIsTree DEF Stage, Goto, Fails, Finish, marks
<1>3. CASE Preflight
    BY <1>3, ScrapIsTree DEF Preflight, Goto, ScrapOf, Fails, Finish, marks
<1>4. CASE ClearRecord
    BY <1>4 DEF ClearRecord, UnlinkOf, Fails, Goto, trees
<1>5. CASE ClearPrevious
    BY <1>5 DEF ClearPrevious, RemovalOf, Fails, Goto, marks
<1>6. CASE WriteJournal
  <2>1. RequestKept'
      BY <1>6 DEF WriteJournal, Goto, Fails, Finish, trees
  <2>2. CandidateKept'
      BY <1>6 DEF WriteJournal, Goto, Fails, Finish, trees
  <2>3. WayCleared'
      BY <1>6 DEF WriteJournal, Goto, Fails, Finish, trees
  <2>4. InstallTrees'
      BY <1>6 DEF WriteJournal, Goto, Fails, Finish, trees
  <2>5. RollbackTrees'
      BY <1>6 DEF WriteJournal, Goto, Fails, Finish, trees
  <2>6. RestTrees'
      BY <1>6 DEF WriteJournal, Goto, Fails, Finish, trees
  <2>7. UndoTrees'
      BY <1>6 DEF WriteJournal, Goto, Fails, Finish, trees
  <2>8. SettleTrees'
      BY <1>6 DEF WriteJournal, Goto, Fails, Finish, trees
  <2> QED
      BY <2>1, <2>2, <2>3, <2>4, <2>5, <2>6, <2>7, <2>8
<1>7. CASE ArchiveLive
  <2>1. RequestKept'
      BY <1>7 DEF ArchiveLive, Goto, Occupied, Fails, marks
  <2>2. CandidateKept'
      BY <1>7 DEF ArchiveLive, Goto, Occupied, Fails, marks
  <2>3. WayCleared'
      BY <1>7 DEF ArchiveLive, Goto, Occupied, Fails, marks
  <2>4. InstallTrees'
      BY <1>7 DEF ArchiveLive, Goto, Occupied, Fails, marks
  <2>5. RollbackTrees'
      BY <1>7 DEF ArchiveLive, Goto, Occupied, Fails, marks
  <2>6. RestTrees'
      BY <1>7 DEF ArchiveLive, Goto, Occupied, Fails, marks
  <2>7. UndoTrees'
      BY <1>7 DEF ArchiveLive, Goto, Occupied, Fails, marks
  <2>8. SettleTrees'
      BY <1>7 DEF ArchiveLive, Goto, Occupied, Fails, marks
  <2> QED
      BY <2>1, <2>2, <2>3, <2>4, <2>5, <2>6, <2>7, <2>8
<1>8. CASE MarkUnproven
    BY <1>8 DEF MarkUnproven, Goto, Fails, trees
<1>9. CASE PromoteStaged
    BY <1>9 DEF PromoteStaged, Goto, Fails, marks
<1>10. CASE SmokeTest
  <2>1. RequestKept'
      BY <1>10, ProvedIsTree DEF SmokeTest, Goto, marks
  <2>2. CandidateKept'
    <3> HIDE DEF Whole, Operation, Package, Tree
    <3> QED
        BY <1>10 DEF SmokeTest, Goto, marks
  <2>3. WayCleared'
      BY <1>10, ProvedIsTree DEF SmokeTest, Goto, marks
  <2>4. InstallTrees'
      BY <1>10, ProvedIsTree DEF SmokeTest, Goto, marks
  <2>5. RollbackTrees'
      BY <1>10, ProvedIsTree DEF SmokeTest, Goto, marks
  <2>6. RestTrees'
      BY <1>10, ProvedIsTree DEF SmokeTest, Goto, marks
  <2>7. UndoTrees'
      BY <1>10, ProvedIsTree DEF SmokeTest, Goto, marks
  <2>8. SettleTrees'
      BY <1>10, ProvedIsTree DEF SmokeTest, Goto, marks
  <2> QED
      BY <2>1, <2>2, <2>3, <2>4, <2>5, <2>6, <2>7, <2>8
<1>11. CASE Unmark
  <2>1. RequestKept'
      BY <1>11 DEF Unmark, Fails, Goto, trees
  <2>2. CandidateKept'
      BY <1>11 DEF Unmark, Fails, Goto, trees
  <2>3. WayCleared'
      BY <1>11 DEF Unmark, Fails, Goto, trees
  <2>4. InstallTrees'
      BY <1>11 DEF Unmark, Fails, Goto, trees
  <2>5. RollbackTrees'
      BY <1>11 DEF Unmark, Fails, Goto, trees
  <2>6. RestTrees'
      BY <1>11 DEF Unmark, Fails, Goto, trees
  <2>7. UndoTrees'
      BY <1>11 DEF Unmark, Fails, Goto, trees
  <2>8. SettleTrees'
      BY <1>11 DEF Unmark, Fails, Goto, trees
  <2> QED
      BY <2>1, <2>2, <2>3, <2>4, <2>5, <2>6, <2>7, <2>8
<1>12. CASE TrustInstall
  <2>1. RequestKept'
      BY <1>12 DEF TrustInstall, WriteTrust, Goto, trees
  <2>2. CandidateKept'
      BY <1>12 DEF TrustInstall, WriteTrust, Goto, trees
  <2>3. WayCleared'
      BY <1>12 DEF TrustInstall, WriteTrust, Goto, trees
  <2>4. InstallTrees'
      BY <1>12 DEF TrustInstall, WriteTrust, Goto, trees
  <2>5. RollbackTrees'
      BY <1>12 DEF TrustInstall, WriteTrust, Goto, trees
  <2>6. RestTrees'
      BY <1>12 DEF TrustInstall, WriteTrust, Goto, trees
  <2>7. UndoTrees'
      BY <1>12 DEF TrustInstall, WriteTrust, Goto, trees
  <2>8. SettleTrees'
      BY <1>12 DEF TrustInstall, WriteTrust, Goto, trees
  <2> QED
      BY <2>1, <2>2, <2>3, <2>4, <2>5, <2>6, <2>7, <2>8
<1>13. CASE Commit
    BY <1>13 DEF Commit, CommitRename, Finish, Fails, Goto, trees
<1> QED
    BY <1>1, <1>2, <1>3, <1>4, <1>5, <1>6, <1>7, <1>8, <1>9, <1>10, <1>11, <1>12, <1>13
    DEF InstallStep

\* Putting back what an install displaced.
LEMMA UndoSwaps ==
    ASSUME FaultSites \cap SwapReliedOn = {}, StoreInv, SwapInv, UndoStep, TypeOK'
    PROVE  SwapInv'
<1>1. CASE Undo
  <2>1. RequestKept'
      BY <1>1 DEF Undo, Goto, disk, trees, marks
  <2>2. CandidateKept'
      BY <1>1 DEF Undo, Goto, disk, trees, marks
  <2>3. WayCleared'
      BY <1>1 DEF Undo, Goto, disk, trees, marks
  <2>4. InstallTrees'
      BY <1>1 DEF Undo, Goto, disk, trees, marks
  <2>5. RollbackTrees'
      BY <1>1 DEF Undo, Goto, disk, trees, marks
  <2>6. RestTrees'
      BY <1>1 DEF Undo, Goto, disk, trees, marks
  <2>7. UndoTrees'
      BY <1>1 DEF Undo, Goto, disk, trees, marks
  <2>8. SettleTrees'
      BY <1>1 DEF Undo, Goto, disk, trees, marks
  <2> QED
      BY <2>1, <2>2, <2>3, <2>4, <2>5, <2>6, <2>7, <2>8
<1>2. CASE UndoClearDiscard
    BY <1>2 DEF UndoClearDiscard, ScrapOf, Fails, Goto, marks
<1>3. CASE UndoDiscardLive
    BY <1>3 DEF UndoDiscardLive, Occupied, Fails, Goto, marks
<1>4. CASE Restore
  <2>1. RequestKept'
      BY <1>4 DEF Restore, Occupied, Fails, Goto, marks
  <2>2. CandidateKept'
      BY <1>4 DEF Restore, Occupied, Fails, Goto, marks
  <2>3. WayCleared'
      BY <1>4 DEF Restore, Occupied, Fails, Goto, marks
  <2>4. InstallTrees'
      BY <1>4 DEF Restore, Occupied, Fails, Goto, marks
  <2>5. RollbackTrees'
      BY <1>4 DEF Restore, Occupied, Fails, Goto, marks
  <2>6. RestTrees'
      BY <1>4 DEF Restore, Occupied, Fails, Goto, marks
  <2>7. UndoTrees'
      BY <1>4 DEF Restore, Occupied, Fails, Goto, marks
  <2>8. SettleTrees'
      BY <1>4 DEF Restore, Occupied, Fails, Goto, marks
  <2> QED
      BY <2>1, <2>2, <2>3, <2>4, <2>5, <2>6, <2>7, <2>8
<1>5. CASE TrustDisplaced
    BY <1>5 DEF TrustDisplaced, WriteTrust, Goto, trees
<1>6. CASE UndoFirst
  <2>1. RequestKept'
      BY <1>6 DEF UndoFirst, RemovalOf, Fails, Goto, marks
  <2>2. CandidateKept'
      BY <1>6 DEF UndoFirst, RemovalOf, Fails, Goto, marks
  <2>3. WayCleared'
      BY <1>6 DEF UndoFirst, RemovalOf, Fails, Goto, marks
  <2>4. InstallTrees'
      BY <1>6 DEF UndoFirst, RemovalOf, Fails, Goto, marks
  <2>5. RollbackTrees'
      BY <1>6 DEF UndoFirst, RemovalOf, Fails, Goto, marks
  <2>6. RestTrees'
      BY <1>6 DEF UndoFirst, RemovalOf, Fails, Goto, marks
  <2>7. UndoTrees'
      BY <1>6 DEF UndoFirst, RemovalOf, Fails, Goto, marks
  <2>8. SettleTrees'
      BY <1>6 DEF UndoFirst, RemovalOf, Fails, Goto, marks
  <2> QED
      BY <2>1, <2>2, <2>3, <2>4, <2>5, <2>6, <2>7, <2>8
<1>7. CASE Untrust
    BY <1>7 DEF Untrust, Goto, trees
<1> QED
    BY <1>1, <1>2, <1>3, <1>4, <1>5, <1>6, <1>7 DEF UndoStep

\* Forgetting the operation.
LEMMA ClearSwaps ==
    ASSUME FaultSites \cap SwapReliedOn = {}, StoreInv, SwapInv, ClearStep, TypeOK'
    PROVE  SwapInv'
<1>1. CASE ClearJournal
    BY <1>1 DEF ClearJournal, UnlinkOf, Fails, Goto, trees
<1>2. CASE ClearSmoke
    BY <1>2 DEF ClearSmoke, Fails, Goto, trees
<1>3. CASE DropDiscard
    BY <1>3 DEF DropDiscard, ScrapOf, Fails, Goto, marks
<1>4. CASE DropStaged
    BY <1>4, ScrapIsTree DEF DropStaged, ScrapOf, Fails, Resume, Finish, marks
<1> QED
    BY <1>1, <1>2, <1>3, <1>4 DEF ClearStep

\* Rollback.
LEMMA RollbackSwaps ==
    ASSUME FaultSites \cap SwapReliedOn = {}, StoreInv, SwapInv, RollbackStep, TypeOK'
    PROVE  SwapInv'
<1>1. CASE Target
    BY <1>1 DEF Target, RollbackTarget, Finish, disk, trees, marks
<1>2. CASE ClearDiscard
    BY <1>2 DEF ClearDiscard, ScrapOf, Fails, Goto, marks
<1>3. CASE DiscardLive
    BY <1>3 DEF DiscardLive, Goto, Occupied, Fails, Finish, marks
<1>4. CASE PromotePrevious
    BY <1>4 DEF PromotePrevious, Goto, Fails, Finish, marks
<1>5. CASE TrustRollback
    BY <1>5 DEF TrustRollback, WriteTrust, Goto, trees
<1>6. CASE Forget
    BY <1>6 DEF Forget, UnlinkOf, Fails, Goto, trees
<1> QED
    BY <1>1, <1>2, <1>3, <1>4, <1>5, <1>6 DEF RollbackStep

\* Removal.
LEMMA RemoveSwaps ==
    ASSUME FaultSites \cap SwapReliedOn = {}, StoreInv, SwapInv, RemoveStep, TypeOK'
    PROVE  SwapInv'
<1>1. CASE RemoveLive
    BY <1>1 DEF RemoveLive, Finish, Goto, Fails, marks
<1>2. CASE RemoveTrust
    BY <1>2 DEF RemoveTrust, Goto, trees
<1>3. CASE RemoveVersions
    BY <1>3 DEF RemoveVersions, UnlinkOf, Fails, RemovalOf, Remnants, Goto
<1> QED
    BY <1>1, <1>2, <1>3 DEF RemoveStep

\* Every row of the recovery table.
LEMMA RecoverSwaps ==
    ASSUME FaultSites \cap SwapReliedOn = {}, StoreInv, SwapInv, RecoverStep, TypeOK'
    PROVE  SwapInv'
<1>1. CASE Recover
    BY <1>1 DEF Recover, Resume, Finish, Goto, InstallRow, RollbackRow, disk, trees, marks
<1>2. CASE Abandon
    BY <1>2 DEF Abandon, UnlinkOf, Fails, Goto, trees
<1>3. CASE AbandonSmoke
    BY <1>3 DEF AbandonSmoke, Fails, Resume, Finish, trees
<1>4. CASE ScrapStaged
  <2>1. RequestKept'
      BY <1>4, ScrapIsTree DEF ScrapStaged, ScrapOf, Fails, Goto, marks
  <2>2. CandidateKept'
      BY <1>4, ScrapIsTree DEF ScrapStaged, ScrapOf, Fails, Goto, marks
  <2>3. WayCleared'
      BY <1>4, ScrapIsTree DEF ScrapStaged, ScrapOf, Fails, Goto, marks
  <2>4. InstallTrees'
      BY <1>4, ScrapIsTree DEF ScrapStaged, ScrapOf, Fails, Goto, marks
  <2>5. RollbackTrees'
      BY <1>4, ScrapIsTree DEF ScrapStaged, ScrapOf, Fails, Goto, marks
  <2>6. RestTrees'
      BY <1>4, ScrapIsTree DEF ScrapStaged, ScrapOf, Fails, Goto, marks
  <2>7. UndoTrees'
      BY <1>4, ScrapIsTree DEF ScrapStaged, ScrapOf, Fails, Goto, marks
  <2>8. SettleTrees'
      BY <1>4, ScrapIsTree DEF ScrapStaged, ScrapOf, Fails, Goto, marks
  <2> QED
      BY <2>1, <2>2, <2>3, <2>4, <2>5, <2>6, <2>7, <2>8
<1>5. CASE ScrapPrevious
    BY <1>5 DEF ScrapPrevious, RemovalOf, Remnants, Fails, Goto, marks
<1>6. CASE TrustSettle
    BY <1>6 DEF TrustSettle, WriteTrust, Goto, trees
<1>7. CASE CommitSettle
    BY <1>7 DEF CommitSettle, CommitRename, Fails, Resume, Finish, trees
<1>8. CASE TrustFirst
    BY <1>8 DEF TrustFirst, WriteTrust, Goto, trees
<1>9. CASE FinishPromote
    BY <1>9 DEF FinishPromote, Fails, Goto, marks
<1>10. CASE ReturnDiscard
    BY <1>10 DEF ReturnDiscard, Fails, Goto, marks
<1> QED
    BY <1>1, <1>2, <1>3, <1>4, <1>5, <1>6, <1>7, <1>8, <1>9, <1>10 DEF RecoverStep

\* Taking the gate, and the sweep of the staging directory.
LEMMA GateSwaps ==
    ASSUME FaultSites \cap SwapReliedOn = {},
           StoreInv, SwapInv, (Begin \/ Startup \/ SweepStep), TypeOK'
    PROVE  SwapInv'
<1>1. CASE Begin
    BY <1>1 DEF Begin, FirstStep, disk, trees, marks
<1>2. CASE BeginStartup
    BY <1>2 DEF BeginStartup, disk, trees, marks
<1>3. CASE BeginSweep
    BY <1>3 DEF BeginSweep, disk, trees, marks
<1>4. CASE SweepDiscard
    BY <1>4 DEF SweepDiscard, ScrapOf, Fails, Goto, marks
<1>5. CASE SweepStaged
    BY <1>5, ScrapIsTree DEF SweepStaged, ScrapOf, Fails, Finish, marks
<1> QED
    BY <1>1, <1>2, <1>3, <1>4, <1>5 DEF Startup, SweepStep

\* A cut in the middle of any call, and the restart after it.
LEMMA CrashSwaps ==
    ASSUME StoreInv, SwapInv, Crash, TypeOK'
    PROVE  SwapInv'
<1>1. pc' = "idle" /\ then' = "idle" /\ op' = Absent /\ rec' = Absent /\ boot' = "recover"
    BY DEF Crash
<1>2. CASE UNCHANGED disk
    BY <1>1, <1>2 DEF disk, trees, marks
<1>3. CASE pc = "stage" /\ UNCHANGED <<live, previous, discard, marks>>
    BY <1>1, <1>3 DEF marks
<1>4. CASE /\ pc \in {"preflight", "drop_staged", "scrap_staged", "sweep_staged"}
           /\ staged' \in Scrap(staged)
           /\ UNCHANGED <<live, previous, discard, marks>>
    BY <1>1, <1>4, ScrapIsTree DEF marks
<1>5. CASE /\ pc \in {"undo_clear", "drop_discard", "clear_discard", "sweep_discard"}
           /\ UNCHANGED <<live, previous, staged, marks>>
    BY <1>1, <1>5 DEF marks
<1>6. CASE /\ pc \in {"clear_previous", "scrap_previous"}
           /\ previous' \in Remnants(previous)
           /\ UNCHANGED <<live, staged, discard, marks>>
    BY <1>1, <1>6 DEF marks, Remnants
<1>7. CASE /\ pc \in {"undo_first", "remove"}
           /\ live' \in Remnants(live)
           /\ UNCHANGED <<previous, staged, discard, marks>>
    BY <1>1, <1>7 DEF marks, Remnants
<1>8. CASE /\ pc = "remove_versions"
           /\ previous' \in Remnants(previous) \cup {Absent}
           /\ kept' \in {kept, Absent}
           /\ UNCHANGED <<live, staged, discard, journal, smoke, trust>>
    BY <1>1, <1>8 DEF Remnants
<1>9. CASE pc = "journal" /\ journal' = Torn /\ UNCHANGED <<trees, kept, smoke, trust>>
    BY <1>1, <1>9 DEF trees
<1>10. CASE trust' = Torn /\ UNCHANGED <<trees, kept, journal, smoke>>
    BY <1>1, <1>10 DEF trees
<1> QED
    BY <1>2, <1>3, <1>4, <1>5, <1>6, <1>7, <1>8, <1>9, <1>10 DEF Crash, Cut

\* No step at all, and the empty folder.
LEMMA StutterSwaps ==
    ASSUME StoreInv, SwapInv, UNCHANGED vars, TypeOK'
    PROVE  SwapInv'
<1>1. RequestKept'
    BY DEF vars
<1>2. CandidateKept'
    BY DEF vars
<1>3. WayCleared'
    BY DEF vars
<1>4. InstallTrees'
    BY DEF vars
<1>5. RollbackTrees'
    BY DEF vars
<1>6. RestTrees'
    BY DEF vars
<1>7. UndoTrees'
    BY DEF vars
<1>8. SettleTrees'
    BY DEF vars
<1> QED
    BY <1>1, <1>2, <1>3, <1>4, <1>5, <1>6, <1>7, <1>8

LEMMA InitSwaps == Init => SwapInv
BY DEF Init

------------------------------------------------------------------------------
(* What every step does to the two versions of the abstract store *)

\* Install, from the check to the commit point.
LEMMA InstallEffect ==
    ASSUME FaultSites \cap SwapReliedOn = {}, StoreInv, SwapInv, InstallStep
    PROVE  Effect
<1> USE DEF Fallback, KeptTree
<1>1. CASE Check
  <2>1. UNCHANGED Installed
      BY <1>1, ChannelType, InstallOffersPackage, ReadTypes
      DEF Check, Finish, disk, trees, marks
  <2>2. UNCHANGED Fallback
      BY <1>1, ChannelType, InstallOffersPackage, ReadTypes
      DEF Check, Finish, disk, trees, marks
  <2> QED
      BY <2>1, <2>2 DEF Effect
<1>2. CASE Stage
  <2>1. UNCHANGED Installed
      BY <1>2, InstallOffersPackage, UnpackedIsTree DEF Stage, Goto, Fails, Finish, marks
  <2>2. UNCHANGED Fallback
      BY <1>2, InstallOffersPackage, UnpackedIsTree DEF Stage, Goto, Fails, Finish, marks
  <2> QED
      BY <2>1, <2>2 DEF Effect
<1>3. CASE Preflight
  <2>1. UNCHANGED Installed
      BY <1>3, ScrapIsTree DEF Preflight, Goto, ScrapOf, Fails, Finish, marks
  <2>2. UNCHANGED Fallback
      BY <1>3, ScrapIsTree DEF Preflight, Goto, ScrapOf, Fails, Finish, marks
  <2> QED
      BY <2>1, <2>2 DEF Effect
<1>4. CASE ClearRecord
    BY <1>4 DEF ClearRecord, UnlinkOf, Fails, Goto, trees, Effect, Version!SpendFallback
<1>5. CASE ClearPrevious
  <2>1. UNCHANGED Installed
      BY <1>5 DEF ClearPrevious, RemovalOf, Fails, Goto, marks
  <2>2. UNCHANGED Fallback
      BY <1>5 DEF ClearPrevious, RemovalOf, Fails, Goto, marks
  <2> QED
      BY <2>1, <2>2 DEF Effect
<1>6. CASE WriteJournal
    BY <1>6 DEF WriteJournal, Goto, Fails, Finish, trees, Effect, Version!Return
<1>7. CASE ArchiveLive
  <2>1. UNCHANGED Installed
      BY <1>7 DEF ArchiveLive, Goto, Occupied, Fails, marks
  <2>2. UNCHANGED Fallback
      BY <1>7 DEF ArchiveLive, Goto, Occupied, Fails, marks
  <2> QED
      BY <2>1, <2>2 DEF Effect
<1>8. CASE MarkUnproven
  <2>1. UNCHANGED Installed
      BY <1>8 DEF MarkUnproven, Goto, Fails, trees
  <2>2. UNCHANGED Fallback
      BY <1>8 DEF MarkUnproven, Goto, Fails, trees
  <2> QED
      BY <2>1, <2>2 DEF Effect
<1>9. CASE PromoteStaged
  <2>1. UNCHANGED Installed
      BY <1>9 DEF PromoteStaged, Goto, Fails, marks
  <2>2. UNCHANGED Fallback
      BY <1>9 DEF PromoteStaged, Goto, Fails, marks
  <2> QED
      BY <2>1, <2>2 DEF Effect
<1>10. CASE SmokeTest
  <2>1. UNCHANGED Installed
      BY <1>10, ProvedIsTree DEF SmokeTest, Goto, marks
  <2>2. UNCHANGED Fallback
      BY <1>10, ProvedIsTree DEF SmokeTest, Goto, marks
  <2> QED
      BY <2>1, <2>2 DEF Effect
<1>11. CASE Unmark
  <2> live = [package |-> op.package, files |-> Files, proved |-> TRUE] /\ op.package \in Packages
      BY <1>11, InstallOffersPackage DEF Unmark
  <2>1. CASE smoke' = FALSE
    <3>1. Installed = Named(previous)
        BY <1>11 DEF Unmark
    <3>2. Installed' = live
        BY <1>11, <2>1 DEF Unmark, trees
    <3>3. Fallback' = Installed
        BY <1>11, <2>1, <3>1 DEF Unmark, trees
    <3>4. Installed # Absent => "manifest" \in Installed.files
        OBVIOUS
    <3>5. Version!Upgrade
      <4> HIDE DEF Installed, Fallback
      <4> QED
          BY <3>2, <3>3, <3>4 DEF Version!Upgrade, Version!Files
    <3> QED
        BY <1>11, <3>1, <3>2, <3>5 DEF Unmark, Effect
  <2>2. CASE UNCHANGED smoke
    <3>1. UNCHANGED <<Installed, Fallback>>
        BY <1>11, <2>2 DEF Unmark, trees
    <3> QED
        BY <3>1 DEF Effect
  <2> QED
      BY <1>11, <2>1, <2>2 DEF Unmark
<1>12. CASE TrustInstall
  <2>1. UNCHANGED Installed
      BY <1>12 DEF TrustInstall, WriteTrust, Goto, trees
  <2>2. UNCHANGED Fallback
      BY <1>12 DEF TrustInstall, WriteTrust, Goto, trees
  <2> QED
      BY <2>1, <2>2 DEF Effect
<1>13. CASE Commit
  <2> live = [package |-> op.package, files |-> Files, proved |-> TRUE] /\ op.package \in Packages
      BY <1>13, InstallOffersPackage DEF Commit
  <2>1. CASE CommitRename /\ smoke
    <3>1. Installed = Named(previous)
        BY <1>13, <2>1 DEF Commit
    <3>2. Installed' = live
        BY <1>13, <2>1 DEF Commit, CommitRename, trees
    <3>3. Fallback' = Installed
        BY <1>13, <2>1, <3>1 DEF Commit, CommitRename, trees
    <3>4. Installed # Absent => "manifest" \in Installed.files
        OBVIOUS
    <3>5. Version!Upgrade
      <4> HIDE DEF Installed, Fallback
      <4> QED
          BY <3>2, <3>3, <3>4 DEF Version!Upgrade, Version!Files
    <3> QED
        BY <1>13, <3>1, <3>2, <3>5 DEF Commit, Effect
  <2>2. CASE CommitRename /\ ~smoke
    <3>1. UNCHANGED Installed
        BY <1>13, <2>2 DEF Commit, CommitRename, trees
    <3>2. UNCHANGED Fallback
        BY <1>13, <2>2 DEF Commit, CommitRename, trees
    <3> QED
        BY <3>1, <3>2 DEF Effect
  <2>3. CASE UNCHANGED <<kept, journal>>
    <3>1. UNCHANGED <<Installed, Fallback>>
        BY <1>13, <2>3 DEF Commit, trees
    <3> QED
        BY <3>1 DEF Effect
  <2> QED
      BY <1>13, <2>1, <2>2, <2>3 DEF Commit
<1> QED
    BY <1>1, <1>2, <1>3, <1>4, <1>5, <1>6, <1>7, <1>8, <1>9, <1>10, <1>11, <1>12, <1>13
    DEF InstallStep

\* Putting back what an install displaced.
LEMMA UndoEffect ==
    ASSUME FaultSites \cap SwapReliedOn = {}, StoreInv, SwapInv, UndoStep
    PROVE  Effect
<1> USE DEF Fallback, KeptTree
<1>1. CASE Undo
  <2>1. UNCHANGED Installed
      BY <1>1 DEF Undo, Goto, disk, trees, marks
  <2>2. UNCHANGED Fallback
      BY <1>1 DEF Undo, Goto, disk, trees, marks
  <2> QED
      BY <2>1, <2>2 DEF Effect
<1>2. CASE UndoClearDiscard
  <2>1. UNCHANGED Installed
      BY <1>2 DEF UndoClearDiscard, ScrapOf, Fails, Goto, marks
  <2>2. UNCHANGED Fallback
      BY <1>2 DEF UndoClearDiscard, ScrapOf, Fails, Goto, marks
  <2> QED
      BY <2>1, <2>2 DEF Effect
<1>3. CASE UndoDiscardLive
  <2>1. UNCHANGED Installed
      BY <1>3 DEF UndoDiscardLive, Occupied, Fails, Goto, marks
  <2>2. UNCHANGED Fallback
      BY <1>3 DEF UndoDiscardLive, Occupied, Fails, Goto, marks
  <2> QED
      BY <2>1, <2>2 DEF Effect
<1>4. CASE Restore
  <2>1. UNCHANGED Installed
      BY <1>4 DEF Restore, Occupied, Fails, Goto, marks
  <2>2. UNCHANGED Fallback
      BY <1>4 DEF Restore, Occupied, Fails, Goto, marks
  <2> QED
      BY <2>1, <2>2 DEF Effect
<1>5. CASE TrustDisplaced
  <2>1. UNCHANGED Installed
      BY <1>5 DEF TrustDisplaced, WriteTrust, Goto, trees
  <2>2. UNCHANGED Fallback
      BY <1>5 DEF TrustDisplaced, WriteTrust, Goto, trees
  <2> QED
      BY <2>1, <2>2 DEF Effect
<1>6. CASE UndoFirst
  <2>1. UNCHANGED Installed
      BY <1>6 DEF UndoFirst, RemovalOf, Fails, Goto, marks
  <2>2. UNCHANGED Fallback
      BY <1>6 DEF UndoFirst, RemovalOf, Fails, Goto, marks
  <2> QED
      BY <2>1, <2>2 DEF Effect
<1>7. CASE Untrust
  <2>1. UNCHANGED Installed
      BY <1>7 DEF Untrust, Goto, trees
  <2>2. UNCHANGED Fallback
      BY <1>7 DEF Untrust, Goto, trees
  <2> QED
      BY <2>1, <2>2 DEF Effect
<1> QED
    BY <1>1, <1>2, <1>3, <1>4, <1>5, <1>6, <1>7 DEF UndoStep

\* Forgetting the operation.
LEMMA ClearEffect ==
    ASSUME FaultSites \cap SwapReliedOn = {}, StoreInv, SwapInv, ClearStep
    PROVE  Effect
<1> USE DEF Fallback, KeptTree
<1>1. CASE ClearJournal
  <2>1. UNCHANGED Installed
      BY <1>1 DEF ClearJournal, UnlinkOf, Fails, Goto, trees
  <2>2. UNCHANGED Fallback
      BY <1>1 DEF ClearJournal, UnlinkOf, Fails, Goto, trees
  <2> QED
      BY <2>1, <2>2 DEF Effect
<1>2. CASE ClearSmoke
  <2>1. UNCHANGED Installed
      BY <1>2 DEF ClearSmoke, Fails, Goto, trees
  <2>2. UNCHANGED Fallback
      BY <1>2 DEF ClearSmoke, Fails, Goto, trees
  <2> QED
      BY <2>1, <2>2 DEF Effect
<1>3. CASE DropDiscard
  <2>1. UNCHANGED Installed
      BY <1>3 DEF DropDiscard, ScrapOf, Fails, Goto, marks
  <2>2. UNCHANGED Fallback
      BY <1>3 DEF DropDiscard, ScrapOf, Fails, Goto, marks
  <2> QED
      BY <2>1, <2>2 DEF Effect
<1>4. CASE DropStaged
  <2>1. UNCHANGED Installed
      BY <1>4, ScrapIsTree DEF DropStaged, ScrapOf, Fails, Resume, Finish, marks
  <2>2. UNCHANGED Fallback
      BY <1>4, ScrapIsTree DEF DropStaged, ScrapOf, Fails, Resume, Finish, marks
  <2> QED
      BY <2>1, <2>2 DEF Effect
<1> QED
    BY <1>1, <1>2, <1>3, <1>4 DEF ClearStep

\* Rollback.
LEMMA RollbackEffect ==
    ASSUME FaultSites \cap SwapReliedOn = {}, StoreInv, SwapInv, RollbackStep
    PROVE  Effect
<1> USE DEF Fallback, KeptTree
<1>1. CASE Target
  <2>1. UNCHANGED Installed
      BY <1>1 DEF Target, RollbackTarget, Finish, disk, trees, marks
  <2>2. UNCHANGED Fallback
      BY <1>1 DEF Target, RollbackTarget, Finish, disk, trees, marks
  <2> QED
      BY <2>1, <2>2 DEF Effect
<1>2. CASE ClearDiscard
  <2>1. UNCHANGED Installed
      BY <1>2 DEF ClearDiscard, ScrapOf, Fails, Goto, marks
  <2>2. UNCHANGED Fallback
      BY <1>2 DEF ClearDiscard, ScrapOf, Fails, Goto, marks
  <2> QED
      BY <2>1, <2>2 DEF Effect
<1>3. CASE DiscardLive
    BY <1>3 DEF DiscardLive, Goto, Occupied, Fails, Finish, marks, Effect, Version!Return
<1>4. CASE PromotePrevious
  <2>1. UNCHANGED Installed
      BY <1>4 DEF PromotePrevious, Goto, Fails, Finish, marks
  <2>2. UNCHANGED Fallback
      BY <1>4 DEF PromotePrevious, Goto, Fails, Finish, marks
  <2> QED
      BY <2>1, <2>2 DEF Effect
<1>5. CASE TrustRollback
  <2>1. UNCHANGED Installed
      BY <1>5 DEF TrustRollback, WriteTrust, Goto, trees
  <2>2. UNCHANGED Fallback
      BY <1>5 DEF TrustRollback, WriteTrust, Goto, trees
  <2> QED
      BY <2>1, <2>2 DEF Effect
<1>6. CASE Forget
  <2>1. UNCHANGED Installed
      BY <1>6 DEF Forget, UnlinkOf, Fails, Goto, trees
  <2>2. UNCHANGED Fallback
      BY <1>6 DEF Forget, UnlinkOf, Fails, Goto, trees
  <2> QED
      BY <2>1, <2>2 DEF Effect
<1> QED
    BY <1>1, <1>2, <1>3, <1>4, <1>5, <1>6 DEF RollbackStep

\* Removal.
LEMMA RemoveEffect ==
    ASSUME FaultSites \cap SwapReliedOn = {}, StoreInv, SwapInv, RemoveStep
    PROVE  Effect
<1> USE DEF Fallback, KeptTree
<1>1. CASE RemoveLive
    BY <1>1
    DEF RemoveLive, Finish, Goto, Fails, marks, Effect, Version!Uninstall,
        Version!Remnants, Remnants
<1>2. CASE RemoveTrust
  <2>1. UNCHANGED Installed
      BY <1>2 DEF RemoveTrust, Goto, trees
  <2>2. UNCHANGED Fallback
      BY <1>2 DEF RemoveTrust, Goto, trees
  <2> QED
      BY <2>1, <2>2 DEF Effect
<1>3. CASE RemoveVersions
  <2>1. UNCHANGED Installed /\ Installed = Absent
      BY <1>3 DEF RemoveVersions, UnlinkOf, RemovalOf, Goto
  <2>2. Fallback = Absent => Fallback' = Absent
      BY <1>3 DEF RemoveVersions, UnlinkOf, RemovalOf, Goto, Remnants
  <2>3. Fallback # Absent => Fallback' = Absent \/ Fallback' \in Remnants(Fallback)
    <3> SUFFICES ASSUME Fallback # Absent, Fallback' # Absent
                 PROVE  Fallback' \in Remnants(Fallback)
        OBVIOUS
    <3>1. Fallback = previous /\ Fallback' = previous' /\ previous # Absent
        BY <1>3 DEF RemoveVersions, UnlinkOf, RemovalOf, Goto
    <3>2. previous' \in Remnants(previous)
        BY <1>3, <3>1 DEF RemoveVersions, UnlinkOf, RemovalOf, Goto
    <3> HIDE DEF Fallback
    <3> QED
        BY <3>1, <3>2
  <2> HIDE DEF Installed, Fallback
  <2> QED
      BY <1>3, <2>1, <2>2, <2>3
      DEF RemoveVersions, Remnants, Effect, Version!SpendFallback, Version!ForgetFallback,
           Version!Remnants
<1> QED
    BY <1>1, <1>2, <1>3 DEF RemoveStep

\* Every row of the recovery table.
LEMMA RecoverEffect ==
    ASSUME FaultSites \cap SwapReliedOn = {}, StoreInv, SwapInv, RecoverStep
    PROVE  Effect
<1> USE DEF Fallback, KeptTree
<1>1. CASE Recover
  <2>1. UNCHANGED Installed
      BY <1>1
      DEF Recover, Resume, Finish, Goto, InstallRow, RollbackRow, disk, trees, marks
  <2>2. UNCHANGED Fallback
      BY <1>1
      DEF Recover, Resume, Finish, Goto, InstallRow, RollbackRow, disk, trees, marks
  <2> QED
      BY <2>1, <2>2 DEF Effect
<1>2. CASE Abandon
  <2>1. UNCHANGED Installed
      BY <1>2 DEF Abandon, UnlinkOf, Fails, Goto, trees
  <2>2. UNCHANGED Fallback
      BY <1>2 DEF Abandon, UnlinkOf, Fails, Goto, trees
  <2> QED
      BY <2>1, <2>2 DEF Effect
<1>3. CASE AbandonSmoke
  <2>1. UNCHANGED Installed
      BY <1>3 DEF AbandonSmoke, Fails, Resume, Finish, trees
  <2>2. UNCHANGED Fallback
      BY <1>3 DEF AbandonSmoke, Fails, Resume, Finish, trees
  <2> QED
      BY <2>1, <2>2 DEF Effect
<1>4. CASE ScrapStaged
  <2>1. UNCHANGED Installed
      BY <1>4, ScrapIsTree DEF ScrapStaged, ScrapOf, Fails, Goto, marks
  <2>2. UNCHANGED Fallback
      BY <1>4, ScrapIsTree DEF ScrapStaged, ScrapOf, Fails, Goto, marks
  <2> QED
      BY <2>1, <2>2 DEF Effect
<1>5. CASE ScrapPrevious
  <2>1. UNCHANGED Installed
      BY <1>5 DEF ScrapPrevious, RemovalOf, Remnants, Fails, Goto, marks
  <2>2. UNCHANGED Fallback
      BY <1>5 DEF ScrapPrevious, RemovalOf, Remnants, Fails, Goto, marks
  <2> QED
      BY <2>1, <2>2 DEF Effect
<1>6. CASE TrustSettle
  <2>1. UNCHANGED Installed
      BY <1>6 DEF TrustSettle, WriteTrust, Goto, trees
  <2>2. UNCHANGED Fallback
      BY <1>6 DEF TrustSettle, WriteTrust, Goto, trees
  <2> QED
      BY <2>1, <2>2 DEF Effect
<1>7. CASE CommitSettle
  <2>1. UNCHANGED Installed
      BY <1>7 DEF CommitSettle, CommitRename, Fails, Resume, Finish, trees
  <2>2. UNCHANGED Fallback
      BY <1>7 DEF CommitSettle, CommitRename, Fails, Resume, Finish, trees
  <2> QED
      BY <2>1, <2>2 DEF Effect
<1>8. CASE TrustFirst
  <2>1. UNCHANGED Installed
      BY <1>8 DEF TrustFirst, WriteTrust, Goto, trees
  <2>2. UNCHANGED Fallback
      BY <1>8 DEF TrustFirst, WriteTrust, Goto, trees
  <2> QED
      BY <2>1, <2>2 DEF Effect
<1>9. CASE FinishPromote
  <2>1. UNCHANGED Installed
      BY <1>9 DEF FinishPromote, Fails, Goto, marks
  <2>2. UNCHANGED Fallback
      BY <1>9 DEF FinishPromote, Fails, Goto, marks
  <2> QED
      BY <2>1, <2>2 DEF Effect
<1>10. CASE ReturnDiscard
  <2>1. UNCHANGED Installed
      BY <1>10 DEF ReturnDiscard, Fails, Goto, marks
  <2>2. UNCHANGED Fallback
      BY <1>10 DEF ReturnDiscard, Fails, Goto, marks
  <2> QED
      BY <2>1, <2>2 DEF Effect
<1> QED
    BY <1>1, <1>2, <1>3, <1>4, <1>5, <1>6, <1>7, <1>8, <1>9, <1>10 DEF RecoverStep

\* Taking the gate, and the sweep of the staging directory.
LEMMA GateEffect ==
    ASSUME FaultSites \cap SwapReliedOn = {},
           StoreInv, SwapInv, (Begin \/ Startup \/ SweepStep)
    PROVE  Effect
<1> USE DEF Fallback, KeptTree
<1>1. CASE Begin
  <2>1. UNCHANGED Installed
      BY <1>1 DEF Begin, FirstStep, disk, trees, marks
  <2>2. UNCHANGED Fallback
      BY <1>1 DEF Begin, FirstStep, disk, trees, marks
  <2> QED
      BY <2>1, <2>2 DEF Effect
<1>2. CASE BeginStartup
  <2>1. UNCHANGED Installed
      BY <1>2 DEF BeginStartup, disk, trees, marks
  <2>2. UNCHANGED Fallback
      BY <1>2 DEF BeginStartup, disk, trees, marks
  <2> QED
      BY <2>1, <2>2 DEF Effect
<1>3. CASE BeginSweep
  <2>1. UNCHANGED Installed
      BY <1>3 DEF BeginSweep, disk, trees, marks
  <2>2. UNCHANGED Fallback
      BY <1>3 DEF BeginSweep, disk, trees, marks
  <2> QED
      BY <2>1, <2>2 DEF Effect
<1>4. CASE SweepDiscard
  <2>1. UNCHANGED Installed
      BY <1>4 DEF SweepDiscard, ScrapOf, Fails, Goto, marks
  <2>2. UNCHANGED Fallback
      BY <1>4 DEF SweepDiscard, ScrapOf, Fails, Goto, marks
  <2> QED
      BY <2>1, <2>2 DEF Effect
<1>5. CASE SweepStaged
  <2>1. UNCHANGED Installed
      BY <1>5, ScrapIsTree DEF SweepStaged, ScrapOf, Fails, Finish, marks
  <2>2. UNCHANGED Fallback
      BY <1>5, ScrapIsTree DEF SweepStaged, ScrapOf, Fails, Finish, marks
  <2> QED
      BY <2>1, <2>2 DEF Effect
<1> QED
    BY <1>1, <1>2, <1>3, <1>4, <1>5 DEF Startup, SweepStep

\* A cut changes neither version, except in the middle of an uninstall.
LEMMA CrashEffect ==
    ASSUME StoreInv, SwapInv, Crash
    PROVE  Effect
<1> USE DEF Fallback, KeptTree
<1>1. CASE UNCHANGED disk
    BY <1>1 DEF disk, trees, marks, Effect
<1>2. CASE pc = "stage" /\ UNCHANGED <<live, previous, discard, marks>>
    BY <1>2 DEF marks, Effect
<1>3. CASE /\ pc \in {"preflight", "drop_staged", "scrap_staged", "sweep_staged"}
           /\ staged' \in Scrap(staged)
           /\ UNCHANGED <<live, previous, discard, marks>>
  <2>1. staged' = Absent <=> staged = Absent
      BY <1>3, ScrapIsTree
  <2>2. UNCHANGED <<Installed, Fallback>>
      BY <1>3, <2>1 DEF marks
  <2> QED
      BY <2>2 DEF Effect
<1>4. CASE /\ pc \in {"undo_clear", "drop_discard", "clear_discard", "sweep_discard"}
           /\ UNCHANGED <<live, previous, staged, marks>>
  <2>1. UNCHANGED <<Installed, Fallback>>
      BY <1>4 DEF marks
  <2> QED
      BY <2>1 DEF Effect
<1>5. CASE /\ pc \in {"clear_previous", "scrap_previous"}
           /\ previous' \in Remnants(previous)
           /\ UNCHANGED <<live, staged, discard, marks>>
  <2>1. UNCHANGED <<Installed, Fallback>>
      BY <1>5 DEF marks, Remnants
  <2> QED
      BY <2>1 DEF Effect
<1>6. CASE /\ pc = "undo_first"
           /\ live' \in Remnants(live)
           /\ UNCHANGED <<previous, staged, discard, marks>>
  <2>1. UNCHANGED <<Installed, Fallback>>
      BY <1>6 DEF marks, Remnants
  <2> QED
      BY <2>1 DEF Effect
<1>7. CASE /\ pc = "remove"
           /\ live' \in Remnants(live)
           /\ UNCHANGED <<previous, staged, discard, marks>>
    BY <1>7 DEF marks, Remnants, Effect, Version!Uninstall, Version!Remnants
<1>8. CASE /\ pc = "remove_versions"
           /\ previous' \in Remnants(previous) \cup {Absent}
           /\ kept' \in {kept, Absent}
           /\ UNCHANGED <<live, staged, discard, journal, smoke, trust>>
  <2>1. UNCHANGED Installed /\ Installed = Absent
      BY <1>8
  <2>2. Fallback = Absent => Fallback' = Absent
      BY <1>8 DEF Remnants
  <2>3. Fallback # Absent => Fallback' = Absent \/ Fallback' \in Remnants(Fallback)
    <3> SUFFICES ASSUME Fallback # Absent, Fallback' # Absent
                 PROVE  Fallback' \in Remnants(Fallback)
        OBVIOUS
    <3>1. Fallback = previous /\ Fallback' = previous' /\ previous # Absent
        BY <1>8
    <3>2. previous' \in Remnants(previous)
        BY <1>8, <3>1
    <3> HIDE DEF Fallback
    <3> QED
        BY <3>1, <3>2
  <2> HIDE DEF Installed, Fallback
  <2> QED
      BY <1>8, <2>1, <2>2, <2>3
      DEF Remnants, Effect, Version!SpendFallback, Version!ForgetFallback, Version!Remnants
<1>9. CASE pc = "journal" /\ journal' = Torn /\ UNCHANGED <<trees, kept, smoke, trust>>
  <2>1. UNCHANGED <<Installed, Fallback>>
      BY <1>9 DEF trees
  <2> QED
      BY <2>1 DEF Effect
<1>10. CASE trust' = Torn /\ UNCHANGED <<trees, kept, journal, smoke>>
    BY <1>10 DEF trees, Effect
<1> QED
    BY <1>1, <1>2, <1>3, <1>4, <1>5, <1>6, <1>7, <1>8, <1>9, <1>10 DEF Crash, Cut

HIDE DEF StoreInv, SwapInv, Installed

\* Every step of the transaction is one step of the abstract store, or none.
LEMMA NextEffect ==
    ASSUME FaultSites \cap SwapReliedOn = {}, StoreInv, SwapInv, [Next]_vars
    PROVE  Effect
<1>1. CASE UNCHANGED vars
    BY <1>1 DEF vars, Effect, Installed, Fallback, KeptTree
<1>2. CASE Next
    BY <1>2, InstallEffect, UndoEffect, ClearEffect, RollbackEffect, RemoveEffect,
       RecoverEffect,
       GateEffect, CrashEffect
    DEF Next, Step
<1> QED
    BY <1>1, <1>2
------------------------------------------------------------------------------
(* The theorems *)

\* The invariant holds through every install, rollback, removal, recovery,
\* failed call and crash, as long as the calls relied on do not fail.
THEOREM SwapInvariant ==
    ASSUME FaultSites \cap SwapReliedOn = {}
    PROVE  Spec => [](StoreInv /\ SwapInv)
<1>1. FaultSites \cap ReliedOn = {}
    OBVIOUS
<1>2. StoreInv /\ SwapInv /\ [Next]_vars /\ TypeOK' => SwapInv'
    BY InstallSwaps, UndoSwaps, ClearSwaps, RollbackSwaps, RemoveSwaps, RecoverSwaps,
       GateSwaps,
       CrashSwaps, StutterSwaps
    DEF Next, Step
<1>3. Spec => []StoreInv
    BY <1>1, StoreInvariant
<1>4. StoreInv => TypeOK
    BY DEF StoreInv
<1> QED
    BY <1>2, <1>3, <1>4, InitSwaps, PTL DEF Spec

\* The store implements the abstract one: the two versions change only by an
\* upgrade to a whole and proved version, a return, an uninstall or the loss of
\* the way back, and no crash, failed call or recovery shows in between.
THEOREM SwapRefinement ==
    ASSUME FaultSites \cap SwapReliedOn = {}
    PROVE  Spec => ImplementsVersionSwap
<1>1. Init => Version!Init
    BY DEF Init, Version!Init, Installed, Fallback, KeptTree
<1>2. Effect => [Version!Next]_<<Installed, Fallback>>
    BY DEF Effect, Version!Next
<1> QED
    BY <1>1, <1>2, NextEffect, SwapInvariant, PTL
    DEF Spec, ImplementsVersionSwap, Version!Spec

\* No install, rollback, undo, recovery or crash leaves the plugin without the
\* version it had: only a removal the user asked for does.
THEOREM RemovalAlone ==
    ASSUME FaultSites \cap SwapReliedOn = {}
    PROVE  Spec => OnlyRemovalUninstalls
<1>1. ASSUME StoreInv, SwapInv, Effect
      PROVE  UninstallsByRemoval
  <2>1. CASE Version!Upgrade
    <3>1. Installed' \in Tree
        BY <2>1 DEF Version!Upgrade, Version!Files
    <3> QED
        BY <3>1 DEF UninstallsByRemoval
  <2>2. CASE pc = "remove"
      BY <1>1, <2>2 DEF SwapInv, UninstallsByRemoval
  <2>3. CASE Version!Return
      BY <2>3 DEF Version!Return, UninstallsByRemoval
  <2>4. CASE UNCHANGED Installed
      BY <2>4 DEF UninstallsByRemoval
  <2> QED
      BY <1>1, <2>1, <2>2, <2>3, <2>4
      DEF Effect, Version!SpendFallback, Version!ForgetFallback
<1> QED
    BY <1>1, NextEffect, SwapInvariant, PTL DEF Spec, OnlyRemovalUninstalls

\* Undoing an install and clearing up after an operation keep the version the
\* plugin is at.
THEOREM UndoSafety ==
    ASSUME FaultSites \cap SwapReliedOn = {}
    PROVE  Spec => UndoKeepsInstalled
<1>1. ASSUME Effect
      PROVE  UndoRestores
    BY <1>1 DEF Effect, UndoRestores, UndoSteps, Version!SpendFallback
<1> QED
    BY <1>1, NextEffect, SwapInvariant, PTL DEF Spec, UndoKeepsInstalled

\* A registry install moves the plugin to a newer version or not at all, from
\* its recovery to its clearing up, whatever was live when it was requested.
THEOREM GuardedForward ==
    ASSUME FaultSites \cap SwapReliedOn = {}
    PROVE  Spec => GuardedInstallGoesForward
<1> DEFINE Forward ==
        /\ op # Absent /\ op.kind = "install" /\ op.guarded
        /\ Installed # Absent /\ Installed' # Absent /\ Installed' # Installed
        => VersionIn(Installed') > VersionIn(Installed)
<1>1. ASSUME StoreInv, SwapInv, Effect
      PROVE  Forward
  <2>1. CASE pc \in {"unmark", "commit"} /\ Installed = Named(previous) /\ Installed' = live
      BY <1>1, <2>1 DEF StoreInv, SwapInv
  <2>2. CASE UNCHANGED Installed
      BY <2>2
  <2>3. CASE op.kind \in {"rollback", "remove"}
      BY <2>3
  <2> QED
      BY <1>1, <2>1, <2>2, <2>3
      DEF Effect, SwapInv, Version!SpendFallback, Version!ForgetFallback
<1> QED
    BY <1>1, NextEffect, SwapInvariant, PTL DEF Spec, GuardedInstallGoesForward

------------------------------------------------------------------------------
(* Badges, and what lies there between operations *)

\* For the badges, no call may fail that writes a marker the journal would have
\* written again, nor a swap (its undo writes the displaced marker while the
\* candidate is still staged, where a crash makes recovery skip that marker),
\* nor recovery's removal of the candidate.
TrustReliedOn ==
    SwapReliedOn \cup
        {"archive", "mark", "promote", "scrap_staged",
         "trust_install", "trust_settle", "trust_first", "trust_displaced", "trust_rollback"}

\* For what is live between operations, the call that puts a version back must
\* not fail with its error returned, nor the one that takes the marker away.
IdleReliedOn == SwapReliedOn \cup {"unmark", "promote_previous"}

------------------------------------------------------------------------------

\* A whole tree was signed (or not) as `channel` says.
Bears(tree, channel) == tree # Absent /\ tree.files = Files => tree.package.channel = channel

BadgeTrue == live # Absent /\ live.files = Files => LiveChannel = live.package.channel

RequestTrust ==
    /\ Installer =>
           /\ rec.channel = op.package.channel
           /\ rec.channel = Unsigned => rec.displacedChannel = Unsigned
           /\ pc \in StagedFlow \cup {"stage", "journal"} => Bears(live, rec.displacedChannel)
    /\ pc = "journal" /\ rec.kind = "rollback" => rec.channel = kept.displacedChannel

RestTrust ==
    journal \notin Record =>
        /\ BadgeTrue
        /\ kept # Absent /\ kept.displacedVersion # Absent
               => Bears(previous, kept.displacedChannel)

RollbackTrust ==
    RollingBack =>
        /\ previous # Absent =>
               /\ BadgeTrue
               /\ kept.displacedChannel = journal.channel /\ Bears(previous, journal.channel)
        /\ previous = Absent => Bears(live, journal.channel)

\* Under an install journal the marker may be anything once nothing is staged:
\* which badge recovery has to write follows from where the trees are.
InstallTrust ==
    Installing =>
        /\ staged # Absent => BadgeTrue
        /\ Bears(previous, journal.displacedChannel)
        /\ previous = Absent /\ (staged # Absent \/ journal.displacedVersion # Absent)
               => Bears(live, journal.displacedChannel)
        /\ staged = Absent /\ ~smoke /\ (previous # Absent \/ journal.displacedVersion = Absent)
               => Bears(live, journal.channel)

StepTrust ==
    /\ pc \in {"undo", "undo_clear", "undo_discard", "undo_first", "untrust", "restore",
               "trust_displaced"} => staged = Absent
    /\ pc = "trust_displaced" => Bears(live, rec.displacedChannel)
    /\ pc \in {"trust_install", "trust_settle", "trust_first", "trust_rollback"}
           => Bears(live, rec.channel)
    /\ pc \in {"commit", "commit_settle", "scrap_previous", "forget", "clear_journal"}
           => BadgeTrue

TrustInv == RequestTrust /\ RestTrust /\ RollbackTrust /\ InstallTrust /\ StepTrust

\* Between operations a journal is left only where it changes nothing.
IdleInv ==
    /\ pc \in {"trust_install", "commit"} => ~smoke
    /\ pc \in {"idle", "sweep_discard", "sweep_staged"} /\ boot # "recover" /\ journal \in Record
           => live # Absent /\ (journal.kind = "install" => ~smoke)

\* The proofs below are about these state predicates throughout.
USE PackagesAssumption, ValuesAssumption
DEF StoreInv, TypeOK, PreviousGood, LiveGood, RollbackHasTree, RequestShape, JournalShape,
    TreeShape, Good, Installing, RollingBack, Undoable, OwnInstall, OwnRollback, RequestSteps,
    UnjournalledSteps, InstallSteps, RollbackSteps, RecordSteps, ProvedSteps, ReliedOn,
    SwapInv, SwapReliedOn, RequestKept, InstallFlow, Installer, StagedFlow, CandidateKept,
    WayCleared, InstallTrees, KeptIs, RollbackTrees, RestTrees, UndoTrees, SettleTrees,
    Installed, Settled, Named, VersionIn, Whole, Files, Record, Marker, Channels, Operation,
    Package, Tree,
    TrustInv, TrustReliedOn, Bears, BadgeTrue, LiveChannel, RecordedChannel, DigestIn,
    RequestTrust, RestTrust, RollbackTrust, InstallTrust, StepTrust

------------------------------------------------------------------------------
(* The badges *)

\* Install, from the check to the commit point.
LEMMA InstallBadges ==
    ASSUME FaultSites \cap TrustReliedOn = {},
           StoreInv, SwapInv, TrustInv, InstallStep, TypeOK'
    PROVE  TrustInv'
<1>1. CASE Check
    BY <1>1, InstallOffersPackage, ReadTypes DEF Check, Finish, disk, trees, marks
<1>2. CASE Stage
    BY <1>2, InstallOffersPackage DEF Stage, Goto, Fails, Finish, marks
<1>3. CASE Preflight
    BY <1>3 DEF Preflight, Goto, ScrapOf, Fails, Finish, marks
<1>4. CASE ClearRecord
    BY <1>4 DEF ClearRecord, UnlinkOf, Fails, Goto, trees
<1>5. CASE ClearPrevious
    BY <1>5 DEF ClearPrevious, RemovalOf, Fails, Goto, marks
<1>6. CASE WriteJournal
    BY <1>6 DEF WriteJournal, Goto, Fails, Finish, trees
<1>7. CASE ArchiveLive
    BY <1>7 DEF ArchiveLive, Goto, Occupied, Fails, marks
<1>8. CASE MarkUnproven
    BY <1>8 DEF MarkUnproven, Goto, Fails, trees
<1>9. CASE PromoteStaged
    BY <1>9 DEF PromoteStaged, Goto, Fails, marks
<1>10. CASE SmokeTest
    BY <1>10 DEF SmokeTest, Goto, marks
<1>11. CASE Unmark
    BY <1>11 DEF Unmark, Fails, Goto, trees
<1>12. CASE TrustInstall
    BY <1>12 DEF TrustInstall, WriteTrust, UnlinkOf, Fails, Goto, trees
<1>13. CASE Commit
    BY <1>13 DEF Commit, CommitRename, Finish, Fails, Goto, trees
<1> QED
    BY <1>1, <1>2, <1>3, <1>4, <1>5, <1>6, <1>7, <1>8, <1>9, <1>10, <1>11, <1>12, <1>13
    DEF InstallStep

\* Putting back what an install displaced.
LEMMA UndoBadges ==
    ASSUME FaultSites \cap TrustReliedOn = {},
           StoreInv, SwapInv, TrustInv, UndoStep, TypeOK'
    PROVE  TrustInv'
<1>1. CASE Undo
    BY <1>1 DEF Undo, Goto, disk, trees, marks
<1>2. CASE UndoClearDiscard
    BY <1>2 DEF UndoClearDiscard, ScrapOf, Fails, Goto, marks
<1>3. CASE UndoDiscardLive
    BY <1>3 DEF UndoDiscardLive, Occupied, Fails, Goto, marks
<1>4. CASE Restore
    BY <1>4 DEF Restore, Occupied, Fails, Goto, marks
<1>5. CASE TrustDisplaced
    BY <1>5 DEF TrustDisplaced, WriteTrust, UnlinkOf, Fails, Goto, trees
<1>6. CASE UndoFirst
    BY <1>6 DEF UndoFirst, RemovalOf, Fails, Goto, marks
<1>7. CASE Untrust
    BY <1>7 DEF Untrust, UnlinkOf, Fails, Goto, trees
<1> QED
    BY <1>1, <1>2, <1>3, <1>4, <1>5, <1>6, <1>7 DEF UndoStep

\* Forgetting the operation.
LEMMA ClearBadges ==
    ASSUME FaultSites \cap TrustReliedOn = {},
           StoreInv, SwapInv, TrustInv, ClearStep, TypeOK'
    PROVE  TrustInv'
<1>1. CASE ClearJournal
    BY <1>1 DEF ClearJournal, UnlinkOf, Fails, Goto, trees
<1>2. CASE ClearSmoke
    BY <1>2 DEF ClearSmoke, Fails, Goto, trees
<1>3. CASE DropDiscard
    BY <1>3 DEF DropDiscard, ScrapOf, Fails, Goto, marks
<1>4. CASE DropStaged
    BY <1>4, ScrapIsTree DEF DropStaged, ScrapOf, Fails, Resume, Finish, marks
<1> QED
    BY <1>1, <1>2, <1>3, <1>4 DEF ClearStep

\* Rollback.
LEMMA RollbackBadges ==
    ASSUME FaultSites \cap TrustReliedOn = {},
           StoreInv, SwapInv, TrustInv, RollbackStep, TypeOK'
    PROVE  TrustInv'
<1>1. CASE Target
    BY <1>1 DEF Target, RollbackTarget, Finish, disk, trees, marks
<1>2. CASE ClearDiscard
    BY <1>2 DEF ClearDiscard, ScrapOf, Fails, Goto, marks
<1>3. CASE DiscardLive
    BY <1>3 DEF DiscardLive, Goto, Occupied, Fails, Finish, marks
<1>4. CASE PromotePrevious
    BY <1>4 DEF PromotePrevious, Goto, Fails, Finish, marks
<1>5. CASE TrustRollback
    BY <1>5 DEF TrustRollback, WriteTrust, UnlinkOf, Fails, Goto, trees
<1>6. CASE Forget
    BY <1>6 DEF Forget, UnlinkOf, Fails, Goto, trees
<1> QED
    BY <1>1, <1>2, <1>3, <1>4, <1>5, <1>6 DEF RollbackStep

\* Removal.
LEMMA RemoveBadges ==
    ASSUME FaultSites \cap TrustReliedOn = {},
           StoreInv, SwapInv, TrustInv, RemoveStep, TypeOK'
    PROVE  TrustInv'
<1>1. CASE RemoveLive
  <2>1. RequestTrust'
      BY <1>1 DEF RemoveLive, Remnants, Finish, Goto, Fails, marks
  <2>2. RestTrust'
      BY <1>1 DEF RemoveLive, Remnants, Finish, Goto, Fails, marks
  <2>3. RollbackTrust'
      BY <1>1 DEF RemoveLive, Remnants, Finish, Goto, Fails, marks
  <2>4. InstallTrust'
      BY <1>1 DEF RemoveLive, Remnants, Finish, Goto, Fails, marks
  <2>5. StepTrust'
      BY <1>1 DEF RemoveLive, Remnants, Finish, Goto, Fails, marks
  <2> QED
      BY <2>1, <2>2, <2>3, <2>4, <2>5
<1>2. CASE RemoveTrust
    BY <1>2 DEF RemoveTrust, UnlinkOf, Fails, Goto, trees
<1>3. CASE RemoveVersions
    BY <1>3 DEF RemoveVersions, UnlinkOf, Fails, RemovalOf, Remnants, Goto
<1> QED
    BY <1>1, <1>2, <1>3 DEF RemoveStep

\* Every row of the recovery table.
LEMMA RecoverBadges ==
    ASSUME FaultSites \cap TrustReliedOn = {},
           StoreInv, SwapInv, TrustInv, RecoverStep, TypeOK'
    PROVE  TrustInv'
<1>1. CASE Recover
    BY <1>1 DEF Recover, Resume, Finish, Goto, InstallRow, RollbackRow, disk, trees, marks
<1>2. CASE Abandon
    BY <1>2 DEF Abandon, UnlinkOf, Fails, Goto, trees
<1>3. CASE AbandonSmoke
    BY <1>3 DEF AbandonSmoke, Fails, Resume, Finish, trees
<1>4. CASE ScrapStaged
    BY <1>4, ScrapIsTree DEF ScrapStaged, ScrapOf, Fails, Goto, marks
<1>5. CASE ScrapPrevious
    BY <1>5 DEF ScrapPrevious, RemovalOf, Remnants, Fails, Goto, marks
<1>6. CASE TrustSettle
    BY <1>6 DEF TrustSettle, WriteTrust, UnlinkOf, Fails, Goto, trees
<1>7. CASE CommitSettle
    BY <1>7 DEF CommitSettle, CommitRename, Fails, Resume, Finish, trees
<1>8. CASE TrustFirst
    BY <1>8 DEF TrustFirst, WriteTrust, UnlinkOf, Fails, Goto, trees
<1>9. CASE FinishPromote
    BY <1>9 DEF FinishPromote, Fails, Goto, marks
<1>10. CASE ReturnDiscard
    BY <1>10 DEF ReturnDiscard, Fails, Goto, marks
<1> QED
    BY <1>1, <1>2, <1>3, <1>4, <1>5, <1>6, <1>7, <1>8, <1>9, <1>10 DEF RecoverStep

\* Taking the gate, and the sweep of the staging directory.
LEMMA GateBadges ==
    ASSUME FaultSites \cap TrustReliedOn = {},
           StoreInv, SwapInv, TrustInv, (Begin \/ Startup \/ SweepStep), TypeOK'
    PROVE  TrustInv'
<1>1. CASE Begin
    BY <1>1 DEF Begin, FirstStep, disk, trees, marks
<1>2. CASE BeginStartup
    BY <1>2 DEF BeginStartup, disk, trees, marks
<1>3. CASE BeginSweep
    BY <1>3 DEF BeginSweep, disk, trees, marks
<1>4. CASE SweepDiscard
    BY <1>4 DEF SweepDiscard, ScrapOf, Fails, Goto, marks
<1>5. CASE SweepStaged
    BY <1>5, ScrapIsTree DEF SweepStaged, ScrapOf, Fails, Finish, marks
<1> QED
    BY <1>1, <1>2, <1>3, <1>4, <1>5 DEF Startup, SweepStep

\* A cut in the middle of any call, and the restart after it.
LEMMA CrashBadges ==
    ASSUME StoreInv, SwapInv, TrustInv, Crash, TypeOK'
    PROVE  TrustInv'
<1>1. pc' = "idle" /\ then' = "idle" /\ op' = Absent /\ rec' = Absent /\ boot' = "recover"
    BY DEF Crash
<1>2. CASE UNCHANGED disk
    BY <1>1, <1>2 DEF disk, trees, marks
<1>3. CASE pc = "stage" /\ UNCHANGED <<live, previous, discard, marks>>
    BY <1>1, <1>3 DEF marks
<1>4. CASE /\ pc \in {"preflight", "drop_staged", "scrap_staged", "sweep_staged"}
           /\ staged' \in Scrap(staged)
           /\ UNCHANGED <<live, previous, discard, marks>>
    BY <1>1, <1>4, ScrapIsTree DEF marks
<1>5. CASE /\ pc \in {"undo_clear", "drop_discard", "clear_discard", "sweep_discard"}
           /\ UNCHANGED <<live, previous, staged, marks>>
    BY <1>1, <1>5 DEF marks
<1>6. CASE /\ pc \in {"clear_previous", "scrap_previous"}
           /\ previous' \in Remnants(previous)
           /\ UNCHANGED <<live, staged, discard, marks>>
    BY <1>1, <1>6 DEF marks, Remnants
<1>7. CASE /\ pc \in {"undo_first", "remove"}
           /\ live' \in Remnants(live)
           /\ UNCHANGED <<previous, staged, discard, marks>>
  <2>1. PICK f \in SUBSET live.files : live' = [live EXCEPT !.files = f]
      BY <1>7 DEF Remnants
  <2>2. live'.files = Files => live'.package = live.package /\ live.files = Files /\ live # Absent
      BY <1>7, <2>1 DEF Remnants
  <2>3. live'.files = Files => live'.package = live.package /\ VersionIn(live') = VersionIn(live)
                                /\ DigestIn(live') = DigestIn(live)
      BY <1>7, <2>1, <2>2
  <2> QED
      BY <1>1, <1>7, <2>2, <2>3 DEF marks
<1>8. CASE /\ pc = "remove_versions"
           /\ previous' \in Remnants(previous) \cup {Absent}
           /\ kept' \in {kept, Absent}
           /\ UNCHANGED <<live, staged, discard, journal, smoke, trust>>
    BY <1>1, <1>8 DEF Remnants
<1>9. CASE pc = "journal" /\ journal' = Torn /\ UNCHANGED <<trees, kept, smoke, trust>>
    BY <1>1, <1>9 DEF trees
<1>10. CASE /\ pc \in {"trust_install", "trust_settle", "trust_first", "trust_rollback",
                       "trust_displaced"}
            /\ trust' = Torn /\ UNCHANGED <<trees, kept, journal, smoke>>
    BY <1>1, <1>10 DEF trees
<1> QED
    BY <1>2, <1>3, <1>4, <1>5, <1>6, <1>7, <1>8, <1>9, <1>10 DEF Crash, Cut

\* No step at all, and the empty folder.
LEMMA StutterBadges ==
    ASSUME StoreInv, SwapInv, TrustInv, UNCHANGED vars, TypeOK'
    PROVE  TrustInv'
BY DEF vars

LEMMA InitBadges == Init => TrustInv
BY DEF Init

------------------------------------------------------------------------------
(* Between operations *)

\* What the gate is released with.
LEMMA StepIdle ==
    ASSUME FaultSites \cap IdleReliedOn = {},
           StoreInv, SwapInv, IdleInv, [Next]_vars, TypeOK'
    PROVE  IdleInv'
<1> USE DEF IdleReliedOn, IdleInv
<1>1. CASE InstallStep
    BY <1>1 DEF InstallStep, Check, Finish, disk, trees, marks, Stage, Goto, Fails,
       Preflight, ScrapOf, ClearRecord, UnlinkOf, ClearPrevious, RemovalOf,
       WriteJournal, ArchiveLive, Occupied, MarkUnproven, PromoteStaged, SmokeTest,
       Unmark, TrustInstall, WriteTrust, Commit, CommitRename
<1>2. CASE UndoStep
    BY <1>2 DEF UndoStep, Undo, Goto, disk, trees, marks, UndoClearDiscard, ScrapOf,
       Fails, UndoDiscardLive, Occupied, Restore, TrustDisplaced, WriteTrust, UnlinkOf,
       UndoFirst, RemovalOf, Untrust
<1>3. CASE ClearStep
    BY <1>3 DEF ClearStep, ClearJournal, UnlinkOf, Fails, Goto, trees, ClearSmoke,
       DropDiscard, ScrapOf, marks, DropStaged, Resume, Finish
<1>4. CASE RollbackStep
    BY <1>4 DEF RollbackStep, Target, RollbackTarget, Finish, disk, trees, marks,
       ClearDiscard, ScrapOf, Fails, Goto, DiscardLive, Occupied, PromotePrevious,
       TrustRollback, WriteTrust, UnlinkOf, Forget
<1>5. CASE RemoveStep
    BY <1>5 DEF RemoveStep, RemoveLive, Remnants, Finish, Goto, Fails, marks,
       RemoveTrust, UnlinkOf, trees, RemoveVersions, RemovalOf
<1>6. CASE RecoverStep
    BY <1>6 DEF RecoverStep, Recover, Resume, Finish, Goto, InstallRow, RollbackRow,
       disk, trees, marks, Abandon, UnlinkOf, Fails, AbandonSmoke, ScrapStaged, ScrapOf,
       ScrapPrevious, RemovalOf, Remnants, TrustSettle, WriteTrust, CommitSettle,
       CommitRename, TrustFirst, FinishPromote, ReturnDiscard
<1>7. CASE Begin \/ Startup \/ SweepStep
    BY <1>7 DEF Startup, SweepStep, Begin, FirstStep, disk, trees, marks, BeginStartup,
       BeginSweep, SweepDiscard, ScrapOf, Fails, Goto, SweepStaged, Finish
<1>8. CASE Crash
    BY <1>8 DEF Crash
<1>9. CASE UNCHANGED vars
    BY <1>9 DEF vars
<1> QED
    BY <1>1, <1>2, <1>3, <1>4, <1>5, <1>6, <1>7, <1>8, <1>9 DEF Next, Step

HIDE DEF StoreInv, SwapInv, TrustInv, Installed

------------------------------------------------------------------------------
(* The theorems *)

\* The badges' invariant holds through every install, rollback, removal,
\* recovery, failed call and crash, as long as the calls relied on do not fail.
THEOREM TrustInvariant ==
    ASSUME FaultSites \cap TrustReliedOn = {}
    PROVE  Spec => [](StoreInv /\ SwapInv /\ TrustInv)
<1>1. FaultSites \cap SwapReliedOn = {}
    BY DEF TrustReliedOn
<1>2. Spec => [](StoreInv /\ SwapInv)
    BY <1>1, SwapInvariant
<1>3. StoreInv /\ SwapInv /\ TrustInv /\ [Next]_vars /\ TypeOK' => TrustInv'
    BY InstallBadges, UndoBadges, ClearBadges, RollbackBadges, RemoveBadges, RecoverBadges,
       GateBadges, CrashBadges, StutterBadges
    DEF Next, Step
<1>4. StoreInv => TypeOK
    BY DEF StoreInv
<1> QED
    BY <1>2, <1>3, <1>4, InitBadges, PTL DEF Spec

\* Once an operation has settled, the badge shown is the one the live package
\* arrived with.
THEOREM BadgeFollowsLive ==
    ASSUME FaultSites \cap TrustReliedOn = {}
    PROVE  Spec => []TrustFollowsLive
<1>1. TrustInv => TrustFollowsLive
    BY DEF TrustInv, TrustFollowsLive
<1> QED
    BY <1>1, TrustInvariant, PTL

\* previous.json tells the truth of the tree beside it at every step: its
\* version, the badge a rollback will give it, and that it was proved.
THEOREM KeptIsDescribed ==
    ASSUME FaultSites \cap TrustReliedOn = {}
    PROVE  Spec => []KeptDescribesPrevious
<1>1. StoreInv /\ SwapInv /\ TrustInv => KeptDescribesPrevious
    BY DEF StoreInv, SwapInv, TrustInv, KeptDescribesPrevious, Fallback, KeptTree
<1> QED
    BY <1>1, TrustInvariant, PTL

\* An unsigned build takes over from a signed one only by a return to it.
THEOREM UnsignedReturns ==
    ASSUME FaultSites \cap TrustReliedOn = {}
    PROVE  Spec => UnsignedOnlyByReturning
<1> DEFINE Returning ==
        /\ Installed # Absent /\ Installed.files = Files /\ Installed.package.channel # Unsigned
        /\ Installed' # Absent /\ Installed'.package.channel = Unsigned
        => Installed' = Fallback
<1>1. ASSUME StoreInv, SwapInv, TrustInv, Effect
      PROVE  Returning
  <2>1. CASE pc \in {"unmark", "commit"} /\ Installed = Named(previous) /\ Installed' = live
      BY <1>1, <2>1 DEF StoreInv, SwapInv, TrustInv
  <2>2. CASE Version!Uninstall
    <3>1. Installed \in Tree \cup {Absent}
        BY <1>1 DEF StoreInv, Installed
    <3>2. Installed # Absent => \E f \in SUBSET Installed.files :
                                   Installed' \in {Absent, [Installed EXCEPT !.files = f]}
        BY <2>2 DEF Version!Uninstall, Version!Remnants
    <3> QED
        BY <3>1, <3>2
  <2>3. CASE UNCHANGED Installed \/ Installed' = Fallback
      BY <2>3
  <2> QED
      BY <1>1, <2>1, <2>2, <2>3
      DEF Effect, Version!SpendFallback, Version!ForgetFallback, Version!Return
<1>2. FaultSites \cap SwapReliedOn = {}
    BY DEF TrustReliedOn
<1> QED
    BY <1>1, <1>2, NextEffect, TrustInvariant, PTL DEF Spec, UnsignedOnlyByReturning

\* Between operations the tree discovery reads is the version the plugin is at,
\* unless the process died and recovery has not run.
THEOREM IdleIsInstalled ==
    ASSUME FaultSites \cap IdleReliedOn = {}
    PROVE  Spec => []IdleServesInstalled
<1>1. FaultSites \cap SwapReliedOn = {}
    BY DEF IdleReliedOn
<1>2. StoreInv /\ SwapInv /\ IdleInv /\ [Next]_vars /\ TypeOK' => IdleInv'
    BY StepIdle
<1>3. Init => IdleInv
    BY DEF Init, IdleInv
<1>4. StoreInv /\ SwapInv /\ IdleInv => IdleServesInstalled
    BY DEF StoreInv, SwapInv, IdleInv, IdleServesInstalled, Installed
<1>5. Spec => [](StoreInv /\ SwapInv)
    BY <1>1, SwapInvariant
<1>6. StoreInv => TypeOK
    BY DEF StoreInv
<1> QED
    BY <1>2, <1>3, <1>4, <1>5, <1>6, PTL DEF Spec

------------------------------------------------------------------------------
(* What a replay leaves alone, whatever stayed behind *)

\* The calls whose failure lets an undo meet the tree the install was to replace.
ReplayReliedOn == {"clear_previous", "archive"}

\* Which trees an operation has moved out of the way, and that what it undoes is
\* marked as unproven.
ReplayInv ==
    /\ then \in {"idle", "check", "target", "remove"}
    /\ pc \in {"stage", "preflight", "clear_record", "clear_previous"} => rec.kind = "install"
    /\ pc = "journal" /\ rec.kind = "install" => previous = Absent
    /\ pc = "archive" => previous = Absent
    /\ pc \in {"mark", "promote", "promote_previous", "finish_promote", "return_discard"}
           => live = Absent
    /\ pc \in {"promote", "prove"} => smoke
    /\ pc \in {"undo", "undo_clear", "undo_discard", "undo_first"} => smoke \/ live = Absent
    /\ pc \in {"undo_clear", "undo_discard", "restore"} => previous # Absent

\* The steps of an install, from the check to the commit point.
LEMMA InstallReplays ==
    ASSUME FaultSites \cap ReplayReliedOn = {}, ReplayInv, InstallStep
    PROVE  ReplayInv' /\ LiveIsKept
<1>1. CASE Check
    BY <1>1 DEF Check, Finish, ReplayInv, LiveIsKept, disk, trees, marks
<1>2. CASE Stage \/ Preflight \/ ClearRecord
    BY <1>2 DEF Stage, Preflight, ClearRecord, Finish, Goto, ReplayInv, LiveIsKept, trees, marks
<1>3. CASE ClearPrevious
    BY <1>3 DEF ClearPrevious, RemovalOf, Fails, ReplayReliedOn, Goto, ReplayInv, LiveIsKept,
                trees, marks
<1>4. CASE WriteJournal
    BY <1>4 DEF WriteJournal, Finish, Goto, ReplayInv, LiveIsKept, trees, marks
<1>5. CASE ArchiveLive
    BY <1>5 DEF ArchiveLive, Occupied, Fails, ReplayReliedOn, Goto, ReplayInv, LiveIsKept,
                trees, marks
<1>6. CASE MarkUnproven \/ PromoteStaged
    BY <1>6 DEF MarkUnproven, PromoteStaged, Goto, ReplayInv, LiveIsKept, trees, marks
<1>7. CASE SmokeTest
    BY <1>7 DEF SmokeTest, Goto, ReplayInv, LiveIsKept, trees, marks
<1>8. CASE Unmark \/ TrustInstall \/ Commit
    BY <1>8 DEF Unmark, TrustInstall, WriteTrust, Commit, Finish, Goto, ReplayInv, LiveIsKept,
                trees, marks
<1> QED
    BY <1>1, <1>2, <1>3, <1>4, <1>5, <1>6, <1>7, <1>8 DEF InstallStep

\* The steps of an undo, and those that clear an operation.
LEMMA UndoReplays ==
    ASSUME ReplayInv, UndoStep \/ ClearStep
    PROVE  ReplayInv' /\ LiveIsKept
<1>1. CASE Undo
    BY <1>1 DEF Undo, Goto, ReplayInv, LiveIsKept, disk, trees, marks
<1>2. CASE UndoClearDiscard \/ UndoDiscardLive
    BY <1>2 DEF UndoClearDiscard, UndoDiscardLive, Goto, ReplayInv, LiveIsKept, trees, marks
<1>3. CASE Restore
    BY <1>3 DEF Restore, Goto, ReplayInv, LiveIsKept, trees, marks
<1>4. CASE TrustDisplaced \/ UndoFirst \/ Untrust
    BY <1>4 DEF TrustDisplaced, WriteTrust, UndoFirst, Untrust, Goto, ReplayInv, LiveIsKept,
                trees, marks
<1>5. CASE ClearJournal \/ ClearSmoke \/ DropDiscard \/ DropStaged
    BY <1>5 DEF ClearJournal, ClearSmoke, DropDiscard, DropStaged, Resume, Finish, Goto,
                ReplayInv, LiveIsKept, trees, marks
<1> QED
    BY <1>1, <1>2, <1>3, <1>4, <1>5 DEF UndoStep, ClearStep

\* The steps of a rollback, of a removal and of a sweep.
LEMMA RollbackReplays ==
    ASSUME ReplayInv, RollbackStep \/ RemoveStep \/ SweepStep
    PROVE  ReplayInv' /\ LiveIsKept
<1>1. CASE Target \/ ClearDiscard
    BY <1>1 DEF Target, ClearDiscard, Finish, Goto, ReplayInv, LiveIsKept, disk, trees, marks
<1>2. CASE DiscardLive
    BY <1>2 DEF DiscardLive, Finish, Goto, ReplayInv, LiveIsKept, trees, marks
<1>3. CASE PromotePrevious \/ TrustRollback \/ Forget
    BY <1>3 DEF PromotePrevious, TrustRollback, WriteTrust, Forget, Finish, Goto, ReplayInv,
                LiveIsKept, trees, marks
<1>4. CASE RemoveLive \/ RemoveTrust \/ RemoveVersions
    BY <1>4 DEF RemoveLive, RemoveTrust, RemoveVersions, Finish, Goto, ReplayInv, LiveIsKept,
                trees, marks
<1>5. CASE SweepDiscard \/ SweepStaged
    BY <1>5 DEF SweepDiscard, SweepStaged, Finish, Goto, ReplayInv, LiveIsKept, trees, marks
<1> QED
    BY <1>1, <1>2, <1>3, <1>4, <1>5 DEF RollbackStep, RemoveStep, SweepStep

\* The steps of the recovery.
LEMMA RecoverReplays ==
    ASSUME ReplayInv, RecoverStep
    PROVE  ReplayInv' /\ LiveIsKept
<1>1. CASE Recover
  <2>1. UNCHANGED <<live, previous, smoke>>
      BY <1>1 DEF Recover, disk, trees, marks
  <2>2. CASE Resume
    BY <1>1, <2>1, <2>2 DEF Resume, Finish, Recover, ReplayInv, LiveIsKept
  <2>3. CASE Goto("abandon")
    BY <1>1, <2>1, <2>3 DEF Goto, Recover, ReplayInv, LiveIsKept
  <2>4. CASE pc' = InstallRow /\ then' = then
    BY <1>1, <2>1, <2>4 DEF InstallRow, Recover, ReplayInv, LiveIsKept
  <2>5. CASE pc' = RollbackRow /\ then' = then
    BY <1>1, <2>1, <2>5 DEF RollbackRow, Recover, ReplayInv, LiveIsKept
  <2> QED
    BY <1>1, <2>2, <2>3, <2>4, <2>5 DEF Recover
<1>2. CASE Abandon \/ AbandonSmoke
    BY <1>2 DEF Abandon, AbandonSmoke, Resume, Finish, Goto, ReplayInv, LiveIsKept, trees, marks
<1>3. CASE ScrapStaged \/ ScrapPrevious
    BY <1>3 DEF ScrapStaged, ScrapPrevious, Goto, ReplayInv, LiveIsKept, trees, marks
<1>4. CASE TrustSettle \/ CommitSettle \/ TrustFirst
    BY <1>4 DEF TrustSettle, CommitSettle, CommitRename, TrustFirst, WriteTrust, Resume, Finish,
                Goto, ReplayInv, LiveIsKept, trees, marks
<1>5. CASE FinishPromote \/ ReturnDiscard
    BY <1>5 DEF FinishPromote, ReturnDiscard, Goto, ReplayInv, LiveIsKept, trees, marks
<1> QED
    BY <1>1, <1>2, <1>3, <1>4, <1>5 DEF RecoverStep

\* The gate, start-up and a process that dies.
LEMMA GateReplays ==
    ASSUME ReplayInv, Begin \/ Startup \/ Crash \/ UNCHANGED vars
    PROVE  ReplayInv' /\ LiveIsKept
<1>1. CASE Begin
    BY <1>1 DEF Begin, FirstStep, Operation, ReplayInv, LiveIsKept, disk, trees, marks
<1>2. CASE Startup
    BY <1>2 DEF Startup, BeginStartup, BeginSweep, ReplayInv, LiveIsKept, disk, trees, marks
<1>3. CASE Crash
  <2>1. ReplayInv'
      BY <1>3 DEF Crash, ReplayInv
  <2>2. LiveIsKept
      BY <1>3 DEF Crash, Cut, ReplayInv, LiveIsKept, disk, trees, marks
  <2> QED
      BY <2>1, <2>2
<1>4. CASE UNCHANGED vars
    BY <1>4 DEF vars, ReplayInv, LiveIsKept
<1> QED
    BY <1>1, <1>2, <1>3, <1>4

\* However often recovery replays a journal that could not be cleared, and whatever
\* fails beside the removal of the last rollback target and the rename of the live
\* tree into its place, only an install about to replace it, a rollback and a removal
\* take away a live tree that is not marked unproven.
THEOREM ReplaySafety ==
    ASSUME FaultSites \cap ReplayReliedOn = {}
    PROVE  Spec => ReplayKeepsLive
<1>1. Init => ReplayInv
    BY DEF Init, ReplayInv
<1>2. ReplayInv /\ [Next]_vars => ReplayInv' /\ LiveIsKept
    BY InstallReplays, UndoReplays, RollbackReplays, RecoverReplays, GateReplays DEF Next, Step
<1> QED
    BY <1>1, <1>2, PTL DEF Spec, ReplayKeepsLive
===============================================================================
