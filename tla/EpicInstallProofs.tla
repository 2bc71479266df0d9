------------------------- MODULE EpicInstallProofs -------------------------
(****************************************************************************)
(* Theorems about EpicInstall, for any games, files and builds, and any     *)
(* number of files between two journals: wherever a download is cancelled,  *)
(* fails or is cut, and whichever build it resumes on, it records a game    *)
(* only when every file of the recorded build is in place.                  *)
(*                                                                          *)
(* What makes it hold is a journal that is never believed of a newer build, *)
(* so the invariant orders the builds: of a journal, of the files beside    *)
(* it, of the task that writes them, and of the store.                      *)
(*                                                                          *)
(* And about the pages of the stores, StoreShelf, as the instance H, and    *)
(* the downloads of artwork, GameMedia, as D: they fit the quota of their   *)
(* directory, whatever they measure while others write.                     *)
(****************************************************************************)
EXTENDS EpicInstall, Sequences, FiniteSetTheorems, SequenceTheorems, WellFoundedInduction,
        TLAPS

CONSTANTS Calls, Catalogue, Releases, Apps, Order, Batch, Most, Interval, Lifetime,
          MaxTime, None

VARIABLES cache, call, clock

H == INSTANCE StoreShelf

CONSTANTS Requests, Media, Contents, Size, Picks, Quota, Cap, Permits

VARIABLES
    saved, leftovers, record, imported, selected, request, lock, inflight, reserved

D == INSTANCE GameMedia

------------------------------------------------------------------------------
(* EpicInstall *)

Own(g) == {Titled[g], Suffixed[g]}

\* No two games may be given one folder.
FoldersAssumption == \A g, h \in Games : g # h => Own(g) \cap Own(h) = {}

\* In a folder nothing is newer than `newest`, and a file that is journaled is
\* gone, or of the journal's build or a newer one.
Ordered(folder, newest) ==
    /\ journal[folder].version <= newest
    /\ \A f \in Files : file[folder][f] # Absent => file[folder][f] <= newest
    /\ \A f \in journal[folder].complete :
           file[folder][f] # Absent => journal[folder].version <= file[folder][f]

Fetched == {"plan", "file", "write", "rename", "journal", "record", "save"}
Planned == Fetched \ {"plan"}

\* What a task knows of its folder: it writes what is newest, the files it calls
\* complete are of its build or gone, and those it has not to write are in place,
\* unless the folder was removed under it.
Sound(g, t) ==
    /\ t.at \notin {"idle", "choose"} => t.folder \in Own(g)
    /\ t.at \in {"choose", "manifest", "plan", "file", "write", "rename"}
           => t.since < JournalEvery
    /\ t.at \in Fetched =>
           t.version \in 1..current[g] /\ \A folder \in Own(g) : Ordered(folder, t.version)
    /\ t.at \in {"write", "rename"} => t.writing \in Files
    /\ t.at = "rename" => part[t.folder][t.writing] \in {Absent, t.version}
    /\ t.at \in Planned =>
           /\ \A f \in t.complete : file[t.folder][f] \in {Absent, t.version}
           /\ g \notin disturbed => \A f \in Files \ t.todo : file[t.folder][f] = t.version
    /\ t.at \in {"record", "save"} => t.todo = {}
    /\ t.at = "save" => t.held \in Records

GameInv(g) ==
    /\ \A folder \in Own(g) : Ordered(folder, current[g])
    /\ Sound(g, task[g])

RemoverInv == remover.at = "remove" => remover.held[remover.game] \in Record

EpicInv == TypeOK /\ RemoverInv /\ \A g \in Games : GameInv(g)

\* A download records its own game only with every file of its build in place.
DownloadIsComplete ==
    \A g \in Games \ disturbed :
        SaveRecord(g) => \A f \in Files : file[Folder(g)][f] = task[g].version

------------------------------------------------------------------------------
(* Steps and the games they leave alone *)

\* A game is as it was when its task, its folders and its place in the store are.
LEMMA BesideKeeps ==
    ASSUME TypeOK, NEW h \in Games, GameInv(h),
           task'[h] = task[h], current'[h] = current[h],
           disturbed' \cap {h} = disturbed \cap {h},
           \A folder \in Own(h) :
               /\ file'[folder] = file[folder] /\ part'[folder] = part[folder]
               /\ journal'[folder] = journal[folder]
    PROVE  GameInv(h)'
<1>1. ASSUME NEW folder \in Own(h), NEW newest, Ordered(folder, newest)
      PROVE  Ordered(folder, newest)'
    BY <1>1 DEF Ordered
<1> SUFFICES ASSUME NEW t, t = task[h], NEW newest, newest = current[h]
             PROVE  GameInv(h)'
    OBVIOUS
<1>2. t' = t /\ task'[h] = t /\ current'[h] = newest
    OBVIOUS
<1>3. (\A folder \in Own(h) : Ordered(folder, newest))' /\ Sound(h, t)'
    <2>1. \A folder \in Own(h) : Ordered(folder, newest)
        BY DEF GameInv
    <2>2. Sound(h, t)
        BY DEF GameInv
    <2>3. t.at \in Fetched => \A folder \in Own(h) : Ordered(folder, t.version)'
        BY <1>1, <2>2 DEF Sound
    <2>4. t.at \notin {"idle", "choose"} => t.folder \in Own(h)
        BY <2>2 DEF Sound
    <2> QED
        BY <1>1, <2>1, <2>2, <2>3, <2>4 DEF Sound, Fetched, Planned
<1> QED
    BY <1>2, <1>3 DEF GameInv

\* The task of one game moves, in its folder.
LEMMA TaskKeeps ==
    ASSUME FoldersAssumption, EpicInv, NEW g \in Games, NEW folder \in Own(g),
           UNCHANGED <<current, remover>>,
           \A h \in Games \ {g} : task'[h] = task[h],
           disturbed' \subseteq Games, disturbed \ {g} = disturbed' \ {g},
           \A other \in Folders \ {folder} :
               /\ file'[other] = file[other] /\ part'[other] = part[other]
               /\ journal'[other] = journal[other],
           TypeOK', GameInv(g)'
    PROVE  EpicInv'
<1>1. ASSUME NEW h \in Games \ {g} PROVE GameInv(h)'
    <2>1. folder \notin Own(h)
        BY DEF FoldersAssumption
    <2>2. Own(h) \subseteq Folders
        BY DEF Own, Folders
    <2> QED
        BY <2>1, <2>2, BesideKeeps DEF EpicInv
<1> QED
    BY <1>1 DEF EpicInv, RemoverInv

\* One task becomes `new`.
LEMMA TaskMoves ==
    ASSUME TypeOK, NEW g \in Games, NEW new \in Task \cup {Idle},
           task' = [task EXCEPT ![g] = new]
    PROVE  /\ task' \in [Games -> Task \cup {Idle}] /\ task'[g] = new
           /\ \A h \in Games \ {g} : task'[h] = task[h]
BY DEF TypeOK

\* A task that has renamed a file.
LEMMA RenamedTask ==
    ASSUME NEW t \in Task, NEW todo \in SUBSET Files, NEW complete \in SUBSET Files,
           NEW since \in 0..JournalEvery
    PROVE  [at |-> "journal", folder |-> t.folder, version |-> t.version, todo |-> todo,
            complete |-> complete, since |-> since, writing |-> Absent, held |-> t.held] \in Task
BY DEF Task

------------------------------------------------------------------------------
(* The steps of a task *)

\* RegisterJob, ChooseFolder, FetchManifest, PlanInstall: the journal of this very
\* build is believed, and nothing in the folder is newer.
LEMMA BeginKeeps ==
    ASSUME BuildsAssumption, ValuesAssumption, FoldersAssumption, EpicInv, NEW g \in Games,
           RegisterJob(g) \/ ChooseFolder(g) \/ FetchManifest(g) \/ PlanInstall(g)
    PROVE  EpicInv'
<1> USE DEF At, Folder, disk
<1>1. /\ TypeOK /\ task[g] \in Task \cup {Idle} /\ current[g] \in 1..Versions
      /\ \A folder \in Own(g) : Ordered(folder, current[g])
      /\ Sound(g, task[g])
    BY DEF EpicInv, TypeOK, GameInv
<1>2. CASE RegisterJob(g) /\ task[g].at = "idle"
    <2> SUFFICES ASSUME NEW new,
                        new = [at |-> "choose", folder |-> Absent, version |-> 0, todo |-> {},
                               complete |-> {}, since |-> 0, writing |-> Absent, held |-> Absent]
                 PROVE  EpicInv'
        OBVIOUS
    <2>1. new \in Task /\ new.at = "choose" /\ new.since = 0
        BY DEF Task, BuildsAssumption
    <2>2. task' = [task EXCEPT ![g] = new]
        BY <1>2 DEF RegisterJob
    <2>3. /\ task' \in [Games -> Task \cup {Idle}] /\ task'[g] = new
          /\ \A h \in Games \ {g} : task'[h] = task[h]
        BY <1>1, <2>1, <2>2, TaskMoves
    <2>4. TypeOK'
        BY <1>1, <1>2, <2>3 DEF RegisterJob, TypeOK
    <2>5. GameInv(g)'
        BY <1>1, <1>2, <2>1, <2>3
        DEF RegisterJob, GameInv, Sound, Ordered, Fetched, Planned, BuildsAssumption
    <2>6. Titled[g] \in Own(g)
        BY DEF Own
    <2> QED
        BY <1>1, <1>2, <2>3, <2>4, <2>5, <2>6, TaskKeeps DEF RegisterJob, TypeOK
<1>3. CASE RegisterJob(g) /\ task[g].at # "idle"
    <2>1. UNCHANGED <<current, disk, records, task, cancelled, remover, disturbed>>
        BY <1>3 DEF RegisterJob
    <2>2. TypeOK'
        BY <1>1, <1>3, <2>1 DEF RegisterJob, TypeOK
    <2> QED
        BY <2>1, <2>2, BesideKeeps DEF EpicInv, RemoverInv
<1>4. CASE ChooseFolder(g)
    <2>1. task[g] \in Task /\ task[g].at = "choose"
        BY <1>1, <1>4 DEF ChooseFolder, Idle
    <2> SUFFICES ASSUME NEW t \in Task, t = task[g], NEW folder, folder = UniqueFolder(g),
                        NEW new, new = [t EXCEPT !.at = "manifest", !.folder = folder]
                 PROVE  EpicInv'
        BY <2>1
    <2>2. folder \in Own(g) /\ folder \in Folders
        BY DEF UniqueFolder, Own, Folders
    <2>3. /\ new \in Task /\ new.at = "manifest" /\ new.folder = folder
          /\ new.since = t.since
        BY <2>2 DEF Task
    <2>4. task' = [task EXCEPT ![g] = new]
        BY <1>4 DEF ChooseFolder
    <2>5. /\ task' \in [Games -> Task \cup {Idle}] /\ task'[g] = new
          /\ \A h \in Games \ {g} : task'[h] = task[h]
        BY <1>1, <2>3, <2>4, TaskMoves
    <2>6. TypeOK'
        BY <1>1, <1>4, <2>5 DEF ChooseFolder, TypeOK
    <2>7. GameInv(g)'
        BY <1>1, <1>4, <2>1, <2>2, <2>3, <2>5
        DEF ChooseFolder, GameInv, Sound, Ordered, Fetched, Planned
    <2> QED
        BY <1>1, <1>4, <2>2, <2>5, <2>6, <2>7, TaskKeeps DEF ChooseFolder, TypeOK
<1>5. CASE FetchManifest(g)
    <2>1. task[g] \in Task /\ task[g].at = "manifest"
        BY <1>1, <1>5 DEF FetchManifest, Idle
    <2> SUFFICES ASSUME NEW t \in Task, t = task[g], NEW version, version = current[g],
                        NEW new, new = [t EXCEPT !.at = "plan", !.version = version]
                 PROVE  EpicInv'
        BY <2>1
    <2>2. /\ new \in Task /\ new.at = "plan" /\ new.folder = t.folder
          /\ new.since = t.since /\ new.version = version
        <3>1. version \in 0..Versions
            BY <1>1 DEF BuildsAssumption
        <3> QED
            BY <3>1 DEF Task
    <2>3. task' = [task EXCEPT ![g] = new]
        BY <1>5 DEF FetchManifest
    <2>4. /\ task' \in [Games -> Task \cup {Idle}] /\ task'[g] = new
          /\ \A h \in Games \ {g} : task'[h] = task[h]
        BY <1>1, <2>2, <2>3, TaskMoves
    <2>5. TypeOK'
        BY <1>1, <1>5, <2>4 DEF FetchManifest, TypeOK
    <2>6. GameInv(g)'
        BY <1>1, <1>5, <2>1, <2>2, <2>4
        DEF FetchManifest, GameInv, Sound, Ordered, Fetched, Planned
    <2>7. t.folder \in Own(g)
        BY <1>1, <2>1 DEF Sound
    <2> QED
        BY <1>1, <1>5, <2>4, <2>5, <2>6, <2>7, TaskKeeps DEF FetchManifest, TypeOK
<1>6. CASE PlanInstall(g)
    <2>1. /\ task[g] \in Task /\ task[g].at = "plan" /\ task[g].folder \in Own(g)
          /\ task[g].version \in 1..current[g] /\ Ordered(task[g].folder, task[g].version)
        BY <1>1, <1>6 DEF PlanInstall, Idle, Sound, Fetched
    <2> SUFFICES ASSUME NEW t \in Task, t = task[g],
                        NEW done, done = ReadJournal(t.folder, t.version),
                        NEW todo,
                        todo = {f \in Files : f \notin done \/ file[t.folder][f] = Absent},
                        NEW new, new = [t EXCEPT !.at = "file", !.complete = done, !.todo = todo]
                 PROVE  EpicInv'
        BY <2>1
    <2>2. /\ t.folder \in Folders /\ journal[t.folder] \in Journal
          /\ file[t.folder] \in [Files -> Content \cup {Absent}]
        BY <1>1, <2>1 DEF TypeOK, Own, Folders
    <2>3. done \subseteq Files /\ \A f \in done : file[t.folder][f] \in {Absent, t.version}
        <3> SUFFICES ASSUME journal[t.folder].version = t.version,
                            done = journal[t.folder].complete
                     PROVE  /\ done \subseteq Files
                            /\ \A f \in done : file[t.folder][f] \in {Absent, t.version}
            BY DEF ReadJournal
        <3>1. done \subseteq Files /\ t.version \in Nat
            BY <1>1, <2>1, <2>2 DEF Journal, BuildsAssumption
        <3>2. \A f \in Files : file[t.folder][f] \in Nat \cup {Absent}
            BY <2>2 DEF Content, BuildsAssumption
        <3>3. \A f \in done : file[t.folder][f] # Absent =>
                  t.version <= file[t.folder][f] /\ file[t.folder][f] <= t.version
            BY <2>1, <3>1 DEF Ordered
        <3> QED
            BY <3>1, <3>2, <3>3
    <2>4. todo \subseteq Files /\ \A f \in Files \ todo : file[t.folder][f] = t.version
        BY <2>3
    <2>5. /\ new \in Task /\ new.at = "file" /\ new.folder = t.folder
          /\ new.since = t.since /\ new.version = t.version
          /\ new.complete = done /\ new.todo = todo
        BY <2>3, <2>4 DEF Task
    <2>6. task' = [task EXCEPT ![g] = new]
        BY <1>6 DEF PlanInstall
    <2>7. /\ task' \in [Games -> Task \cup {Idle}] /\ task'[g] = new
          /\ \A h \in Games \ {g} : task'[h] = task[h]
        BY <1>1, <2>5, <2>6, TaskMoves
    <2>8. TypeOK'
        BY <1>1, <1>6, <2>7 DEF PlanInstall, TypeOK
    <2>9. GameInv(g)'
        <3>1. UNCHANGED <<current, file, part, journal, disturbed>>
            BY <1>6 DEF PlanInstall
        <3>2. \A folder \in Own(g) : Ordered(folder, current[g])' /\ Ordered(folder, t.version)'
            BY <1>1, <2>1, <3>1 DEF Ordered, Sound, Fetched
        <3>3. Sound(g, new)'
            <4>1. t.since < JournalEvery
                BY <1>1, <2>1 DEF Sound
            <4> QED
                BY <2>1, <2>3, <2>4, <2>5, <3>1, <3>2, <4>1 DEF Sound, Fetched, Planned
        <3> QED
            BY <2>7, <3>2, <3>3 DEF GameInv
    <2> QED
        BY <1>1, <1>6, <2>1, <2>7, <2>8, <2>9, TaskKeeps DEF PlanInstall, TypeOK
<1> QED
    BY <1>2, <1>3, <1>4, <1>5, <1>6

\* write_journal: what a task calls complete is there in its build, or gone.
Journals(g) ==
    journal' = [journal EXCEPT ![task[g].folder] =
                   [version |-> task[g].version, complete |-> task[g].complete]]

LEMMA JournalKeeps ==
    ASSUME BuildsAssumption, ValuesAssumption, EpicInv, NEW g \in Games, Journals(g),
           UNCHANGED file, NEW t, t = task[g], NEW newest, newest = current[g],
           t.at \in Planned
    PROVE  /\ journal' \in [Folders -> Journal]
           /\ \A folder \in Own(g) : Ordered(folder, newest)' /\ Ordered(folder, t.version)'
<1>1. /\ t \in Task /\ newest \in 1..Versions /\ journal \in [Folders -> Journal]
      /\ \A folder \in Own(g) : Ordered(folder, newest)
      /\ Sound(g, t)
    BY DEF EpicInv, TypeOK, GameInv, Planned, Fetched, Idle
<1>2. /\ t.folder \in Own(g) /\ Own(g) \subseteq Folders /\ t.version \in 1..newest
      /\ t.version \in 0..Versions /\ t.complete \subseteq Files
      /\ \A folder \in Own(g) : Ordered(folder, t.version)
      /\ \A f \in t.complete : file[t.folder][f] \in {Absent, t.version}
    BY <1>1 DEF Sound, Planned, Fetched, Own, Folders, Task
<1>3. /\ journal' \in [Folders -> Journal]
      /\ journal'[t.folder] = [version |-> t.version, complete |-> t.complete]
      /\ \A folder \in Own(g) : folder # t.folder => journal'[folder] = journal[folder]
    BY <1>1, <1>2 DEF Journals, Journal
<1>4. newest \in Nat /\ t.version \in Nat /\ t.version <= newest
    BY <1>1, <1>2 DEF BuildsAssumption
<1>5. ASSUME NEW folder \in Own(g), NEW bound \in {newest, t.version}
      PROVE  Ordered(folder, bound)'
    <2>1. Ordered(folder, bound)
        BY <1>1, <1>2
    <2>2. CASE folder = t.folder
        BY <1>2, <1>3, <1>4, <2>1, <2>2 DEF Ordered, ValuesAssumption
    <2>3. CASE folder # t.folder
        BY <1>3, <2>1, <2>3 DEF Ordered
    <2> QED
        BY <2>2, <2>3
<1> QED
    BY <1>3, <1>5

\* StartFile, WriteFile, RenameFile, JournalFile: a file is put in place as a whole,
\* and is called complete once it is there.
LEMMA WriteKeeps ==
    ASSUME BuildsAssumption, ValuesAssumption, FoldersAssumption, EpicInv, NEW g \in Games,
           \/ \E f \in Files : StartFile(g, f)
           \/ WriteFile(g) \/ RenameFile(g) \/ JournalFile(g)
    PROVE  EpicInv'
<1> USE DEF At, Folder
<1>1. /\ TypeOK /\ task[g] \in Task \cup {Idle} /\ current[g] \in 1..Versions
      /\ \A folder \in Own(g) : Ordered(folder, current[g])
      /\ Sound(g, task[g])
    BY DEF EpicInv, TypeOK, GameInv
<1>2. task[g] \in Task /\ task[g].at \in {"file", "write", "rename", "journal"}
    <2>1. task[g].at \in {"file", "write", "rename", "journal"}
        BY DEF StartFile, WriteFile, RenameFile, JournalFile
    <2> QED
        BY <1>1, <2>1 DEF Idle
<1>3. /\ task[g].folder \in Own(g) /\ task[g].folder \in Folders
      /\ task[g].version \in 1..current[g] /\ task[g].version \in 1..Versions
      /\ \A folder \in Own(g) : Ordered(folder, task[g].version)
      /\ \A f \in task[g].complete : file[task[g].folder][f] \in {Absent, task[g].version}
      /\ g \notin disturbed =>
             \A f \in Files \ task[g].todo : file[task[g].folder][f] = task[g].version
    <2>1. Own(g) \subseteq Folders
        BY DEF Own, Folders
    <2>2. task[g].version \in 1..current[g] => task[g].version \in 1..Versions
        BY <1>1 DEF BuildsAssumption
    <2> QED
        BY <1>1, <1>2, <2>1, <2>2 DEF Sound, Fetched, Planned
<1> SUFFICES ASSUME NEW t \in Task, t = task[g], NEW folder \in Own(g), folder = t.folder,
                    folder \in Folders
             PROVE  EpicInv'
    BY <1>2, <1>3
<1>4. ASSUME NEW f \in Files, StartFile(g, f) PROVE EpicInv'
    <2> SUFFICES ASSUME NEW new, new = [t EXCEPT !.at = "write", !.writing = f] PROVE EpicInv'
        OBVIOUS
    <2>1. /\ new \in Task /\ new.at = "write" /\ new.folder = folder /\ new.writing = f
          /\ new.since = t.since /\ new.version = t.version /\ new.todo = t.todo
          /\ new.complete = t.complete
        BY DEF Task
    <2>2. /\ task' = [task EXCEPT ![g] = new]
          /\ part' = [part EXCEPT ![folder] = [@ EXCEPT ![f] = Cut]]
          /\ UNCHANGED <<current, file, journal, records, asking, cancelled, remover, disturbed>>
        BY <1>4 DEF StartFile
    <2>3. /\ task' \in [Games -> Task \cup {Idle}] /\ task'[g] = new
          /\ \A h \in Games \ {g} : task'[h] = task[h]
        BY <1>1, <2>1, <2>2, TaskMoves
    <2>4. TypeOK'
        BY <1>1, <2>2, <2>3 DEF TypeOK, Content, Cut, BuildsAssumption
    <2>5. GameInv(g)'
        <3>1. \A other \in Own(g) : Ordered(other, current[g])' /\ Ordered(other, t.version)'
            BY <1>1, <1>3, <2>2 DEF Ordered
        <3>2. Sound(g, new)'
            <4>1. t.since < JournalEvery
                BY <1>1, <1>4 DEF StartFile, Sound
            <4> QED
                BY <1>3, <2>1, <2>2, <3>1, <4>1 DEF Sound, Fetched, Planned
        <3> QED
            BY <2>3, <3>1, <3>2 DEF GameInv
    <2> QED
        BY <1>1, <2>2, <2>3, <2>4, <2>5, TaskKeeps DEF TypeOK
<1>5. ASSUME WriteFile(g) PROVE EpicInv'
    <2> SUFFICES ASSUME NEW f, f = t.writing, NEW at \in {"rename", "leave"},
                        part' = [part EXCEPT ![folder][f] =
                            IF at = "rename" /\ @ # Absent THEN t.version ELSE Absent],
                        NEW new, new = [t EXCEPT !.at = at], task' = [task EXCEPT ![g] = new]
                 PROVE  EpicInv'
        BY <1>5 DEF WriteFile, Goto
    <2>1. f \in Files
        BY <1>1, <1>5 DEF WriteFile, Sound
    <2>2. /\ new \in Task /\ new.at = at /\ new.folder = folder /\ new.writing = f
          /\ new.since = t.since /\ new.version = t.version /\ new.todo = t.todo
          /\ new.complete = t.complete
        BY DEF Task
    <2>3. UNCHANGED <<current, file, journal, records, asking, cancelled, remover, disturbed>>
        BY <1>5 DEF WriteFile
    <2>4. /\ task' \in [Games -> Task \cup {Idle}] /\ task'[g] = new
          /\ \A h \in Games \ {g} : task'[h] = task[h]
        BY <1>1, <2>2, TaskMoves
    <2>5. TypeOK'
        BY <1>1, <1>3, <2>1, <2>3, <2>4 DEF TypeOK, Content, BuildsAssumption
    <2>6. GameInv(g)'
        <3>1. \A other \in Own(g) : Ordered(other, current[g])' /\ Ordered(other, t.version)'
            BY <1>1, <1>3, <2>3 DEF Ordered
        <3>2. at = "rename" => part'[folder][f] \in {Absent, t.version}
            BY <1>1, <2>1 DEF TypeOK
        <3>3. Sound(g, new)'
            <4>1. CASE at = "rename"
                <5>1. t.since < JournalEvery
                    BY <1>1, <1>5 DEF WriteFile, Sound
                <5> QED
                    BY <1>3, <2>1, <2>2, <2>3, <3>1, <3>2, <4>1, <5>1 DEF Sound, Fetched, Planned
            <4>2. CASE at = "leave"
                BY <1>3, <2>2, <4>2 DEF Sound, Fetched, Planned
            <4> QED
                BY <4>1, <4>2
        <3> QED
            BY <2>4, <3>1, <3>3 DEF GameInv
    <2> QED
        BY <1>1, <2>3, <2>4, <2>5, <2>6, TaskKeeps DEF TypeOK
<1>6. ASSUME RenameFile(g) PROVE EpicInv'
    <2> SUFFICES ASSUME NEW f, f = t.writing,
                        NEW todo, todo = t.todo \ {f},
                        NEW complete, complete = t.complete \cup {f},
                        NEW new,
                        new = [t EXCEPT !.at = "journal", !.todo = todo, !.writing = Absent,
                                        !.complete = complete, !.since = @ + 1]
                 PROVE  EpicInv'
        OBVIOUS
    <2>1. f \in Files /\ t.since + 1 \in 0..JournalEvery /\ part[folder][f] = t.version
        <3>1. t.at = "rename" /\ part[folder][f] # Absent
            BY <1>6 DEF RenameFile
        <3>2. f \in Files /\ t.since < JournalEvery /\ part[folder][f] = t.version
            BY <1>1, <3>1 DEF Sound
        <3>3. t.since \in 0..JournalEvery
            BY DEF Task
        <3> QED
            BY <3>2, <3>3 DEF BuildsAssumption
    <2>2. /\ new \in Task /\ new.at = "journal" /\ new.folder = folder
          /\ new.version = t.version /\ new.todo = todo /\ new.complete = complete
        <3>1. /\ todo \in SUBSET Files /\ complete \in SUBSET Files
              /\ t.since + 1 \in 0..JournalEvery
            BY <2>1 DEF Task
        <3>2. new = [at |-> "journal", folder |-> t.folder, version |-> t.version, todo |-> todo,
                     complete |-> complete, since |-> t.since + 1, writing |-> Absent,
                     held |-> t.held]
            BY DEF Task
        <3>3. new \in Task
            <4> HIDE DEF Task
            <4>1. [at |-> "journal", folder |-> t.folder, version |-> t.version, todo |-> todo,
                   complete |-> complete, since |-> t.since + 1, writing |-> Absent,
                   held |-> t.held] \in Task
                BY <3>1, RenamedTask, Zenon
            <4> QED
                BY <3>2, <4>1, Zenon
        <3> QED
            BY <3>2, <3>3
    <2>3. /\ task' = [task EXCEPT ![g] = new]
          /\ file' = [file EXCEPT ![folder][f] = t.version]
          /\ part' = [part EXCEPT ![folder][f] = Absent]
          /\ UNCHANGED <<current, journal, records, asking, cancelled, remover, disturbed>>
        BY <1>6, <2>1 DEF RenameFile
    <2>4. /\ task' \in [Games -> Task \cup {Idle}] /\ task'[g] = new
          /\ \A h \in Games \ {g} : task'[h] = task[h]
        BY <1>1, <2>2, <2>3, TaskMoves
    <2>5. TypeOK'
        BY <1>1, <1>3, <2>1, <2>3, <2>4 DEF TypeOK, Content, BuildsAssumption
    <2>6. GameInv(g)'
        <3>1. /\ file'[folder][f] = t.version
              /\ \A other \in Files \ {f} : file'[folder][other] = file[folder][other]
              /\ \A other \in Folders \ {folder} : file'[other] = file[other]
            BY <1>1, <2>1, <2>3 DEF TypeOK
        <3>2. t.version \in Nat /\ current[g] \in Nat /\ t.version <= current[g]
            BY <1>1, <1>3 DEF BuildsAssumption
        <3>3. ASSUME NEW other \in Own(g), NEW bound \in Nat, t.version <= bound,
                     Ordered(other, bound), Ordered(other, t.version)
              PROVE  Ordered(other, bound)'
            <4>1. CASE other # folder
                BY <2>3, <3>1, <3>3, <4>1 DEF Ordered, Own, Folders
            <4>2. CASE other = folder
                <5>1. /\ journal'[folder] = journal[folder]
                      /\ journal[folder].complete \subseteq Files
                    BY <1>1, <2>3 DEF TypeOK, Journal
                <5>2. /\ journal[folder].version <= bound
                      /\ \A h \in Files : file'[folder][h] # Absent => file'[folder][h] <= bound
                    BY <3>1, <3>3, <4>2 DEF Ordered
                <5>3. \A h \in journal[folder].complete :
                          file'[folder][h] # Absent => journal[folder].version <= file'[folder][h]
                    BY <3>1, <3>3, <4>2, <5>1 DEF Ordered
                <5> QED
                    BY <4>2, <5>1, <5>2, <5>3 DEF Ordered
            <4> QED
                BY <4>1, <4>2
        <3>4. \A other \in Own(g) : Ordered(other, current[g])' /\ Ordered(other, t.version)'
            <4> SUFFICES ASSUME NEW newest, newest = current[g]
                         PROVE  \A other \in Own(g) :
                                    Ordered(other, newest)' /\ Ordered(other, t.version)'
                BY <2>3 DEF Ordered
            <4> QED
                BY <1>1, <1>3, <3>2, <3>3
        <3>5. /\ \A other \in complete : file'[folder][other] \in {Absent, t.version}
              /\ g \notin disturbed =>
                     \A other \in Files \ todo : file'[folder][other] = t.version
            <4>1. t.complete \subseteq Files
                BY DEF Task
            <4> QED
                BY <1>3, <3>1, <4>1
        <3>6. Sound(g, new)'
            BY <1>3, <2>2, <2>3, <3>4, <3>5 DEF Sound, Fetched, Planned
        <3> QED
            BY <2>4, <3>4, <3>6 DEF GameInv
    <2> QED
        BY <1>1, <2>3, <2>4, <2>5, <2>6, TaskKeeps DEF TypeOK
<1>7. ASSUME JournalFile(g), t.since < JournalEvery PROVE EpicInv'
    <2> SUFFICES ASSUME NEW new, new = [t EXCEPT !.at = "file"] PROVE EpicInv'
        OBVIOUS
    <2>1. /\ new \in Task /\ new.at = "file" /\ new.folder = folder /\ new.since = t.since
          /\ new.version = t.version /\ new.todo = t.todo /\ new.complete = t.complete
        BY DEF Task
    <2>2. /\ task' = [task EXCEPT ![g] = new]
          /\ UNCHANGED <<current, disk, records, asking, cancelled, remover, disturbed>>
        BY <1>7 DEF JournalFile, Goto, disk
    <2>3. /\ task' \in [Games -> Task \cup {Idle}] /\ task'[g] = new
          /\ \A h \in Games \ {g} : task'[h] = task[h]
        BY <1>1, <2>1, <2>2, TaskMoves
    <2>4. TypeOK'
        BY <1>1, <2>2, <2>3 DEF TypeOK, disk
    <2>5. GameInv(g)'
        <3>1. \A other \in Own(g) : Ordered(other, current[g])' /\ Ordered(other, t.version)'
            BY <1>1, <1>3, <2>2 DEF Ordered, disk
        <3>2. Sound(g, new)'
            BY <1>3, <1>7, <2>1, <2>2, <3>1 DEF Sound, Fetched, Planned, disk
        <3> QED
            BY <2>3, <3>1, <3>2 DEF GameInv
    <2> QED
        BY <1>1, <2>2, <2>3, <2>4, <2>5, TaskKeeps DEF TypeOK, disk
<1>8. ASSUME JournalFile(g), ~(t.since < JournalEvery) PROVE EpicInv'
    <2> SUFFICES ASSUME NEW new, new = [t EXCEPT !.at = "file", !.since = 0] PROVE EpicInv'
        OBVIOUS
    <2>1. /\ new \in Task /\ new.at = "file" /\ new.folder = folder /\ new.since = 0
          /\ new.version = t.version /\ new.todo = t.todo /\ new.complete = t.complete
        <3>1. 0 \in 0..JournalEvery
            BY DEF BuildsAssumption
        <3> QED
            BY <3>1 DEF Task
    <2>2. /\ task' = [task EXCEPT ![g] = new] /\ Journals(g)
          /\ UNCHANGED <<current, file, part, records, asking, cancelled, remover, disturbed>>
        BY <1>8 DEF JournalFile, WriteJournal, Journals
    <2>3. /\ task' \in [Games -> Task \cup {Idle}] /\ task'[g] = new
          /\ \A h \in Games \ {g} : task'[h] = task[h]
        BY <1>1, <2>1, <2>2, TaskMoves
    <2>4. TypeOK'
        <3>1. journal' \in [Folders -> Journal]
            BY <1>2, <2>2, JournalKeeps DEF Planned, Fetched
        <3> QED
            BY <1>1, <2>2, <2>3, <3>1 DEF TypeOK
    <2>5. GameInv(g)'
        <3>1. \A other \in Own(g) : Ordered(other, current[g])' /\ Ordered(other, t.version)'
            <4> SUFFICES ASSUME NEW newest, newest = current[g]
                         PROVE  \A other \in Own(g) :
                                    Ordered(other, newest)' /\ Ordered(other, t.version)'
                BY <2>2 DEF Ordered
            <4> QED
                BY <1>2, <2>2, JournalKeeps DEF Planned, Fetched
        <3>2. Sound(g, new)'
            BY <1>3, <1>8, <2>1, <2>2, <3>1 DEF Sound, Fetched, Planned, BuildsAssumption
        <3> QED
            BY <2>3, <3>1, <3>2 DEF GameInv
    <2> QED
        BY <1>1, <2>2, <2>3, <2>4, <2>5, TaskKeeps DEF TypeOK, Journals
<1> QED
    BY <1>4, <1>5, <1>6, <1>7, <1>8

\* A task that ends, however it does, no longer vouches for its folder.
LEMMA LeaveKeeps ==
    ASSUME FoldersAssumption, EpicInv, NEW g \in Games, task[g] \in Task,
           NEW new, task' = [task EXCEPT ![g] = new],
           \/ new = Idle
           \/ new \in Task /\ new.at = "leave" /\ new.folder \in Own(g),
           UNCHANGED <<current, file, part, remover, disturbed>>, TypeOK',
           NEW folder \in Own(g),
           \A other \in Folders \ {folder} : journal'[other] = journal[other],
           (\A other \in Own(g) : Ordered(other, current[g]))'
    PROVE  EpicInv'
<1>1. /\ task' \in [Games -> Task \cup {Idle}] /\ task'[g] = new
      /\ \A h \in Games \ {g} : task'[h] = task[h]
    BY TaskMoves DEF EpicInv
<1>2. Sound(g, new)'
    BY DEF Sound, Idle, Fetched, Planned
<1>3. GameInv(g)'
    BY <1>1, <1>2 DEF GameInv
<1>4. disturbed' \subseteq Games /\ disturbed \ {g} = disturbed' \ {g}
    BY DEF EpicInv, TypeOK
<1> QED
    BY <1>1, <1>3, <1>4, TaskKeeps

\* StopDownload, FinishFiles, ReadRecords, SaveRecord, LeaveJob, Fail: the download
\* returns, and its game is recorded if it went all the way.
LEMMA EndKeeps ==
    ASSUME BuildsAssumption, ValuesAssumption, FoldersAssumption, EpicInv, NEW g \in Games,
           \/ StopDownload(g) \/ FinishFiles(g) \/ ReadRecords(g) \/ SaveRecord(g)
           \/ LeaveJob(g) \/ Fail(g)
    PROVE  EpicInv'
<1> USE DEF At, Folder
<1>1. /\ TypeOK /\ task[g] \in Task \cup {Idle} /\ current[g] \in 1..Versions
      /\ \A folder \in Own(g) : Ordered(folder, current[g])
      /\ Sound(g, task[g])
    BY DEF EpicInv, TypeOK, GameInv
<1>2. task[g] \in Task /\ task[g].at \notin {"idle", "choose"}
    <2>1. task[g].at \notin {"idle", "choose"}
        BY DEF StopDownload, FinishFiles, ReadRecords, SaveRecord, LeaveJob, Fail
    <2> QED
        BY <1>1, <2>1 DEF Idle
<1> SUFFICES ASSUME NEW t \in Task, t = task[g], t.folder \in Own(g)
             PROVE  EpicInv'
    BY <1>1, <1>2 DEF Sound
<1> SUFFICES ASSUME NEW gone, gone = [t EXCEPT !.at = "leave"] PROVE EpicInv'
    OBVIOUS
<1>3. gone \in Task /\ gone.at = "leave" /\ gone.folder = t.folder
    BY DEF Task
<1>4. ASSUME StopDownload(g) PROVE EpicInv'
    <2>1. /\ task' = [task EXCEPT ![g] = gone] /\ Journals(g)
          /\ UNCHANGED <<current, file, part, records, asking, cancelled, remover, disturbed>>
        BY <1>4 DEF StopDownload, Goto, WriteJournal, Journals
    <2>2. /\ journal' \in [Folders -> Journal]
          /\ (\A other \in Own(g) : Ordered(other, current[g]))'
        <3> SUFFICES ASSUME NEW newest, newest = current[g]
                     PROVE  /\ journal' \in [Folders -> Journal]
                            /\ \A other \in Own(g) : Ordered(other, newest)'
            BY <2>1 DEF Ordered
        <3> QED
            BY <1>4, <2>1, JournalKeeps DEF StopDownload, Planned, Fetched
    <2>3. TypeOK'
        BY <1>1, <1>3, <2>1, <2>2, TaskMoves DEF TypeOK
    <2>4. \A other \in Folders \ {t.folder} : journal'[other] = journal[other]
        BY <1>1, <2>1 DEF Journals, TypeOK
    <2> QED
        BY <1>3, <2>1, <2>2, <2>3, <2>4, LeaveKeeps
<1>5. ASSUME FinishFiles(g) PROVE EpicInv'
    <2> SUFFICES ASSUME NEW new, new = [t EXCEPT !.at = "record"] PROVE EpicInv'
        OBVIOUS
    <2>1. /\ new \in Task /\ new.at = "record" /\ new.folder = t.folder
          /\ new.version = t.version /\ new.todo = t.todo /\ new.complete = t.complete
        BY DEF Task
    <2>2. /\ t.at = "file" /\ t.todo = {}
          /\ task' = [task EXCEPT ![g] = new] /\ Journals(g)
          /\ UNCHANGED <<current, file, part, records, asking, cancelled, remover, disturbed>>
        BY <1>5 DEF FinishFiles, Goto, WriteJournal, Journals
    <2>3. /\ task' \in [Games -> Task \cup {Idle}] /\ task'[g] = new
          /\ \A h \in Games \ {g} : task'[h] = task[h]
        BY <1>1, <2>1, <2>2, TaskMoves
    <2>4. /\ journal' \in [Folders -> Journal]
          /\ \A other \in Own(g) : Ordered(other, current[g])' /\ Ordered(other, t.version)'
        <3> SUFFICES ASSUME NEW newest, newest = current[g]
                     PROVE  /\ journal' \in [Folders -> Journal]
                            /\ \A other \in Own(g) :
                                   Ordered(other, newest)' /\ Ordered(other, t.version)'
            BY <2>2 DEF Ordered
        <3> QED
            BY <2>2, JournalKeeps DEF Planned, Fetched
    <2>5. TypeOK'
        BY <1>1, <2>2, <2>3, <2>4 DEF TypeOK
    <2>6. GameInv(g)'
        <3>1. Sound(g, new)'
            BY <1>1, <2>1, <2>2, <2>4 DEF Sound, Fetched, Planned
        <3> QED
            BY <2>3, <2>4, <3>1 DEF GameInv
    <2> QED
        BY <1>1, <2>2, <2>3, <2>5, <2>6, TaskKeeps DEF TypeOK, Journals
<1>6. ASSUME ReadRecords(g) PROVE EpicInv'
    <2> SUFFICES ASSUME NEW new, new = [t EXCEPT !.at = "save", !.held = records] PROVE EpicInv'
        OBVIOUS
    <2>1. /\ new \in Task /\ new.at = "save" /\ new.folder = t.folder /\ new.held = records
          /\ new.version = t.version /\ new.todo = t.todo /\ new.complete = t.complete
          /\ records \in Records
        <3>1. records \in Records
            BY <1>1 DEF TypeOK
        <3> HIDE DEF Records
        <3> QED
            BY <3>1 DEF Task
    <2>2. /\ t.at = "record" /\ task' = [task EXCEPT ![g] = new]
          /\ UNCHANGED <<current, disk, records, asking, cancelled, remover, disturbed>>
        BY <1>6 DEF ReadRecords
    <2>3. /\ task' \in [Games -> Task \cup {Idle}] /\ task'[g] = new
          /\ \A h \in Games \ {g} : task'[h] = task[h]
        BY <1>1, <2>1, <2>2, TaskMoves
    <2>4. TypeOK'
        BY <1>1, <2>2, <2>3 DEF TypeOK, disk
    <2>5. GameInv(g)'
        <3>1. \A other \in Own(g) : Ordered(other, current[g])' /\ Ordered(other, t.version)'
            BY <1>1, <2>2 DEF Ordered, Sound, Fetched, disk
        <3>2. Sound(g, new)'
            BY <1>1, <2>1, <2>2, <3>1 DEF Sound, Fetched, Planned, disk
        <3> QED
            BY <2>3, <3>1, <3>2 DEF GameInv
    <2> QED
        BY <1>1, <2>2, <2>3, <2>4, <2>5, TaskKeeps DEF TypeOK, disk
<1>7. ASSUME SaveRecord(g) PROVE EpicInv'
    <2> SUFFICES ASSUME NEW new, new = [t EXCEPT !.at = "leave", !.held = Absent] PROVE EpicInv'
        OBVIOUS
    <2>1. new \in Task /\ new.at = "leave" /\ new.folder = t.folder
        <3> HIDE DEF Records
        <3> QED
            BY DEF Task
    <2>2. /\ task' = [task EXCEPT ![g] = new]
          /\ UNCHANGED <<current, file, part, journal, asking, cancelled, remover, disturbed>>
        BY <1>7 DEF SaveRecord, disk
    <2>3. records' \in Records
        <3>1. t.held \in Records /\ t.version \in 1..Versions /\ t.folder \in Folders
            BY <1>1, <1>7
            DEF SaveRecord, Sound, Fetched, Own, Folders, BuildsAssumption
        <3>2. [version |-> t.version, folder |-> t.folder] \in Record
            BY <3>1 DEF Record
        <3> QED
            BY <1>7, <3>1, <3>2 DEF SaveRecord, Records
    <2>4. TypeOK'
        BY <1>1, <2>1, <2>2, <2>3, TaskMoves DEF TypeOK
    <2>5. (\A other \in Own(g) : Ordered(other, current[g]))'
        BY <1>1, <2>2 DEF Ordered
    <2> QED
        BY <2>1, <2>2, <2>4, <2>5, LeaveKeeps
<1>8. ASSUME LeaveJob(g) PROVE EpicInv'
    <2>1. /\ task' = [task EXCEPT ![g] = Idle]
          /\ UNCHANGED <<current, file, part, journal, records, asking, remover, disturbed>>
        BY <1>8 DEF LeaveJob, disk
    <2>2. TypeOK'
        BY <1>1, <1>8, <2>1 DEF LeaveJob, TypeOK
    <2>3. (\A other \in Own(g) : Ordered(other, current[g]))'
        BY <1>1, <2>1 DEF Ordered
    <2> QED
        BY <2>1, <2>2, <2>3, LeaveKeeps
<1>9. ASSUME Fail(g) PROVE EpicInv'
    <2>1. /\ task' = [task EXCEPT ![g] = gone]
          /\ UNCHANGED <<current, file, part, journal, records, asking, cancelled, remover,
                         disturbed>>
        BY <1>9 DEF Fail, Goto, disk
    <2>2. TypeOK'
        BY <1>1, <1>3, <2>1, TaskMoves DEF TypeOK
    <2>3. (\A other \in Own(g) : Ordered(other, current[g]))'
        BY <1>1, <2>1 DEF Ordered
    <2> QED
        BY <1>3, <2>1, <2>2, <2>3, LeaveKeeps
<1> QED
    BY <1>4, <1>5, <1>6, <1>7, <1>8, <1>9

------------------------------------------------------------------------------
(* The steps that no task takes *)

\* AskInstall, Cancel, Uninstall, SaveRemoval: no folder and no task is touched.
LEMMA CommandKeeps ==
    ASSUME EpicInv,
           \/ \E g \in Games : AskInstall(g) \/ Cancel(g) \/ Uninstall(g)
           \/ SaveRemoval
    PROVE  EpicInv'
<1> USE DEF At
<1>1. UNCHANGED <<current, file, part, journal, task, disturbed>>
    BY DEF AskInstall, Cancel, Uninstall, SaveRemoval, disk
<1>2. \A g \in Games : GameInv(g)'
    BY <1>1, BesideKeeps DEF EpicInv
<1>3. ASSUME NEW g \in Games, AskInstall(g) \/ Cancel(g) PROVE TypeOK' /\ RemoverInv'
    BY <1>3 DEF AskInstall, Cancel, EpicInv, TypeOK, RemoverInv, disk
<1>4. ASSUME NEW g \in Games, Uninstall(g) PROVE TypeOK' /\ RemoverInv'
    <2>1. records[g] \in Record /\ records \in Records
        BY <1>4 DEF Uninstall, EpicInv, TypeOK, Records
    <2>2. remover' = [at |-> "remove", game |-> g, held |-> records]
        BY <1>4 DEF Uninstall
    <2>3. RemoverInv'
        BY <2>1, <2>2 DEF RemoverInv
    <2>4. /\ cancelled' \subseteq Games
          /\ UNCHANGED <<current, file, part, journal, records, asking, task, disturbed>>
        BY <1>4 DEF Uninstall, EpicInv, TypeOK, disk
    <2> HIDE DEF Records
    <2>5. TypeOK'
        BY <2>1, <2>2, <2>4 DEF EpicInv, TypeOK
    <2> QED
        BY <2>3, <2>5
<1>5. ASSUME SaveRemoval PROVE TypeOK' /\ RemoverInv'
    <2>1. remover' = NoCommand /\ remover.at = "save"
        BY <1>5 DEF SaveRemoval
    <2>2. remover.game \in Games /\ remover.held \in Records
        BY <2>1 DEF EpicInv, TypeOK, NoCommand
    <2>3. records' \in Records
        BY <1>5, <2>2 DEF SaveRemoval, Records
    <2> QED
        BY <1>5, <2>1, <2>3 DEF SaveRemoval, EpicInv, TypeOK, RemoverInv, NoCommand, disk
<1> QED
    BY <1>2, <1>3, <1>4, <1>5 DEF EpicInv

\* A build is published: what is newest becomes newer.
LEMMA PublishKeeps ==
    ASSUME BuildsAssumption, ValuesAssumption, EpicInv, NEW g \in Games, PublishBuild(g)
    PROVE  EpicInv'
<1>1. /\ UNCHANGED <<file, part, journal, records, asking, task, cancelled, remover, disturbed>>
      /\ current' \in [Games -> 1..Versions]
      /\ current[g] \in 1..Versions /\ current'[g] = current[g] + 1
      /\ \A h \in Games \ {g} : current'[h] = current[h]
    BY DEF PublishBuild, EpicInv, TypeOK, BuildsAssumption, disk
<1>2. TypeOK' /\ RemoverInv'
    BY <1>1 DEF EpicInv, TypeOK, RemoverInv
<1>3. \A h \in Games \ {g} : GameInv(h)'
    BY <1>1, BesideKeeps DEF EpicInv
<1>4. GameInv(g)'
    <2> SUFFICES ASSUME NEW t, t = task[g], NEW newest, newest = current[g] PROVE GameInv(g)'
        OBVIOUS
    <2>1. Sound(g, t) /\ \A folder \in Own(g) : Ordered(folder, newest)
        BY DEF EpicInv, GameInv
    <2>2. ASSUME NEW folder \in Own(g) PROVE Ordered(folder, newest + 1)'
        <3>1. /\ newest \in Nat /\ journal[folder] \in Journal
              /\ file[folder] \in [Files -> Content \cup {Absent}]
            BY <1>1 DEF EpicInv, TypeOK, Own, Folders, BuildsAssumption
        <3> QED
            BY <1>1, <2>1, <3>1 DEF Ordered, Journal, Content, BuildsAssumption
    <2>3. \A folder \in Own(g) : Ordered(folder, t.version) => Ordered(folder, t.version)'
        BY <1>1 DEF Ordered
    <2>4. t.version \in 1..newest => t.version \in 1..(newest + 1)
        BY <1>1 DEF BuildsAssumption
    <2>5. Sound(g, t)'
        BY <1>1, <2>1, <2>3, <2>4 DEF Sound, Fetched, Planned
    <2> QED
        BY <1>1, <2>2, <2>5 DEF GameInv
<1> QED
    BY <1>2, <1>3, <1>4 DEF EpicInv

\* A folder is removed, all of it or a file: its task is told of in `disturbed`, and
\* what is gone contradicts no journal.
LEMMA RemoveKeeps ==
    ASSUME ValuesAssumption, BuildsAssumption, EpicInv, RemoveFolder
    PROVE  EpicInv'
<1> SUFFICES ASSUME NEW folder \in Folders, folder = remover.held[remover.game].folder
             PROVE  EpicInv'
    BY DEF RemoveFolder, EpicInv, RemoverInv, Record
<1>1. /\ UNCHANGED <<current, records, asking, task, cancelled>>
      /\ disturbed' = disturbed \cup {g \in Games : ~At(g, "idle") /\ Folder(g) = folder}
    BY DEF RemoveFolder
<1>2. /\ file' \in [Folders -> [Files -> Content \cup {Absent}]]
      /\ part' \in [Folders -> [Files -> Content \cup {Absent}]]
      /\ journal' \in [Folders -> Journal]
      /\ \A f \in Files : file'[folder][f] \in {file[folder][f], Absent}
      /\ \A f \in Files : part'[folder][f] \in {part[folder][f], Absent}
      /\ journal'[folder] \in {journal[folder], NoJournal}
      /\ \A other \in Folders \ {folder} :
             /\ file'[other] = file[other] /\ part'[other] = part[other]
             /\ journal'[other] = journal[other]
    <2>1. /\ file \in [Folders -> [Files -> Content \cup {Absent}]]
          /\ part \in [Folders -> [Files -> Content \cup {Absent}]]
          /\ journal \in [Folders -> Journal]
        BY DEF EpicInv, TypeOK
    <2>2. CASE /\ file' = [file EXCEPT ![folder] = NoFiles]
               /\ part' = [part EXCEPT ![folder] = NoFiles]
               /\ journal' = [journal EXCEPT ![folder] = NoJournal]
        <3>1. NoFiles \in [Files -> Content \cup {Absent}] /\ \A f \in Files : NoFiles[f] = Absent
            BY DEF NoFiles
        <3>2. NoJournal \in Journal
            BY DEF NoJournal, Journal, BuildsAssumption
        <3> QED
            BY <2>1, <2>2, <3>1, <3>2
    <2>3. ASSUME NEW f \in Files,
                 file' = [file EXCEPT ![folder] = [file[folder] EXCEPT ![f] = Absent]],
                 UNCHANGED <<part, journal>>
          PROVE  /\ file' \in [Folders -> [Files -> Content \cup {Absent}]]
                 /\ \A g \in Files : file'[folder][g] \in {file[folder][g], Absent}
                 /\ \A other \in Folders \ {folder} : file'[other] = file[other]
        BY <2>1, <2>3
    <2> QED
        BY <2>1, <2>2, <2>3 DEF RemoveFolder
<1>3. /\ RemoverInv'
      /\ remover' \in {NoCommand} \cup [at : {"remove", "save"}, game : Games, held : Records]
    <2> HIDE DEF Records
    <2>1. remover \in [at : {"remove", "save"}, game : Games, held : Records]
        <3>1. remover \in {NoCommand} \cup [at : {"remove", "save"}, game : Games, held : Records]
            BY DEF EpicInv, TypeOK
        <3>2. remover # NoCommand
            <4>1. remover.at = "remove"
                BY DEF RemoveFolder
            <4> QED
                BY <4>1 DEF NoCommand
        <3> QED
            BY <3>1, <3>2
    <2> QED
        BY <2>1 DEF RemoveFolder, RemoverInv, NoCommand
<1>4. TypeOK'
    BY <1>1, <1>2, <1>3 DEF EpicInv, TypeOK
<1>5. ASSUME NEW g \in Games PROVE GameInv(g)'
    <2> SUFFICES ASSUME NEW t, t = task[g], NEW newest, newest = current[g] PROVE GameInv(g)'
        OBVIOUS
    <2>1. Sound(g, t) /\ \A other \in Own(g) : Ordered(other, newest)
        BY DEF EpicInv, GameInv
    <2>2. newest \in Nat /\ Own(g) \subseteq Folders
        BY DEF EpicInv, TypeOK, BuildsAssumption, Own, Folders
    <2>3. ASSUME NEW other \in Own(g), NEW bound \in Nat, Ordered(other, bound)
          PROVE  Ordered(other, bound)'
        <3>1. CASE other # folder
            BY <1>2, <2>2, <2>3, <3>1 DEF Ordered
        <3>2. CASE other = folder /\ journal'[folder] = journal[folder]
            <4>1. journal[folder].complete \subseteq Files
                BY DEF EpicInv, TypeOK, Journal
            <4> QED
                BY <1>2, <2>3, <3>2, <4>1 DEF Ordered
        <3>3. CASE other = folder /\ journal'[folder] = NoJournal
            <4>1. NoJournal.version = 0 /\ NoJournal.complete = {}
                BY DEF NoJournal
            <4>2. \A f \in Files : file'[folder][f] # Absent => file'[folder][f] <= bound
                BY <1>2, <2>3, <3>3 DEF Ordered
            <4> QED
                BY <3>3, <4>1, <4>2 DEF Ordered
        <3> QED
            BY <1>2, <3>1, <3>2, <3>3
    <2>4. t.at \in Fetched => /\ t.folder \in Own(g) /\ t.version \in Nat
                              /\ (t.at \in Planned /\ t.folder = folder => g \in disturbed')
        BY <1>1, <2>1, <2>2 DEF Sound, Planned, Fetched, At, Folder
    <2>5. t.at \in Fetched =>
              /\ t.version \in 1..newest
              /\ \A other \in Own(g) : Ordered(other, t.version)'
        BY <2>1, <2>3, <2>4 DEF Sound
    <2>6. t.at = "rename" => part'[t.folder][t.writing] \in {Absent, t.version}
        <3> SUFFICES ASSUME t.at = "rename"
                     PROVE  part'[t.folder][t.writing] \in {Absent, t.version}
            OBVIOUS
        <3>1. /\ t.writing \in Files /\ part[t.folder][t.writing] \in {Absent, t.version}
              /\ t.folder \in Folders
            BY <2>1, <2>2, <2>4 DEF Sound, Fetched
        <3> QED
            BY <1>2, <3>1
    <2>7. t.at \in Planned =>
              /\ \A f \in t.complete : file'[t.folder][f] \in {Absent, t.version}
              /\ g \notin disturbed' => \A f \in Files \ t.todo : file'[t.folder][f] = t.version
        <3> SUFFICES ASSUME t.at \in Planned
                     PROVE  /\ \A f \in t.complete : file'[t.folder][f] \in {Absent, t.version}
                            /\ g \notin disturbed' =>
                                   \A f \in Files \ t.todo : file'[t.folder][f] = t.version
            OBVIOUS
        <3>1. t.complete \subseteq Files
            BY DEF EpicInv, TypeOK, Task, Idle, Planned, Fetched
        <3>2. t.folder \in Folders /\ (t.folder = folder => g \in disturbed')
            BY <2>2, <2>4 DEF Planned
        <3>3. /\ \A f \in t.complete : file[t.folder][f] \in {Absent, t.version}
              /\ g \notin disturbed => \A f \in Files \ t.todo : file[t.folder][f] = t.version
            BY <2>1 DEF Sound
        <3>4. g \notin disturbed' => g \notin disturbed
            BY <1>1
        <3>5. /\ \A f \in Files : file'[t.folder][f] \in {file[t.folder][f], Absent}
              /\ t.folder # folder => file'[t.folder] = file[t.folder]
            BY <1>2, <3>2
        <3>6. \A f \in t.complete : file'[t.folder][f] \in {Absent, t.version}
            BY <3>1, <3>3, <3>5
        <3> QED
            BY <3>2, <3>3, <3>4, <3>5, <3>6
    <2>8. Sound(g, t)'
        BY <1>1, <2>1, <2>5, <2>6, <2>7 DEF Sound
    <2> QED
        BY <1>1, <2>1, <2>2, <2>3, <2>8 DEF GameInv
<1> QED
    BY <1>3, <1>4, <1>5 DEF EpicInv

\* The program stops: what is on the disk is as ordered as it was.
LEMMA CrashKeeps ==
    ASSUME EpicInv, Crash
    PROVE  EpicInv'
<1>1. /\ UNCHANGED <<current, file, part, journal, records>> /\ remover' = NoCommand
      /\ task' = [g \in Games |-> Idle]
      /\ asking' = {} /\ cancelled' = {} /\ disturbed' = {}
    BY DEF Crash, disk
<1>2. TypeOK' /\ RemoverInv'
    BY <1>1 DEF EpicInv, TypeOK, RemoverInv, NoCommand
<1>3. \A g \in Games : GameInv(g)'
    BY <1>1 DEF EpicInv, GameInv, Ordered, Sound, Fetched, Planned, Idle
<1> QED
    BY <1>2, <1>3 DEF EpicInv

------------------------------------------------------------------------------
(* The theorems *)

\* Nothing was ever downloaded.
LEMMA InitKeeps == BuildsAssumption /\ Init => EpicInv
<1> SUFFICES ASSUME BuildsAssumption, Init PROVE EpicInv
    OBVIOUS
<1>1. TypeOK /\ RemoverInv
    BY DEF Init, TypeOK, RemoverInv, NoFiles, NoJournal, Journal, Records, NoCommand,
       BuildsAssumption
<1>2. \A g \in Games : GameInv(g)
    BY DEF Init, GameInv, Ordered, Sound, Fetched, Planned, Idle, Own, Folders, NoFiles, NoJournal
<1> QED
    BY <1>1, <1>2 DEF EpicInv

\* Every step keeps the invariant.
LEMMA NextKeeps ==
    ASSUME BuildsAssumption, ValuesAssumption, FoldersAssumption, EpicInv, [Next]_vars
    PROVE  EpicInv'
<1>1. CASE UNCHANGED vars
    BY <1>1, BesideKeeps DEF vars, disk, EpicInv, TypeOK, RemoverInv
<1>2. ASSUME NEW g \in Games, Download(g) \/ Fail(g) \/ RegisterJob(g) PROVE EpicInv'
    BY <1>2, BeginKeeps, WriteKeeps, EndKeeps DEF Download
<1> QED
    BY <1>1, <1>2, CommandKeeps, PublishKeeps, RemoveKeeps, CrashKeeps DEF Next

\* However downloads, cancels, removals, publications and crashes interleave, the
\* builds of a journal, of the files beside it and of the task are ordered.
THEOREM EpicInvariant ==
    ASSUME BuildsAssumption, ValuesAssumption, FoldersAssumption
    PROVE  Spec => []EpicInv
BY InitKeeps, NextKeeps, PTL DEF Spec

\* Every variable keeps its type.
THEOREM TypeCorrect ==
    ASSUME BuildsAssumption, ValuesAssumption, FoldersAssumption
    PROVE  Spec => []TypeOK
<1>1. EpicInv => TypeOK
    BY DEF EpicInv
<1> QED
    BY <1>1, EpicInvariant, PTL

\* What a download records is there, whatever it resumed from, and unless its folder
\* was removed under it.
LEMMA SaveIsComplete ==
    ASSUME EpicInv, NEW g \in Games \ disturbed, SaveRecord(g)
    PROVE  \A f \in Files : file[Folder(g)][f] = task[g].version
BY DEF SaveRecord, At, Folder, EpicInv, GameInv, Sound, Planned, Fetched

\* Every download records its game only with every file of its build in place.
THEOREM DownloadsAreComplete ==
    ASSUME BuildsAssumption, ValuesAssumption, FoldersAssumption
    PROVE  Spec => [][DownloadIsComplete]_vars
<1>1. EpicInv /\ [Next]_vars => [DownloadIsComplete]_vars
    BY SaveIsComplete DEF DownloadIsComplete
<1> QED
    BY <1>1, EpicInvariant, PTL DEF Spec

\* A record that changes is a download's, or one that another command wrote back: with
\* one game there is no other.
THEOREM RecordsAreComplete ==
    ASSUME BuildsAssumption, ValuesAssumption, NEW game, Games = {game}
    PROVE  Spec => RecordedIsComplete
<1>1. FoldersAssumption
    BY DEF FoldersAssumption
<1>2. ASSUME EpicInv, Next PROVE RecordIsComplete
    <2> SUFFICES ASSUME NEW g \in Games \ disturbed, records'[g] # records[g],
                        records'[g] # Absent
                 PROVE  \A f \in Files : file[records'[g].folder][f] = records'[g].version
        BY DEF RecordIsComplete
    <2>1. SaveRecord(g)
        <3>1. ASSUME SaveRemoval PROVE records'[g] = Absent
            <4>1. /\ remover.game \in Games /\ remover.held \in Records
                  /\ records' = [remover.held EXCEPT ![remover.game] = Absent]
                BY <1>2, <3>1 DEF SaveRemoval, EpicInv, TypeOK, NoCommand
            <4>2. remover.game = g
                BY <4>1
            <4> QED
                BY <4>1, <4>2 DEF Records
        <3>2. ASSUME NEW h \in Games, Download(h) PROVE SaveRecord(g)
            BY <3>2
            DEF Download, ChooseFolder, FetchManifest, PlanInstall, StartFile, StopDownload,
                WriteFile, RenameFile, JournalFile, FinishFiles, ReadRecords, LeaveJob
        <3> QED
            BY <1>2, <3>1, <3>2
            DEF Next, PublishBuild, AskInstall, RegisterJob, Cancel, Fail, Uninstall,
                RemoveFolder, Crash
    <2>2. records'[g] = [version |-> task[g].version, folder |-> Folder(g)]
        <3>1. task[g].held \in Records
            BY <1>2, <2>1 DEF SaveRecord, At, EpicInv, GameInv, Sound
        <3> QED
            BY <2>1, <3>1 DEF SaveRecord, Records
    <2> QED
        BY <1>2, <2>1, <2>2, SaveIsComplete
<1>3. EpicInv /\ [Next]_vars => [RecordIsComplete]_vars
    BY <1>2
<1> QED
    BY <1>1, <1>3, EpicInvariant, PTL DEF Spec, RecordedIsComplete

------------------------------------------------------------------------------
(* StoreShelf *)

\* A document whose answers are no later than now.
Dated(document, now) ==
    document # None =>
        /\ DOMAIN document = {"at", "steam", "games"}
        /\ DOMAIN document.games \subseteq H!Games
        /\ \A g \in DOMAIN document.games :
              /\ DOMAIN document.games[g] = {"price", "asked"}
              /\ document.games[g].asked = None \/ document.games[g].asked \in 1..now

CallSound(c) ==
    call[c] # None =>
        /\ DOMAIN call[c] = {"before", "now", "document"} /\ call[c].now \in 1..clock
        /\ Dated(call[c].before, call[c].now) /\ Dated(call[c].document, call[c].now)
        /\ cache = None \/ cache = IF call[c].document = None THEN call[c].before
                                   ELSE call[c].document

ShelfInv ==
    /\ clock \in 1..MaxTime
    /\ Dated(cache, clock)
    /\ DOMAIN call = Calls /\ \A c \in Calls : CallSound(c)
    /\ \A c, d \in Calls : call[c] # None /\ call[d] # None => c = d

\* The cardinality of the standard module, as the instance has it.
LEMMA SizeIs == \A S : H!Cardinality(S) = Cardinality(S) /\ H!IsFiniteSet(S) = IsFiniteSet(S)
BY DEF H!Cardinality, Cardinality, H!IsFiniteSet, IsFiniteSet

LEMMA LiveFinite ==
    ASSUME H!ShelfAssumption, NEW games, DOMAIN games \subseteq H!Games
    PROVE  IsFiniteSet(H!Live(games)) /\ H!Cardinality(H!Live(games)) \in Nat
<1>1. H!Live(games) \subseteq Releases \cup Apps  BY DEF H!Live, H!Games
<1> QED  BY <1>1, FS_Subset, FS_CardinalityType, SizeIs DEF H!ShelfAssumption

LEMMA LaterDated ==
    ASSUME NEW document, NEW now \in Nat, NEW later \in Nat, now <= later,
           Dated(document, now)
    PROVE  Dated(document, later)
BY DEF Dated

\* What a refresh publishes: no earlier than its snapshot, with no answer taken
\* back and, where Steam failed, no fewer live games.
Published(document, before, now) ==
    /\ document # None => Dated(document, now)
    /\ before # None /\ document # None =>
        /\ ~document.steam =>
            H!Cardinality(H!Live(document.games)) >= H!Cardinality(H!Live(before.games))
        /\ \A g \in DOMAIN before.games \cap DOMAIN document.games :
              before.games[g].asked # None =>
                  document.games[g].asked = before.games[g].asked

LEMMA PublishedHolds ==
    ASSUME H!ShelfAssumption, NEW before, NEW now \in 1..MaxTime, Dated(before, now),
           NEW priced \in H!Prices, NEW found \in SUBSET (Releases \cup Apps),
           NEW steam \in BOOLEAN,
           NEW document,
           document = [at |-> now, steam |-> steam,
                        games |-> H!Carried(H!Kept(H!Rebuilt(priced, found, now), steam,
                                                  H!GamesOf(before)),
                                           H!GamesOf(before))]
    PROVE  Published(document, before, now)
<1> DEFINE old == H!GamesOf(before)
           rebuilt == H!Rebuilt(priced, found, now)
           kept == H!Kept(rebuilt, steam, old)
           games == H!Carried(kept, old)
<1>1. /\ DOMAIN rebuilt \subseteq H!Games
      /\ \A g \in DOMAIN rebuilt :
            DOMAIN rebuilt[g] = {"price", "asked"} /\ rebuilt[g].asked = None
    BY DEF H!Rebuilt, H!Games
<1>2. /\ DOMAIN old \subseteq H!Games
      /\ \A g \in DOMAIN old : /\ DOMAIN old[g] = {"price", "asked"}
                               /\ old[g].asked = None \/ old[g].asked \in 1..now
    BY DEF H!GamesOf, Dated
<1>3. kept = rebuilt \/ kept = old  BY DEF H!Kept
<1>4. /\ DOMAIN kept \subseteq H!Games
      /\ \A g \in DOMAIN kept :
            /\ DOMAIN kept[g] = {"price", "asked"}
            /\ kept[g].asked = None \/ (g \in DOMAIN old /\ kept[g].asked = old[g].asked)
    BY <1>1, <1>2, <1>3
<1>5. DOMAIN games = DOMAIN kept  BY DEF H!Carried
<1>6. ASSUME NEW g \in DOMAIN games
      PROVE  /\ DOMAIN games[g] = {"price", "asked"}
             /\ games[g].asked = IF g \in DOMAIN old THEN old[g].asked ELSE None
  <2> HIDE DEF kept, old
  <2>1. games[g] = IF kept[g].asked = None /\ g \in DOMAIN old
                   THEN [kept[g] EXCEPT !.asked = old[g].asked] ELSE kept[g]
      BY <1>5 DEF H!Carried
  <2> QED  BY <1>4, <1>5, <2>1
<1>7. steam = FALSE => H!Cardinality(H!Live(games)) >= H!Cardinality(H!Live(old))
  <2> HIDE DEF rebuilt, old
  <2>1. H!Live(games) = H!Live(kept)  BY <1>5 DEF H!Live
  <2>2. H!Cardinality(H!Live(old)) \in Nat /\ H!Cardinality(H!Live(rebuilt)) \in Nat
      BY <1>1, <1>2, LiveFinite
  <2>3. steam = FALSE => H!Cardinality(H!Live(kept)) >= H!Cardinality(H!Live(old))
      BY <2>2 DEF H!Kept
  <2> QED  BY <2>1, <2>3
<1>8. DOMAIN document = {"at", "steam", "games"} /\ document.games = games
      /\ document.steam = steam
    OBVIOUS
<1>9. before # None => old = before.games  BY DEF H!GamesOf
<1> HIDE DEF games, kept, old
<1>10. Dated(document, now)
    BY <1>2, <1>4, <1>5, <1>6, <1>8 DEF Dated
<1>11. before # None =>
        /\ ~document.steam =>
            H!Cardinality(H!Live(document.games)) >= H!Cardinality(H!Live(before.games))
        /\ \A g \in DOMAIN before.games \cap DOMAIN document.games :
              document.games[g].asked = before.games[g].asked
    BY <1>6, <1>7, <1>8, <1>9
<1> QED  BY <1>10, <1>11 DEF Published

\* The answers of IGDB added to a published document.
Told(document, told, now) ==
    [document EXCEPT !.games = [g \in DOMAIN document.games |->
        IF g \in told THEN [document.games[g] EXCEPT !.asked = now] ELSE document.games[g]]]

LEMMA ToldHolds ==
    ASSUME H!ShelfAssumption, NEW document, document # None, NEW now \in 1..MaxTime,
           Dated(document, now), NEW told
    PROVE  /\ Dated(Told(document, told, now), now)
           /\ Told(document, told, now).steam = document.steam
           /\ DOMAIN Told(document, told, now).games = DOMAIN document.games
           /\ \A g \in DOMAIN document.games : document.games[g].asked # None =>
                /\ Told(document, told, now).games[g].asked # None
                /\ Told(document, told, now).games[g].asked >= document.games[g].asked
<1> DEFINE next == Told(document, told, now)
           games == [g \in DOMAIN document.games |->
                        IF g \in told THEN [document.games[g] EXCEPT !.asked = now]
                        ELSE document.games[g]]
<1>1. /\ DOMAIN document = {"at", "steam", "games"} /\ DOMAIN document.games \subseteq H!Games
      /\ \A g \in DOMAIN document.games :
            /\ DOMAIN document.games[g] = {"price", "asked"}
            /\ document.games[g].asked = None \/ document.games[g].asked \in 1..now
    BY DEF Dated
<1>2. DOMAIN next = {"at", "steam", "games"} /\ next.games = games
      /\ next.steam = document.steam
    BY <1>1 DEF Told
<1>3. DOMAIN games = DOMAIN document.games  OBVIOUS
<1>4. \A g \in DOMAIN games :
        /\ DOMAIN games[g] = {"price", "asked"}
        /\ games[g].asked = IF g \in told THEN now ELSE document.games[g].asked
    BY <1>1
<1>5. now # None /\ now \in 1..now  BY DEF H!ShelfAssumption
<1> HIDE DEF games, next
<1>6. Dated(next, now)  BY <1>1, <1>2, <1>3, <1>4, <1>5 DEF Dated
<1>7. \A g \in DOMAIN document.games : document.games[g].asked # None =>
                /\ games[g].asked # None
                /\ games[g].asked >= document.games[g].asked
    BY <1>1, <1>3, <1>4, <1>5
<1> QED  BY <1>2, <1>3, <1>6, <1>7 DEF next


\* The shelf moves with one refresh, the others are not running.
LEMMA ShelfStep ==
    ASSUME ShelfInv, NEW c \in Calls, clock' = clock, Dated(cache, clock)',
           DOMAIN call' = Calls, \A d \in Calls \ {c} : call[d] = None /\ call'[d] = None,
           CallSound(c)'
    PROVE  ShelfInv'
<1>1. \A d \in Calls : CallSound(d)'  BY DEF CallSound
<1> QED  BY <1>1 DEF ShelfInv

LEMMA BeginShelf ==
    ASSUME ShelfInv, H!ShelfAssumption, NEW c \in Calls, H!Begin(c)
    PROVE  ShelfInv'
<1>1. /\ DOMAIN call' = Calls /\ call'[c] = [before |-> cache, now |-> clock, document |-> None]
      /\ \A d \in Calls \ {c} : call[d] = None /\ call'[d] = None
      /\ clock' = clock /\ cache' = cache
    BY DEF H!Begin, H!Known, H!Running, ShelfInv
<1>2. /\ DOMAIN call'[c] = {"before", "now", "document"} /\ call'[c].now = clock
      /\ call'[c].before = cache /\ call'[c].document = None
    BY <1>1
<1>3. clock \in 1..clock  BY DEF ShelfInv
<1>4. CallSound(c)'  BY <1>1, <1>2, <1>3 DEF CallSound, ShelfInv, Dated
<1>5. Dated(cache, clock)'  BY <1>1 DEF ShelfInv
<1> QED  BY <1>1, <1>4, <1>5, ShelfStep

\* The refresh that runs, and what it knows.
LEMMA OneRuns ==
    ASSUME ShelfInv, H!ShelfAssumption, NEW c \in Calls, call[c] # None
    PROVE  /\ \A d \in Calls \ {c} : call[d] = None
           /\ DOMAIN call[c] = {"before", "now", "document"}
           /\ call[c].now \in 1..clock /\ call[c].now \in 1..MaxTime /\ clock \in Nat
           /\ Dated(call[c].before, call[c].now) /\ Dated(call[c].document, call[c].now)
           /\ cache = None \/ cache = IF call[c].document = None THEN call[c].before
                                      ELSE call[c].document
BY DEF ShelfInv, CallSound, H!ShelfAssumption

LEMMA PublishStep ==
    ASSUME ShelfInv, H!ShelfAssumption, NEW c \in Calls, H!Publish(c)
    PROVE  /\ Published(cache', call[c].before, call[c].now)
           /\ cache' = None \/ Dated(cache', call[c].now)
           /\ call'[c] = [call[c] EXCEPT !.document = cache'] /\ DOMAIN call' = Calls
           /\ \A d \in Calls \ {c} : call'[d] = call[d]
           /\ clock' = clock
<1>1. PICK priced \in H!Prices, released \in H!NewReleases, apps \in H!AppResults :
        LET before == H!GamesOf(call[c].before)
            steam == priced = Catalogue
            games == H!Kept(H!Rebuilt(priced, released \cup apps, call[c].now), steam, before)
            document == [at |-> call[c].now, steam |-> steam, games |-> H!Carried(games, before)]
        IN /\ cache' = document
           /\ call' = [call EXCEPT ![c].document = document]
    BY DEF H!Publish
<1>2. call[c] # None  BY DEF H!Publish
<1>3. released \cup apps \in SUBSET (Releases \cup Apps)  BY DEF H!NewReleases, H!AppResults
<1>4. (priced = Catalogue) \in BOOLEAN  OBVIOUS
<1>5. cache' = [at |-> call[c].now, steam |-> priced = Catalogue,
                games |-> H!Carried(H!Kept(H!Rebuilt(priced, released \cup apps, call[c].now),
                                       priced = Catalogue, H!GamesOf(call[c].before)),
                                  H!GamesOf(call[c].before))]
    BY <1>1
<1>6. Published(cache', call[c].before, call[c].now)
    BY <1>2, <1>3, <1>4, <1>5, OneRuns, PublishedHolds
<1>7. /\ call'[c] = [call[c] EXCEPT !.document = cache'] /\ DOMAIN call' = Calls
      /\ \A d \in Calls \ {c} : call'[d] = call[d]
    BY <1>1 DEF ShelfInv
<1> QED  BY <1>6, <1>7 DEF H!Publish, Published

LEMMA PublishShelf ==
    ASSUME ShelfInv, H!ShelfAssumption, NEW c \in Calls, H!Publish(c)
    PROVE  ShelfInv'
<1>1. call[c] # None  BY DEF H!Publish
<1>2. /\ DOMAIN call'[c] = {"before", "now", "document"} /\ call'[c].now = call[c].now
      /\ call'[c].before = call[c].before /\ call'[c].document = cache' /\ clock' = clock
    BY <1>1, PublishStep, OneRuns
<1>3. Dated(cache', call[c].now) /\ Dated(cache', clock)
  <2>1. CASE cache' = None  BY <2>1 DEF Dated
  <2>2. CASE Dated(cache', call[c].now)
    <3>1. call[c].now \in Nat /\ clock \in Nat /\ call[c].now <= clock  BY <1>1, OneRuns
    <3> QED  BY <2>2, <3>1, LaterDated
  <2> QED  BY <2>1, <2>2, PublishStep
<1>4. CallSound(c)'  BY <1>1, <1>2, <1>3, OneRuns DEF CallSound
<1>5. Dated(cache, clock)'  BY <1>2, <1>3
<1>6. DOMAIN call' = Calls /\ \A d \in Calls \ {c} : call[d] = None /\ call'[d] = None
    BY <1>1, PublishStep, OneRuns
<1> QED  BY <1>2, <1>4, <1>5, <1>6, ShelfStep

LEMMA EnrichStep ==
    ASSUME NEW c \in Calls, H!Enrich(c), ShelfInv
    PROVE  /\ \E told : cache' = Told(call[c].document, told, call[c].now)
           /\ call'[c] = None /\ DOMAIN call' = Calls /\ clock' = clock
           /\ \A d \in Calls \ {c} : call'[d] = call[d]
<1>1. /\ call' = [call EXCEPT ![c] = None] /\ clock' = clock  BY DEF H!Enrich
<1>2. \E told : cache' = Told(call[c].document, told, call[c].now)
  <2> DEFINE wanted == H!Wanted(call[c].document, call[c].now)
             last == IF Len(wanted) < Most THEN Len(wanted) ELSE Most
             told(n) == {wanted[i] : i \in {j \in 1..last : j <= n * Batch}}
  <2>1. PICK batches \in 1..last :
            cache' = [call[c].document EXCEPT !.games = [g \in DOMAIN call[c].document.games |->
                            IF g \in told(batches)
                            THEN [call[c].document.games[g] EXCEPT !.asked = call[c].now]
                            ELSE call[c].document.games[g]]]
      BY DEF H!Enrich
  <2>2. cache' = Told(call[c].document, told(batches), call[c].now)
      BY <2>1 DEF Told
  <2> QED  BY <2>2
<1> QED  BY <1>1, <1>2 DEF ShelfInv

LEMMA EnrichShelf ==
    ASSUME ShelfInv, H!ShelfAssumption, NEW c \in Calls, H!Enrich(c)
    PROVE  ShelfInv'
<1>1. call[c] # None /\ call[c].document # None  BY DEF H!Enrich
<1>2. /\ call[c].now \in 1..MaxTime /\ call[c].now \in Nat /\ clock \in Nat
      /\ call[c].now <= clock /\ Dated(call[c].document, call[c].now)
    BY <1>1, OneRuns
<1>3. PICK told : cache' = Told(call[c].document, told, call[c].now)  BY EnrichStep
<1>6. Dated(cache', call[c].now)  BY <1>1, <1>2, <1>3, ToldHolds
<1>7. Dated(cache', clock)  BY <1>2, <1>6, LaterDated
<1>4. Dated(cache, clock)'  BY <1>7, EnrichStep
<1>5. CallSound(c)'  BY EnrichStep DEF CallSound
<1> QED  BY <1>1, <1>4, <1>5, EnrichStep, OneRuns, ShelfStep

LEMMA ReturnShelf ==
    ASSUME ShelfInv, H!ShelfAssumption, NEW c \in Calls, H!Return(c)
    PROVE  ShelfInv'
<1>1. /\ call[c] # None /\ call'[c] = None /\ DOMAIN call' = Calls
      /\ \A d \in Calls \ {c} : call'[d] = call[d]
      /\ clock' = clock /\ cache' = cache
    BY DEF H!Return, ShelfInv
<1>2. CallSound(c)'  BY <1>1 DEF CallSound
<1>3. Dated(cache, clock)'  BY <1>1 DEF ShelfInv
<1> QED  BY <1>1, <1>2, <1>3, OneRuns, ShelfStep

LEMMA ForgetShelf ==
    ASSUME ShelfInv, H!Forget
    PROVE  ShelfInv'
<1>1. cache' = None /\ call' = call /\ clock' = clock  BY DEF H!Forget
<1>2. Dated(cache, clock)'  BY <1>1 DEF Dated
<1>3. \A c \in Calls : CallSound(c)'  BY <1>1 DEF ShelfInv, CallSound
<1> QED  BY <1>1, <1>2, <1>3 DEF ShelfInv

LEMMA TickShelf ==
    ASSUME ShelfInv, H!ShelfAssumption, H!Tick
    PROVE  ShelfInv'
<1>1. cache' = cache /\ call' = call /\ clock' = clock + 1 /\ clock < MaxTime  BY DEF H!Tick
<1>2. clock \in Nat /\ clock + 1 \in Nat /\ clock' \in 1..MaxTime
    BY <1>1 DEF ShelfInv, H!ShelfAssumption
<1>3. Dated(cache, clock + 1)  BY <1>2, LaterDated DEF ShelfInv
<1>4. Dated(cache, clock)'  BY <1>1, <1>3
<1>5. \A c \in Calls : CallSound(c)'  BY <1>1, <1>2 DEF ShelfInv, CallSound
<1> QED  BY <1>1, <1>2, <1>4, <1>5 DEF ShelfInv

\* store.rs: the inductive invariant of the shelf: one refresh runs, no answer is later
\* than what it takes for now, and the document is the one it read or wrote last, or
\* was lost meanwhile.
THEOREM ShelfInvariant ==
    ASSUME H!ShelfAssumption
    PROVE  H!Spec => []ShelfInv
<1>1. H!Init => ShelfInv
    BY DEF H!Init, ShelfInv, Dated, CallSound, H!ShelfAssumption
<1>2. ShelfInv /\ [H!Next]_(H!vars) => ShelfInv'
  <2> SUFFICES ASSUME ShelfInv, [H!Next]_(H!vars)  PROVE ShelfInv'
    OBVIOUS
  <2>1. CASE \E c \in Calls : H!Begin(c)  BY <2>1, BeginShelf
  <2>2. CASE \E c \in Calls : H!Publish(c)  BY <2>2, PublishShelf
  <2>3. CASE \E c \in Calls : H!Enrich(c)  BY <2>3, EnrichShelf
  <2>4. CASE \E c \in Calls : H!Return(c)  BY <2>4, ReturnShelf
  <2>5. CASE H!Forget  BY <2>5, ForgetShelf
  <2>6. CASE H!Tick  BY <2>6, TickShelf
  <2>7. CASE UNCHANGED H!vars
    <3>1. cache' = cache /\ call' = call /\ clock' = clock  BY <2>7 DEF H!vars
    <3>2. \A c \in Calls : CallSound(c)'  BY <3>1 DEF ShelfInv, CallSound
    <3>3. Dated(cache, clock)'  BY <3>1 DEF ShelfInv
    <3> QED  BY <3>1, <3>2, <3>3 DEF ShelfInv
  <2> QED  BY <2>1, <2>2, <2>3, <2>4, <2>5, <2>6, <2>7 DEF H!Next
<1> QED  BY <1>1, <1>2, PTL DEF H!Spec

\* store.rs: no refresh takes an answer of IGDB back, nor, where Steam failed, leaves
\* fewer live games than there were.
THEOREM AnswersAreKept ==
    ASSUME H!ShelfAssumption
    PROVE  H!Spec => [][H!NothingForgotten]_(H!vars)
<1>1. ShelfInv /\ [H!Next]_(H!vars) => H!NothingForgotten
  <2> SUFFICES ASSUME ShelfInv, [H!Next]_(H!vars), cache # None, cache' # None
               PROVE  H!NothingForgotten
    BY DEF H!NothingForgotten
  <2>1. CASE cache' = cache
    <3>1. H!Cardinality(H!Live(cache.games)) \in Nat  BY LiveFinite DEF ShelfInv, Dated
    <3>2. \A g \in DOMAIN cache.games :
            cache.games[g].asked = None \/ cache.games[g].asked \in 1..clock
        BY DEF ShelfInv, Dated
    <3>3. clock \in Nat  BY DEF ShelfInv
    <3> QED  BY <2>1, <3>1, <3>2, <3>3 DEF H!NothingForgotten
  <2>2. CASE \E c \in Calls : H!Publish(c)
    <3>1. PICK c \in Calls : H!Publish(c)  BY <2>2
    <3>2. call[c] # None /\ call[c].document = None  BY <3>1 DEF H!Publish
    <3>3. cache = call[c].before /\ clock \in Nat  BY <3>2, OneRuns
    <3>4. Published(cache', cache, call[c].now)  BY <3>1, <3>3, PublishStep
    <3>5. \A g \in DOMAIN cache.games :
            cache.games[g].asked = None \/ cache.games[g].asked \in 1..clock
        BY DEF ShelfInv, Dated
    <3> QED  BY <3>3, <3>4, <3>5 DEF H!NothingForgotten, Published
  <2>3. CASE \E c \in Calls : H!Enrich(c)
    <3>1. PICK c \in Calls : H!Enrich(c)  BY <2>3
    <3>2. call[c] # None /\ call[c].document # None  BY <3>1 DEF H!Enrich
    <3>3. cache = call[c].document /\ Dated(cache, call[c].now) /\ call[c].now \in 1..MaxTime
        BY <3>2, OneRuns
    <3>4. PICK told : cache' = Told(cache, told, call[c].now)  BY <3>1, <3>3, EnrichStep
    <3>5. /\ cache'.steam = cache.steam /\ DOMAIN cache'.games = DOMAIN cache.games
          /\ \A g \in DOMAIN cache.games : cache.games[g].asked # None =>
                /\ cache'.games[g].asked # None
                /\ cache'.games[g].asked >= cache.games[g].asked
        BY <3>3, <3>4, ToldHolds
    <3>6. H!Live(cache'.games) = H!Live(cache.games)  BY <3>5 DEF H!Live
    <3>7. H!Cardinality(H!Live(cache.games)) \in Nat  BY LiveFinite DEF ShelfInv, Dated
    <3> QED  BY <3>5, <3>6, <3>7 DEF H!NothingForgotten
  <2> QED  BY <2>1, <2>2, <2>3 DEF H!Next, H!Begin, H!Return, H!Forget, H!Tick, H!vars
<1> QED  BY <1>1, ShelfInvariant, PTL DEF H!Spec

------------------------------------------------------------------------------
(* Sequences and numbers *)

\* No element stands twice in the sequence.
Distinct(s) == \A i, k \in 1..Len(s) : s[i] = s[k] => i = k

\* What Min picks out of a set of numbers is one of them, and the least.
LEMMA LeastExists ==
    ASSUME NEW S \in SUBSET Nat, S # {}
    PROVE  D!Min(S) \in S /\ \A n \in S : D!Min(S) =< n
<1> DEFINE R == {ss \in Nat \X Nat : ss[1] < ss[2]}
<1>1. OpToRel(<, Nat) = R
    BY Zenon DEF OpToRel
<1>2. \A m \in S, n \in S : <<m, n>> \in R <=> m < n
    OBVIOUS
<1>3. IsWellFoundedOn(R, Nat)
    BY <1>1, NatLessThanWellFounded, Zenon
<1> HIDE DEF R
<1>4. \E n \in S : \A m \in S : ~ (<<m, n>> \in R)
    BY <1>3, WFMin, Zenon
<1>5. PICK n \in S : \A m \in S : ~ (<<m, n>> \in R)
    BY <1>4, Zenon
<1>6. \A m \in S : ~(m < n)
    BY <1>2, <1>5, Zenon
<1>7. \A m \in S : n =< m
    BY <1>6
<1> QED
    BY <1>7 DEF D!Min

\* A job that joins the end of a line.
LEMMA AppendContains ==
    ASSUME NEW A, NEW s \in Seq(A), NEW j \in A
    PROVE  /\ Append(s, j) \in Seq(A)
           /\ Len(Append(s, j)) = Len(s) + 1
           /\ \A k : D!Contains(Append(s, j), k) <=> D!Contains(s, k) \/ k = j
           /\ Distinct(s) /\ ~D!Contains(s, j) => Distinct(Append(s, j))
<1> DEFINE r == Append(s, j)
<1>1. /\ r \in Seq(A) /\ Len(r) = Len(s) + 1
      /\ \A i \in 1..Len(s) : r[i] = s[i]
      /\ r[Len(s) + 1] = j
    OBVIOUS
<1>2. Len(s) \in Nat
    OBVIOUS
<1> HIDE DEF r
<1>3. ASSUME NEW k PROVE D!Contains(r, k) <=> D!Contains(s, k) \/ k = j
    <2>1. ASSUME D!Contains(r, k) PROVE D!Contains(s, k) \/ k = j
        BY <1>1, <1>2, <2>1 DEF D!Contains
    <2>2. ASSUME D!Contains(s, k) PROVE D!Contains(r, k)
        BY <1>1, <1>2, <2>2 DEF D!Contains
    <2>3. D!Contains(r, j)
        BY <1>1, <1>2 DEF D!Contains
    <2> QED
        BY <2>1, <2>2, <2>3
<1>4. Distinct(s) /\ ~D!Contains(s, j) => Distinct(r)
    BY <1>1, <1>2 DEF D!Contains, Distinct
<1> QED
    BY <1>1, <1>3, <1>4 DEF r

\* What stays where when one place is taken out.
LEMMA RemoveAtPlaces ==
    ASSUME NEW A, NEW s \in Seq(A), NEW n \in 1..Len(s)
    PROVE  /\ D!RemoveAt(s, n) \in Seq(A)
           /\ Len(D!RemoveAt(s, n)) = Len(s) - 1
           /\ \A i \in 1..Len(s) - 1 : D!RemoveAt(s, n)[i] = IF i < n THEN s[i] ELSE s[i + 1]
<1> DEFINE a == SubSeq(s, 1, n - 1)
           b == SubSeq(s, n + 1, Len(s))
<1>1. /\ a \in Seq(A) /\ Len(a) = n - 1
      /\ \A i \in 1..n - 1 : a[i] = s[i]
    OBVIOUS
<1>2. /\ b \in Seq(A) /\ Len(b) = Len(s) - n
      /\ \A i \in 1..Len(s) - n : b[i] = s[i + n]
    OBVIOUS
<1>3. D!RemoveAt(s, n) = a \o b
    BY DEF D!RemoveAt
<1> HIDE DEF a, b
<1>4. /\ a \o b \in Seq(A) /\ Len(a \o b) = Len(a) + Len(b)
      /\ \A i \in 1..Len(a) + Len(b) :
             (a \o b)[i] = IF i <= Len(a) THEN a[i] ELSE b[i - Len(a)]
    BY <1>1, <1>2, ConcatProperties, Zenon
<1>5. \A i \in 1..Len(s) - 1 :
          i >= n => i - (n - 1) \in 1..Len(s) - n /\ i - (n - 1) + n = i + 1
    OBVIOUS
<1>6. ASSUME NEW i \in 1..Len(s) - 1
      PROVE  (a \o b)[i] = IF i < n THEN s[i] ELSE s[i + 1]
    <2>1. CASE i < n
        BY <1>1, <1>2, <1>4, <2>1
    <2>2. CASE i >= n
        <3>1. (a \o b)[i] = b[i - (n - 1)]
            BY <1>1, <1>2, <1>4, <2>2
        <3> QED
            BY <1>2, <1>5, <2>2, <3>1
    <2>3. i < n \/ i >= n
        OBVIOUS
    <2> QED
        BY <2>1, <2>2, <2>3
<1> QED
    BY <1>1, <1>2, <1>3, <1>4, <1>6

\* Taking one place out takes its job out, and no other.
LEMMA RemoveAtContains ==
    ASSUME NEW A, NEW s \in Seq(A), NEW n \in 1..Len(s), Distinct(s)
    PROVE  /\ D!RemoveAt(s, n) \in Seq(A)
           /\ Len(D!RemoveAt(s, n)) = Len(s) - 1
           /\ \A k : D!Contains(D!RemoveAt(s, n), k) <=> D!Contains(s, k) /\ k # s[n]
           /\ Distinct(D!RemoveAt(s, n))
<1> DEFINE r == D!RemoveAt(s, n)
<1>1. /\ r \in Seq(A)
      /\ Len(r) = Len(s) - 1
      /\ \A i \in 1..Len(s) - 1 : r[i] = IF i < n THEN s[i] ELSE s[i + 1]
    BY RemoveAtPlaces
<1> HIDE DEF r
<1>2. Distinct(r)
    BY <1>1 DEF Distinct
<1>3. ASSUME NEW k, D!Contains(s, k), k # s[n] PROVE D!Contains(r, k)
    <2>1. PICK i \in 1..Len(s) : s[i] = k
        BY <1>3 DEF D!Contains
    <2>2. CASE i < n
        BY <1>1, <2>1, <2>2 DEF D!Contains
    <2>3. CASE i > n
        <3>1. i - 1 \in 1..Len(r) /\ r[i - 1] = k
            BY <1>1, <2>1, <2>3
        <3> QED
            BY <3>1 DEF D!Contains
    <2> QED
        BY <1>3, <2>1, <2>2, <2>3
<1>4. ASSUME NEW k, D!Contains(r, k) PROVE D!Contains(s, k) /\ k # s[n]
    <2>1. PICK i \in 1..Len(r) : r[i] = k
        BY <1>4 DEF D!Contains
    <2> QED
        BY <1>1, <2>1 DEF D!Contains, Distinct
<1> QED
    BY <1>1, <1>2, <1>3, <1>4 DEF r

\* A job that leaves the line wherever it stands in it.
LEMMA RemoveFirstContains ==
    ASSUME NEW A, NEW s \in Seq(A), NEW j, Distinct(s), D!Contains(s, j)
    PROVE  /\ \E n \in 1..Len(s) : s[n] = j /\ D!RemoveFirst(s, j) = D!RemoveAt(s, n)
           /\ D!RemoveFirst(s, j) \in Seq(A)
           /\ Len(D!RemoveFirst(s, j)) = Len(s) - 1
           /\ \A k : D!Contains(D!RemoveFirst(s, j), k) <=> D!Contains(s, k) /\ k # j
           /\ Distinct(D!RemoveFirst(s, j))
<1> DEFINE I == {i \in 1..Len(s) : s[i] = j}
<1>1. I # {} /\ I \in SUBSET Nat
    BY DEF D!Contains
<1>2. D!Min(I) \in I
    BY <1>1, LeastExists
<1>3. D!RemoveFirst(s, j) = D!RemoveAt(s, D!Min(I))
    BY <1>1 DEF D!RemoveFirst, D!SelectInSeq
<1>4. PICK n \in 1..Len(s) : n = D!Min(I) /\ s[n] = j
    BY <1>2
<1>5. D!RemoveFirst(s, j) = D!RemoveAt(s, n) /\ s[n] = j
    BY <1>3, <1>4, Zenon
<1> HIDE DEF I
<1>6. /\ D!RemoveAt(s, n) \in Seq(A)
      /\ Len(D!RemoveAt(s, n)) = Len(s) - 1
      /\ \A k : D!Contains(D!RemoveAt(s, n), k) <=> D!Contains(s, k) /\ k # s[n]
      /\ Distinct(D!RemoveAt(s, n))
    BY RemoveAtContains
<1> QED
    BY <1>4, <1>5, <1>6

\* The first numbers.
LEMMA UpTo ==
    ASSUME NEW n \in Nat
    PROVE  IsFiniteSet(1..n) /\ Cardinality(1..n) = n
<1>1. 1 \in Int /\ n \in Int  OBVIOUS
<1>2. /\ IsFiniteSet(1..n)
      /\ Cardinality(1..n) = IF 1 > n THEN 0 ELSE n - 1 + 1
    BY <1>1, FS_Interval
<1> QED  BY <1>2


------------------------------------------------------------------------------
(* Sums, counted one by one *)

\* So many units for each.
Units(of, some) == UNION {{x} \X (1..of[x]) : x \in some}
Sum(of, some) == Cardinality(Units(of, some))

\* The numbers the instance counts are those of this module.
LEMMA SizeInD == \A S : D!Cardinality(S) = Cardinality(S) /\ D!IsFiniteSet(S) = IsFiniteSet(S)
BY DEF D!Cardinality, Cardinality, D!IsFiniteSet, IsFiniteSet

\* A sum over a finite set is a number, and no more than one of more or larger terms.
LEMMA SumIsNumber ==
    ASSUME NEW S, IsFiniteSet(S), NEW w, \A x \in S : w[x] \in Nat
    PROVE  IsFiniteSet(Units(w, S)) /\ Sum(w, S) \in Nat
<1> DEFINE Of(x) == {x} \X (1..w[x])
           T == {Of(x) : x \in S}
           f == [x \in S |-> Of(x)]
<1>1. f \in Surjection(S, T)  BY DEF Surjection
<1>2. IsFiniteSet(T)  BY <1>1, FS_Surjection
<1>3. ASSUME NEW x \in S  PROVE IsFiniteSet(Of(x))
    <2>1. IsFiniteSet({x}) /\ IsFiniteSet(1..w[x])  BY FS_Singleton, UpTo
    <2> QED  BY <2>1, FS_Product
<1>4. \A Q \in T : IsFiniteSet(Q)  BY <1>3
<1>5. IsFiniteSet(UNION T)  BY <1>2, <1>4, FS_UNION
<1> QED  BY <1>5, FS_CardinalityType DEF Units, Sum

LEMMA SumGrows ==
    ASSUME NEW S, NEW T, S \subseteq T, IsFiniteSet(T), NEW v, NEW w,
           \A x \in T : w[x] \in Nat, \A x \in S : v[x] \in Nat /\ v[x] <= w[x]
    PROVE  Sum(v, S) <= Sum(w, T)
<1>1. Units(v, S) \subseteq Units(w, T)  BY DEF Units
<1>2. IsFiniteSet(Units(w, T))  BY SumIsNumber
<1> QED  BY <1>1, <1>2, FS_Subset DEF Sum

LEMMA SumSame ==
    ASSUME NEW S, NEW v, NEW w, \A x \in S : v[x] = w[x]
    PROVE  Sum(v, S) = Sum(w, S)
BY DEF Sum, Units

\* One more term.
LEMMA SumAdds ==
    ASSUME NEW S, IsFiniteSet(S), NEW w, NEW x, x \notin S,
           \A y \in S \cup {x} : w[y] \in Nat
    PROVE  Sum(w, S \cup {x}) = Sum(w, S) + w[x]
<1> DEFINE one == {x} \X (1..w[x])
<1>1. IsFiniteSet(Units(w, S)) /\ Sum(w, S) \in Nat  BY SumIsNumber
<1>2. IsFiniteSet(one) /\ Cardinality(one) = w[x]
    <2>1. /\ IsFiniteSet({x}) /\ Cardinality({x}) = 1
          /\ IsFiniteSet(1..w[x]) /\ Cardinality(1..w[x]) = w[x]
        BY FS_Singleton, UpTo
    <2>2. IsFiniteSet(one) /\ Cardinality(one) = 1 * w[x]  BY <2>1, FS_Product
    <2> QED  BY <2>2
<1>3. Units(w, S \cup {x}) = Units(w, S) \cup one  BY DEF Units
<1>4. Units(w, S) \cap one = {}  BY DEF Units
<1>5. Cardinality({}) = 0  BY FS_EmptySet
<1> DEFINE all == Units(w, S)
           n == Cardinality(all)
<1>6. /\ Cardinality(all \cup one) = n + w[x] - Cardinality(all \cap one)
      /\ IsFiniteSet(all) /\ n \in Nat
    BY <1>1, <1>2, FS_Union DEF Sum
<1>7. Cardinality(all \cap one) = 0  BY <1>4, <1>5
<1>8. w[x] \in Nat  OBVIOUS
<1>9. Cardinality(all \cup one) = n + w[x]
    <2> HIDE DEF all, one, n
    <2> QED  BY <1>6, <1>7, <1>8
<1>10. Units(w, S \cup {x}) = all \cup one  BY <1>3
<1> QED  BY <1>9, <1>10 DEF Sum

\* One term changes.
LEMMA SumMoves ==
    ASSUME NEW S, IsFiniteSet(S), NEW x \in S, NEW v, NEW w,
           \A y \in S : v[y] \in Nat /\ w[y] \in Nat, \A y \in S \ {x} : v[y] = w[y]
    PROVE  /\ Sum(v, S) \in Nat /\ Sum(w, S) \in Nat
           /\ Sum(w, S) + v[x] = Sum(v, S) + w[x]
           /\ Sum(v, S) >= v[x]
<1> DEFINE R == S \ {x}
<1>1. IsFiniteSet(R) /\ x \notin R /\ S = R \cup {x}  BY FS_RemoveElement
<1>2. \A y \in R : v[y] \in Nat /\ w[y] \in Nat /\ v[y] = w[y]  OBVIOUS
<1>3. v[x] \in Nat /\ w[x] \in Nat  OBVIOUS
<1> HIDE DEF R
<1>4. Sum(v, R) \in Nat /\ Sum(v, R) = Sum(w, R)  BY <1>1, <1>2, SumIsNumber, SumSame
<1>5. \A y \in R \cup {x} : v[y] \in Nat /\ w[y] \in Nat  BY <1>2, <1>3
<1>6. IsFiniteSet(R) /\ x \notin R  BY <1>1
<1>7. Sum(v, R \cup {x}) = Sum(v, R) + v[x]  BY <1>5, <1>6, SumAdds
<1>8. Sum(w, R \cup {x}) = Sum(w, R) + w[x]  BY <1>5, <1>6, SumAdds
<1> QED  BY <1>1, <1>3, <1>4, <1>7, <1>8

\* The members of a sequence.
LEMMA MembersFinite ==
    ASSUME NEW A, NEW s \in Seq(A)
    PROVE  IsFiniteSet(D!ToSet(s)) /\ D!ToSet(s) \subseteq A
           /\ \A k : k \in D!ToSet(s) <=> D!Contains(s, k)
<1>1. Len(s) \in Nat /\ DOMAIN s = 1..Len(s) /\ s \in [1..Len(s) -> A]  OBVIOUS
<1>2. s \in Surjection(1..Len(s), D!ToSet(s))  BY <1>1 DEF Surjection, D!ToSet
<1>3. IsFiniteSet(1..Len(s))  BY <1>1, UpTo
<1> QED  BY <1>1, <1>2, <1>3, FS_Surjection DEF D!ToSet, D!Contains

------------------------------------------------------------------------------
(* The invariant *)

\* What is asked of the quota for a transfer.
Share(run) == IF run.media = None THEN Size[run.pick] ELSE Cap

Runs ==
    [at : {"permit", "reserve", "transfer", "release", "publish", "register"},
     media : Media \cup {None}, pick : Picks \cup {None}, part : Nat, budget : Nat,
     file : Contents \cup {None}, flagged : BOOLEAN, gone : BOOLEAN]

\* An import has a file, and no page waits on it; bytes are of a file being written.
SoundRun(run) ==
    /\ run.media = None => run.pick \in Picks /\ run.at \notin {"permit", "publish"}
    /\ run.at = "register" => run.media = None /\ run.file = run.pick
    /\ run.part <= run.budget /\ run.part <= Share(run)
    /\ run.at # "transfer" => run.part = 0

Sweeps ==
    [at : {"sweep"}, transfer : Runs, media : Media \cup {None}, usage : Nat, needed : Nat,
     listed : Seq(Contents), left : SUBSET Contents]

\* A sweep is for the transfer it interrupts.
SoundSweep(sweep) ==
    /\ SoundRun(sweep.transfer) /\ sweep.transfer.at = "reserve"
    /\ sweep.media = sweep.transfer.media /\ sweep.needed = Share(sweep.transfer)

Waits == [at : {"follow", "refused"}, media : Media]
Answers == [at : {"register"}, media : Media \cup Picks, file : Contents, gone : {FALSE}]
Phases ==
    {D!Idle} \cup {run \in Runs : SoundRun(run)} \cup {sweep \in Sweeps : SoundSweep(sweep)}
        \cup Waits \cup Answers

\* The bytes a transfer may still put on disk, and those promised to it.
AllowedTo(step) ==
    IF step.at # "transfer" THEN 0
    ELSE IF step.budget <= Share(step) THEN step.budget ELSE Share(step)
Holds(step) ==
    \/ step.at = "transfer" \/ step.at = "release"
    \/ step.at = "register" /\ step.media = None
PromisedTo(step) == IF Holds(step) THEN Share(step) ELSE 0
Leads(step) == step.at \in D!Transfers /\ step.media # None

Allowed == [r \in Requests |-> AllowedTo(request[r])]
Promised == [r \in Requests |-> PromisedTo(request[r])]
Disk == Sum(Size, D!ToSet(saved)) + leftovers

StateTypes ==
    /\ record \in [Media -> Contents \cup {None}] /\ imported \subseteq Picks
    /\ selected \in Media \cup Picks \cup {None}

DirectoryTypes ==
    /\ saved \in Seq(Contents) /\ Distinct(saved)
    /\ leftovers \in Nat /\ reserved \in Nat

\* The lock is held by the one that sweeps.
RequestTypes ==
    /\ request \in [Requests -> Phases]
    /\ lock \in Requests \cup {None} /\ inflight \subseteq Media
    /\ \A r \in Requests : request[r].at = "sweep" <=> lock = r

\* What is on disk and what may come fit the quota.  While a directory is swept, the
\* sweep knows of all of it but what others were promised.
PromiseInv ==
    /\ reserved = Sum(Promised, Requests)
    /\ Disk + Sum(Allowed, Requests) <= Quota
    /\ \A r \in Requests : request[r].at = "sweep" =>
        /\ Disk + Sum(Allowed, Requests) <= request[r].usage + reserved
        /\ request[r].left \subseteq D!ToSet(saved)

LeaderInv ==
    /\ \A r \in Requests : Leads(request[r]) => request[r].media \in inflight
    /\ \A r, q \in Requests :
        Leads(request[r]) /\ Leads(request[q]) /\ request[r].media = request[q].media => r = q
    /\ \A m \in inflight : \E r \in Requests : Leads(request[r]) /\ request[r].media = m
    /\ \A r \in Requests : request[r].at = "follow" => request[r].media \in inflight

MediaInv == StateTypes /\ DirectoryTypes /\ RequestTypes /\ PromiseInv /\ LeaderInv

\* What a request is, by what it is doing.
LEMMA PhaseIs ==
    ASSUME NEW step \in Phases
    PROVE  /\ step.at \in {"permit", "reserve", "transfer", "release", "publish"} =>
                step \in Runs /\ SoundRun(step)
           /\ step.at = "sweep" => step \in Sweeps /\ SoundSweep(step)
           /\ step.at \in {"follow", "refused"} => step \in Waits
           /\ step.at = "register" =>
                \/ step \in Runs /\ SoundRun(step) /\ step.media = None
                \/ step \in Answers
           /\ step.at = "idle" => step = D!Idle
<1>1. \/ step \in Runs /\ SoundRun(step)
      \/ step \in Sweeps /\ SoundSweep(step)
      \/ step \in Waits \/ step \in Answers \/ step = D!Idle
    BY DEF Phases
<1>2. ASSUME step \in Runs, SoundRun(step)
      PROVE  /\ step.at \notin {"sweep", "follow", "refused", "idle"}
             /\ step.at = "register" => step.media = None
    BY <1>2 DEF Runs, SoundRun
<1>3. step \in Sweeps => step.at = "sweep"  BY DEF Sweeps
<1>4. step \in Waits => step.at \in {"follow", "refused"}  BY DEF Waits
<1>5. step \in Answers => step.at = "register"  BY DEF Answers
<1>6. step = D!Idle => step.at = "idle"  BY DEF D!Idle
<1> QED  BY <1>1, <1>2, <1>3, <1>4, <1>5, <1>6

\* The terms of the three sums.
LEMMA TermsOrdered ==
    ASSUME D!SizesAssumption, NEW step \in Phases
    PROVE  /\ AllowedTo(step) \in Nat /\ PromisedTo(step) \in Nat
           /\ AllowedTo(step) <= PromisedTo(step) /\ PromisedTo(step) <= Cap
           /\ step.at = "transfer" => step.part \in Nat /\ step.part <= AllowedTo(step)
<1>1. /\ Cap \in Nat /\ \A c \in Contents : Size[c] \in Nat
      /\ \A c \in Picks : c \in Contents /\ Size[c] \in Nat /\ Size[c] <= Cap
      /\ None \notin Media \cup Contents
    BY DEF D!SizesAssumption
<1>2. CASE Holds(step)
  <2>1. (step \in Runs /\ SoundRun(step)) \/ step \in Answers
    BY <1>2, PhaseIs DEF Holds
  <2>2. step \notin Answers  BY <1>1, <1>2 DEF Holds, Answers
  <2>3. step \in Runs /\ SoundRun(step)  BY <2>1, <2>2
  <2>4. Share(step) \in Nat /\ Share(step) <= Cap /\ step.budget \in Nat /\ step.part \in Nat
      /\ step.part <= step.budget /\ step.part <= Share(step)
    BY <1>1, <2>3 DEF SoundRun, Share, Runs
  <2> QED  BY <1>1, <1>2, <2>4 DEF AllowedTo, PromisedTo
<1>3. CASE ~Holds(step)
  <2>1. step.at # "transfer"  BY <1>3 DEF Holds
  <2>2. AllowedTo(step) = 0 /\ PromisedTo(step) = 0  BY <1>3, <2>1 DEF AllowedTo, PromisedTo
  <2> QED  BY <1>1, <2>1, <2>2
<1> QED  BY <1>2, <1>3

\* The three sums.
LEMMA SumsOrdered ==
    ASSUME D!SizesAssumption, RequestTypes, DirectoryTypes
    PROVE  /\ IsFiniteSet(Requests)
           /\ \A r \in Requests : Allowed[r] \in Nat /\ Promised[r] \in Nat /\ D!Parts[r] \in Nat
           /\ Sum(Allowed, Requests) \in Nat /\ Sum(Promised, Requests) \in Nat
           /\ Sum(D!Parts, Requests) \in Nat /\ Disk \in Nat
           /\ Sum(D!Parts, Requests) <= Sum(Allowed, Requests)
           /\ Sum(Allowed, Requests) <= Sum(Promised, Requests)
           /\ Sum(Size, D!ToSet(saved)) \in Nat
<1>1. IsFiniteSet(Requests)  BY SizeInD DEF D!SizesAssumption
<1>2. \A r \in Requests : /\ Allowed[r] \in Nat /\ Promised[r] \in Nat /\ D!Parts[r] \in Nat
                          /\ D!Parts[r] <= Allowed[r] /\ Allowed[r] <= Promised[r]
    BY TermsOrdered DEF RequestTypes, Allowed, Promised, D!Parts, D!At
<1>3. /\ Sum(Allowed, Requests) \in Nat /\ Sum(Promised, Requests) \in Nat
      /\ Sum(D!Parts, Requests) \in Nat
    BY <1>1, <1>2, SumIsNumber
<1>4. Sum(D!Parts, Requests) <= Sum(Allowed, Requests)  BY <1>1, <1>2, SumGrows
<1>5. Sum(Allowed, Requests) <= Sum(Promised, Requests)  BY <1>1, <1>2, SumGrows
<1>6. IsFiniteSet(D!ToSet(saved)) /\ D!ToSet(saved) \subseteq Contents
    BY MembersFinite DEF DirectoryTypes
<1>7. \A c \in D!ToSet(saved) : Size[c] \in Nat  BY <1>6 DEF D!SizesAssumption
<1>8. Sum(Size, D!ToSet(saved)) \in Nat  BY <1>6, <1>7, SumIsNumber
<1> QED  BY <1>1, <1>2, <1>3, <1>4, <1>5, <1>8 DEF Disk, DirectoryTypes

\* One request moves on, and asks for no more than it did.
LEMMA PromiseKeeps ==
    ASSUME D!SizesAssumption, MediaInv, DirectoryTypes', RequestTypes',
           UNCHANGED <<saved, leftovers, reserved>>,
           \A q \in Requests :
               /\ AllowedTo(request'[q]) <= AllowedTo(request[q])
               /\ PromisedTo(request'[q]) = PromisedTo(request[q])
               /\ request'[q].at = "sweep" => request'[q] = request[q]
    PROVE  PromiseInv'
<1>1. IsFiniteSet(Requests) /\ Sum(Allowed, Requests) \in Nat /\ Sum(Allowed, Requests)' \in Nat
      /\ Disk \in Nat
      /\ \A r \in Requests : Allowed[r] \in Nat /\ Allowed'[r] \in Nat
    <2>1. /\ Sum(Allowed, Requests)' \in Nat
          /\ \A r \in Requests : Allowed'[r] \in Nat
      <3>1. \A r \in Requests : Allowed'[r] \in Nat
        BY TermsOrdered DEF RequestTypes, Allowed
      <3>2. IsFiniteSet(Requests)  BY SizeInD DEF D!SizesAssumption
      <3>3. Sum(Allowed', Requests) \in Nat  BY <3>1, <3>2, SumIsNumber
      <3> QED  BY <3>1, <3>3 DEF Sum, Units
    <2> QED  BY <2>1, SumsOrdered DEF MediaInv
<1>2. Sum(Allowed', Requests) <= Sum(Allowed, Requests)
    <2>1. \A q \in Requests : Allowed'[q] <= Allowed[q]  BY DEF Allowed
    <2> QED  BY <1>1, <2>1, SumGrows
<1>3. Sum(Promised', Requests) = Sum(Promised, Requests)
    <2>1. \A q \in Requests : Promised'[q] = Promised[q]  BY DEF Promised
    <2> QED  BY <2>1, SumSame
<1>4. Sum(Allowed, Requests)' = Sum(Allowed', Requests)
      /\ Sum(Promised, Requests)' = Sum(Promised', Requests)
    BY DEF Sum, Units
<1>5. Disk' = Disk  BY DEF Disk, Sum, Units
<1>6. ASSUME NEW r \in Requests, request'[r].at = "sweep"
      PROVE  /\ Disk' + Sum(Allowed, Requests)' <= request'[r].usage + reserved'
             /\ request'[r].left \subseteq D!ToSet(saved)'
    <2>1. request'[r] = request[r] /\ request[r].at = "sweep"  BY <1>6
    <2>2. request[r].usage \in Nat  BY <2>1, PhaseIs DEF MediaInv, RequestTypes, Sweeps
    <2>3. /\ Disk + Sum(Allowed, Requests) <= request[r].usage + reserved
          /\ request[r].left \subseteq D!ToSet(saved)
        BY <2>1 DEF MediaInv, PromiseInv
    <2>4. reserved \in Nat /\ reserved' = reserved /\ saved' = saved
        BY DEF MediaInv, DirectoryTypes
    <2> QED  BY <1>1, <1>2, <1>4, <1>5, <2>1, <2>2, <2>3, <2>4
<1>7. Quota \in Nat  BY DEF D!SizesAssumption
<1> QED  BY <1>1, <1>2, <1>3, <1>4, <1>5, <1>6, <1>7 DEF PromiseInv, MediaInv

LEMMA LeaderKeeps ==
    ASSUME MediaInv, UNCHANGED inflight,
           \A q \in Requests :
               /\ Leads(request'[q]) <=> Leads(request[q])
               /\ Leads(request[q]) => request'[q].media = request[q].media
               /\ request'[q].at = "follow" => request'[q] = request[q]
    PROVE  LeaderInv'
BY DEF MediaInv, LeaderInv

------------------------------------------------------------------------------
(* Steps of one request *)

\* A request moves on with what it was promised, and what it leads.
LEMMA RequestMoves ==
    ASSUME D!SizesAssumption, MediaInv, NEW r \in Requests, NEW to \in Phases, D!Goto(r, to),
           UNCHANGED <<saved, leftovers, D!registry>>, StateTypes',
           request[r].at # "sweep", to.at \notin {"sweep", "follow"},
           AllowedTo(to) <= AllowedTo(request[r]), PromisedTo(to) = PromisedTo(request[r]),
           Leads(to) <=> Leads(request[r]), Leads(to) => to.media = request[r].media
    PROVE  MediaInv'
<1>1. request \in [Requests -> Phases]  BY DEF MediaInv, RequestTypes
<1>2. /\ request' \in [Requests -> Phases] /\ request'[r] = to
      /\ \A q \in Requests \ {r} : request'[q] = request[q]
    BY <1>1 DEF D!Goto
<1>3. RequestTypes'  BY <1>2 DEF MediaInv, RequestTypes, D!registry
<1>4. DirectoryTypes'  BY DEF MediaInv, DirectoryTypes, D!registry
<1>5. ASSUME NEW q \in Requests
      PROVE  /\ AllowedTo(request'[q]) <= AllowedTo(request[q])
             /\ PromisedTo(request'[q]) = PromisedTo(request[q])
             /\ request'[q].at \in {"sweep", "follow"} => request'[q] = request[q]
             /\ Leads(request'[q]) <=> Leads(request[q])
             /\ Leads(request[q]) => request'[q].media = request[q].media
    <2>1. AllowedTo(request[q]) \in Nat  BY <1>1, TermsOrdered
    <2>2. CASE q = r  BY <1>2, <2>2
    <2>3. CASE q # r  BY <1>2, <2>1, <2>3
    <2> QED  BY <2>2, <2>3
<1>6. UNCHANGED <<saved, leftovers, reserved, inflight>>  BY DEF D!registry
<1>7. PromiseInv'
    <2>1. \A q \in Requests : request'[q].at = "sweep" => request'[q] = request[q]  BY <1>5
    <2> QED  BY <1>3, <1>4, <1>5, <1>6, <2>1, PromiseKeeps
<1>8. LeaderInv'
    <2>1. \A q \in Requests : request'[q].at = "follow" => request'[q] = request[q]  BY <1>5
    <2> QED  BY <1>5, <1>6, <2>1, LeaderKeeps
<1> QED  BY <1>3, <1>4, <1>7, <1>8 DEF MediaInv

\* An answer that a page waits for asks for nothing.
LEMMA AnswerIsFree ==
    ASSUME D!SizesAssumption, NEW step \in Answers \cup Waits \cup {D!Idle}
    PROVE  /\ step \in Phases /\ step.at # "sweep"
           /\ AllowedTo(step) = 0 /\ PromisedTo(step) = 0 /\ ~Leads(step)
           /\ step \in Answers \cup {D!Idle} => step.at # "follow"
<1>1. None \notin Media \cup Contents /\ Picks \subseteq Contents  BY DEF D!SizesAssumption
<1>2. /\ step.at \in {"register", "follow", "refused", "idle"}
      /\ step.at = "register" => step.media # None
    <2>1. CASE step \in Answers  BY <1>1, <2>1 DEF Answers
    <2>2. CASE step \in Waits  BY <2>2 DEF Waits
    <2>3. CASE step = D!Idle  BY <2>3 DEF D!Idle
    <2> QED  BY <2>1, <2>2, <2>3
<1>3. step \in Phases  BY DEF Phases
<1>4. step \in Answers \cup {D!Idle} => step.at # "follow"
    <2>1. step \in Answers => step.at = "register"  BY DEF Answers
    <2>2. step = D!Idle => step.at = "idle"  BY DEF D!Idle
    <2> QED  BY <2>1, <2>2
<1> QED  BY <1>2, <1>3, <1>4 DEF AllowedTo, PromisedTo, Holds, Leads, D!Transfers

LEMMA ApplyKeeps ==
    ASSUME D!SizesAssumption, MediaInv, NEW r \in Requests,
           \/ \E m \in Media : D!ApplySaved(r, m)
           \/ \E f \in Picks : D!ApplyImported(r, f)
           \/ D!GiveUp(r) \/ D!Refused(r)
    PROVE  MediaInv'
<1>1. request[r] \in Phases /\ StateTypes /\ DirectoryTypes
    BY DEF MediaInv, RequestTypes
<1>2. PICK to \in Answers \cup Waits \cup {D!Idle} : D!Goto(r, to) /\ to.at # "follow"
    <2>1. ASSUME NEW m \in Media, D!ApplySaved(r, m)
          PROVE  \E to \in Answers \cup Waits \cup {D!Idle} : D!Goto(r, to) /\ to.at # "follow"
        <3>1. record[m] \in Contents  BY <1>1, <2>1 DEF D!ApplySaved, StateTypes
        <3>2. [at |-> "register", media |-> m, file |-> record[m], gone |-> FALSE] \in Answers
            BY <3>1 DEF Answers
        <3>3. [at |-> "refused", media |-> m] \in Waits  BY DEF Waits
        <3>4. CASE record[m] \in D!ToSet(saved)
            BY <2>1, <3>2, <3>4 DEF D!ApplySaved
        <3>5. CASE record[m] \notin D!ToSet(saved)
            BY <2>1, <3>3, <3>5 DEF D!ApplySaved
        <3> QED  BY <3>4, <3>5
    <2>2. ASSUME NEW f \in Picks, D!ApplyImported(r, f)
          PROVE  \E to \in Answers \cup Waits \cup {D!Idle} : D!Goto(r, to) /\ to.at # "follow"
        <3>1. f \in Contents  BY DEF D!SizesAssumption
        <3>2. [at |-> "register", media |-> f, file |-> f, gone |-> FALSE] \in Answers
            BY <3>1 DEF Answers
        <3> QED  BY <2>2, <3>2 DEF D!ApplyImported
    <2>3. ASSUME D!GiveUp(r) \/ D!Refused(r)
          PROVE  \E to \in Answers \cup Waits \cup {D!Idle} : D!Goto(r, to) /\ to.at # "follow"
        BY <2>3 DEF D!GiveUp, D!Refused, D!Idle
    <2> QED  BY <2>1, <2>2, <2>3
<1>3. UNCHANGED <<saved, leftovers, D!state, D!registry>>
    BY DEF D!ApplySaved, D!ApplyImported, D!GiveUp, D!Refused
<1>4. request[r].at \in {"idle", "follow", "refused"}
    BY DEF D!ApplySaved, D!ApplyImported, D!GiveUp, D!Refused, D!At
<1>5. request[r] \in Answers \cup Waits \cup {D!Idle}  BY <1>1, <1>4, PhaseIs
<1>6. /\ to \in Phases /\ to.at # "sweep"
      /\ AllowedTo(to) = 0 /\ PromisedTo(to) = 0 /\ ~Leads(to)
    BY AnswerIsFree
<1>7. /\ request[r].at # "sweep"
      /\ AllowedTo(request[r]) = 0 /\ PromisedTo(request[r]) = 0 /\ ~Leads(request[r])
    BY <1>5, AnswerIsFree
<1>8. StateTypes'  BY <1>1, <1>3 DEF StateTypes, D!state
<1>9. UNCHANGED <<saved, leftovers, D!registry>>  BY <1>3
<1> QED  BY <1>2, <1>6, <1>7, <1>8, <1>9, RequestMoves

LEMMA ImportKeeps ==
    ASSUME D!SizesAssumption, MediaInv, NEW r \in Requests, NEW f \in Picks, D!Import(r, f)
    PROVE  MediaInv'
<1> DEFINE to == D!Transfer(None, f)
<1>1. request[r] \in Phases /\ StateTypes  BY DEF MediaInv, RequestTypes
<1>2. /\ D!Goto(r, to) /\ request[r].at = "idle"
      /\ UNCHANGED <<saved, leftovers, D!state, D!registry>>
    BY DEF D!Import, D!At
<1>3. /\ to \in Runs /\ to.at = "reserve" /\ to.media = None /\ to.pick = f
      /\ to.part = 0 /\ to.budget = 0
    BY DEF D!Transfer, Runs
<1> HIDE DEF to
<1>4. f \in Contents /\ Size[f] \in Nat  BY DEF D!SizesAssumption
<1>5. SoundRun(to)  BY <1>3, <1>4 DEF SoundRun, Share
<1>6. to \in Phases  BY <1>3, <1>5 DEF Phases
<1>7. AllowedTo(to) = 0 /\ PromisedTo(to) = 0 /\ ~Leads(to)
    BY <1>3 DEF AllowedTo, PromisedTo, Holds, Leads
<1>8. /\ request[r].at # "sweep"
      /\ AllowedTo(request[r]) = 0 /\ PromisedTo(request[r]) = 0 /\ ~Leads(request[r])
    BY <1>1, <1>2, PhaseIs, AnswerIsFree
<1>9. StateTypes'  BY <1>1, <1>2 DEF StateTypes, D!state
<1>10. UNCHANGED <<saved, leftovers, D!registry>>  BY <1>2
<1> QED  BY <1>2, <1>3, <1>6, <1>7, <1>8, <1>9, <1>10, RequestMoves

\* A transfer that goes on, or ends.
LEMMA RunMoves ==
    ASSUME D!SizesAssumption, MediaInv, NEW r \in Requests,
           request[r].at \in {"permit", "reserve", "transfer"},
           NEW to \in Runs, D!Goto(r, to), UNCHANGED <<saved, leftovers, D!state, D!registry>>,
           to.media = request[r].media, to.pick = request[r].pick, SoundRun(to),
           Leads(to) <=> Leads(request[r]),
           request[r].at = "transfer" =>
               to.at = "release" \/ (to.at = "transfer" /\ to.budget = request[r].budget),
           request[r].at # "transfer" => to.at \in {"reserve", "publish"}
    PROVE  MediaInv'
<1>1. request[r] \in Phases /\ StateTypes  BY DEF MediaInv, RequestTypes
<1>2. request[r] \in Runs /\ SoundRun(request[r])  BY <1>1, PhaseIs
<1>3. to \in Phases  BY DEF Phases
<1>4. to.at \notin {"sweep", "follow"}  BY DEF Runs
<1>5. StateTypes'  BY <1>1 DEF StateTypes, D!state
<1>6. AllowedTo(request[r]) \in Nat  BY <1>1, TermsOrdered
<1>7. Share(to) = Share(request[r])  BY DEF Share
<1>8. AllowedTo(to) <= AllowedTo(request[r]) /\ PromisedTo(to) = PromisedTo(request[r])
    <2>1. CASE request[r].at = "transfer"
        <3>1. PromisedTo(to) = PromisedTo(request[r])
            BY <1>7, <2>1 DEF PromisedTo, Holds
        <3>2. CASE to.at = "release"  BY <1>6, <3>1, <3>2 DEF AllowedTo
        <3>3. CASE to.at = "transfer"
            <4>1. AllowedTo(to) = AllowedTo(request[r])  BY <1>7, <2>1, <3>3 DEF AllowedTo
            <4> QED  BY <1>6, <3>1, <4>1
        <3> QED  BY <2>1, <3>2, <3>3
    <2>2. CASE request[r].at # "transfer"
        <3>1. AllowedTo(to) = 0 /\ PromisedTo(to) = 0
            BY <2>2 DEF AllowedTo, PromisedTo, Holds
        <3>2. PromisedTo(request[r]) = 0  BY <2>2 DEF PromisedTo, Holds
        <3> QED  BY <1>6, <3>1, <3>2
    <2> QED  BY <2>1, <2>2
<1> QED  BY <1>3, <1>4, <1>5, <1>8, RequestMoves

LEMMA TransferKeeps ==
    ASSUME D!SizesAssumption, MediaInv, NEW r \in Requests,
           \/ D!Permit(r) \/ (D!Unmeasured(r) /\ ~D!Imports(r))
           \/ D!Receive(r) \/ D!Fail(r) \/ D!Drop(r)
    PROVE  MediaInv'
<1>1. request[r] \in Phases /\ StateTypes /\ request \in [Requests -> Phases]
    BY DEF MediaInv, RequestTypes
<1>2. request[r].at \in {"permit", "reserve", "transfer"}
    BY DEF D!Permit, D!Unmeasured, D!Receive, D!Fail, D!Drop, D!At
<1>3. request[r] \in Runs /\ SoundRun(request[r])  BY <1>1, <1>2, PhaseIs
<1>4. UNCHANGED <<saved, leftovers, D!state, D!registry>>
    BY DEF D!Permit, D!Unmeasured, D!Receive, D!Fail, D!Drop
<1> DEFINE run == request[r]
           Goes(to) ==
               /\ to \in Runs /\ D!Goto(r, to) /\ SoundRun(to)
               /\ to.media = request[r].media /\ to.pick = request[r].pick
               /\ Leads(to) <=> Leads(request[r])
               /\ request[r].at = "transfer" =>
                      to.at = "release" \/ (to.at = "transfer" /\ to.budget = request[r].budget)
               /\ request[r].at # "transfer" => to.at \in {"reserve", "publish"}
<1>5. ASSUME NEW where \in {"publish", "reserve"}, D!Step(r, where),
             run.at \in {"permit", "reserve"}, run.media # None
      PROVE  \E to \in Runs : Goes(to)
    <2> DEFINE to == [run EXCEPT !.at = where]
    <2>1. /\ to \in Runs /\ to.at = where /\ to.media = run.media /\ to.pick = run.pick
          /\ to.part = run.part /\ to.budget = run.budget /\ to.file = run.file
        BY <1>3 DEF Runs
    <2>2. D!Goto(r, to)  BY <1>1, <1>5 DEF D!Step, D!Goto
    <2> HIDE DEF to
    <2>3. SoundRun(to)  BY <1>3, <1>5, <2>1 DEF SoundRun, Share
    <2>4. Leads(to) /\ Leads(run)  BY <1>5, <2>1 DEF Leads, D!Transfers
    <2> QED  BY <1>5, <2>1, <2>2, <2>3, <2>4
<1>6. ASSUME D!Receive(r)  PROVE \E to \in Runs : Goes(to)
    <2> DEFINE to == [run EXCEPT !.part = @ + 1]
    <2>1. /\ to \in Runs /\ to.at = run.at /\ to.media = run.media /\ to.pick = run.pick
          /\ to.part = run.part + 1 /\ to.budget = run.budget /\ to.file = run.file
        BY <1>3 DEF Runs
    <2>2. D!Goto(r, to) /\ run.at = "transfer"  BY <1>6 DEF D!Receive, D!At
    <2>3. to.part <= to.budget /\ to.part <= Share(to)
        <3>1. run.part \in Nat /\ (run.media = None => run.pick \in Picks)
            BY <1>3 DEF Runs, SoundRun
        <3>2. /\ run.part + 1 <= Cap /\ run.part + 1 <= run.budget
              /\ run.media = None => run.part < Size[run.pick]
            BY <1>6 DEF D!Receive, D!Imports
        <3>3. run.media = None => Size[run.pick] \in Nat
            BY <3>1 DEF D!SizesAssumption
        <3> HIDE DEF to
        <3> QED  BY <2>1, <3>1, <3>2, <3>3 DEF Share
    <2> HIDE DEF to
    <2>4. SoundRun(to)  BY <1>3, <2>1, <2>2, <2>3 DEF SoundRun
    <2>5. Leads(to) <=> Leads(run)  BY <2>1 DEF Leads
    <2> QED  BY <2>1, <2>2, <2>4, <2>5
<1>7. ASSUME NEW gone \in BOOLEAN, run.at = "transfer",
             D!Goto(r, [run EXCEPT !.at = "release", !.part = 0, !.budget = 0, !.flagged = FALSE,
                                 !.gone = gone])
      PROVE  \E to \in Runs : Goes(to)
    <2> DEFINE to == [run EXCEPT !.at = "release", !.part = 0, !.budget = 0, !.flagged = FALSE,
                                 !.gone = gone]
    <2>1. /\ to \in Runs /\ to.at = "release" /\ to.media = run.media /\ to.pick = run.pick
          /\ to.part = 0 /\ to.budget = 0 /\ to.file = run.file
        BY <1>3 DEF Runs
    <2>2. D!Goto(r, to)  BY <1>7
    <2> HIDE DEF to
    <2>3. Share(run) \in Nat  BY <1>3 DEF SoundRun, Share, D!SizesAssumption
    <2>4. SoundRun(to)  BY <1>3, <2>1, <2>3 DEF SoundRun, Share
    <2>5. run.at = "transfer"  BY <1>7
    <2>6. Leads(to) <=> Leads(run)  BY <2>1, <2>5 DEF Leads, D!Transfers
    <2>7. Goes(to)  BY <2>1, <2>2, <2>4, <2>5, <2>6
    <2> HIDE DEF Goes
    <2> QED  BY <2>1, <2>7
<1>8. ASSUME D!Drop(r), run.at = "permit"  PROVE \E to \in Runs : Goes(to)
    <2> DEFINE to == [run EXCEPT !.at = "publish", !.part = 0, !.budget = 0, !.flagged = FALSE,
                                 !.gone = TRUE]
    <2>1. /\ to \in Runs /\ to.at = "publish" /\ to.media = run.media /\ to.pick = run.pick
          /\ to.part = 0 /\ to.budget = 0 /\ to.file = run.file
        BY <1>3 DEF Runs
    <2>2. D!Goto(r, to)  BY <1>8 DEF D!Drop
    <2> HIDE DEF to
    <2>3. run.media # None  BY <1>3, <1>8 DEF SoundRun
    <2>4. Cap \in Nat  BY DEF D!SizesAssumption
    <2>5. SoundRun(to)  BY <2>1, <2>3, <2>4 DEF SoundRun, Share
    <2>6. Leads(to) /\ Leads(run)  BY <1>8, <2>1, <2>3 DEF Leads, D!Transfers
    <2> QED  BY <1>8, <2>1, <2>2, <2>5, <2>6
<1>9. \E to \in Runs : Goes(to)
    <2>1. CASE D!Permit(r)
        <3>1. run.at = "permit" /\ run.media # None  BY <1>3, <2>1 DEF D!Permit, D!At, SoundRun
        <3>2. D!Step(r, "publish") \/ D!Step(r, "reserve")  BY <2>1 DEF D!Permit
        <3> QED  BY <1>5, <3>1, <3>2
    <2>2. CASE D!Unmeasured(r) /\ ~D!Imports(r)
        <3>1. run.at = "reserve" /\ run.media # None /\ D!Step(r, "publish")
            BY <2>2 DEF D!Unmeasured, D!At, D!Imports
        <3> QED  BY <1>5, <3>1
    <2>3. CASE D!Receive(r)  BY <1>6, <2>3
    <2>4. CASE D!Fail(r)
        <3>1. [run EXCEPT !.at = "release", !.part = 0, !.budget = 0, !.flagged = FALSE]
              = [run EXCEPT !.at = "release", !.part = 0, !.budget = 0, !.flagged = FALSE,
                            !.gone = run.gone]
            BY <1>3 DEF Runs
        <3>2. run.at = "transfer" /\ run.gone \in BOOLEAN
            BY <1>3, <2>4 DEF D!Fail, D!At, Runs
        <3>3. D!Goto(r, [run EXCEPT !.at = "release", !.part = 0, !.budget = 0,
                                  !.flagged = FALSE])
            BY <2>4 DEF D!Fail
        <3> QED  BY <1>7, <3>1, <3>2, <3>3
    <2>5. CASE D!Drop(r)
        <3>1. CASE run.at = "permit"  BY <1>8, <2>5, <3>1
        <3>2. CASE run.at # "permit"
            <4>1. run.at = "transfer"  BY <2>5, <3>2 DEF D!Drop
            <4>2. D!Goto(r, [run EXCEPT !.at = "release", !.part = 0, !.budget = 0,
                                      !.flagged = FALSE, !.gone = TRUE])
                BY <2>5, <3>2, <4>1 DEF D!Drop
            <4> QED  BY <1>7, <4>1, <4>2
        <3> QED  BY <3>1, <3>2
    <2> QED  BY <2>1, <2>2, <2>3, <2>4, <2>5
<1> QED  BY <1>2, <1>4, <1>9, RunMoves

\* The command that saw its answer, and an import that ends before or after its bytes.
LEMMA RegisterKeeps ==
    ASSUME D!SizesAssumption, MediaInv, NEW r \in Requests,
           D!Register(r) \/ (D!Unmeasured(r) /\ D!Imports(r))
    PROVE  MediaInv'
<1> DEFINE run == request[r]
<1>1. /\ run \in Phases /\ StateTypes /\ request \in [Requests -> Phases]
      /\ None \notin Media \cup Contents /\ Picks \subseteq Contents
    BY DEF MediaInv, RequestTypes, D!SizesAssumption
<1>2. UNCHANGED <<saved, leftovers, D!registry>>  BY DEF D!Register, D!Unmeasured
<1>3. D!Idle \in Phases /\ D!Idle.at = "idle"  BY DEF Phases, D!Idle
<1>4. AllowedTo(D!Idle) = 0 /\ PromisedTo(D!Idle) = 0 /\ ~Leads(D!Idle)  BY AnswerIsFree
<1>5. CASE D!Unmeasured(r) /\ D!Imports(r)
    <2>1. run.at = "reserve" /\ run.media = None /\ D!Goto(r, D!Idle) /\ UNCHANGED D!state
        BY <1>5 DEF D!Unmeasured, D!Imports, D!At
    <2>2. AllowedTo(run) = 0 /\ PromisedTo(run) = 0 /\ ~Leads(run)
        BY <2>1 DEF AllowedTo, PromisedTo, Holds, Leads
    <2>3. StateTypes'  BY <1>1, <2>1 DEF StateTypes, D!state
    <2> QED  BY <1>2, <1>3, <1>4, <2>1, <2>2, <2>3, RequestMoves
<1>6. CASE D!Register(r) /\ run.media # None
    <2>1. run.at = "register" /\ D!Goto(r, D!Idle)  BY <1>6 DEF D!Register, D!Imports, D!At
    <2>2. run \in Answers  BY <1>1, <1>6, <2>1, PhaseIs
    <2>3. AllowedTo(run) = 0 /\ PromisedTo(run) = 0 /\ ~Leads(run)  BY <2>2, AnswerIsFree
    <2>4. StateTypes'
        <3>1. run.file \in Contents  BY <2>2 DEF Answers
        <3>2. \/ run.media \in imported /\ selected' = run.media
                  /\ UNCHANGED <<record, imported>>
              \/ /\ run.media \in Media /\ record' = [record EXCEPT ![run.media] = run.file]
                 /\ selected' = run.media /\ UNCHANGED imported
              \/ UNCHANGED <<record, imported, selected>>
            BY <1>6 DEF D!Register, D!state
        <3> QED  BY <1>1, <3>1, <3>2 DEF StateTypes
    <2> QED  BY <1>2, <1>3, <1>4, <2>1, <2>3, <2>4, RequestMoves
<1>7. CASE D!Register(r) /\ run.media = None
    <2> DEFINE to == [run EXCEPT !.at = "release"]
    <2>1. run.at = "register" /\ D!Step(r, "release")  BY <1>7 DEF D!Register, D!Imports, D!At
    <2>2. run \notin Answers  BY <1>1, <1>7 DEF Answers
    <2>3. run \in Runs /\ SoundRun(run)  BY <1>1, <2>1, <2>2, PhaseIs
    <2>4. /\ to \in Runs /\ to.at = "release" /\ to.media = None /\ to.pick = run.pick
          /\ to.part = run.part /\ to.budget = run.budget
        BY <1>7, <2>3 DEF Runs
    <2>5. D!Goto(r, to)  BY <1>1, <2>1 DEF D!Step, D!Goto
    <2> HIDE DEF to
    <2>6. SoundRun(to) /\ Share(to) = Share(run)
        BY <1>7, <2>1, <2>3, <2>4 DEF SoundRun, Share
    <2>7. to \in Phases  BY <2>4, <2>6 DEF Phases
    <2>8. AllowedTo(to) = 0 /\ AllowedTo(run) = 0 /\ PromisedTo(to) = PromisedTo(run)
        BY <1>7, <2>1, <2>4, <2>6 DEF AllowedTo, PromisedTo, Holds
    <2>9. ~Leads(to) /\ ~Leads(run)  BY <1>7, <2>4 DEF Leads
    <2>10. StateTypes'
        <3>1. run.file \in Picks  BY <1>7, <2>1, <2>3 DEF SoundRun
        <3>2. run.media \notin imported /\ run.media \notin Media
            BY <1>1, <1>7 DEF StateTypes
        <3>3. \/ imported' = imported \cup {run.file} /\ UNCHANGED <<record, selected>>
              \/ UNCHANGED <<record, imported, selected>>
            BY <1>7, <3>2 DEF D!Register, D!state
        <3> QED  BY <1>1, <3>1, <3>3 DEF StateTypes
    <2> QED  BY <1>2, <2>1, <2>4, <2>5, <2>7, <2>8, <2>9, <2>10, RequestMoves
<1> QED  BY <1>5, <1>6, <1>7 DEF D!Register

\* A cancel changes no download but for its flag.
LEMMA CancelKeeps ==
    ASSUME D!SizesAssumption, MediaInv, D!Cancel
    PROVE  MediaInv'
<1>1. /\ request \in [Requests -> Phases] /\ RequestTypes /\ StateTypes /\ DirectoryTypes
    BY DEF MediaInv, RequestTypes
<1>2. UNCHANGED <<saved, leftovers, D!state, D!registry>>  BY DEF D!Cancel
<1>3. ASSUME NEW q \in Requests
      PROVE  /\ request'[q] \in Phases /\ request'[q].at = request[q].at
             /\ AllowedTo(request'[q]) = AllowedTo(request[q])
             /\ PromisedTo(request'[q]) = PromisedTo(request[q])
             /\ Leads(request'[q]) <=> Leads(request[q])
             /\ Leads(request[q]) => request'[q].media = request[q].media
             /\ request'[q].at \in {"sweep", "follow"} => request'[q] = request[q]
    <2> DEFINE run == request[q]
               to == [run EXCEPT !.flagged = TRUE]
    <2>1. CASE request'[q] = run  BY <1>1, <2>1
    <2>2. CASE request'[q] # run
        <3>1. /\ Leads(run) /\ run.at \notin {"release", "publish"} /\ request'[q] = to
              /\ \A o \in Requests : D!At(o, "sweep") => lock = o
            BY <1>1, <2>2 DEF D!Cancel, D!Downloading, Leads, D!At, RequestTypes
        <3>2. lock = None  BY DEF D!Cancel
        <3>3. q # None  BY DEF D!SizesAssumption
        <3>4. run.at # "sweep"  BY <3>1, <3>2, <3>3 DEF D!At
        <3>5. run \in Runs /\ SoundRun(run)
            BY <1>1, <3>1, <3>4, PhaseIs DEF Leads, D!Transfers
        <3>6. /\ to \in Runs /\ to.at = run.at /\ to.media = run.media /\ to.pick = run.pick
              /\ to.part = run.part /\ to.budget = run.budget /\ to.file = run.file
            BY <3>5 DEF Runs
        <3> HIDE DEF to
        <3>7. SoundRun(to) /\ Share(to) = Share(run)  BY <3>5, <3>6 DEF SoundRun, Share
        <3>8. to \in Phases  BY <3>6, <3>7 DEF Phases
        <3>9. /\ AllowedTo(to) = AllowedTo(run) /\ PromisedTo(to) = PromisedTo(run)
              /\ Leads(to) <=> Leads(run)
            BY <3>6, <3>7 DEF AllowedTo, PromisedTo, Holds, Leads
        <3>10. to.at \notin {"sweep", "follow"}  BY <3>6 DEF Runs
        <3> QED  BY <3>1, <3>6, <3>8, <3>9, <3>10
    <2> QED  BY <2>1, <2>2
<1>4. request' = [q \in Requests |-> request'[q]]  BY DEF D!Cancel
<1>5. RequestTypes'  BY <1>1, <1>2, <1>3, <1>4 DEF RequestTypes, D!registry
<1>6. DirectoryTypes' /\ StateTypes'
    BY <1>1, <1>2 DEF DirectoryTypes, StateTypes, D!registry, D!state
<1>7. UNCHANGED <<saved, leftovers, reserved, inflight>>  BY <1>2 DEF D!registry
<1>8. \A q \in Requests : AllowedTo(request'[q]) <= AllowedTo(request[q])
    BY <1>1, <1>3, TermsOrdered
<1>9. PromiseInv'
    <2>1. \A q \in Requests : request'[q].at = "sweep" => request'[q] = request[q]  BY <1>3
    <2> QED  BY <1>3, <1>5, <1>6, <1>7, <1>8, <2>1, PromiseKeeps
<1>10. LeaderInv'
    <2>1. \A q \in Requests : request'[q].at = "follow" => request'[q] = request[q]  BY <1>3
    <2> QED  BY <1>3, <1>7, <2>1, LeaderKeeps
<1> QED  BY <1>5, <1>6, <1>9, <1>10 DEF MediaInv

------------------------------------------------------------------------------
(* Steps of a download that others wait for *)

\* One leads, or one more follows.
LEMMA OnlineKeeps ==
    ASSUME D!SizesAssumption, MediaInv, NEW r \in Requests, NEW m \in Media, D!ApplyOnline(r, m)
    PROVE  MediaInv'
<1> DEFINE lead == D!Transfer(m, None)
           follow == [at |-> "follow", media |-> m]
<1>1. /\ request \in [Requests -> Phases] /\ RequestTypes /\ StateTypes /\ DirectoryTypes
      /\ request[r] \in Phases /\ m # None
    BY DEF MediaInv, RequestTypes, D!SizesAssumption
<1>2. /\ UNCHANGED <<saved, leftovers, D!state, lock, reserved>> /\ request[r].at = "idle"
      /\ lock = None
    BY DEF D!ApplyOnline, D!At
<1>3. /\ lead \in Runs /\ lead.at = "permit" /\ lead.media = m /\ lead.part = 0
      /\ lead.budget = 0
    BY <1>1 DEF D!Transfer, Runs
<1> HIDE DEF lead
<1>4. Cap \in Nat  BY DEF D!SizesAssumption
<1>5. SoundRun(lead)  BY <1>1, <1>3, <1>4 DEF SoundRun, Share
<1>6. /\ lead \in Phases /\ AllowedTo(lead) = 0 /\ PromisedTo(lead) = 0 /\ Leads(lead)
    BY <1>1, <1>3, <1>5 DEF Phases, AllowedTo, PromisedTo, Holds, Leads, D!Transfers
<1>7. /\ follow \in Waits /\ follow.at = "follow" /\ follow.media = m  BY DEF Waits
<1> HIDE DEF follow
<1>8. follow \in Phases /\ AllowedTo(follow) = 0 /\ PromisedTo(follow) = 0 /\ ~Leads(follow)
    BY <1>7, AnswerIsFree
<1>9. AllowedTo(request[r]) = 0 /\ PromisedTo(request[r]) = 0 /\ ~Leads(request[r])
    BY <1>1, <1>2, PhaseIs, AnswerIsFree
<1>10. PICK to \in Phases :
          /\ D!Goto(r, to) /\ to.at \in {"permit", "follow"}
          /\ AllowedTo(to) = 0 /\ PromisedTo(to) = 0
          /\ \/ to = follow /\ m \in inflight /\ inflight' = inflight
             \/ to = lead /\ m \notin inflight /\ inflight' = inflight \cup {m}
    <2>1. CASE m \in inflight
        <3>1. D!Goto(r, follow) /\ inflight' = inflight  BY <2>1 DEF D!ApplyOnline, follow
        <3> QED  BY <1>7, <1>8, <2>1, <3>1
    <2>2. CASE m \notin inflight
        <3>1. D!Goto(r, lead) /\ inflight' = inflight \cup {m}
            BY <2>2 DEF D!ApplyOnline, lead
        <3> QED  BY <1>3, <1>6, <2>2, <3>1
    <2> QED  BY <2>1, <2>2
<1>11. /\ request' \in [Requests -> Phases] /\ request'[r] = to
       /\ \A q \in Requests \ {r} : request'[q] = request[q]
    BY <1>1, <1>10 DEF D!Goto
<1>12. RequestTypes'
    <2>1. inflight' \subseteq Media  BY <1>1, <1>10 DEF RequestTypes
    <2>2. \A q \in Requests : request'[q].at = "sweep" <=> request[q].at = "sweep"
        BY <1>2, <1>10, <1>11
    <2> QED  BY <1>1, <1>2, <1>11, <2>1, <2>2 DEF RequestTypes
<1>13. DirectoryTypes' /\ StateTypes'
    BY <1>1, <1>2 DEF DirectoryTypes, StateTypes, D!state
<1>14. PromiseInv'
    <2>1. ASSUME NEW q \in Requests
          PROVE  /\ AllowedTo(request'[q]) <= AllowedTo(request[q])
                 /\ PromisedTo(request'[q]) = PromisedTo(request[q])
                 /\ request'[q].at = "sweep" => request'[q] = request[q]
        <3>1. AllowedTo(request[q]) \in Nat  BY <1>1, TermsOrdered
        <3>2. CASE q = r  BY <1>9, <1>10, <1>11, <3>2
        <3>3. CASE q # r  BY <1>11, <3>1, <3>3
        <3> QED  BY <3>2, <3>3
    <2>2. UNCHANGED <<saved, leftovers, reserved>>  BY <1>2
    <2> QED  BY <1>12, <1>13, <2>1, <2>2, PromiseKeeps
<1>15. LeaderInv'
    <2>1. LeaderInv  BY DEF MediaInv
    <2>2. CASE to = follow /\ m \in inflight /\ inflight' = inflight
        <3>1. ASSUME NEW q \in Requests
              PROVE  /\ Leads(request'[q]) <=> Leads(request[q])
                     /\ Leads(request[q]) => request'[q].media = request[q].media
                     /\ request'[q].at = "follow" => request'[q].media \in inflight
            <4>1. CASE q = r  BY <1>7, <1>8, <1>9, <1>11, <2>2, <4>1
            <4>2. CASE q # r  BY <1>11, <2>1, <4>2 DEF LeaderInv
            <4> QED  BY <4>1, <4>2
        <3> QED  BY <2>1, <2>2, <3>1 DEF LeaderInv
    <2>3. CASE to = lead /\ m \notin inflight /\ inflight' = inflight \cup {m}
        <3>1. /\ Leads(request'[r]) /\ request'[r].media = m /\ request'[r].at = "permit"
              /\ ~Leads(request[r])
            BY <1>3, <1>6, <1>9, <1>11, <2>3
        <3>2. \A q \in Requests : Leads(request[q]) => request[q].media # m /\ q # r
            BY <1>9, <2>1, <2>3 DEF LeaderInv
        <3>3. \A q \in Requests \ {r} : request'[q] = request[q]  BY <1>11
        <3> QED  BY <2>1, <2>3, <3>1, <3>2, <3>3 DEF LeaderInv
    <2> QED  BY <1>10, <2>2, <2>3
<1> QED  BY <1>12, <1>13, <1>14, <1>15 DEF MediaInv

\* All who wait are answered at once.
LEMMA PublishedKeeps ==
    ASSUME D!SizesAssumption, MediaInv, NEW r \in Requests, D!Publish(r)
    PROVE  MediaInv'
<1> DEFINE m == request[r].media
           got == request[r].file
<1>1. /\ request \in [Requests -> Phases] /\ RequestTypes /\ StateTypes /\ DirectoryTypes
      /\ request[r] \in Phases
    BY DEF MediaInv, RequestTypes
<1>2. /\ UNCHANGED <<saved, leftovers, D!state, lock, reserved>> /\ request[r].at = "publish"
      /\ inflight' = inflight \ {m}
      /\ request' = [q \in Requests |->
             CASE q = r -> IF request[r].gone THEN D!Idle ELSE D!Answered(m, got)
               [] D!At(q, "follow") /\ request[q].media = m -> D!Answered(m, got)
               [] OTHER -> request[q]]
    BY DEF D!Publish, D!At
<1>3. request[r] \in Runs /\ SoundRun(request[r])  BY <1>1, <1>2, PhaseIs
<1>4. m \in Media /\ got \in Contents \cup {None}  BY <1>2, <1>3 DEF Runs, SoundRun
<1>5. D!Answered(m, got) \in Answers \cup {D!Idle}  BY <1>4 DEF D!Answered, Answers
<1>6. /\ \A q \in Requests : q = r => request'[q] \in Answers \cup {D!Idle}
      /\ \A q \in Requests :
             request[q].at = "follow" /\ request[q].media = m =>
                 request'[q] \in Answers \cup {D!Idle}
      /\ \A q \in Requests :
             q # r /\ ~(request[q].at = "follow" /\ request[q].media = m) =>
                 request'[q] = request[q]
    BY <1>2, <1>5 DEF D!At
<1>7. ASSUME NEW q \in Requests
      PROVE  \/ /\ request'[q] \in Answers \cup Waits \cup {D!Idle}
                /\ request'[q] \in Phases /\ request'[q].at \notin {"sweep", "follow"}
                /\ request[q].at # "sweep" /\ ~Leads(request'[q])
                /\ AllowedTo(request'[q]) = 0 /\ PromisedTo(request'[q]) = 0
                /\ PromisedTo(request[q]) = 0 /\ AllowedTo(request[q]) = 0
                /\ q # r => ~Leads(request[q])
             \/ /\ request'[q] = request[q] /\ q # r
                /\ ~(request[q].at = "follow" /\ request[q].media = m)
    <2>1. CASE q = r
        <3>1. PromisedTo(request[q]) = 0 /\ AllowedTo(request[q]) = 0
            BY <1>2, <2>1 DEF PromisedTo, AllowedTo, Holds
        <3>2. request'[q] \in Answers \cup {D!Idle}  BY <1>6, <2>1
        <3>4. /\ request'[q] \in Phases /\ ~Leads(request'[q])
              /\ AllowedTo(request'[q]) = 0 /\ PromisedTo(request'[q]) = 0
              /\ request'[q].at \notin {"sweep", "follow"}
            BY <3>2, AnswerIsFree
        <3>5. request[q].at # "sweep"  BY <1>2, <2>1
        <3> QED  BY <2>1, <3>1, <3>2, <3>4, <3>5
    <2>2. CASE request[q].at = "follow" /\ request[q].media = m /\ q # r
        <3>1. PromisedTo(request[q]) = 0 /\ AllowedTo(request[q]) = 0 /\ ~Leads(request[q])
            BY <2>2 DEF PromisedTo, AllowedTo, Holds, Leads, D!Transfers
        <3>2. request'[q] \in Answers \cup {D!Idle}  BY <1>6, <2>2
        <3>4. /\ request'[q] \in Phases /\ ~Leads(request'[q])
              /\ AllowedTo(request'[q]) = 0 /\ PromisedTo(request'[q]) = 0
              /\ request'[q].at \notin {"sweep", "follow"}
            BY <3>2, AnswerIsFree
        <3>5. request[q].at # "sweep"  BY <2>2
        <3> QED  BY <3>1, <3>2, <3>4, <3>5
    <2>3. CASE q # r /\ ~(request[q].at = "follow" /\ request[q].media = m)
        BY <1>6, <2>3
    <2> QED  BY <2>1, <2>2, <2>3
<1>8. RequestTypes'
    <2>1. request' \in [Requests -> Phases]  BY <1>1, <1>2, <1>7
    <2>2. \A q \in Requests : request'[q].at = "sweep" <=> request[q].at = "sweep"  BY <1>7
    <2>3. inflight' \subseteq Media  BY <1>1, <1>2 DEF RequestTypes
    <2> QED  BY <1>1, <1>2, <2>1, <2>2, <2>3 DEF RequestTypes
<1>9. DirectoryTypes' /\ StateTypes'
    BY <1>1, <1>2 DEF DirectoryTypes, StateTypes, D!state
<1>10. PromiseInv'
    <2>1. ASSUME NEW q \in Requests
          PROVE  /\ AllowedTo(request'[q]) <= AllowedTo(request[q])
                 /\ PromisedTo(request'[q]) = PromisedTo(request[q])
                 /\ request'[q].at = "sweep" => request'[q] = request[q]
        <3>1. AllowedTo(request[q]) \in Nat  BY <1>1, TermsOrdered
        <3> QED  BY <1>7, <3>1
    <2>2. UNCHANGED <<saved, leftovers, reserved>>  BY <1>2
    <2> QED  BY <1>8, <1>9, <2>1, <2>2, PromiseKeeps
<1>11. LeaderInv'
    <2>1. LeaderInv /\ Leads(request[r])
        BY <1>2, <1>4 DEF MediaInv, Leads, D!Transfers, D!SizesAssumption
    <2>2. \A q \in Requests : Leads(request[q]) /\ q # r => request[q].media # m
        BY <2>1 DEF LeaderInv
    <2>3. ASSUME NEW q \in Requests
          PROVE  /\ Leads(request'[q]) => request'[q] = request[q] /\ q # r
                 /\ Leads(request[q]) /\ q # r => request'[q] = request[q]
                 /\ request'[q].at = "follow" =>
                        request'[q] = request[q] /\ request[q].media # m
        BY <1>7
    <2>4. inflight' = inflight \ {m}  BY <1>2
    <2> HIDE DEF m
    <2> QED  BY <2>1, <2>2, <2>3, <2>4 DEF LeaderInv, m
<1> QED  BY <1>8, <1>9, <1>10, <1>11 DEF MediaInv

------------------------------------------------------------------------------
(* Steps that change the directory, or what is promised of it *)

\* A file that is removed, and one that is renamed into place.
LEMMA FileRemoved ==
    ASSUME D!SizesAssumption, DirectoryTypes, NEW f \in D!ToSet(saved)
    PROVE  /\ D!RemoveFirst(saved, f) \in Seq(Contents) /\ Distinct(D!RemoveFirst(saved, f))
           /\ D!ToSet(D!RemoveFirst(saved, f)) = D!ToSet(saved) \ {f}
           /\ Size[f] \in Nat /\ Sum(Size, D!ToSet(saved) \ {f}) \in Nat
           /\ Sum(Size, D!ToSet(saved)) = Sum(Size, D!ToSet(saved) \ {f}) + Size[f]
<1> DEFINE rest == D!RemoveFirst(saved, f)
           S == D!ToSet(saved)
<1>1. saved \in Seq(Contents) /\ Distinct(saved)  BY DEF DirectoryTypes
<1>2. /\ IsFiniteSet(S) /\ S \subseteq Contents /\ D!Contains(saved, f)
      /\ \A k : k \in S <=> D!Contains(saved, k)
    BY <1>1, MembersFinite
<1>3. /\ rest \in Seq(Contents) /\ Distinct(rest)
      /\ \A k : D!Contains(rest, k) <=> D!Contains(saved, k) /\ k # f
    BY <1>1, <1>2, RemoveFirstContains
<1> HIDE DEF rest
<1>4. \A k : k \in D!ToSet(rest) <=> D!Contains(rest, k)  BY <1>3, MembersFinite
<1>5. D!ToSet(rest) = S \ {f}  BY <1>2, <1>3, <1>4
<1>6. \A c \in S : Size[c] \in Nat  BY <1>2 DEF D!SizesAssumption
<1>7. /\ IsFiniteSet(S \ {f}) /\ (S \ {f}) \cup {f} = S /\ f \in S  BY <1>2, FS_RemoveElement
<1> HIDE DEF S
<1>8. Sum(Size, S \ {f}) \in Nat  BY <1>6, <1>7, SumIsNumber
<1>9. Sum(Size, (S \ {f}) \cup {f}) = Sum(Size, S \ {f}) + Size[f]
    <2>1. f \notin S \ {f} /\ \A y \in (S \ {f}) \cup {f} : Size[y] \in Nat  BY <1>6, <1>7
    <2> QED  BY <1>7, <2>1, SumAdds
<1> QED  BY <1>3, <1>5, <1>6, <1>7, <1>8, <1>9 DEF rest, S

LEMMA FileAdded ==
    ASSUME D!SizesAssumption, DirectoryTypes, NEW f \in Contents,
           saved' = Append(D!RemoveFirst(saved, f), f)
    PROVE  /\ saved' \in Seq(Contents) /\ Distinct(saved')
           /\ D!ToSet(saved') = D!ToSet(saved) \cup {f}
           /\ Sum(Size, D!ToSet(saved)) \in Nat /\ Sum(Size, D!ToSet(saved')) \in Nat
           /\ Sum(Size, D!ToSet(saved')) <= Sum(Size, D!ToSet(saved)) + Size[f]
<1> DEFINE rest == D!RemoveFirst(saved, f)
           S == D!ToSet(saved)
<1>1. saved \in Seq(Contents) /\ Distinct(saved) /\ Size[f] \in Nat
      /\ \A c \in Contents : Size[c] \in Nat
    BY DEF DirectoryTypes, D!SizesAssumption
<1>2. /\ IsFiniteSet(S) /\ S \subseteq Contents
      /\ \A k : k \in S <=> D!Contains(saved, k)
    BY <1>1, MembersFinite
<1>3. rest \in Seq(Contents) /\ Distinct(rest) /\ D!ToSet(rest) = S \ {f}
    <2>1. CASE f \in S  BY <2>1, FileRemoved
    <2>2. CASE f \notin S
        <3>1. ~D!Contains(saved, f)  BY <1>2, <2>2
        <3>2. rest = saved  BY <3>1 DEF D!RemoveFirst, D!Contains
        <3> QED  BY <1>1, <2>2, <3>2
    <2> QED  BY <2>1, <2>2
<1>4. ~D!Contains(rest, f) /\ \A k : k \in S \ {f} <=> D!Contains(rest, k)
    <2>1. \A k : k \in D!ToSet(rest) <=> D!Contains(rest, k)  BY <1>3, MembersFinite
    <2> QED  BY <1>3, <2>1
<1> HIDE DEF rest
<1>5. /\ saved' \in Seq(Contents) /\ Distinct(saved')
      /\ \A k : D!Contains(saved', k) <=> D!Contains(rest, k) \/ k = f
    <2>1. saved' = Append(rest, f)  BY DEF rest
    <2> QED  BY <1>3, <1>4, <2>1, AppendContains
<1>6. IsFiniteSet(D!ToSet(saved')) /\ \A k : k \in D!ToSet(saved') <=> D!Contains(saved', k)
    BY <1>5, MembersFinite
<1>7. D!ToSet(saved') = S \cup {f}  BY <1>4, <1>5, <1>6
<1>8. Sum(Size, S) \in Nat /\ Sum(Size, S \cup {f}) \in Nat
    <2>1. \A c \in S \cup {f} : Size[c] \in Nat  BY <1>1, <1>2
    <2>2. IsFiniteSet(S \cup {f})  BY <1>6, <1>7
    <2> QED  BY <1>2, <2>1, <2>2, SumIsNumber
<1>9. Sum(Size, S \cup {f}) <= Sum(Size, S) + Size[f]
    <2>1. CASE f \in S
        <3>1. S \cup {f} = S  BY <2>1
        <3>2. Sum(Size, S \cup {f}) = Sum(Size, S)  BY <3>1
        <3> HIDE DEF S
        <3> QED  BY <1>1, <1>8, <3>2
    <2>2. CASE f \notin S
        <3>1. \A c \in S \cup {f} : Size[c] \in Nat  BY <1>1, <1>2
        <3>2. Sum(Size, S \cup {f}) = Sum(Size, S) + Size[f]
            BY <1>2, <2>2, <3>1, SumAdds
        <3> QED  BY <1>1, <1>8, <3>2
    <2> QED  BY <2>1, <2>2
<1> QED  BY <1>5, <1>7, <1>8, <1>9

\* One request changes its terms.
LEMMA TermsMove ==
    ASSUME D!SizesAssumption, RequestTypes, DirectoryTypes, RequestTypes', DirectoryTypes',
           NEW r \in Requests, \A q \in Requests \ {r} : request'[q] = request[q]
    PROVE  /\ Sum(Allowed, Requests)' \in Nat /\ Sum(Promised, Requests)' \in Nat
           /\ Sum(Allowed, Requests)' + AllowedTo(request[r])
                = Sum(Allowed, Requests) + AllowedTo(request'[r])
           /\ Sum(Promised, Requests)' + PromisedTo(request[r])
                = Sum(Promised, Requests) + PromisedTo(request'[r])
           /\ Sum(Promised, Requests) >= PromisedTo(request[r])
<1>1. IsFiniteSet(Requests)  BY SizeInD DEF D!SizesAssumption
<1>2. \A q \in Requests : /\ Allowed[q] \in Nat /\ Allowed'[q] \in Nat
                          /\ Promised[q] \in Nat /\ Promised'[q] \in Nat
    BY TermsOrdered DEF RequestTypes, Allowed, Promised
<1>3. \A q \in Requests \ {r} : Allowed[q] = Allowed'[q] /\ Promised[q] = Promised'[q]
    BY DEF Allowed, Promised
<1>4. /\ Sum(Allowed', Requests) \in Nat
      /\ Sum(Allowed', Requests) + Allowed[r] = Sum(Allowed, Requests) + Allowed'[r]
    BY <1>1, <1>2, <1>3, SumMoves
<1>5. /\ Sum(Promised', Requests) \in Nat /\ Sum(Promised, Requests) >= Promised[r]
      /\ Sum(Promised', Requests) + Promised[r] = Sum(Promised, Requests) + Promised'[r]
    BY <1>1, <1>2, <1>3, SumMoves
<1>6. /\ Sum(Allowed, Requests)' = Sum(Allowed', Requests)
      /\ Sum(Promised, Requests)' = Sum(Promised', Requests)
    BY DEF Sum, Units
<1>7. /\ Allowed[r] = AllowedTo(request[r]) /\ Allowed'[r] = AllowedTo(request'[r])
      /\ Promised[r] = PromisedTo(request[r]) /\ Promised'[r] = PromisedTo(request'[r])
    BY DEF Allowed, Promised
<1> QED  BY <1>4, <1>5, <1>6, <1>7

\* A file is complete: its bytes are those its transfer was allowed.
LEMMA FinishKeeps ==
    ASSUME D!SizesAssumption, MediaInv, NEW r \in Requests, D!Finish(r)
    PROVE  MediaInv'
<1> DEFINE run == request[r]
<1>1. /\ request \in [Requests -> Phases] /\ RequestTypes /\ StateTypes /\ DirectoryTypes
      /\ run \in Phases /\ PromiseInv
    BY DEF MediaInv, RequestTypes
<1>2. /\ run.at = "transfer" /\ UNCHANGED <<leftovers, D!state, D!registry>>
    BY DEF D!Finish, D!At
<1>3. run \in Runs /\ SoundRun(run)  BY <1>1, <1>2, PhaseIs
<1>4. PICK f \in Contents :
          /\ Size[f] = run.part /\ saved' = Append(D!RemoveFirst(saved, f), f)
          /\ D!Imports(r) => f = run.pick
          /\ D!Goto(r, [run EXCEPT !.at = IF D!Imports(r) THEN "register" ELSE "release",
                                 !.file = f, !.part = 0, !.budget = 0])
    <2>1. run.media = None => run.pick \in Contents  BY <1>3 DEF SoundRun, D!SizesAssumption
    <2> QED  BY <1>2, <2>1 DEF D!Finish, D!Imports
<1> DEFINE next == IF D!Imports(r) THEN "register" ELSE "release"
           to == [run EXCEPT !.at = next, !.file = f, !.part = 0, !.budget = 0]
<1>5. /\ to \in Runs /\ to.at = next /\ to.media = run.media /\ to.pick = run.pick
      /\ to.file = f /\ to.part = 0 /\ to.budget = 0
    BY <1>3 DEF Runs
<1>6. D!Goto(r, to)  BY <1>4
<1> HIDE DEF to
<1>7. Share(to) = Share(run) /\ Share(run) \in Nat
    BY <1>3, <1>5 DEF Share, SoundRun, D!SizesAssumption
<1>8. to.at \in {"register", "release"} /\ (to.at = "register" <=> to.media = None)
    BY <1>5 DEF D!Imports
<1>9. SoundRun(to)  BY <1>3, <1>4, <1>5, <1>7, <1>8 DEF SoundRun, D!Imports
<1>10. to \in Phases  BY <1>5, <1>9 DEF Phases
<1>11. AllowedTo(to) = 0 /\ PromisedTo(to) = PromisedTo(run)
    BY <1>2, <1>7, <1>8 DEF AllowedTo, PromisedTo, Holds
<1>12. /\ request' \in [Requests -> Phases] /\ request'[r] = to
       /\ \A q \in Requests \ {r} : request'[q] = request[q]
    BY <1>1, <1>6, <1>10 DEF D!Goto
<1>13. RequestTypes'
    BY <1>1, <1>2, <1>8, <1>12 DEF RequestTypes, D!registry
<1>14. /\ DirectoryTypes' /\ D!ToSet(saved') = D!ToSet(saved) \cup {f}
       /\ Sum(Size, D!ToSet(saved)) \in Nat /\ Sum(Size, D!ToSet(saved')) \in Nat
       /\ Sum(Size, D!ToSet(saved')) <= Sum(Size, D!ToSet(saved)) + Size[f]
    BY <1>1, <1>2, <1>4, FileAdded DEF DirectoryTypes, D!registry
<1>15. StateTypes'  BY <1>1, <1>2 DEF StateTypes, D!state
<1>16. /\ Sum(Allowed, Requests)' \in Nat /\ Sum(Promised, Requests)' \in Nat
       /\ Sum(Allowed, Requests)' + AllowedTo(run) = Sum(Allowed, Requests) + 0
       /\ Sum(Promised, Requests)' + PromisedTo(run)
            = Sum(Promised, Requests) + PromisedTo(run)
    BY <1>1, <1>11, <1>12, <1>13, <1>14, TermsMove
<1>17. /\ AllowedTo(run) \in Nat /\ PromisedTo(run) \in Nat /\ run.part <= AllowedTo(run)
       /\ run.part \in Nat
    BY <1>1, <1>2, TermsOrdered
<1>18. Sum(Allowed, Requests) \in Nat /\ Sum(Promised, Requests) \in Nat
    BY <1>1, SumsOrdered
<1>19. Disk' + Sum(Allowed, Requests)' <= Disk + Sum(Allowed, Requests) /\ Disk' \in Nat
    <2>1. /\ Disk = Sum(Size, D!ToSet(saved)) + leftovers /\ leftovers \in Nat
          /\ Disk' = Sum(Size, D!ToSet(saved')) + leftovers
        BY <1>1, <1>2 DEF Disk, Sum, Units, DirectoryTypes
    <2>2. /\ Sum(Size, D!ToSet(saved')) <= Sum(Size, D!ToSet(saved)) + run.part
          /\ Sum(Allowed, Requests)' + AllowedTo(run) = Sum(Allowed, Requests)
        BY <1>4, <1>14, <1>16, <1>18
    <2> HIDE DEF run
    <2> QED  BY <1>14, <1>16, <1>17, <1>18, <2>1, <2>2
<1>20. PromiseInv'
    <2>1. reserved' = Sum(Promised, Requests)'
        <3>1. reserved = Sum(Promised, Requests) /\ reserved' = reserved
            BY <1>1, <1>2 DEF PromiseInv, D!registry
        <3> HIDE DEF run
        <3> QED  BY <1>16, <1>17, <1>18, <3>1
    <2>2. Disk \in Nat /\ Quota \in Nat  BY <1>1, SumsOrdered DEF D!SizesAssumption
    <2>3. Disk' + Sum(Allowed, Requests)' <= Quota
        BY <1>1, <1>16, <1>18, <1>19, <2>2 DEF PromiseInv
    <2>4. ASSUME NEW q \in Requests, request'[q].at = "sweep"
          PROVE  /\ Disk' + Sum(Allowed, Requests)' <= request'[q].usage + reserved'
                 /\ request'[q].left \subseteq D!ToSet(saved')
        <3>1. q # r  BY <1>8, <1>12, <2>4
        <3>2. request'[q] = request[q]  BY <1>12, <3>1
        <3>3. request[q] \in Sweeps  BY <1>1, <2>4, <3>2, PhaseIs
        <3>4. request[q].usage \in Nat  BY <3>3 DEF Sweeps
        <3>5. reserved' = reserved /\ reserved \in Nat
            BY <1>1, <1>2 DEF D!registry, DirectoryTypes
        <3>6. /\ Disk + Sum(Allowed, Requests) <= request[q].usage + reserved
              /\ request[q].left \subseteq D!ToSet(saved)
            BY <1>1, <2>4, <3>2 DEF PromiseInv
        <3> QED  BY <1>14, <1>16, <1>18, <1>19, <2>2, <3>2, <3>4, <3>5, <3>6
    <2>5. D!ToSet(saved)' = D!ToSet(saved')  BY DEF D!ToSet
    <2> QED  BY <2>1, <2>3, <2>4, <2>5 DEF PromiseInv
<1>21. LeaderInv'
    <2>1. Leads(to) <=> Leads(run)
        BY <1>2, <1>5, <1>8 DEF Leads, D!Transfers
    <2>2. ASSUME NEW q \in Requests
          PROVE  /\ Leads(request'[q]) <=> Leads(request[q])
                 /\ Leads(request[q]) => request'[q].media = request[q].media
                 /\ request'[q].at = "follow" => request'[q] = request[q]
        <3>1. CASE q = r  BY <1>5, <1>8, <1>12, <2>1, <3>1
        <3>2. CASE q # r  BY <1>12, <3>2
        <3> QED  BY <3>1, <3>2
    <2>3. UNCHANGED inflight  BY <1>2 DEF D!registry
    <2> QED  BY <2>2, <2>3, LeaderKeeps
<1> QED  BY <1>13, <1>14, <1>15, <1>20, <1>21 DEF MediaInv

\* What a transfer was promised is given back.
LEMMA ReleaseKeeps ==
    ASSUME D!SizesAssumption, MediaInv, NEW r \in Requests, D!Release(r)
    PROVE  MediaInv'
<1> DEFINE run == request[r]
<1>1. /\ request \in [Requests -> Phases] /\ RequestTypes /\ StateTypes /\ DirectoryTypes
      /\ run \in Phases /\ PromiseInv
    BY DEF MediaInv, RequestTypes
<1>2. /\ run.at = "release" /\ lock = None
      /\ UNCHANGED <<saved, leftovers, D!state, lock, inflight>>
      /\ reserved' = D!Minus(reserved, D!Needed(r))
      /\ IF run.media = None THEN D!Goto(r, D!Idle) ELSE D!Step(r, "publish")
    BY DEF D!Release, D!At, D!Imports
<1>3. run \in Runs /\ SoundRun(run)  BY <1>1, <1>2, PhaseIs
<1>4. /\ PromisedTo(run) = D!Needed(r) /\ AllowedTo(run) = 0 /\ PromisedTo(run) \in Nat
    BY <1>1, <1>2, TermsOrdered DEF PromisedTo, AllowedTo, Holds, D!Needed, D!Imports, Share
<1>5. PICK to \in Phases :
          /\ D!Goto(r, to) /\ to.at \notin {"sweep", "follow"}
          /\ AllowedTo(to) = 0 /\ PromisedTo(to) = 0
          /\ Leads(to) <=> Leads(run)
          /\ Leads(run) => to.media = run.media
    <2>1. CASE run.media = None
        <3>1. D!Goto(r, D!Idle) /\ ~Leads(run)  BY <1>2, <2>1 DEF Leads
        <3>2. /\ D!Idle \in Phases /\ D!Idle.at \notin {"sweep", "follow"} /\ ~Leads(D!Idle)
              /\ AllowedTo(D!Idle) = 0 /\ PromisedTo(D!Idle) = 0
            BY AnswerIsFree
        <3> QED  BY <3>1, <3>2
    <2>2. CASE run.media # None
        <3> DEFINE end == [run EXCEPT !.at = "publish"]
        <3>1. /\ end \in Runs /\ end.at = "publish" /\ end.media = run.media
              /\ end.pick = run.pick /\ end.part = run.part /\ end.budget = run.budget
            BY <1>3 DEF Runs
        <3>2. D!Goto(r, end)  BY <1>1, <1>2, <2>2 DEF D!Step, D!Goto
        <3> HIDE DEF end
        <3>3. SoundRun(end)  BY <1>2, <1>3, <2>2, <3>1 DEF SoundRun, Share
        <3>4. end \in Phases  BY <3>1, <3>3 DEF Phases
        <3>5. AllowedTo(end) = 0 /\ PromisedTo(end) = 0
            BY <3>1 DEF AllowedTo, PromisedTo, Holds
        <3>6. Leads(end) /\ Leads(run)  BY <1>2, <2>2, <3>1 DEF Leads, D!Transfers
        <3> QED  BY <3>1, <3>2, <3>4, <3>5, <3>6
    <2> QED  BY <2>1, <2>2
<1>6. /\ request' \in [Requests -> Phases] /\ request'[r] = to
      /\ \A q \in Requests \ {r} : request'[q] = request[q]
    BY <1>1, <1>5 DEF D!Goto
<1>7. \A q \in Requests : request[q].at # "sweep" /\ request'[q].at # "sweep"
    <2>1. \A q \in Requests : request[q].at # "sweep"
        BY <1>1, <1>2 DEF RequestTypes, D!SizesAssumption
    <2> QED  BY <1>5, <1>6, <2>1
<1>8. RequestTypes'  BY <1>1, <1>2, <1>6, <1>7 DEF RequestTypes
<1>9. StateTypes'  BY <1>1, <1>2 DEF StateTypes, D!state
<1>10. DirectoryTypes'
    <2>1. reserved \in Nat /\ D!Needed(r) \in Nat  BY <1>1, <1>4 DEF DirectoryTypes
    <2>2. reserved' \in Nat  BY <1>2, <2>1 DEF D!Minus
    <2> QED  BY <1>1, <1>2, <2>2 DEF DirectoryTypes
<1>11. /\ Sum(Allowed, Requests)' \in Nat /\ Sum(Promised, Requests)' \in Nat
       /\ Sum(Allowed, Requests)' + 0 = Sum(Allowed, Requests) + 0
       /\ Sum(Promised, Requests)' + PromisedTo(run) = Sum(Promised, Requests) + 0
       /\ Sum(Promised, Requests) >= PromisedTo(run)
    BY <1>1, <1>4, <1>5, <1>6, <1>8, <1>10, TermsMove
<1>12. PromiseInv'
    <2>1. Sum(Allowed, Requests) \in Nat /\ Sum(Promised, Requests) \in Nat
        BY <1>1, SumsOrdered
    <2>2. reserved' = Sum(Promised, Requests)'
        BY <1>1, <1>2, <1>4, <1>11, <2>1 DEF PromiseInv, D!Minus
    <2>3. Disk' = Disk  BY <1>2 DEF Disk, Sum, Units
    <2>4. Sum(Allowed, Requests)' = Sum(Allowed, Requests)  BY <1>11, <2>1
    <2> QED  BY <1>1, <1>7, <2>2, <2>3, <2>4 DEF PromiseInv
<1>13. LeaderInv'
    <2>1. ASSUME NEW q \in Requests
          PROVE  /\ Leads(request'[q]) <=> Leads(request[q])
                 /\ Leads(request[q]) => request'[q].media = request[q].media
                 /\ request'[q].at = "follow" => request'[q] = request[q]
        <3>1. CASE q = r  BY <1>5, <1>6, <3>1
        <3>2. CASE q # r  BY <1>6, <3>2
        <3> QED  BY <3>1, <3>2
    <2>2. UNCHANGED inflight  BY <1>2
    <2> QED  BY <2>1, <2>2, LeaderKeeps
<1> QED  BY <1>8, <1>9, <1>10, <1>12, <1>13 DEF MediaInv

\* The directory is measured: what is not in it yet was promised.
LEMMA ReserveKeeps ==
    ASSUME D!SizesAssumption, MediaInv, NEW r \in Requests, D!Reserve(r)
    PROVE  MediaInv'
<1> DEFINE run == request[r]
           to == [at |-> "sweep", transfer |-> run, media |-> run.media, usage |-> D!Usage,
                  needed |-> D!Needed(r), listed |-> saved, left |-> D!ToSet(saved) \ D!Protected]
<1>1. /\ request \in [Requests -> Phases] /\ RequestTypes /\ StateTypes /\ DirectoryTypes
      /\ run \in Phases /\ PromiseInv
    BY DEF MediaInv, RequestTypes
<1>2. /\ run.at = "reserve" /\ lock = None /\ lock' = r /\ D!Goto(r, to)
      /\ UNCHANGED <<saved, leftovers, D!state, inflight, reserved>>
    BY DEF D!Reserve, D!At
<1>3. run \in Runs /\ SoundRun(run)  BY <1>1, <1>2, PhaseIs
<1>4. D!Usage \in Nat /\ D!Usage + Sum(Allowed, Requests) >= Disk + Sum(Allowed, Requests)
      /\ Disk \in Nat /\ Sum(Allowed, Requests) \in Nat
      /\ Disk + Sum(Allowed, Requests) <= D!Usage + reserved
    <2>1. /\ Sum(D!Parts, Requests) \in Nat /\ Sum(Allowed, Requests) \in Nat
          /\ Sum(Promised, Requests) \in Nat /\ Disk \in Nat
          /\ Sum(Allowed, Requests) <= Sum(Promised, Requests)
        BY <1>1, SumsOrdered
    <2>2. D!Usage = Disk + Sum(D!Parts, Requests)
        BY SizeInD DEF D!Usage, Disk, D!Bytes, Sum, Units
    <2>3. reserved = Sum(Promised, Requests)  BY <1>1 DEF PromiseInv
    <2> QED  BY <2>1, <2>2, <2>3
<1>5. D!Needed(r) = Share(run) /\ D!Needed(r) \in Nat
    BY <1>3 DEF D!Needed, Share, D!Imports, SoundRun, D!SizesAssumption
<1>6. D!ToSet(saved) \subseteq Contents  BY <1>1, MembersFinite DEF DirectoryTypes
<1>7. /\ to \in Sweeps /\ to.at = "sweep" /\ to.transfer = run /\ to.media = run.media
      /\ to.needed = Share(run) /\ to.usage = D!Usage /\ to.left \subseteq D!ToSet(saved)
    BY <1>1, <1>3, <1>4, <1>5, <1>6 DEF Sweeps, Runs, DirectoryTypes
<1> HIDE DEF to
<1>8. to \in Phases  BY <1>2, <1>3, <1>7 DEF Phases, SoundSweep
<1>9. /\ AllowedTo(to) = 0 /\ PromisedTo(to) = 0 /\ AllowedTo(run) = 0 /\ PromisedTo(run) = 0
      /\ Leads(to) <=> Leads(run)
    BY <1>2, <1>7 DEF AllowedTo, PromisedTo, Holds, Leads, D!Transfers
<1>10. /\ request' \in [Requests -> Phases] /\ request'[r] = to
       /\ \A q \in Requests \ {r} : request'[q] = request[q]
    BY <1>1, <1>2, <1>8 DEF D!Goto
<1>11. \A q \in Requests : request[q].at # "sweep" /\ (request'[q].at = "sweep" => q = r)
    <2>1. \A q \in Requests : request[q].at # "sweep"
        BY <1>1, <1>2 DEF RequestTypes, D!SizesAssumption
    <2> QED  BY <1>10, <2>1
<1>12. RequestTypes'  BY <1>1, <1>2, <1>7, <1>10, <1>11 DEF RequestTypes
<1>13. StateTypes' /\ DirectoryTypes'
    BY <1>1, <1>2 DEF StateTypes, D!state, DirectoryTypes
<1>14. /\ Sum(Allowed, Requests)' \in Nat /\ Sum(Promised, Requests)' \in Nat
       /\ Sum(Allowed, Requests)' + 0 = Sum(Allowed, Requests) + 0
       /\ Sum(Promised, Requests)' + 0 = Sum(Promised, Requests) + 0
    BY <1>1, <1>9, <1>10, <1>12, <1>13, TermsMove
<1>15. PromiseInv'
    <2>1. Sum(Promised, Requests) \in Nat  BY <1>1, SumsOrdered
    <2>2. /\ Sum(Allowed, Requests)' = Sum(Allowed, Requests)
          /\ Sum(Promised, Requests)' = Sum(Promised, Requests)
        BY <1>4, <1>14, <2>1
    <2>3. Disk' = Disk /\ reserved' = reserved /\ D!ToSet(saved)' = D!ToSet(saved)
        BY <1>2 DEF Disk, Sum, Units, D!ToSet
    <2> QED  BY <1>1, <1>4, <1>7, <1>10, <1>11, <2>2, <2>3 DEF PromiseInv
<1>16. LeaderInv'
    <2>1. ASSUME NEW q \in Requests
          PROVE  /\ Leads(request'[q]) <=> Leads(request[q])
                 /\ Leads(request[q]) => request'[q].media = request[q].media
                 /\ request'[q].at = "follow" => request'[q] = request[q]
        <3>1. CASE q = r  BY <1>7, <1>9, <1>10, <3>1
        <3>2. CASE q # r  BY <1>10, <3>2
        <3> QED  BY <3>1, <3>2
    <2>2. UNCHANGED inflight  BY <1>2
    <2> QED  BY <2>1, <2>2, LeaderKeeps
<1> QED  BY <1>12, <1>13, <1>15, <1>16 DEF MediaInv

\* A sweep goes past a file, which it removed or not.
LEMMA SweepMoves ==
    ASSUME D!SizesAssumption, MediaInv, NEW r \in Requests, request[r].at = "sweep",
           NEW to \in Sweeps, D!Goto(r, to),
           to.transfer = request[r].transfer, to.media = request[r].media,
           to.needed = request[r].needed, to.left \subseteq D!ToSet(saved)',
           UNCHANGED <<leftovers, D!state, D!registry>>,
           DirectoryTypes', Disk' \in Nat, Disk' <= Disk,
           Disk' + request[r].usage <= Disk + to.usage
    PROVE  MediaInv'
<1> DEFINE sweep == request[r]
<1>1. /\ request \in [Requests -> Phases] /\ RequestTypes /\ StateTypes /\ DirectoryTypes
      /\ sweep \in Phases /\ PromiseInv
    BY DEF MediaInv, RequestTypes
<1>2. sweep \in Sweeps /\ SoundSweep(sweep)  BY <1>1, PhaseIs
<1>3. to \in Phases /\ to.at = "sweep"  BY <1>2 DEF Phases, SoundSweep, Sweeps
<1>4. /\ AllowedTo(to) = 0 /\ PromisedTo(to) = 0 /\ AllowedTo(sweep) = 0
      /\ PromisedTo(sweep) = 0 /\ (Leads(to) <=> Leads(sweep))
    BY <1>3 DEF AllowedTo, PromisedTo, Holds, Leads
<1>5. /\ request' \in [Requests -> Phases] /\ request'[r] = to
      /\ \A q \in Requests \ {r} : request'[q] = request[q]
    BY <1>1, <1>3 DEF D!Goto
<1>6. RequestTypes'  BY <1>1, <1>3, <1>5 DEF RequestTypes, D!registry
<1>7. StateTypes'  BY <1>1 DEF StateTypes, D!state
<1>8. \A q \in Requests : request'[q].at = "sweep" => q = r
    BY <1>1, <1>5, <1>6 DEF RequestTypes
<1>9. /\ Sum(Allowed, Requests)' \in Nat /\ Sum(Promised, Requests)' \in Nat
      /\ Sum(Allowed, Requests)' + 0 = Sum(Allowed, Requests) + 0
      /\ Sum(Promised, Requests)' + 0 = Sum(Promised, Requests) + 0
    BY <1>1, <1>4, <1>5, <1>6, TermsMove
<1>10. PromiseInv'
    <2>1. /\ Sum(Promised, Requests) \in Nat /\ Sum(Allowed, Requests) \in Nat /\ Disk \in Nat
          /\ Disk' \in Nat
        BY <1>1, SumsOrdered
    <2>2. /\ Sum(Allowed, Requests)' = Sum(Allowed, Requests)
          /\ Sum(Promised, Requests)' = Sum(Promised, Requests)
        BY <1>9, <2>1
    <2>3. sweep.usage \in Nat /\ to.usage \in Nat /\ Quota \in Nat /\ reserved \in Nat
        BY <1>1, <1>2 DEF Sweeps, D!SizesAssumption, DirectoryTypes
    <2>4. reserved' = reserved /\ reserved = Sum(Promised, Requests)
        BY <1>1 DEF D!registry, PromiseInv
    <2>5. Disk + Sum(Allowed, Requests) <= Quota
          /\ Disk + Sum(Allowed, Requests) <= sweep.usage + reserved
        BY <1>1 DEF PromiseInv
    <2>6. Disk' + Sum(Allowed, Requests) <= Quota
          /\ Disk' + Sum(Allowed, Requests) <= to.usage + reserved
        BY <2>1, <2>3, <2>5
    <2> QED  BY <1>5, <1>8, <2>2, <2>4, <2>6 DEF PromiseInv
<1>11. LeaderInv'
    <2>1. ASSUME NEW q \in Requests
          PROVE  /\ Leads(request'[q]) <=> Leads(request[q])
                 /\ Leads(request[q]) => request'[q].media = request[q].media
                 /\ request'[q].at = "follow" => request'[q] = request[q]
        <3>1. CASE q = r  BY <1>3, <1>4, <1>5, <3>1
        <3>2. CASE q # r  BY <1>5, <3>2
        <3> QED  BY <3>1, <3>2
    <2>2. UNCHANGED inflight  BY DEF D!registry
    <2> QED  BY <2>1, <2>2, LeaderKeeps
<1> QED  BY <1>6, <1>7, <1>10, <1>11 DEF MediaInv

LEMMA SweepKeeps ==
    ASSUME D!SizesAssumption, MediaInv, NEW r \in Requests, D!Sweep(r)
    PROVE  MediaInv'
<1> DEFINE sweep == request[r]
<1>1. /\ RequestTypes /\ StateTypes /\ DirectoryTypes /\ sweep \in Phases /\ PromiseInv
    BY DEF MediaInv, RequestTypes
<1>2. sweep.at = "sweep" /\ UNCHANGED <<leftovers, D!state, D!registry>>  BY DEF D!Sweep, D!At
<1>3. sweep \in Sweeps  BY <1>1, <1>2, PhaseIs
<1>4. PICK f \in sweep.left :
          \/ /\ saved' = D!RemoveFirst(saved, f)
             /\ D!Goto(r, [[sweep EXCEPT !.left = @ \ {f}] EXCEPT !.usage = D!Minus(@, Size[f])])
          \/ D!Goto(r, [sweep EXCEPT !.left = @ \ {f}]) /\ UNCHANGED saved
    BY DEF D!Sweep
<1>5. f \in D!ToSet(saved) /\ sweep.left \subseteq D!ToSet(saved)  BY <1>1, <1>2 DEF PromiseInv
<1>6. /\ D!RemoveFirst(saved, f) \in Seq(Contents) /\ Distinct(D!RemoveFirst(saved, f))
      /\ D!ToSet(D!RemoveFirst(saved, f)) = D!ToSet(saved) \ {f}
      /\ Size[f] \in Nat /\ Sum(Size, D!ToSet(saved) \ {f}) \in Nat
      /\ Sum(Size, D!ToSet(saved)) = Sum(Size, D!ToSet(saved) \ {f}) + Size[f]
    BY <1>1, <1>5, FileRemoved
<1>7. Disk = Sum(Size, D!ToSet(saved)) + leftovers /\ leftovers \in Nat /\ sweep.usage \in Nat
      /\ sweep.left \subseteq Contents
    BY <1>1, <1>3 DEF Disk, DirectoryTypes, Sweeps
<1>8. CASE /\ saved' = D!RemoveFirst(saved, f)
           /\ D!Goto(r, [[sweep EXCEPT !.left = @ \ {f}] EXCEPT !.usage = D!Minus(@, Size[f])])
    <2> DEFINE to == [[sweep EXCEPT !.left = @ \ {f}] EXCEPT !.usage = D!Minus(@, Size[f])]
    <2>1. /\ D!Minus(sweep.usage, Size[f]) \in Nat
          /\ D!Minus(sweep.usage, Size[f]) + Size[f] >= sweep.usage
        BY <1>6, <1>7 DEF D!Minus
    <2>2. /\ to \in Sweeps /\ to.transfer = sweep.transfer /\ to.media = sweep.media
          /\ to.needed = sweep.needed /\ to.left = sweep.left \ {f}
          /\ to.usage = D!Minus(sweep.usage, Size[f])
        BY <1>3, <2>1 DEF Sweeps
    <2>3. D!Goto(r, to)  BY <1>8
    <2> HIDE DEF to
    <2>4. D!ToSet(saved)' = D!ToSet(saved) \ {f}  BY <1>6, <1>8 DEF D!ToSet
    <2>5. to.left \subseteq D!ToSet(saved)'  BY <1>5, <2>2, <2>4
    <2>6. DirectoryTypes'  BY <1>1, <1>2, <1>6, <1>8 DEF DirectoryTypes, D!registry
    <2>7. Disk' = Sum(Size, D!ToSet(saved) \ {f}) + leftovers
        BY <1>2, <2>4 DEF Disk, Sum, Units
    <2>8. Disk' \in Nat /\ Disk' <= Disk /\ Disk' + sweep.usage <= Disk + to.usage
        BY <1>6, <1>7, <2>1, <2>2, <2>7
    <2> QED  BY <1>2, <2>2, <2>3, <2>5, <2>6, <2>8, SweepMoves
<1>9. CASE D!Goto(r, [sweep EXCEPT !.left = @ \ {f}]) /\ UNCHANGED saved
    <2> DEFINE to == [sweep EXCEPT !.left = @ \ {f}]
    <2>1. /\ to \in Sweeps /\ to.transfer = sweep.transfer /\ to.media = sweep.media
          /\ to.needed = sweep.needed /\ to.left = sweep.left \ {f} /\ to.usage = sweep.usage
        BY <1>3 DEF Sweeps
    <2>2. D!Goto(r, to)  BY <1>9
    <2> HIDE DEF to
    <2>3. D!ToSet(saved)' = D!ToSet(saved)  BY <1>9 DEF D!ToSet
    <2>4. DirectoryTypes'  BY <1>1, <1>2, <1>9 DEF DirectoryTypes, D!registry
    <2>5. Disk' = Disk /\ Disk \in Nat
        BY <1>2, <1>6, <1>7, <1>9 DEF Disk, Sum, Units
    <2>6. Disk' \in Nat /\ Disk' <= Disk /\ Disk' + sweep.usage <= Disk + to.usage
        BY <1>7, <2>1, <2>5
    <2>7. to.left \subseteq D!ToSet(saved)'  BY <1>5, <2>1, <2>3
    <2> QED  BY <1>2, <2>1, <2>2, <2>4, <2>6, <2>7, SweepMoves
<1> QED  BY <1>4, <1>8, <1>9

\* The transfer may begin, with what is left of the quota.
LEMMA ReservedKeeps ==
    ASSUME D!SizesAssumption, MediaInv, NEW r \in Requests, D!Reserved(r)
    PROVE  MediaInv'
<1> DEFINE sweep == request[r]
           run == sweep.transfer
           to == [run EXCEPT !.at = "transfer", !.budget = D!Budget(sweep)]
<1>1. /\ request \in [Requests -> Phases] /\ RequestTypes /\ StateTypes /\ DirectoryTypes
      /\ sweep \in Phases /\ PromiseInv
    BY DEF MediaInv, RequestTypes
<1>2. /\ sweep.at = "sweep" /\ reserved' = reserved + sweep.needed /\ lock' = None
      /\ D!Goto(r, to) /\ UNCHANGED <<saved, leftovers, D!state, inflight>>
    BY DEF D!Reserved, D!At
<1>3. /\ sweep \in Sweeps /\ run \in Runs /\ SoundRun(run) /\ run.at = "reserve"
      /\ sweep.media = run.media /\ sweep.needed = Share(run)
    BY <1>1, <1>2, PhaseIs DEF SoundSweep, Sweeps
<1>4. Quota \in Nat /\ reserved \in Nat /\ sweep.usage \in Nat
    BY <1>1, <1>3 DEF Sweeps, DirectoryTypes, D!SizesAssumption
<1>5. /\ D!Budget(sweep) \in Nat
      /\ D!Budget(sweep) = 0 \/ D!Budget(sweep) + sweep.usage + reserved <= Quota
    <2> HIDE DEF sweep
    <2>1. CASE Quota > sweep.usage /\ Quota - sweep.usage > reserved
        BY <1>4, <2>1 DEF D!Budget, D!Minus
    <2>2. CASE Quota > sweep.usage /\ ~(Quota - sweep.usage > reserved)
        BY <1>4, <2>2 DEF D!Budget, D!Minus
    <2>3. CASE ~(Quota > sweep.usage)
        BY <1>4, <2>3 DEF D!Budget, D!Minus
    <2> QED  BY <2>1, <2>2, <2>3
<1>6. /\ to \in Runs /\ to.at = "transfer" /\ to.media = run.media /\ to.pick = run.pick
      /\ to.part = run.part /\ to.budget = D!Budget(sweep) /\ to.file = run.file
    BY <1>3, <1>5 DEF Runs
<1> HIDE DEF to
<1>7. /\ Share(to) = Share(run) /\ Share(run) \in Nat /\ run.part = 0
    BY <1>3, <1>6 DEF Share, SoundRun, D!SizesAssumption
<1>8. SoundRun(to)  BY <1>3, <1>5, <1>6, <1>7 DEF SoundRun
<1>9. to \in Phases  BY <1>6, <1>8 DEF Phases
<1>10. /\ AllowedTo(to) \in Nat /\ AllowedTo(to) <= D!Budget(sweep)
       /\ PromisedTo(to) = sweep.needed
       /\ AllowedTo(sweep) = 0 /\ PromisedTo(sweep) = 0 /\ (Leads(to) <=> Leads(sweep))
    <2>1. PromisedTo(to) = sweep.needed
        BY <1>3, <1>6, <1>7 DEF PromisedTo, Holds
    <2>2. AllowedTo(to) \in Nat /\ AllowedTo(to) <= D!Budget(sweep)
        BY <1>5, <1>6, <1>7 DEF AllowedTo
    <2>3. AllowedTo(sweep) = 0 /\ PromisedTo(sweep) = 0
        BY <1>2 DEF AllowedTo, PromisedTo, Holds
    <2>4. Leads(to) <=> Leads(sweep)
        BY <1>2, <1>3, <1>6 DEF Leads, D!Transfers
    <2> QED  BY <2>1, <2>2, <2>3, <2>4
<1>11. /\ request' \in [Requests -> Phases] /\ request'[r] = to
       /\ \A q \in Requests \ {r} : request'[q] = request[q]
    BY <1>1, <1>2, <1>9 DEF D!Goto
<1>12. \A q \in Requests : request'[q].at # "sweep"
    <2>1. \A q \in Requests \ {r} : request[q].at # "sweep"
        BY <1>1, <1>2 DEF RequestTypes
    <2> QED  BY <1>6, <1>11, <2>1
<1>13. RequestTypes'
    <2>1. None \notin Requests  BY DEF D!SizesAssumption
    <2> QED  BY <1>1, <1>2, <1>11, <1>12, <2>1 DEF RequestTypes
<1>14. StateTypes' /\ DirectoryTypes'
    BY <1>1, <1>2, <1>3, <1>4, <1>7 DEF StateTypes, D!state, DirectoryTypes
<1>15. /\ Sum(Allowed, Requests)' \in Nat /\ Sum(Promised, Requests)' \in Nat
       /\ Sum(Allowed, Requests)' + 0 = Sum(Allowed, Requests) + AllowedTo(to)
       /\ Sum(Promised, Requests)' + 0 = Sum(Promised, Requests) + sweep.needed
    BY <1>1, <1>10, <1>11, <1>13, <1>14, TermsMove
<1>16. PromiseInv'
    <2>1. /\ Sum(Promised, Requests) \in Nat /\ Sum(Allowed, Requests) \in Nat /\ Disk \in Nat
        BY <1>1, SumsOrdered
    <2>2. /\ reserved = Sum(Promised, Requests)
          /\ Disk + Sum(Allowed, Requests) <= Quota
          /\ Disk + Sum(Allowed, Requests) <= sweep.usage + reserved
        BY <1>1, <1>2 DEF PromiseInv
    <2>3. sweep.needed \in Nat  BY <1>3, <1>7
    <2>4. reserved' = Sum(Promised, Requests)'
        BY <1>2, <1>15, <2>1, <2>2, <2>3
    <2>5. Disk' = Disk  BY <1>2 DEF Disk, Sum, Units
    <2>6. Disk + Sum(Allowed, Requests)' <= Quota
        <3> HIDE DEF sweep
        <3>1. Sum(Allowed, Requests)' = Sum(Allowed, Requests) + AllowedTo(to)  BY <1>15
        <3>2. CASE D!Budget(sweep) = 0  BY <1>10, <2>1, <2>2, <3>1, <3>2
        <3>3. CASE D!Budget(sweep) + sweep.usage + reserved <= Quota
            BY <1>4, <1>5, <1>10, <2>1, <2>2, <3>1, <3>3
        <3> QED  BY <1>5, <3>2, <3>3
    <2> QED  BY <1>12, <2>4, <2>5, <2>6 DEF PromiseInv
<1>17. LeaderInv'
    <2>1. ASSUME NEW q \in Requests
          PROVE  /\ Leads(request'[q]) <=> Leads(request[q])
                 /\ Leads(request[q]) => request'[q].media = request[q].media
                 /\ request'[q].at = "follow" => request'[q] = request[q]
        <3>1. CASE q = r  BY <1>3, <1>6, <1>10, <1>11, <3>1
        <3>2. CASE q # r  BY <1>11, <3>2
        <3> QED  BY <3>1, <3>2
    <2>2. UNCHANGED inflight  BY <1>2
    <2> QED  BY <2>1, <2>2, LeaderKeeps
<1> QED  BY <1>13, <1>14, <1>16, <1>17 DEF MediaInv

\* The process dies: the parts of files stay, and nothing else.
LEMMA NothingRuns ==
    ASSUME D!SizesAssumption
    PROVE  /\ D!Idle \in Phases /\ ~Leads(D!Idle) /\ D!Idle.at = "idle"
           /\ AllowedTo(D!Idle) = 0 /\ PromisedTo(D!Idle) = 0
           /\ \A w, S : (\A x \in S : w[x] = 0) => Sum(w, S) = 0
<1>1. ASSUME NEW w, NEW S, \A x \in S : w[x] = 0  PROVE Sum(w, S) = 0
    <2>1. Units(w, S) = {}  BY <1>1 DEF Units
    <2>2. Cardinality({}) = 0  BY FS_EmptySet
    <2> QED  BY <2>1, <2>2 DEF Sum
<1> QED  BY <1>1, AnswerIsFree DEF D!Idle

LEMMA DiedKeeps ==
    ASSUME D!SizesAssumption, MediaInv, D!Crash
    PROVE  MediaInv'
<1>1. RequestTypes /\ StateTypes /\ DirectoryTypes /\ PromiseInv /\ Quota \in Nat
    BY DEF MediaInv, D!SizesAssumption
<1>2. /\ leftovers' = leftovers + Sum(D!Parts, Requests)
      /\ request' = [r \in Requests |-> D!Idle]
      /\ lock' = None /\ inflight' = {} /\ reserved' = 0 /\ UNCHANGED <<saved, D!state>>
    BY SizeInD DEF D!Crash, D!Bytes, Sum, Units
<1>3. /\ Sum(Allowed, Requests)' = 0 /\ Sum(Promised, Requests)' = 0
      /\ \A r \in Requests : /\ request'[r] \in Phases /\ ~Leads(request'[r])
                             /\ request'[r].at = "idle"
    <2>1. \A r \in Requests : Allowed'[r] = 0 /\ Promised'[r] = 0
        BY <1>2, NothingRuns DEF Allowed, Promised
    <2>2. Sum(Allowed', Requests) = 0 /\ Sum(Promised', Requests) = 0
        BY <2>1, NothingRuns
    <2>3. /\ Sum(Allowed, Requests)' = Sum(Allowed', Requests)
          /\ Sum(Promised, Requests)' = Sum(Promised', Requests)
        BY DEF Sum, Units
    <2> QED  BY <1>2, <2>2, <2>3, NothingRuns
<1>4. /\ Sum(D!Parts, Requests) \in Nat /\ Sum(Allowed, Requests) \in Nat /\ Disk \in Nat
      /\ Sum(D!Parts, Requests) <= Sum(Allowed, Requests) /\ Sum(Size, D!ToSet(saved)) \in Nat
    BY <1>1, SumsOrdered
<1>5. None \notin Requests  BY DEF D!SizesAssumption
<1>6. RequestTypes'  BY <1>2, <1>3, <1>5 DEF RequestTypes
<1>7. StateTypes'  BY <1>1, <1>2 DEF StateTypes, D!state
<1>8. DirectoryTypes'  BY <1>1, <1>2, <1>4 DEF DirectoryTypes
<1>9. PromiseInv'
    <2>1. Disk' = Sum(Size, D!ToSet(saved)) + leftovers' /\ leftovers \in Nat
          /\ Disk = Sum(Size, D!ToSet(saved)) + leftovers
        BY <1>1, <1>2 DEF Disk, Sum, Units, D!ToSet, DirectoryTypes
    <2>2. Disk + Sum(Allowed, Requests) <= Quota  BY <1>1 DEF PromiseInv
    <2>3. Disk' + 0 <= Quota  BY <1>1, <1>2, <1>4, <2>1, <2>2
    <2> QED  BY <1>2, <1>3, <2>3 DEF PromiseInv
<1>10. LeaderInv'  BY <1>2, <1>3 DEF LeaderInv
<1> QED  BY <1>6, <1>7, <1>8, <1>9, <1>10 DEF MediaInv

LEMMA MediaStarts ==
    ASSUME D!SizesAssumption, D!Init
    PROVE  MediaInv
<1>1. /\ saved = <<>> /\ leftovers = 0 /\ record = [m \in Media |-> None] /\ imported = {}
      /\ selected = None /\ request = [r \in Requests |-> D!Idle]
      /\ lock = None /\ inflight = {} /\ reserved = 0
    BY DEF D!Init
<1>2. /\ Sum(Allowed, Requests) = 0 /\ Sum(Promised, Requests) = 0
      /\ \A r \in Requests : /\ request[r] \in Phases /\ ~Leads(request[r])
                             /\ request[r].at = "idle"
    <2>1. \A r \in Requests : Allowed[r] = 0 /\ Promised[r] = 0
        BY <1>1, NothingRuns DEF Allowed, Promised
    <2> QED  BY <1>1, <2>1, NothingRuns
<1>3. None \notin Requests /\ Quota \in Nat  BY DEF D!SizesAssumption
<1>4. RequestTypes  BY <1>1, <1>2, <1>3 DEF RequestTypes
<1>5. StateTypes /\ DirectoryTypes  BY <1>1 DEF StateTypes, DirectoryTypes, Distinct
<1>6. Disk = 0
    <2>1. D!ToSet(saved) = {}  BY <1>1 DEF D!ToSet
    <2>2. Sum(Size, D!ToSet(saved)) = 0  BY <2>1, NothingRuns
    <2> QED  BY <1>1, <2>2 DEF Disk
<1>7. PromiseInv  BY <1>1, <1>2, <1>3, <1>6 DEF PromiseInv
<1>8. LeaderInv  BY <1>1, <1>2 DEF LeaderInv
<1> QED  BY <1>4, <1>5, <1>7, <1>8 DEF MediaInv

LEMMA MediaInvariant ==
    ASSUME D!SizesAssumption
    PROVE  D!Spec => []MediaInv
<1>1. D!Init => MediaInv  BY MediaStarts
<1>2. MediaInv /\ [D!Next]_(D!vars) => MediaInv'
    <2> SUFFICES ASSUME MediaInv, [D!Next]_(D!vars)  PROVE MediaInv'  OBVIOUS
    <2>1. ASSUME NEW r \in Requests, NEW m \in Media, D!ApplySaved(r, m) \/ D!ApplyOnline(r, m)
          PROVE  MediaInv'
        BY <2>1, ApplyKeeps, OnlineKeeps
    <2>2. ASSUME NEW r \in Requests, NEW f \in Picks, D!ApplyImported(r, f) \/ D!Import(r, f)
          PROVE  MediaInv'
        BY <2>2, ApplyKeeps, ImportKeeps
    <2>3. ASSUME NEW r \in Requests,
                 \/ D!Permit(r) \/ D!Reserve(r) \/ D!Unmeasured(r) \/ D!Sweep(r) \/ D!Reserved(r)
                 \/ D!Receive(r) \/ D!Finish(r) \/ D!Fail(r) \/ D!Release(r)
                 \/ D!Publish(r) \/ D!GiveUp(r) \/ D!Register(r) \/ D!Refused(r) \/ D!Drop(r)
          PROVE  MediaInv'
        <3>1. CASE D!Permit(r) \/ D!Receive(r) \/ D!Fail(r) \/ D!Drop(r)  BY <3>1, TransferKeeps
        <3>2. CASE D!Unmeasured(r)  BY <3>2, TransferKeeps, RegisterKeeps
        <3>3. CASE D!Reserve(r)  BY <3>3, ReserveKeeps
        <3>4. CASE D!Sweep(r)  BY <3>4, SweepKeeps
        <3>5. CASE D!Reserved(r)  BY <3>5, ReservedKeeps
        <3>6. CASE D!Finish(r)  BY <3>6, FinishKeeps
        <3>7. CASE D!Release(r)  BY <3>7, ReleaseKeeps
        <3>8. CASE D!Publish(r)  BY <3>8, PublishedKeeps
        <3>9. CASE D!GiveUp(r) \/ D!Refused(r)  BY <3>9, ApplyKeeps
        <3>10. CASE D!Register(r)  BY <3>10, RegisterKeeps
        <3> QED  BY <2>3, <3>1, <3>2, <3>3, <3>4, <3>5, <3>6, <3>7, <3>8, <3>9, <3>10
    <2>4. CASE D!Cancel  BY <2>4, CancelKeeps
    <2>5. CASE D!Crash  BY <2>5, DiedKeeps
    <2>6. CASE UNCHANGED D!vars
        <3>1. UNCHANGED <<saved, leftovers, record, imported, selected, request, lock,
                          inflight, reserved>>
            BY <2>6 DEF D!vars, D!state, D!registry
        <3>2. StateTypes' /\ DirectoryTypes' /\ RequestTypes' /\ LeaderInv'
            BY <3>1 DEF MediaInv, StateTypes, DirectoryTypes, RequestTypes, LeaderInv
        <3>3. \A q \in Requests : AllowedTo(request[q]) <= AllowedTo(request[q])
            BY TermsOrdered DEF MediaInv, RequestTypes
        <3>4. PromiseInv'  BY <3>1, <3>2, <3>3, PromiseKeeps
        <3> QED  BY <3>2, <3>4 DEF MediaInv
    <2> QED  BY <2>1, <2>2, <2>3, <2>4, <2>5, <2>6 DEF D!Next
<1> QED  BY <1>1, <1>2, PTL DEF D!Spec

\* game_media.rs: the directory never holds more than the quota.
THEOREM QuotaIsHeld ==
    ASSUME D!SizesAssumption
    PROVE  D!Spec => []D!QuotaHolds
<1>1. ASSUME MediaInv  PROVE D!QuotaHolds
    <2>1. /\ Sum(D!Parts, Requests) \in Nat /\ Sum(Allowed, Requests) \in Nat /\ Disk \in Nat
          /\ Sum(D!Parts, Requests) <= Sum(Allowed, Requests)
        BY <1>1, SumsOrdered DEF MediaInv
    <2>2. D!Usage = Disk + Sum(D!Parts, Requests)
        BY SizeInD DEF D!Usage, Disk, D!Bytes, Sum, Units
    <2>3. Disk + Sum(Allowed, Requests) <= Quota /\ Quota \in Nat
        BY <1>1 DEF MediaInv, PromiseInv, D!SizesAssumption
    <2> QED  BY <2>1, <2>2, <2>3 DEF D!QuotaHolds
<1>2. MediaInv => D!QuotaHolds  BY <1>1
<1> QED  BY <1>2, MediaInvariant, PTL

\* game_media.rs: every download in the registry has one leader, every follower a download.
THEOREM DownloadsAreLed ==
    ASSUME D!SizesAssumption
    PROVE  D!Spec => []D!EntriesHaveLeader
<1>1. ASSUME MediaInv  PROVE D!EntriesHaveLeader
    <2>1. LeaderInv  BY <1>1 DEF MediaInv
    <2>2. ASSUME NEW m \in inflight
          PROVE  Cardinality({r \in Requests : D!Downloading(r) /\ request[r].media = m}) = 1
        <3>1. PICK r \in Requests : Leads(request[r]) /\ request[r].media = m
            BY <2>1, <2>2 DEF LeaderInv
        <3>2. {q \in Requests : D!Downloading(q) /\ request[q].media = m} = {r}
            BY <2>1, <3>1 DEF LeaderInv, D!Downloading, Leads
        <3> QED  BY <3>2, FS_Singleton
    <2> QED  BY <2>1, <2>2, SizeInD DEF LeaderInv, D!EntriesHaveLeader, D!At
<1>2. MediaInv => D!EntriesHaveLeader  BY <1>1
<1> QED  BY <1>2, MediaInvariant, PTL
===============================================================================
