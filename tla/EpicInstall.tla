---------------------------- MODULE EpicInstall ----------------------------
(****************************************************************************)
(* The Epic games a phone installs itself (src-tauri/src/epic_android.rs),  *)
(* over the resumable download of src-tauri/src/epic_download.rs.           *)
(*                                                                          *)
(* Every game has one background task, started by a command and stopped by  *)
(* a flag; removals are commands of their own; the file of records is read  *)
(* and written back with no lock.  One action is one critical section of    *)
(* the service, or one call that reaches the disk.  The program may stop    *)
(* between any two, and the store may publish a newer build of a game.      *)
(****************************************************************************)
EXTENDS Naturals, FiniteSets

CONSTANTS
    Games,
    Files,        \* of every build: what differs is their content
    Versions,     \* how many builds of a game are published, in order
    JournalEvery, \* JOURNAL_EVERY_FILES
    Titled,       \* the folder a game's title gives: folder_name
    Suffixed,     \* the same with the game's own name appended
    Absent

BuildsAssumption == Versions \in Nat \ {0} /\ JournalEvery \in Nat \ {0}

Folders == {Titled[g] : g \in Games} \cup {Suffixed[g] : g \in Games}

\* What a file holds: a whole build of it, or less than one.  Builds of a file
\* are taken to be of one size, so that the size alone tells nothing.
Cut == 0
Content == 0..Versions

ValuesAssumption == Absent \notin Content /\ Absent \notin Folders

VARIABLES
    \* Epic's side
    current,    \* the newest build of each game
    \* the disk, which outlives the program
    file,       \* what each folder holds under the final name
    part,       \* and under the name with the suffix .orivo-part
    journal,    \* the journal of each folder
    records,    \* epic-installs.json
    \* memory
    asking,     \* the games whose install was asked and found no record
    task,       \* the background task of each game; its entry in `jobs` while it is not idle
    cancelled,  \* the flag of the task
    remover,    \* the command that uninstalls, one at a time
    \* for the properties only
    disturbed   \* the games whose folder was removed under their running task

vars == <<current, file, part, journal, records, asking, task, cancelled, remover, disturbed>>
disk == <<file, part, journal>>

NoJournal == [version |-> 0, complete |-> {}]
Journal == [version : 0..Versions, complete : SUBSET Files]
Record == [version : 1..Versions, folder : Folders]
Records == [Games -> Record \cup {Absent}]

Idle == [at |-> "idle"]
NoCommand == [at |-> "idle"]
NoFiles == [f \in Files |-> Absent]

\* A task: the build its manifest describes, the files still to write, the names
\* it will journal, how many since the last journal, and the records it read.
Task == [at : {"choose", "manifest", "plan", "file", "write", "rename", "journal",
               "record", "save", "leave"},
         folder : Folders \cup {Absent}, version : 0..Versions, todo : SUBSET Files,
         complete : SUBSET Files, since : 0..JournalEvery,
         writing : Files \cup {Absent}, held : Records \cup {Absent}]

At(g, at) == task[g].at = at
Goto(g, at) == task' = [task EXCEPT ![g].at = at]
Folder(g) == task[g].folder

------------------------------------------------------------------------------
(* Starting and stopping: start_install, cancel *)

PublishBuild(g) ==
    /\ current[g] < Versions
    /\ current' = [current EXCEPT ![g] = @ + 1]
    /\ UNCHANGED <<disk, records, asking, task, cancelled, remover, disturbed>>

AskInstall(g) ==
    /\ g \notin asking /\ records[g] = Absent
    /\ asking' = asking \cup {g}
    /\ UNCHANGED <<current, disk, records, task, cancelled, remover, disturbed>>

\* Under the lock: a game that is already downloading is left to its task.
RegisterJob(g) ==
    /\ g \in asking
    /\ asking' = asking \ {g}
    /\ IF At(g, "idle")
       THEN /\ task' = [task EXCEPT ![g] =
                  [at |-> "choose", folder |-> Absent, version |-> 0, todo |-> {},
                   complete |-> {}, since |-> 0, writing |-> Absent, held |-> Absent]]
            /\ cancelled' = cancelled \ {g}
            /\ disturbed' = disturbed \ {g}
       ELSE UNCHANGED <<task, cancelled, disturbed>>
    /\ UNCHANGED <<current, disk, records, remover>>

\* unique_folder looks at the games that are recorded.
UniqueFolder(g) ==
    IF \E h \in Games \ {g} : records[h] # Absent /\ records[h].folder = Titled[g]
    THEN Suffixed[g] ELSE Titled[g]

ChooseFolder(g) ==
    /\ At(g, "choose")
    /\ task' = [task EXCEPT ![g].at = "manifest", ![g].folder = UniqueFolder(g)]
    /\ UNCHANGED <<current, disk, records, asking, cancelled, remover, disturbed>>

Cancel(g) ==
    /\ ~At(g, "idle") /\ g \notin cancelled
    /\ cancelled' = cancelled \cup {g}
    /\ UNCHANGED <<current, disk, records, asking, task, remover, disturbed>>

\* The entry leaves `jobs` once the download has returned, however it ended.
LeaveJob(g) ==
    /\ At(g, "leave")
    /\ task' = [task EXCEPT ![g] = Idle]
    /\ cancelled' = cancelled \ {g}
    /\ UNCHANGED <<current, disk, records, asking, remover, disturbed>>

------------------------------------------------------------------------------
(* The download: download, plan_install, install_build *)

\* Any await or call of the disk may fail and end the download there.
Fail(g) ==
    /\ task[g].at \in {"manifest", "plan", "file", "write", "rename", "journal", "record", "save"}
    /\ Goto(g, "leave")
    /\ UNCHANGED <<current, disk, records, asking, cancelled, remover, disturbed>>

FetchManifest(g) ==
    /\ At(g, "manifest")
    /\ task' = [task EXCEPT ![g].at = "plan", ![g].version = current[g]]
    /\ UNCHANGED <<current, disk, records, asking, cancelled, remover, disturbed>>

\* Mutant: the names journaled for whichever build.
ReadAnyJournal(folder, version) == journal[folder].complete

\* read_journal: the names journaled for this very build.
ReadJournal(folder, version) ==
    IF journal[folder].version = version THEN journal[folder].complete ELSE {}

\* A file is left alone when it is journaled and there with its size.
PlanInstall(g) ==
    LET done == ReadJournal(Folder(g), task[g].version)
    IN  /\ At(g, "plan")
        /\ task' = [task EXCEPT ![g].at = "file", ![g].complete = done,
               ![g].todo = {f \in Files : f \notin done \/ file[Folder(g)][f] = Absent}]
        /\ UNCHANGED <<current, disk, records, asking, cancelled, remover, disturbed>>

\* write_journal: written aside, then renamed.
WriteJournal(g) ==
    journal' = [journal EXCEPT ![Folder(g)] =
                   [version |-> task[g].version, complete |-> task[g].complete]]

\* File::create truncates what an earlier attempt left under that name.
StartFile(g, f) ==
    /\ At(g, "file") /\ g \notin cancelled /\ f \in task[g].todo
    /\ part' = [part EXCEPT ![Folder(g)][f] = Cut]
    /\ task' = [task EXCEPT ![g].at = "write", ![g].writing = f]
    /\ UNCHANGED <<current, file, journal, records, asking, cancelled, remover, disturbed>>

StopDownload(g) ==
    /\ At(g, "file") /\ g \in cancelled /\ task[g].todo # {}
    /\ WriteJournal(g)
    /\ Goto(g, "leave")
    /\ UNCHANGED <<current, file, part, records, asking, cancelled, remover, disturbed>>

\* The chunks arrive, or the digest of what was written is not the manifest's
\* and the partial file is removed.
WriteFile(g) ==
    LET f == task[g].writing
    IN  /\ At(g, "write")
        /\ \/ /\ part' = [part EXCEPT ![Folder(g)][f] = IF @ = Absent THEN @ ELSE task[g].version]
              /\ Goto(g, "rename")
           \/ /\ part' = [part EXCEPT ![Folder(g)][f] = Absent]
              /\ Goto(g, "leave")
        /\ UNCHANGED <<current, file, journal, records, asking, cancelled, remover, disturbed>>

\* A removal of the folder may have taken the partial file, and the rename fails.
RenameFile(g) ==
    LET f == task[g].writing
    IN  /\ At(g, "rename") /\ part[Folder(g)][f] # Absent
        /\ file' = [file EXCEPT ![Folder(g)][f] = part[Folder(g)][f]]
        /\ part' = [part EXCEPT ![Folder(g)][f] = Absent]
        /\ task' = [task EXCEPT ![g].at = "journal", ![g].todo = @ \ {f}, ![g].writing = Absent,
                                ![g].complete = @ \cup {f}, ![g].since = @ + 1]
        /\ UNCHANGED <<current, journal, records, asking, cancelled, remover, disturbed>>

JournalFile(g) ==
    /\ At(g, "journal")
    /\ IF task[g].since < JournalEvery
       THEN Goto(g, "file") /\ UNCHANGED journal
       ELSE WriteJournal(g) /\ task' = [task EXCEPT ![g].at = "file", ![g].since = 0]
    /\ UNCHANGED <<current, file, part, records, asking, cancelled, remover, disturbed>>

FinishFiles(g) ==
    /\ At(g, "file") /\ task[g].todo = {}
    /\ WriteJournal(g)
    /\ Goto(g, "record")
    /\ UNCHANGED <<current, file, part, records, asking, cancelled, remover, disturbed>>

\* The file of records is read, changed and written back: whatever another
\* download or removal wrote in between is written over.
ReadRecords(g) ==
    /\ At(g, "record")
    /\ task' = [task EXCEPT ![g].at = "save", ![g].held = records]
    /\ UNCHANGED <<current, disk, records, asking, cancelled, remover, disturbed>>

SaveRecord(g) ==
    /\ At(g, "save")
    /\ records' = [task[g].held EXCEPT ![g] =
                      [version |-> task[g].version, folder |-> Folder(g)]]
    /\ task' = [task EXCEPT ![g].at = "leave", ![g].held = Absent]
    /\ UNCHANGED <<current, disk, asking, cancelled, remover, disturbed>>

------------------------------------------------------------------------------
(* Removal: uninstall *)

Uninstall(g) ==
    /\ remover.at = "idle" /\ records[g] # Absent
    /\ remover' = [at |-> "remove", game |-> g, held |-> records]
    /\ cancelled' = IF At(g, "idle") THEN cancelled ELSE cancelled \cup {g}
    /\ UNCHANGED <<current, disk, records, asking, task, disturbed>>

\* A removal that fails part-way reports it and keeps the record.
RemoveFolder ==
    LET folder == remover.held[remover.game].folder
    IN  /\ remover.at = "remove"
        /\ UNCHANGED <<current, records, asking, task, cancelled>>
        /\ disturbed' = disturbed \cup {g \in Games : ~At(g, "idle") /\ Folder(g) = folder}
        /\ \/ /\ file' = [file EXCEPT ![folder] = NoFiles]
              /\ part' = [part EXCEPT ![folder] = NoFiles]
              /\ journal' = [journal EXCEPT ![folder] = NoJournal]
              /\ remover' = [remover EXCEPT !.at = "save"]
           \/ /\ \E f \in Files : file' = [file EXCEPT ![folder][f] = Absent]
              /\ UNCHANGED <<part, journal>>
              /\ remover' = NoCommand

SaveRemoval ==
    /\ remover.at = "save"
    /\ records' = [remover.held EXCEPT ![remover.game] = Absent]
    /\ remover' = NoCommand
    /\ UNCHANGED <<current, disk, asking, task, cancelled, disturbed>>

------------------------------------------------------------------------------

Crash ==
    /\ task' = [g \in Games |-> Idle]
    /\ asking' = {} /\ cancelled' = {} /\ disturbed' = {}
    /\ remover' = NoCommand
    /\ UNCHANGED <<current, disk, records>>

Init ==
    /\ current = [g \in Games |-> 1]
    /\ file = [folder \in Folders |-> NoFiles]
    /\ part = [folder \in Folders |-> NoFiles]
    /\ journal = [folder \in Folders |-> NoJournal]
    /\ records = [g \in Games |-> Absent]
    /\ task = [g \in Games |-> Idle]
    /\ remover = NoCommand
    /\ asking = {} /\ cancelled = {} /\ disturbed = {}

Download(g) ==
    \/ ChooseFolder(g) \/ FetchManifest(g) \/ PlanInstall(g)
    \/ (\E f \in Files : StartFile(g, f)) \/ StopDownload(g)
    \/ WriteFile(g) \/ RenameFile(g) \/ JournalFile(g) \/ FinishFiles(g)
    \/ ReadRecords(g) \/ SaveRecord(g) \/ LeaveJob(g)

Next ==
    \/ \E g \in Games :
        \/ PublishBuild(g) \/ AskInstall(g) \/ RegisterJob(g) \/ Cancel(g)
        \/ Download(g) \/ Fail(g) \/ Uninstall(g)
    \/ RemoveFolder \/ SaveRemoval \/ Crash

Spec == Init /\ [][Next]_vars
------------------------------------------------------------------------------
(* Properties *)

TypeOK ==
    /\ current \in [Games -> 1..Versions]
    /\ file \in [Folders -> [Files -> Content \cup {Absent}]]
    /\ part \in [Folders -> [Files -> Content \cup {Absent}]]
    /\ journal \in [Folders -> Journal]
    /\ records \in Records
    /\ task \in [Games -> Task \cup {Idle}]
    /\ asking \subseteq Games /\ cancelled \subseteq Games /\ disturbed \subseteq Games
    /\ remover \in {NoCommand} \cup [at : {"remove", "save"}, game : Games, held : Records]

\* A game is recorded as installed only with every file of the recorded build
\* in place, whatever was downloaded of this build or an earlier one before,
\* wherever it was cancelled or cut, and unless its folder was removed under
\* the running download: "a stopped download never leaves a file that looks
\* finished and is not".
RecordIsComplete ==
    \A g \in Games \ disturbed :
        records'[g] # records[g] /\ records'[g] # Absent
            => \A f \in Files : file[records'[g].folder][f] = records'[g].version
RecordedIsComplete == [][RecordIsComplete]_vars

\* "so two games called alike never write into one another".
OneGamePerFolder ==
    \A g, h \in Games :
        /\ g # h /\ ~At(g, "idle") /\ ~At(h, "idle")
        /\ Folder(g) # Absent
        => Folder(g) # Folder(h)
=============================================================================
