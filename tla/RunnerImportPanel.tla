-------------------------- MODULE RunnerImportPanel --------------------------
(****************************************************************************)
(* The import of a runner's games as its panel sees it: the table of jobs   *)
(* and their workers (src-tauri/src/runner_commands.rs), and the panel that *)
(* starts, watches and cancels one (runner-manager.ts, runner-view.ts).     *)
(*                                                                          *)
(* One profile is on the panel.  The jobs of other profiles share the       *)
(* table.  What an import does to the library is RunnerProfiles.  A poll    *)
(* that is not of the current generation does nothing more, and is dropped  *)
(* here when the generation moves on.                                       *)
(****************************************************************************)
EXTENDS Naturals, FiniteSets

CONSTANTS
    Tasks,     \* the calls and polls of the panel under way at one time
    Jobs,      \* the jobs that may be made, a range from 1
    MaxJobs,   \* MAX_IMPORT_JOBS
    None

PanelAssumption ==
    MaxJobs \in Nat \ {0} /\ IsFiniteSet(Jobs) /\ Jobs = 1..Cardinality(Jobs)

VARIABLES
    table,      \* ThirdPartyRunnerService::jobs
    phase,      \* RunnerImportState::phase of each job
    ours,       \* the jobs whose profile_id is the panel's
    flagged,    \* cancelled, of each job
    worker,     \* the jobs with a thread
    shown,      \* jobs, in the panel: the view of the profile's import
    task,       \* what the panel waits for
    finding,    \* findingArtwork
    deleted     \* the profile is gone

vars == <<table, phase, ours, flagged, worker, shown, task, finding, deleted>>

Host == <<table, phase, ours, flagged, worker>>
Screen == <<shown, finding>>

Ended == {"ready", "cancelled", "failed"}

View(j, p) == [job |-> j, phase |-> p]
Error == View(None, "error")
Idle == [kind |-> "none", at |-> "idle", job |-> None, answer |-> None]

------------------------------------------------------------------------------
(* The jobs *)

Made == {j \in Jobs : phase[j] # "none"}

\* Mutant: any job makes place, and not only one that has ended.
MakesPlaceAny ==
    IF Cardinality(table) < MaxJobs THEN {table} ELSE {table \ {j} : j \in table}

\* While the table is full, the first job that has ended goes: the ids are
\* digests, so it may be any of them.
MakesPlace ==
    IF Cardinality(table) < MaxJobs THEN {table}
    ELSE {table \ {j} : j \in {k \in table : phase[k] \in Ended}}

NewJob == Cardinality(Made) + 1

\* start_import: a thread that cannot be spawned leaves its job behind.
Starts(mine, spawned) ==
    /\ NewJob \in Jobs
    /\ table' \in {kept \cup {NewJob} : kept \in MakesPlace}
    /\ phase' = [phase EXCEPT ![NewJob] = "running"]
    /\ ours' = IF mine THEN ours \cup {NewJob} ELSE ours
    /\ worker' = IF spawned THEN worker \cup {NewJob} ELSE worker
    /\ UNCHANGED flagged

\* An import of another profile.
StartOther ==
    /\ \E spawned \in BOOLEAN : Starts(FALSE, spawned)
    /\ UNCHANGED <<Screen, task, deleted>>

\* import_now returns and finish records how: cancelled, if it saw the flag.
Finish(j) ==
    /\ j \in worker
    /\ worker' = worker \ {j}
    /\ \E outcome \in IF j \in flagged THEN Ended ELSE Ended \ {"cancelled"} :
         phase' = [phase EXCEPT ![j] = outcome]
    /\ UNCHANGED <<table, ours, flagged, Screen, task, deleted>>

------------------------------------------------------------------------------
(* The commands, of which the panel awaits the answer *)

Answer(t, view) == task' = [task EXCEPT ![t].at = "answered", ![t].answer = view]

\* start_runner_import: start_import, which is refused with no job to drop or no
\* profile, and then the status of the job it made.
StartCommand(t) ==
    /\ task[t].kind = "start" /\ task[t].at = "asked"
    /\ \/ /\ ~deleted /\ Starts(TRUE, TRUE)
          /\ task' = [task EXCEPT ![t].at = "started", ![t].job = NewJob]
       \/ /\ ~deleted /\ Starts(TRUE, FALSE)
          /\ Answer(t, Error)
       \/ /\ deleted \/ MakesPlace = {}
          /\ Answer(t, Error)
          /\ UNCHANGED Host
    /\ UNCHANGED <<Screen, deleted>>

StatusOf(j) == IF j \in table THEN View(j, phase[j]) ELSE Error

\* import_status, for the start or for a poll.
StatusCommand(t) ==
    /\ \/ task[t].at = "started"
       \/ task[t].kind = "poll" /\ task[t].at = "asked"
    /\ Answer(t, StatusOf(task[t].job))
    /\ UNCHANGED <<Host, Screen, deleted>>

\* cancel_import: it answers at once, and the worker looks when it can.
CancelCommand(t) ==
    /\ task[t].kind = "cancel" /\ task[t].at = "asked"
    /\ flagged' = flagged \cup ({task[t].job} \cap table)
    /\ Answer(t, StatusOf(task[t].job))
    /\ UNCHANGED <<table, phase, ours, worker, Screen, deleted>>

\* delete_profile: cancel_jobs_for_profile, and then the commit.
DeleteCommand(t) ==
    /\ task[t].kind = "delete"
    /\ \/ /\ task[t].at = "asked"
          /\ flagged' = flagged \cup (ours \cap table)
          /\ task' = [task EXCEPT ![t].at = "commit"]
          /\ UNCHANGED deleted
       \/ /\ task[t].at = "commit"
          /\ deleted' = TRUE
          /\ task' = [task EXCEPT ![t] = Idle]
          /\ UNCHANGED flagged
    /\ UNCHANGED <<table, phase, ours, worker, Screen>>

------------------------------------------------------------------------------
(* The panel *)

IsRunning == shown # None /\ shown.phase = "running"

\* invalidatePoll: no poll acts again until one is scheduled.
Invalidated == [t \in Tasks |-> IF task[t].kind = "poll" THEN Idle ELSE task[t]]

\* A click that calls a command.
Click(kind, j) ==
    \E t \in Tasks :
        /\ Invalidated[t] = Idle
        /\ task' = [Invalidated EXCEPT ![t] = [Idle EXCEPT !.kind = kind, !.at = "asked", !.job = j]]

\* The button starts an import when none is shown, none is being started and no
\* artwork is looked for.
StartImport ==
    /\ ~IsRunning /\ ~finding /\ ~deleted
    /\ \A t \in Tasks : task[t].kind # "start"
    /\ Click("start", None)
    /\ UNCHANGED <<Host, Screen, deleted>>

\* And cancels the one it shows, as often as it is clicked.
CancelImport ==
    /\ IsRunning /\ ~deleted
    /\ Click("cancel", shown.job)
    /\ UNCHANGED <<Host, Screen, deleted>>

\* setLaunchMode: the card stops showing the import.
SetLaunchMode ==
    /\ ~deleted
    /\ task' = Invalidated
    /\ shown' = None
    /\ UNCHANGED <<Host, finding, deleted>>

DeleteProfile ==
    /\ ~deleted /\ \A t \in Tasks : task[t].kind # "delete"
    /\ Click("delete", None)
    /\ shown' = None /\ finding' = FALSE
    /\ UNCHANGED <<Host, deleted>>

\* poll: the timer fires.
Fire(t) ==
    /\ task[t].kind = "poll" /\ task[t].at = "armed"
    /\ task' = [task EXCEPT ![t].at = "asked"]
    /\ UNCHANGED <<Host, Screen, deleted>>

Polls(t, j) == task' = [task EXCEPT ![t] = [Idle EXCEPT !.kind = "poll", !.at = "armed", !.job = j]]

\* Mutant: an answer to a cancel ends the watching, whatever it says.
WatchesUnlessCancelled(t, view) == view.phase = "running" /\ task[t].kind # "cancel"

\* A job that still runs is polled again, whichever call was answered.
WatchesOn(t, view) == view.phase = "running"

\* The answer is shown, and a call that failed is shown as an import that did.
\* A poll that sees the end reads the runners again before it looks for artwork.
Answered(t) ==
    /\ task[t].at = "answered"
    /\ LET view == task[t].answer IN
       IF view = Error
       THEN /\ shown' = View(IF task[t].kind = "cancel" THEN task[t].job ELSE None, "failed")
            /\ task' = [task EXCEPT ![t] = Idle]
       ELSE /\ shown' = view
            /\ IF WatchesOn(t, view)
               THEN Polls(t, task[t].job)
               ELSE task' = [task EXCEPT ![t] =
                      IF task[t].kind = "poll" /\ view.phase = "ready"
                      THEN [Idle EXCEPT !.kind = "artwork", !.at = "refresh"] ELSE Idle]
    /\ UNCHANGED <<Host, finding, deleted>>

\* What was shown as ready has its artwork looked for, once its games are read.
FindArtwork(t) ==
    /\ task[t].kind = "artwork"
    /\ \/ /\ task[t].at = "refresh"
          /\ finding' = TRUE
          /\ task' = [task EXCEPT ![t].at = "fetch"]
       \/ /\ task[t].at = "fetch"
          /\ finding' = FALSE
          /\ task' = [task EXCEPT ![t] = Idle]
    /\ UNCHANGED <<Host, shown, deleted>>

------------------------------------------------------------------------------

Init ==
    /\ table = {} /\ ours = {} /\ flagged = {} /\ worker = {}
    /\ phase = [j \in Jobs |-> "none"]
    /\ shown = None
    /\ task = [t \in Tasks |-> Idle]
    /\ finding = FALSE /\ deleted = FALSE

Next ==
    \/ StartOther
    \/ \E j \in Jobs : Finish(j)
    \/ \E t \in Tasks :
        \/ StartCommand(t) \/ StatusCommand(t) \/ CancelCommand(t) \/ DeleteCommand(t)
        \/ Fire(t) \/ Answered(t) \/ FindArtwork(t)
    \/ StartImport \/ CancelImport \/ SetLaunchMode \/ DeleteProfile

Spec == Init /\ [][Next]_vars
------------------------------------------------------------------------------
(* Properties *)

TypeOK ==
    /\ table \subseteq Jobs /\ ours \subseteq Jobs /\ flagged \subseteq Jobs /\ worker \subseteq Jobs
    /\ Cardinality(table) <= MaxJobs
    /\ phase \in [Jobs -> {"none", "running"} \cup Ended]
    /\ shown = None \/ shown.phase \in {"running"} \cup Ended
    /\ \A t \in Tasks : task[t].job \in Jobs \cup {None}
    /\ finding \in BOOLEAN /\ deleted \in BOOLEAN

\* An import shown as running has a poll or a call that will move it ("otherwise
\* the panel is left showing a job that will never move again on its own"), and
\* the host still answers for it while it runs.
RunningIsWatched ==
    /\ IsRunning => \E t \in Tasks : task[t].kind \in {"start", "cancel", "poll"}
    /\ worker \subseteq table

\* What is shown as over is over, the way it is shown, whichever answers crossed.
EndIsTrue ==
    shown # None /\ shown.phase \in {"ready", "cancelled"} => phase[shown.job] = shown.phase
=============================================================================
