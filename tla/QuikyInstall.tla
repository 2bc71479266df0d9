---------------------------- MODULE QuikyInstall -----------------------------
(****************************************************************************)
(* Installing a title of an installer plugin on a desktop                   *)
(* (quiky_installer.rs): the package is downloaded into a .part file beside *)
(* its name, checked against the digest of the catalogue and renamed; then  *)
(* the publisher's own installer unpacks it under Wine into the games       *)
(* folder.  The front end asks for installs, cancels them and reads the     *)
(* progress from the table of jobs.  Nothing but files outlives the program *)
(* -- and processes: an installer is several, of which Orivo waits for and  *)
(* kills the first.                                                         *)
(*                                                                          *)
(* One title, alone in its folder.  The catalogue of the plugin may move to *)
(* a newer package of it.  The server of Wine is there and ends within its  *)
(* deadline.                                                                *)
(****************************************************************************)
EXTENDS Naturals

CONSTANTS Tasks,     \* installs that may exist at once
          Chunks,    \* pieces a download arrives in
          Versions,  \* bound: packages the catalogue names one after the other
          None

Active == {"queued", "downloading", "extracting"}
Jobs == [task : Tasks, phase : Active \cup {"installed", "cancelled", "failed"}]
Parts == [by : Tasks, got : 0..Chunks, whole : BOOLEAN]

InstallAssumption ==
    /\ Chunks \in Nat \ {0} /\ Versions \in Nat \ {0}
    /\ None \notin Jobs \cup Parts

VARIABLES listed,       \* the newest version of the catalogue
          job,          \* the entry of the table of jobs
          task,         \* what each install is doing
          cancelled,    \* installs whose flag is set
          part,         \* setup.exe.part
          package,      \* setup.exe
          destination,  \* the folder of the game
          orphan        \* an installer runs that no install waits for

vars == <<listed, job, task, cancelled, part, package, destination, orphan>>

Idle == [at |-> "idle", version |-> 0, got |-> 0, attempt |-> 0]

Init ==
    /\ listed = 1 /\ job = None /\ task = [t \in Tasks |-> Idle] /\ cancelled = {}
    /\ part = None /\ package = None /\ destination = None /\ orphan = FALSE

\* publish writes the entry of the title, whichever install made it.
Publish(phase) == job' = IF job = None THEN None ELSE [job EXCEPT !.phase = phase]

Moves(t, place) == task' = [task EXCEPT ![t].at = place]

\* The install returns an error, published by what its flag says.
Fails(t) ==
    /\ Publish(IF t \in cancelled THEN "cancelled" ELSE "failed")
    /\ task' = [task EXCEPT ![t] = Idle]

\* Mutant: an install that has not begun to download is not busy.
StartQueued(t) ==
    /\ task[t].at = "idle"
    /\ job # None => job.phase \notin {"downloading", "extracting"}
    /\ \E version \in 1..listed :
          task' = [task EXCEPT ![t] = [at |-> "queued", version |-> version,
                                       got |-> 0, attempt |-> 1]]
    /\ job' = [task |-> t, phase |-> "queued"]
    /\ cancelled' = cancelled \ {t}
    /\ UNCHANGED <<listed, part, package, destination, orphan>>

\* start_quiky_install.  The title was read before the table is locked.
Start(t) ==
    /\ task[t].at = "idle"
    /\ job # None => job.phase \notin Active
    /\ \E version \in 1..listed :
          task' = [task EXCEPT ![t] = [at |-> "queued", version |-> version,
                                       got |-> 0, attempt |-> 1]]
    /\ job' = [task |-> t, phase |-> "queued"]
    /\ cancelled' = cancelled \ {t}
    /\ UNCHANGED <<listed, part, package, destination, orphan>>

\* cancel_quiky_install.
Cancel ==
    /\ job # None
    /\ cancelled' = cancelled \cup {job.task}
    /\ UNCHANGED <<listed, job, task, part, package, destination, orphan>>

Whole(version) == [version |-> version, whole |-> TRUE]

\* Mutant: a package that is there is used again.
ReuseAny(t) ==
    /\ task[t].at = "queued" /\ package # None
    /\ Moves(t, "ready") /\ Publish("downloading")
    /\ UNCHANGED <<listed, cancelled, part, package, destination, orphan>>

\* A package that has the size and the digest of the title is used again.
Reuse(t) ==
    /\ task[t].at = "queued" /\ package = Whole(task[t].version)
    /\ Moves(t, "ready") /\ Publish("downloading")
    /\ UNCHANGED <<listed, cancelled, part, package, destination, orphan>>

\* The source answers; the .part file is made, or emptied.
Connect(t) ==
    /\ task[t].at = "queued" /\ package # Whole(task[t].version)
    /\ Moves(t, "receiving") /\ Publish("downloading")
    /\ part' = [by |-> t, got |-> 0, whole |-> TRUE]
    /\ UNCHANGED <<listed, cancelled, package, destination, orphan>>

\* A piece arrives.  A file that is not there is written to all the same.
Receive(t) ==
    /\ task[t].at = "receiving" /\ t \notin cancelled /\ task[t].got < Chunks
    /\ task' = [task EXCEPT ![t].got = @ + 1]
    /\ part' = CASE part = None -> None
                 [] part # None /\ part.by = t -> [part EXCEPT !.got = @ + 1]
                 [] OTHER -> [part EXCEPT !.whole = FALSE]
    /\ UNCHANGED <<listed, job, cancelled, package, destination, orphan>>

\* The flag is set when a piece arrives, or the bytes are not those promised:
\* the .part file goes, if it can be removed.
Reject(t) ==
    /\ task[t].at = "receiving"
    /\ Fails(t) /\ part' \in {None, part}
    /\ UNCHANGED <<listed, cancelled, package, destination, orphan>>

\* The source refuses, the connection breaks, the disk is full: it stays.
Interrupted(t) ==
    /\ task[t].at \in {"queued", "receiving"} /\ Fails(t)
    /\ UNCHANGED <<listed, cancelled, part, package, destination, orphan>>

\* The stream ended with the digest promised: the file is renamed, if it can be.
Store(t) ==
    /\ task[t].at = "receiving" /\ task[t].got = Chunks
    /\ \/ Fails(t) /\ UNCHANGED <<part, package>>
       \/ /\ part # None
          /\ package' = [version |-> task[t].version,
                         whole |-> part.whole /\ part.by = t /\ part.got = Chunks]
          /\ part' = None
          /\ Moves(t, "ready") /\ Publish("downloading")
    /\ UNCHANGED <<listed, cancelled, destination, orphan>>

\* stop_wineserver: every process of the prefix of the title ends.
StopServer == orphan' = FALSE

\* A virgin prefix, bootstrapped, and an empty folder, if what it had can be removed.
Prepare(t) ==
    /\ task[t].at = "ready"
    /\ StopServer /\ destination' \in {"empty", IF destination = "files" THEN "files" ELSE "empty"}
    /\ Moves(t, "prepared") /\ Publish("extracting")
    /\ UNCHANGED <<listed, cancelled, part, package>>

\* No Wine, a prefix that cannot be made or that was cancelled, no folder.
PrepareFails(t) ==
    /\ task[t].at = "ready" /\ Fails(t)
    /\ \/ UNCHANGED <<orphan, destination>>
       \/ StopServer /\ destination' \in {destination, None}
    /\ UNCHANGED <<listed, cancelled, part, package>>

\* Mutant: the server of the prefix is stopped once, when it is prepared.
AttemptAtOnce(t) ==
    /\ task[t].at = "prepared"
    /\ IF t \in cancelled
       THEN Fails(t)
       ELSE Moves(t, "running") /\ UNCHANGED job
    /\ UNCHANGED <<listed, cancelled, part, package, destination, orphan>>

\* An attempt begins, or the flag is set.
Attempt(t) ==
    /\ task[t].at = "prepared"
    /\ IF t \in cancelled
       THEN Fails(t) /\ UNCHANGED orphan
       ELSE Moves(t, "running") /\ StopServer /\ UNCHANGED job
    /\ UNCHANGED <<listed, cancelled, part, package, destination>>

\* Whatever runs in the prefix writes into the folder.
Write ==
    /\ orphan \/ \E t \in Tasks : task[t].at = "running"
    /\ destination # None /\ destination' = "files"
    /\ UNCHANGED <<listed, job, task, cancelled, part, package, orphan>>

\* The installer reports success over a folder that has files.
Succeeds(t) ==
    /\ task[t].at = "running" /\ destination = "files"
    /\ StopServer
    /\ Publish("installed") /\ task' = [task EXCEPT ![t] = Idle]
    /\ UNCHANGED <<listed, cancelled, part, package, destination>>

\* It fails, leaves nothing, or is killed for its time: once more, and then the
\* folder goes if it is empty.  The flag is not looked at where it left nothing.
AttemptFails(t) ==
    /\ task[t].at = "running"
    /\ t \in cancelled => destination # "files"
    /\ \/ task[t].attempt = 1
          /\ task' = [task EXCEPT ![t].at = "prepared", ![t].attempt = 2]
          /\ orphan' \in BOOLEAN
          /\ UNCHANGED <<job, destination>>
       \/ task[t].attempt = 2
          /\ Fails(t) /\ StopServer
          /\ destination' = IF destination = "empty" THEN None ELSE destination
    /\ UNCHANGED <<listed, cancelled, part, package>>

\* The flag is seen: the process is killed, and those it started live on.
Kill(t) ==
    /\ task[t].at = "running" /\ t \in cancelled
    /\ Fails(t) /\ orphan' \in BOOLEAN
    /\ UNCHANGED <<listed, cancelled, part, package, destination>>

\* What was left running ends.
OrphanEnds ==
    /\ orphan /\ orphan' = FALSE
    /\ UNCHANGED <<listed, job, task, cancelled, part, package, destination>>

\* The plugin lists a newer package.
NewVersion ==
    /\ listed < Versions /\ listed' = listed + 1
    /\ UNCHANGED <<job, task, cancelled, part, package, destination, orphan>>

\* The program ends, and with it every install; an installer that runs does not.
Quit ==
    /\ job # None
    /\ job' = None /\ task' = [t \in Tasks |-> Idle] /\ cancelled' = {}
    /\ orphan' = (orphan \/ \E t \in Tasks : task[t].at = "running")
    /\ UNCHANGED <<listed, part, package, destination>>

Next ==
    \/ \E t \in Tasks :
          \/ Start(t) \/ Reuse(t) \/ Connect(t) \/ Receive(t) \/ Reject(t)
          \/ Interrupted(t) \/ Store(t) \/ Prepare(t) \/ PrepareFails(t)
          \/ Attempt(t) \/ Succeeds(t) \/ AttemptFails(t) \/ Kill(t)
    \/ Cancel \/ Write \/ OrphanEnds \/ NewVersion \/ Quit

Spec == Init /\ [][Next]_vars
------------------------------------------------------------------------------
Places == {"idle", "queued", "receiving", "ready", "prepared", "running"}

TypeOK ==
    /\ listed \in 1..Versions
    /\ job \in {None} \cup Jobs
    /\ task \in [Tasks -> [at : Places, version : 0..Versions, got : 0..Chunks, attempt : 0..2]]
    /\ cancelled \subseteq Tasks
    /\ part \in {None} \cup Parts
    /\ package \in {None} \cup [version : 1..Versions, whole : BOOLEAN]
    /\ destination \in {None, "empty", "files"}
    /\ orphan \in BOOLEAN

\* An installer that is started is the one whose digest was checked (1270-1273),
\* though the bytes checked are those of the stream and not those of the file.
OnlyVerifiedRuns ==
    \A t \in Tasks : task[t].at = "running" => package = Whole(task[t].version)

\* No installer runs beside one left from an earlier attempt, install or program
\* (1467-1469): both would write into the folder, and one report success over it.
OneInstaller == orphan => \A t \in Tasks : task[t].at # "running"

\* What the table calls installed has files, and what it calls busy is running.
JobIsTrue ==
    job # None =>
        /\ job.phase = "installed" => destination = "files"
        /\ job.phase \in Active <=> task[job.task].at # "idle"
==============================================================================
