--------------------------- MODULE PluginScheduler ---------------------------
(****************************************************************************)
(* The bounded queue in front of the plugin host                            *)
(* (src-tauri/src/plugin_scheduler.rs): callers that submit, cancel and     *)
(* wait, the pool of worker threads, and the drop of the scheduler.         *)
(*                                                                          *)
(* One action is one critical section of the state mutex, or one step taken *)
(* outside it: running the job, notifying the condition variable,           *)
(* delivering the result, receiving it.                                     *)
(****************************************************************************)
EXTENDS Naturals, SequencesExt

CONSTANTS
    Plugins,
    Jobs,            \* correlation ids
    Workers,         \* the threads that could be spawned
    MaxConcurrency,
    QueueDepth,      \* queue_depth_per_plugin
    MaxFailures,     \* max_consecutive_failures
    MaxRetained,     \* MAX_RETAINED_JOBS
    Reports,         \* the ways a job may end
    None

ASSUME LimitsAssumption ==
    /\ MaxConcurrency \in Nat \ {0} /\ MaxFailures \in Nat \ {0}
    /\ QueueDepth \in Nat /\ MaxRetained \in Nat
    /\ Jobs \subseteq Nat
    /\ Reports \subseteq {"done", "cancelled", "refused", "failed"}  \* an unwind is "failed"
    /\ None \notin Jobs /\ None \notin Plugins

VARIABLES
    \* SchedulerState, under the mutex
    queue,      \* the oldest job first
    health,     \* PluginRunState of each plugin
    jobs,       \* the state each job is known by; "unknown" is not in the map
    retired,    \* the finished jobs still in the map, oldest first
    inFlight,   \* the jobs inside the host
    told,       \* those of them whose cancel token is set
    running,
    stopping,
    \* each job
    owner,      \* its plugin, None before it is submitted
    channel,    \* what its caller can receive: "open" while its sender lives
    caller,     \* the thread that holds its handle, or what it was told
    \* each worker
    at, task, report,
    closing     \* the drop of the scheduler

shared == <<queue, health, jobs, retired, inFlight, told, running, stopping>>
perJob == <<owner, channel, caller>>
perWorker == <<at, task, report>>
vars == <<queue, health, jobs, retired, inFlight, told, running, stopping,
          owner, channel, caller, at, task, report, closing>>

Ended == {"done", "failed", "cancelled"}
Messages == {"value", "cancelled", "error"}
Answers == Messages \cup {"panicked", "abandoned"}

------------------------------------------------------------------------------
(* The helpers of SchedulerState and Inner *)

\* set_job: the map remembers the last MaxRetained jobs that ended.
SetJob(j, state) ==
    LET gone == Append(retired, j)
        known == [jobs EXCEPT ![j] = state]
    IN  IF state \notin Ended THEN jobs' = known /\ UNCHANGED retired
        ELSE IF Len(gone) <= MaxRetained THEN jobs' = known /\ retired' = gone
        ELSE jobs' = [known EXCEPT ![Head(gone)] = "unknown"] /\ retired' = Tail(gone)

\* saturating_sub(1)
Less(n) == IF n = 0 THEN 0 ELSE n - 1

\* notify_all: every worker asleep on the condition variable looks again.
Woken == [w \in Workers |-> IF at[w] = "asleep" THEN "ready" ELSE at[w]]

\* Mutants: the oldest job whoever runs, and the newest one that may run.
FirstIndex == IF running >= MaxConcurrency \/ queue = <<>> THEN 0 ELSE 1
LastIndex ==
    IF running >= MaxConcurrency THEN 0
    ELSE SelectLastInSeq(queue, LAMBDA j : health[owner[j]].running = 0)

\* take_next: the oldest queued job whose plugin has nothing in flight, or 0.
NextIndex ==
    IF running >= MaxConcurrency THEN 0
    ELSE SelectInSeq(queue, LAMBDA j : health[owner[j]].running = 0)

\* abandoned_reason, through job_state: a job no longer in the map reads "done".
AbandonedReason(j) ==
    CASE jobs[j] = "cancelled" -> "cancelled"
      [] jobs[j] = "failed" -> "panicked"
      [] OTHER -> "abandoned"

------------------------------------------------------------------------------
(* A caller *)

\* submit, when it is not refused: a refusal changes nothing.  The scheduler is
\* borrowed by the call, so it is not being dropped.
Submit(j, p) ==
    /\ ~stopping
    /\ caller[j] = "new" /\ \A i \in Jobs : i < j => caller[i] # "new"
    /\ ~health[p].degraded
    /\ health[p].queued < QueueDepth
    /\ health' = [health EXCEPT ![p].queued = @ + 1]
    /\ jobs' = [jobs EXCEPT ![j] = "queued"]
    /\ queue' = Append(queue, j)
    /\ owner' = [owner EXCEPT ![j] = p]
    /\ channel' = [channel EXCEPT ![j] = "open"]
    /\ caller' = [caller EXCEPT ![j] = "submitting"]
    /\ UNCHANGED <<retired, inFlight, told, running, stopping, perWorker, closing>>

\* Mutant: the submission wakes nobody.
NotifyNobody(j) ==
    /\ caller[j] = "submitting"
    /\ caller' = [caller EXCEPT ![j] = "holding"]
    /\ UNCHANGED <<shared, owner, channel, perWorker, closing>>

Notify(j) ==        \* after the lock is released
    /\ caller[j] = "submitting"
    /\ at' = Woken
    /\ caller' = [caller EXCEPT ![j] = "holding"]
    /\ UNCHANGED <<shared, owner, channel, task, report, closing>>

\* Mutants: the slot in the plugin's queue is not given back, and the job is
\* marked without leaving the queue.
CancelUncounted(j) ==
    /\ caller[j] = "holding" /\ jobs[j] = "queued" /\ Contains(queue, j)
    /\ queue' = RemoveFirst(queue, j)
    /\ channel' = [channel EXCEPT ![j] = "closed"]
    /\ SetJob(j, "cancelled")
    /\ UNCHANGED <<health, inFlight, told, running, stopping, owner, caller, perWorker, closing>>
CancelInPlace(j) ==
    /\ caller[j] = "holding" /\ jobs[j] = "queued"
    /\ SetJob(j, "cancelled")
    /\ UNCHANGED <<queue, health, inFlight, told, running, stopping, owner, channel, caller,
                   perWorker, closing>>

\* A queued job is dropped, and with it the sender its caller would wait on; a
\* running one is told through its token.
Cancel(j) ==
    /\ caller[j] = "holding"
    /\ \/ /\ jobs[j] = "queued" /\ Contains(queue, j)
          /\ queue' = RemoveFirst(queue, j)
          /\ channel' = [channel EXCEPT ![j] = "closed"]
          /\ health' = [health EXCEPT ![owner[j]].queued = Less(@)]
          /\ SetJob(j, "cancelled")
          /\ UNCHANGED told
       \/ /\ jobs[j] = "running" /\ j \in inFlight
          /\ told' = told \cup {j}
          /\ UNCHANGED <<queue, health, jobs, retired, channel>>
    /\ UNCHANGED <<inFlight, running, stopping, owner, caller, perWorker, closing>>

Wait(j) ==          \* wait, wait_for
    /\ caller[j] = "holding"
    /\ caller' = [caller EXCEPT ![j] = "waiting"]
    /\ UNCHANGED <<shared, owner, channel, perWorker, closing>>

Receive(j) ==
    /\ caller[j] = "waiting"
    /\ \/ channel[j] \in Messages /\ caller' = [caller EXCEPT ![j] = channel[j]]
       \/ channel[j] = "closed" /\ caller' = [caller EXCEPT ![j] = "asking"]
    /\ channel' = [channel EXCEPT ![j] = "none"]
    /\ UNCHANGED <<shared, owner, perWorker, closing>>

Ask(j) ==           \* woken by a disconnect: why?
    /\ caller[j] = "asking"
    /\ caller' = [caller EXCEPT ![j] = AbandonedReason(j)]
    /\ UNCHANGED <<shared, owner, channel, perWorker, closing>>

\* The budget of wait_for is over: the handle comes back.  Dropping it for good
\* is never using it again.
GiveUp(j) ==
    /\ caller[j] = "waiting"
    /\ caller' = [caller EXCEPT ![j] = "holding"]
    /\ UNCHANGED <<shared, owner, channel, perWorker, closing>>

ResumePlugin(p) ==
    /\ ~stopping
    /\ health[p].degraded
    /\ health' = [health EXCEPT ![p].degraded = FALSE, ![p].failures = 0]
    /\ UNCHANGED <<queue, jobs, retired, inFlight, told, running, stopping, perJob, perWorker, closing>>

------------------------------------------------------------------------------
(* A worker *)

Take(w) ==
    /\ at[w] = "ready"
    /\ \/ /\ NextIndex # 0
          /\ LET j == queue[NextIndex] IN
             /\ queue' = RemoveAt(queue, NextIndex)
             /\ health' = [health EXCEPT ![owner[j]].queued = Less(@), ![owner[j]].running = @ + 1]
             /\ SetJob(j, "running")
             /\ inFlight' = inFlight \cup {j}
             /\ task' = [task EXCEPT ![w] = j]
          /\ running' = running + 1
          /\ at' = [at EXCEPT ![w] = "working"]
       \/ /\ NextIndex = 0 /\ stopping
          /\ at' = [at EXCEPT ![w] = "exited"]
          /\ UNCHANGED <<queue, health, jobs, retired, inFlight, running, task>>
       \/ /\ NextIndex = 0 /\ ~stopping
          /\ at' = [at EXCEPT ![w] = "asleep"]
          /\ UNCHANGED <<queue, health, jobs, retired, inFlight, running, task>>
    /\ UNCHANGED <<told, stopping, perJob, report, closing>>

WakeSpuriously(w) ==
    /\ at[w] = "asleep"
    /\ at' = [at EXCEPT ![w] = "ready"]
    /\ UNCHANGED <<shared, perJob, task, report, closing>>

\* Mutant: the caller is woken by the job, before anything is counted.
WorkAndAnswer(w) ==
    /\ at[w] = "working"
    /\ \E r \in Reports :
        /\ r = "cancelled" => task[w] \in told
        /\ report' = [report EXCEPT ![w] = r]
        /\ channel' = [channel EXCEPT ![task[w]] = IF r = "done" THEN "value" ELSE "error"]
    /\ at' = [at EXCEPT ![w] = "finishing"]
    /\ UNCHANGED <<shared, owner, caller, task, closing>>

\* The host ends a call early only for a token that is set; whatever else the
\* job does, an unwind included, is a report.
Work(w) ==
    /\ at[w] = "working"
    /\ \E r \in Reports :
        /\ r = "cancelled" => task[w] \in told
        /\ report' = [report EXCEPT ![w] = r]
    /\ at' = [at EXCEPT ![w] = "finishing"]
    /\ UNCHANGED <<shared, perJob, task, closing>>

\* Mutant: the plugin's call is still counted.
CountedStillRunning(state, r) ==
    LET failures == IF r = "failed" THEN state.failures + 1 ELSE state.failures
    IN  [state EXCEPT !.failures = failures, !.degraded = @ \/ failures >= MaxFailures]

Counted(state, r) ==    \* PluginRunState after a report
    LET failures == CASE r = "done" -> 0
                      [] r = "failed" -> state.failures + 1
                      [] OTHER -> state.failures
    IN  [state EXCEPT !.running = Less(@),
                      !.failures = failures,
                      !.degraded = @ \/ (r = "failed" /\ failures >= MaxFailures)]

JobStateOf(r) ==
    CASE r = "done" -> "done"
      [] r = "cancelled" -> "cancelled"
      [] OTHER -> "failed"

\* Mutant: the cancel token outlives the call.
FinishKeepingToken(w) ==
    /\ at[w] = "finishing"
    /\ running' = Less(running)
    /\ inFlight' = inFlight \ {task[w]}
    /\ health' = [health EXCEPT ![owner[task[w]]] = Counted(@, report[w])]
    /\ SetJob(task[w], JobStateOf(report[w]))
    /\ at' = [at EXCEPT ![w] = "notifying"]
    /\ UNCHANGED <<queue, told, stopping, perJob, task, report, closing>>

Finish(w) ==
    /\ at[w] = "finishing"
    /\ running' = Less(running)
    /\ inFlight' = inFlight \ {task[w]} /\ told' = told \ {task[w]}
    /\ health' = [health EXCEPT ![owner[task[w]]] = Counted(@, report[w])]
    /\ SetJob(task[w], JobStateOf(report[w]))
    /\ at' = [at EXCEPT ![w] = "notifying"]
    /\ UNCHANGED <<queue, stopping, perJob, task, report, closing>>

NotifyFinish(w) ==
    /\ at[w] = "notifying"
    /\ at' = [Woken EXCEPT ![w] = "delivering"]
    /\ UNCHANGED <<shared, perJob, task, report, closing>>

MessageOf(r) ==
    CASE r = "done" -> "value"
      [] r = "cancelled" -> "cancelled"
      [] OTHER -> "error"

Deliver(w) ==
    /\ at[w] = "delivering"
    /\ channel' = [channel EXCEPT ![task[w]] = MessageOf(report[w])]
    /\ at' = [at EXCEPT ![w] = "ready"]
    /\ task' = [task EXCEPT ![w] = None]
    /\ report' = [report EXCEPT ![w] = None]
    /\ UNCHANGED <<shared, owner, caller, closing>>

------------------------------------------------------------------------------
(* The drop of the scheduler, on a thread that is not a worker *)

Close ==
    /\ ~stopping /\ \A j \in Jobs : caller[j] # "submitting"
    /\ stopping' = TRUE
    /\ queue' = <<>>
    /\ channel' = [j \in Jobs |-> IF Contains(queue, j) THEN "closed" ELSE channel[j]]
    /\ closing' = "notifying"
    /\ UNCHANGED <<health, jobs, retired, inFlight, told, running, owner, caller, perWorker>>

\* Mutant: the sleeping workers are not told.
NotifyCloseNobody ==
    /\ closing = "notifying"
    /\ closing' = "joining"
    /\ UNCHANGED <<shared, perJob, perWorker>>

NotifyClose ==
    /\ closing = "notifying"
    /\ at' = Woken
    /\ closing' = "joining"
    /\ UNCHANGED <<shared, perJob, task, report>>

Join ==
    /\ closing = "joining" /\ \A w \in Workers : at[w] = "exited"
    /\ closing' = "closed"
    /\ UNCHANGED <<shared, perJob, perWorker>>

Closed ==           \* nothing is left to do
    /\ closing = "closed" /\ \A j \in Jobs : caller[j] \in Answers \cup {"new"}
    /\ UNCHANGED vars

------------------------------------------------------------------------------

Init ==
    /\ queue = <<>> /\ retired = <<>> /\ inFlight = {} /\ told = {} /\ running = 0 /\ stopping = FALSE
    /\ health = [p \in Plugins |-> [queued |-> 0, running |-> 0, failures |-> 0, degraded |-> FALSE]]
    /\ jobs = [j \in Jobs |-> "unknown"]
    /\ owner = [j \in Jobs |-> None]
    /\ channel = [j \in Jobs |-> "none"]
    /\ caller = [j \in Jobs |-> "new"]
    /\ at = [w \in Workers |-> "ready"]
    /\ task = [w \in Workers |-> None]
    /\ report = [w \in Workers |-> None]
    /\ closing = "no"

WorkerStep(w) == Take(w) \/ Work(w) \/ Finish(w) \/ NotifyFinish(w) \/ Deliver(w)
CallerStep(j) == Notify(j) \/ Receive(j) \/ Ask(j)
CloseStep == NotifyClose \/ Join

Next ==
    \/ \E w \in Workers : WorkerStep(w) \/ WakeSpuriously(w)
    \/ \E j \in Jobs :
        \/ \E p \in Plugins : Submit(j, p)
        \/ CallerStep(j) \/ Cancel(j) \/ Wait(j) \/ GiveUp(j)
    \/ \E p \in Plugins : ResumePlugin(p)
    \/ Close \/ CloseStep \/ Closed

Spec == Init /\ [][Next]_vars

\* Threads are scheduled, and a call inside the host ends: the epoch deadline
\* interrupts it.  Nobody has to submit, cancel, wait, give up or close.
FairSpec ==
    /\ Spec
    /\ \A w \in Workers : WF_vars(WorkerStep(w))
    /\ \A j \in Jobs : WF_vars(CallerStep(j))
    /\ WF_vars(CloseStep)

------------------------------------------------------------------------------
(* What holds *)

TypeOK ==
    /\ queue \in Seq(Jobs) /\ retired \in Seq(Jobs)
    /\ health \in [Plugins -> [queued : Nat, running : Nat, failures : Nat, degraded : BOOLEAN]]
    /\ jobs \in [Jobs -> {"unknown", "queued", "running"} \cup Ended]
    /\ inFlight \subseteq Jobs /\ told \subseteq inFlight /\ running \in Nat /\ stopping \in BOOLEAN
    /\ owner \in [Jobs -> Plugins \cup {None}]
    /\ channel \in [Jobs -> Messages \cup {"none", "open", "closed"}]
    /\ caller \in [Jobs -> Answers \cup {"new", "submitting", "holding", "waiting", "asking"}]
    /\ at \in [Workers -> {"ready", "asleep", "working", "finishing", "notifying", "delivering",
                           "exited"}]
    /\ task \in [Workers -> Jobs \cup {None}]
    /\ report \in [Workers -> Reports \cup {None}]
    /\ closing \in {"no", "notifying", "joining", "closed"}

InHost == {w \in Workers : at[w] \in {"working", "finishing"}}

\* The map holds the queue, the calls and the last jobs that ended: a handle kept
\* for ever, a cancelled job or a panic does not make it grow.
JobMapBounded ==
    ~stopping =>
        Cardinality({j \in Jobs : jobs[j] # "unknown"}) <= Len(queue) + running + MaxRetained

Waiting(p) == {j \in Jobs : jobs[j] = "queued" /\ owner[j] = p}

\* The counters, the in-flight tokens and the job map tell the same story as the
\* queue and the threads: health() and Busy report what is really there, no job
\* that is still alive has been dropped from the map, and the map is bounded.
BookkeepingAgrees ==
    /\ JobMapBounded
    /\ inFlight = {task[w] : w \in InHost} /\ running = Cardinality(InHost)
    /\ \A j \in Jobs : jobs[j] = "running" <=> j \in inFlight
    /\ \A p \in Plugins : health[p].running = Cardinality({j \in inFlight : owner[j] = p})
    /\ \A i, k \in DOMAIN queue : queue[i] = queue[k] => i = k
    /\ ~stopping =>
        /\ \A j \in Jobs : jobs[j] = "queued" <=> Contains(queue, j)
        /\ \A p \in Plugins : health[p].queued = Cardinality(Waiting(p))

\* One plugin runs one call at a time, counted in threads inside the host.
OneCallPerPlugin ==
    \A v, w \in InHost : v # w => owner[task[v]] # owner[task[w]]

\* An answer is given after the job is counted, and says how it ended: a caller
\* that reads the plugin's health next sees its own job there, and one told that
\* the worker went away never had its job run.  Once the map has forgotten the
\* job there is nothing left to compare with.
AnswerIsTrue ==
    \A j \in Jobs : caller[j] \in Answers /\ jobs[j] # "unknown" =>
        jobs[j] = CASE caller[j] = "value" -> "done"
                    [] caller[j] = "cancelled" -> "cancelled"
                    [] caller[j] \in {"error", "panicked"} -> "failed"
                    [] caller[j] = "abandoned" -> "queued"

\* A job that ended stays ended: a cancelled one never runs, and no call ends
\* twice.
EndedIsFinal ==
    [][\A j \in Jobs : jobs[j] \in Ended => jobs'[j] \in {jobs[j], "unknown"}]_vars

\* The scheduler keeps the promise of PluginQueue.
Queue == INSTANCE PluginQueue WITH
    line <- queue,
    plugin <- owner,
    active <- inFlight,
    open <- ~stopping
ImplementsPluginQueue == Queue!Spec

\* Nobody waits for ever: not behind a lost wake-up, not on a cancelled job, not
\* through a shutdown.
EveryWaiterAnswered == \A j \in Jobs : caller[j] = "waiting" ~> caller[j] # "waiting"

\* Every job taken leaves the queue.
EveryJobLeavesQueue == \A j \in Jobs : jobs[j] = "queued" ~> ~Contains(queue, j)

\* Closing waits for the calls in the host and for nothing else.
ClosingFinishes == closing = "notifying" ~> closing = "closed"
==============================================================================
