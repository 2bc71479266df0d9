------------------------ MODULE PluginSchedulerProofs ------------------------
(****************************************************************************)
(* Theorems about PluginScheduler, for any sets of plugins, jobs and        *)
(* workers and any bounds.  SchedulerInv is the inductive invariant; the    *)
(* properties and the refinement of PluginQueue follow from it.             *)
(*                                                                          *)
(* And about what bounds a plugin besides the queue, for any bounds: the    *)
(* budget of memory and the leases of PluginHost (H), one call per worker;  *)
(* the ring of refusals of PluginJournal (J), which the plugins share; and  *)
(* the directory of CompileCache (C), which the workers share.              *)
(****************************************************************************)
EXTENDS PluginScheduler, TLAPS, FiniteSetTheorems, SequenceTheorems, WellFoundedInduction

CONSTANTS Ticks, Instance, Total

VARIABLES
    calling, due, ticks, cancelled, leases, stop, ticker, runtime, committed, charged, read

H == INSTANCE PluginHost WITH
    Calls <- Workers, call <- calling, inFlight <- leases, owner <- runtime, seen <- read

CONSTANTS Refusals, MaxEntries

VARIABLES ring, recorded

J == INSTANCE PluginJournal

CONSTANTS Sources, Engines, Ceiling

VARIABLES engine, artifacts, leftovers, prepare, unswept

C == INSTANCE CompileCache WITH Components <- Sources

\* No element stands twice in the sequence.
Distinct(s) == \A i, k \in 1..Len(s) : s[i] = s[k] => i = k

------------------------------------------------------------------------------
(* Sequences and numbers *)

\* What Min picks out of a set of numbers is one of them, and the least.
LEMMA LeastExists ==
    ASSUME NEW S \in SUBSET Nat, S # {}
    PROVE  Min(S) \in S /\ \A n \in S : Min(S) =< n
<1> DEFINE R == {ss \in Nat \X Nat : ss[1] < ss[2]}
<1>1. OpToRel(<, Nat) = R
    BY Zenon DEF OpToRel
<1>2. \A m \in S, n \in S : <<m, n>> \in R <=> m < n
    OBVIOUS
<1>3. IsWellFoundedOn(R, Nat)
    BY <1>1, NatLessThanWellFounded, Zenon
<1> HIDE DEF R
<1>4. \E n \in S : \A m \in S : ~ (<<m, n>> \in R)
    BY <1>3, WFMin, Zenon
<1>5. PICK n \in S : \A m \in S : ~ (<<m, n>> \in R)
    BY <1>4, Zenon
<1>6. \A m \in S : ~(m < n)
    BY <1>2, <1>5, Zenon
<1>7. \A m \in S : n =< m
    BY <1>6
<1> QED
    BY <1>7 DEF Min

\* A job that joins the end of a line.
LEMMA AppendContains ==
    ASSUME NEW s \in Seq(Jobs), NEW j \in Jobs
    PROVE  /\ Append(s, j) \in Seq(Jobs)
           /\ Len(Append(s, j)) = Len(s) + 1
           /\ \A k : Contains(Append(s, j), k) <=> Contains(s, k) \/ k = j
           /\ Distinct(s) /\ ~Contains(s, j) => Distinct(Append(s, j))
<1> DEFINE r == Append(s, j)
<1>1. /\ r \in Seq(Jobs) /\ Len(r) = Len(s) + 1
      /\ \A i \in 1..Len(s) : r[i] = s[i]
      /\ r[Len(s) + 1] = j
    OBVIOUS
<1>2. Len(s) \in Nat
    OBVIOUS
<1> HIDE DEF r
<1>3. ASSUME NEW k PROVE Contains(r, k) <=> Contains(s, k) \/ k = j
    <2>1. ASSUME Contains(r, k) PROVE Contains(s, k) \/ k = j
        BY <1>1, <1>2, <2>1 DEF Contains
    <2>2. ASSUME Contains(s, k) PROVE Contains(r, k)
        BY <1>1, <1>2, <2>2 DEF Contains
    <2>3. Contains(r, j)
        BY <1>1, <1>2 DEF Contains
    <2> QED
        BY <2>1, <2>2, <2>3
<1>4. Distinct(s) /\ ~Contains(s, j) => Distinct(r)
    BY <1>1, <1>2 DEF Contains, Distinct
<1> QED
    BY <1>1, <1>3, <1>4 DEF r

\* What stays where when one place is taken out.
LEMMA RemoveAtPlaces ==
    ASSUME NEW s \in Seq(Jobs), NEW n \in 1..Len(s)
    PROVE  /\ RemoveAt(s, n) \in Seq(Jobs)
           /\ Len(RemoveAt(s, n)) = Len(s) - 1
           /\ \A i \in 1..Len(s) - 1 : RemoveAt(s, n)[i] = IF i < n THEN s[i] ELSE s[i + 1]
<1> DEFINE a == SubSeq(s, 1, n - 1)
           b == SubSeq(s, n + 1, Len(s))
<1>1. /\ a \in Seq(Jobs) /\ Len(a) = n - 1
      /\ \A i \in 1..n - 1 : a[i] = s[i]
    OBVIOUS
<1>2. /\ b \in Seq(Jobs) /\ Len(b) = Len(s) - n
      /\ \A i \in 1..Len(s) - n : b[i] = s[i + n]
    OBVIOUS
<1>3. RemoveAt(s, n) = a \o b
    BY DEF RemoveAt
<1> HIDE DEF a, b
<1>4. /\ a \o b \in Seq(Jobs) /\ Len(a \o b) = Len(a) + Len(b)
      /\ \A i \in 1..Len(a) + Len(b) :
             (a \o b)[i] = IF i <= Len(a) THEN a[i] ELSE b[i - Len(a)]
    BY <1>1, <1>2, ConcatProperties, Zenon
<1>5. \A i \in 1..Len(s) - 1 :
          i >= n => i - (n - 1) \in 1..Len(s) - n /\ i - (n - 1) + n = i + 1
    OBVIOUS
<1>6. ASSUME NEW i \in 1..Len(s) - 1
      PROVE  (a \o b)[i] = IF i < n THEN s[i] ELSE s[i + 1]
    <2>1. CASE i < n
        BY <1>1, <1>2, <1>4, <2>1
    <2>2. CASE i >= n
        <3>1. (a \o b)[i] = b[i - (n - 1)]
            BY <1>1, <1>2, <1>4, <2>2
        <3> QED
            BY <1>2, <1>5, <2>2, <3>1
    <2>3. i < n \/ i >= n
        OBVIOUS
    <2> QED
        BY <2>1, <2>2, <2>3
<1> QED
    BY <1>1, <1>2, <1>3, <1>4, <1>6

\* Taking one place out takes its job out, and no other.
LEMMA RemoveAtContains ==
    ASSUME NEW s \in Seq(Jobs), NEW n \in 1..Len(s), Distinct(s)
    PROVE  /\ RemoveAt(s, n) \in Seq(Jobs)
           /\ Len(RemoveAt(s, n)) = Len(s) - 1
           /\ \A k : Contains(RemoveAt(s, n), k) <=> Contains(s, k) /\ k # s[n]
           /\ Distinct(RemoveAt(s, n))
<1> DEFINE r == RemoveAt(s, n)
<1>1. /\ r \in Seq(Jobs)
      /\ Len(r) = Len(s) - 1
      /\ \A i \in 1..Len(s) - 1 : r[i] = IF i < n THEN s[i] ELSE s[i + 1]
    BY RemoveAtPlaces
<1> HIDE DEF r
<1>2. Distinct(r)
    BY <1>1 DEF Distinct
<1>3. ASSUME NEW k, Contains(s, k), k # s[n] PROVE Contains(r, k)
    <2>1. PICK i \in 1..Len(s) : s[i] = k
        BY <1>3 DEF Contains
    <2>2. CASE i < n
        BY <1>1, <2>1, <2>2 DEF Contains
    <2>3. CASE i > n
        <3>1. i - 1 \in 1..Len(r) /\ r[i - 1] = k
            BY <1>1, <2>1, <2>3
        <3> QED
            BY <3>1 DEF Contains
    <2> QED
        BY <1>3, <2>1, <2>2, <2>3
<1>4. ASSUME NEW k, Contains(r, k) PROVE Contains(s, k) /\ k # s[n]
    <2>1. PICK i \in 1..Len(r) : r[i] = k
        BY <1>4 DEF Contains
    <2> QED
        BY <1>1, <2>1 DEF Contains, Distinct
<1> QED
    BY <1>1, <1>2, <1>3, <1>4 DEF r

\* A job that leaves the line wherever it stands in it.
LEMMA RemoveFirstContains ==
    ASSUME NEW s \in Seq(Jobs), NEW j \in Jobs, Distinct(s), Contains(s, j)
    PROVE  /\ \E n \in 1..Len(s) : s[n] = j /\ RemoveFirst(s, j) = RemoveAt(s, n)
           /\ RemoveFirst(s, j) \in Seq(Jobs)
           /\ Len(RemoveFirst(s, j)) = Len(s) - 1
           /\ \A k : Contains(RemoveFirst(s, j), k) <=> Contains(s, k) /\ k # j
           /\ Distinct(RemoveFirst(s, j))
<1> DEFINE I == {i \in 1..Len(s) : s[i] = j}
<1>1. I # {} /\ I \in SUBSET Nat
    BY DEF Contains
<1>2. Min(I) \in I
    BY <1>1, LeastExists
<1>3. RemoveFirst(s, j) = RemoveAt(s, Min(I))
    BY <1>1 DEF RemoveFirst, SelectInSeq
<1>4. PICK n \in 1..Len(s) : n = Min(I) /\ s[n] = j
    BY <1>2
<1>5. RemoveFirst(s, j) = RemoveAt(s, n) /\ s[n] = j
    BY <1>3, <1>4, Zenon
<1> HIDE DEF I
<1>6. /\ RemoveAt(s, n) \in Seq(Jobs)
      /\ Len(RemoveAt(s, n)) = Len(s) - 1
      /\ \A k : Contains(RemoveAt(s, n), k) <=> Contains(s, k) /\ k # s[n]
      /\ Distinct(RemoveAt(s, n))
    BY RemoveAtContains
<1> QED
    BY <1>4, <1>5, <1>6

\* The head leaves with the job it is, and with no other.
LEMMA TailContains ==
    ASSUME NEW s \in Seq(Jobs), Len(s) > 0, Distinct(s)
    PROVE  /\ Head(s) \in Jobs /\ Contains(s, Head(s))
           /\ Tail(s) \in Seq(Jobs)
           /\ Len(Tail(s)) = Len(s) - 1
           /\ \A k : Contains(Tail(s), k) <=> Contains(s, k) /\ k # Head(s)
           /\ Distinct(Tail(s))
<1>1. /\ Head(s) = s[1] /\ s[1] \in Jobs
      /\ Tail(s) \in Seq(Jobs) /\ Len(Tail(s)) = Len(s) - 1
      /\ \A i \in 1..Len(Tail(s)) : Tail(s)[i] = s[i + 1]
    OBVIOUS
<1>2. ASSUME NEW k, Contains(s, k), k # Head(s) PROVE Contains(Tail(s), k)
    <2>1. PICK i \in 1..Len(s) : s[i] = k
        BY <1>2 DEF Contains
    <2>2. i - 1 \in 1..Len(Tail(s)) /\ Tail(s)[i - 1] = k
        BY <1>1, <1>2, <2>1
    <2> QED
        BY <2>2 DEF Contains
<1>3. ASSUME NEW k, Contains(Tail(s), k) PROVE Contains(s, k) /\ k # Head(s)
    <2>1. PICK i \in 1..Len(Tail(s)) : Tail(s)[i] = k
        BY <1>3 DEF Contains
    <2>2. i + 1 \in 1..Len(s) /\ 1 \in 1..Len(s) /\ i + 1 # 1 /\ s[i + 1] = k
        BY <1>1, <2>1
    <2> QED
        BY <1>1, <2>2 DEF Contains, Distinct
<1>4. Contains(s, Head(s))
    BY <1>1 DEF Contains
<1>5. Distinct(Tail(s))
    BY <1>1 DEF Distinct
<1> QED
    BY <1>1, <1>2, <1>3, <1>4, <1>5

\* The elements of a sequence are not more than its places.
LEMMA ElementsBounded ==
    ASSUME NEW s \in Seq(Jobs)
    PROVE  LET elements == {j \in Jobs : Contains(s, j)}
           IN  IsFiniteSet(elements) /\ Cardinality(elements) <= Len(s)
<1> DEFINE elements == {j \in Jobs : Contains(s, j)}
<1>1. s \in Surjection(1..Len(s), elements)
    BY DEF Surjection, Contains
<1>2. 1 \in Int /\ Len(s) \in Int /\ Len(s) \in Nat
    OBVIOUS
<1>3. IsFiniteSet(1..Len(s)) /\ Cardinality(1..Len(s)) = IF 1 > Len(s) THEN 0 ELSE Len(s) - 1 + 1
    BY <1>2, FS_Interval, Zenon
<1>4. Cardinality(1..Len(s)) = Len(s)
    BY <1>2, <1>3
<1> HIDE DEF elements
<1>5. IsFiniteSet(elements) /\ Cardinality(elements) <= Cardinality(1..Len(s))
    BY <1>1, <1>3, FS_Surjection, Zenon
<1> QED
    BY <1>4, <1>5 DEF elements

\* The place take_next finds, if any: its plugin has nothing in the host.
LEMMA NextIndexFound ==
    ASSUME queue \in Seq(Jobs), running \in Nat, NextIndex # 0
    PROVE  /\ running < MaxConcurrency
           /\ NextIndex \in 1..Len(queue) /\ health[owner[queue[NextIndex]]].running = 0
           /\ \A i \in 1..NextIndex - 1 : health[owner[queue[i]]].running # 0
<1> DEFINE I == {i \in 1..Len(queue) : health[owner[queue[i]]].running = 0}
<1>1. NextIndex = Min(I) /\ I # {} /\ ~(running >= MaxConcurrency)
    BY DEF NextIndex, SelectInSeq
<1>2. I \in SUBSET Nat
    OBVIOUS
<1>3. Min(I) \in I /\ \A i \in I : Min(I) =< i
    BY <1>1, <1>2, LeastExists, Zenon
<1> HIDE DEF I
<1>4. ASSUME NEW i \in 1..NextIndex - 1 PROVE i \notin I /\ i \in 1..Len(queue)
    <2>1. \A n \in I : n \in Nat /\ n =< Len(queue)
        BY DEF I
    <2>2. NextIndex \in Nat /\ NextIndex =< Len(queue)
        BY <1>1, <1>3, <2>1, Zenon
    <2> QED
        BY <1>1, <1>3, <2>2
<1>5. NextIndex \in 1..Len(queue) /\ health[owner[queue[NextIndex]]].running = 0
    BY <1>1, <1>3 DEF I
<1>6. \A i \in 1..NextIndex - 1 : health[owner[queue[i]]].running # 0
    BY <1>4 DEF I
<1>7. running < MaxConcurrency
    BY <1>1, LimitsAssumption
<1> QED
    BY <1>5, <1>6, <1>7

\* Two finite sets together have at most as many elements as both.
LEMMA UnionBounded ==
    ASSUME NEW S, NEW T, IsFiniteSet(S), IsFiniteSet(T)
    PROVE  /\ IsFiniteSet(S \cup T)
           /\ Cardinality(S \cup T) <= Cardinality(S) + Cardinality(T)
<1>1. /\ IsFiniteSet(S \cup T) /\ IsFiniteSet(S \cap T)
      /\ Cardinality(S \cup T) = Cardinality(S) + Cardinality(T) - Cardinality(S \cap T)
    BY FS_Union, FS_Intersection
<1>2. /\ Cardinality(S) \in Nat /\ Cardinality(T) \in Nat
      /\ Cardinality(S \cap T) \in Nat /\ Cardinality(S \cup T) \in Nat
    BY <1>1, FS_CardinalityType
<1> QED
    BY <1>1, <1>2

------------------------------------------------------------------------------
(* The inductive invariant *)

\* The workers that hold a job, from the lock that took it to its delivery.
Busy == {w \in Workers : at[w] \in {"working", "finishing", "notifying", "delivering"}}

\* The line: each job in it once, queued, and with a sender its caller can wait
\* on.  Only a closed scheduler forgets the line, and then nothing joins it.
LineInv ==
    /\ Distinct(queue)
    /\ stopping => queue = <<>>
    /\ \A j \in Jobs : Contains(queue, j) => jobs[j] = "queued" /\ channel[j] = "open"
    /\ \A j \in Jobs : jobs[j] = "queued" => stopping \/ Contains(queue, j)

\* A job nobody submitted has left no trace, and every other has a plugin.
OwnerInv ==
    \A j \in Jobs :
        /\ caller[j] = "new" => jobs[j] = "unknown" /\ owner[j] = None /\ channel[j] = "none"
        /\ jobs[j] # "unknown" => owner[j] # None

\* The retired list is exactly the ended jobs the map still holds.
RetiredInv ==
    /\ Distinct(retired) /\ Len(retired) =< MaxRetained
    /\ \A j \in Jobs : jobs[j] \in Ended <=> Contains(retired, j)

\* The calls: one worker for each, one call for each plugin, counted as such.
HostInv ==
    /\ inFlight = {task[w] : w \in InHost}
    /\ \A j \in Jobs : jobs[j] = "running" <=> j \in inFlight
    /\ IsFiniteSet(InHost) /\ running = Cardinality(InHost)
    /\ \A i, j \in inFlight : owner[i] = owner[j] => i = j
    /\ \A p \in Plugins :
           health[p].running = IF \E j \in inFlight : owner[j] = p THEN 1 ELSE 0

\* What a worker holds is its own, and its caller has been told nothing yet.
WorkerInv ==
    /\ \A w \in Busy : task[w] \in Jobs /\ channel[task[w]] = "open" /\ caller[task[w]] # "new"
    /\ \A v, w \in Busy : task[v] = task[w] => v = w
    /\ \A w \in Busy \ InHost :
           report[w] \in Reports /\ jobs[task[w]] \in {JobStateOf(report[w]), "unknown"}
    /\ \A w \in Busy : at[w] = "finishing" => report[w] \in Reports

\* Until the close the counts of the plugins are what waits.
CountInv ==
    ~stopping => \A p \in Plugins :
        IsFiniteSet(Waiting(p)) /\ health[p].queued = Cardinality(Waiting(p))

\* What a channel carries, and what a caller has been told, is how the job ended.
Dropped(j) ==
    jobs[j] \in {"cancelled", "unknown"} \/ (stopping /\ jobs[j] = "queued")
AnswerInv ==
    \A j \in Jobs :
        /\ channel[j] = "value" => jobs[j] \in {"done", "unknown"}
        /\ channel[j] = "cancelled" => jobs[j] \in {"cancelled", "unknown"}
        /\ channel[j] = "error" => jobs[j] \in {"failed", "unknown"}
        /\ channel[j] = "closed" \/ caller[j] = "asking" => Dropped(j)
        /\ caller[j] = "value" => jobs[j] \in {"done", "unknown"}
        /\ caller[j] = "cancelled" => jobs[j] \in {"cancelled", "unknown"}
        /\ caller[j] \in {"error", "panicked"} => jobs[j] \in {"failed", "unknown"}
        /\ caller[j] = "abandoned" => jobs[j] = "unknown" \/ (stopping /\ jobs[j] = "queued")

SchedulerInv ==
    /\ TypeOK /\ LineInv /\ OwnerInv /\ RetiredInv
    /\ HostInv /\ WorkerInv /\ CountInv /\ AnswerInv

------------------------------------------------------------------------------
(* The helpers of the scheduler *)

\* set_job: the map keeps no more than it may, never forgets a job that has not
\* ended, and changes no other.
LEMMA SetJobKeeps ==
    ASSUME TypeOK, RetiredInv, NEW j \in Jobs, jobs[j] \notin Ended,
           NEW state \in {"running"} \cup Ended, SetJob(j, state)
    PROVE  /\ jobs' \in [Jobs -> {"unknown", "queued", "running"} \cup Ended]
           /\ retired' \in Seq(Jobs)
           /\ jobs'[j] = state \/ (state \in Ended /\ jobs'[j] = "unknown")
           /\ \A i \in Jobs \ {j} :
                  jobs'[i] = jobs[i] \/ (jobs[i] \in Ended /\ jobs'[i] = "unknown")
           /\ RetiredInv'
<1> DEFINE gone == Append(retired, j)
           known == [jobs EXCEPT ![j] = state]
<1>1. /\ known \in [Jobs -> {"unknown", "queued", "running"} \cup Ended]
      /\ known[j] = state /\ \A i \in Jobs \ {j} : known[i] = jobs[i]
    BY DEF TypeOK
<1>2. /\ gone \in Seq(Jobs) /\ Len(gone) = Len(retired) + 1
      /\ \A k : Contains(gone, k) <=> Contains(retired, k) \/ k = j
      /\ Distinct(gone)
    BY AppendContains DEF TypeOK, RetiredInv
<1>3. CASE state \notin Ended
    <2>1. jobs' = known /\ retired' = retired
        BY <1>3 DEF SetJob
    <2> HIDE DEF known
    <2> QED
        BY <1>1, <1>3, <2>1 DEF TypeOK, RetiredInv
<1>4. CASE state \in Ended /\ Len(gone) <= MaxRetained
    <2>1. jobs' = known /\ retired' = gone
        BY <1>4 DEF SetJob
    <2> HIDE DEF known, gone
    <2> QED
        BY <1>1, <1>2, <1>4, <2>1 DEF RetiredInv
<1>5. CASE state \in Ended /\ ~(Len(gone) <= MaxRetained)
    <2>1. jobs' = [known EXCEPT ![Head(gone)] = "unknown"] /\ retired' = Tail(gone)
        BY <1>5 DEF SetJob
    <2>2. Len(retired) \in Nat
        BY DEF TypeOK
    <2> HIDE DEF known, gone
    <2>3. /\ Head(gone) \in Jobs /\ Contains(gone, Head(gone))
          /\ Tail(gone) \in Seq(Jobs) /\ Len(Tail(gone)) = Len(gone) - 1
          /\ \A k : Contains(Tail(gone), k) <=> Contains(gone, k) /\ k # Head(gone)
          /\ Distinct(Tail(gone))
        BY <1>2, <2>2, TailContains
    <2>4. /\ jobs' \in [Jobs -> {"unknown", "queued", "running"} \cup Ended]
          /\ jobs'[Head(gone)] = "unknown"
          /\ \A i \in Jobs \ {Head(gone)} : jobs'[i] = known[i]
        BY <1>1, <2>1, <2>3
    <2>5. known[Head(gone)] \in Ended
        BY <1>1, <1>2, <1>5, <2>3 DEF RetiredInv
    <2>6. RetiredInv'
        <3>1. Len(retired') =< MaxRetained
            BY <1>2, <2>1, <2>2, <2>3, LimitsAssumption DEF RetiredInv
        <3>2. \A i \in Jobs : jobs'[i] \in Ended <=> Contains(retired', i)
            BY <1>1, <1>2, <1>5, <2>1, <2>3, <2>4 DEF RetiredInv, Ended
        <3> QED
            BY <2>1, <2>3, <3>1, <3>2 DEF RetiredInv
    <2> QED
        BY <1>1, <2>1, <2>3, <2>4, <2>5, <2>6
<1> QED
    BY <1>3, <1>4, <1>5

------------------------------------------------------------------------------
(* The steps that move no job *)

\* The calls depend on the workers in the host, not on what the others do.
LEMMA HostKept ==
    ASSUME HostInv, InHost' = InHost, \A w \in InHost : task'[w] = task[w],
           jobs' = jobs, inFlight' = inFlight, running' = running, owner' = owner,
           \A p \in Plugins : health'[p].running = health[p].running
    PROVE  HostInv'
BY DEF HostInv

\* wait, as it starts.
LEMMA WaitKeeps ==
    ASSUME SchedulerInv, NEW j \in Jobs, Wait(j)
    PROVE  SchedulerInv'
<1> USE LimitsAssumption DEF SchedulerInv, shared, perJob, perWorker
<1>1. LineInv' /\ RetiredInv' /\ HostInv' /\ CountInv'
    BY DEF Wait, LineInv, RetiredInv, HostInv, InHost, CountInv, Waiting
<1>2. TypeOK'
    BY DEF Wait, TypeOK, Answers, Messages
<1>3. OwnerInv'
    BY DEF Wait, OwnerInv
<1>4. WorkerInv'
    BY DEF Wait, WorkerInv, Busy, InHost
<1>5. AnswerInv'
    BY DEF Wait, AnswerInv, Dropped
<1> QED
    BY <1>1, <1>2, <1>3, <1>4, <1>5

\* wait, at its deadline: the caller leaves, the job stays where it is.
LEMMA GiveUpKeeps ==
    ASSUME SchedulerInv, NEW j \in Jobs, GiveUp(j)
    PROVE  SchedulerInv'
<1> USE LimitsAssumption DEF SchedulerInv, shared, perJob, perWorker
<1>1. LineInv' /\ RetiredInv' /\ HostInv' /\ CountInv'
    BY DEF GiveUp, LineInv, RetiredInv, HostInv, InHost, CountInv, Waiting
<1>2. TypeOK'
    BY DEF GiveUp, TypeOK, Answers, Messages
<1>3. OwnerInv'
    BY DEF GiveUp, OwnerInv
<1>4. WorkerInv'
    BY DEF GiveUp, WorkerInv, Busy, InHost
<1>5. AnswerInv'
    BY DEF GiveUp, AnswerInv, Dropped
<1> QED
    BY <1>1, <1>2, <1>3, <1>4, <1>5

\* wait, woken by a dropped sender: the caller reads the state of the job.
LEMMA AskKeeps ==
    ASSUME SchedulerInv, NEW j \in Jobs, Ask(j)
    PROVE  SchedulerInv'
<1> USE LimitsAssumption DEF SchedulerInv, shared, perJob, perWorker
<1>1. LineInv' /\ RetiredInv' /\ HostInv' /\ CountInv'
    BY DEF Ask, AbandonedReason, LineInv, RetiredInv, HostInv, InHost, CountInv, Waiting
<1>2. TypeOK'
    BY DEF Ask, AbandonedReason, TypeOK, Answers, Messages
<1>3. OwnerInv'
    BY DEF Ask, AbandonedReason, OwnerInv
<1>4. WorkerInv'
    BY DEF Ask, AbandonedReason, WorkerInv, Busy, InHost
<1>5. AnswerInv'
    BY DEF Ask, AbandonedReason, AnswerInv, Dropped
<1> QED
    BY <1>1, <1>2, <1>3, <1>4, <1>5

\* The end of a wait.
LEMMA ReceiveKeeps ==
    ASSUME SchedulerInv, NEW j \in Jobs, Receive(j)
    PROVE  SchedulerInv'
<1> USE LimitsAssumption DEF SchedulerInv, shared, perJob, perWorker
<1>1. RetiredInv' /\ HostInv' /\ CountInv'
    BY DEF Receive, Messages, RetiredInv, HostInv, InHost, CountInv, Waiting
<1>2. TypeOK'
    BY DEF Receive, Messages, TypeOK, Answers
<1>3. LineInv'
    BY DEF Receive, Messages, LineInv
<1>4. OwnerInv'
    BY DEF Receive, Messages, TypeOK, OwnerInv
<1>5. WorkerInv'
    BY DEF Receive, Messages, TypeOK, WorkerInv, Busy, InHost
<1>6. AnswerInv'
    BY DEF Receive, Messages, TypeOK, AnswerInv, Dropped
<1> QED
    BY <1>1, <1>2, <1>3, <1>4, <1>5, <1>6

\* The workers are woken.
LEMMA NotifyKeeps ==
    ASSUME SchedulerInv, NEW j \in Jobs, Notify(j)
    PROVE  SchedulerInv'
<1> USE LimitsAssumption DEF SchedulerInv, shared, perJob, perWorker
<1>1. LineInv' /\ RetiredInv' /\ CountInv'
    BY DEF Notify, LineInv, RetiredInv, CountInv, Waiting
<1>2. TypeOK'
    BY DEF Notify, TypeOK, Woken, Answers, Messages
<1>3. OwnerInv'
    BY DEF Notify, OwnerInv
<1>4. HostInv'
    <2>1. InHost' = InHost
        BY DEF Notify, TypeOK, InHost, Woken
    <2> QED
        BY <2>1, HostKept DEF Notify
<1>5. WorkerInv'
    BY DEF Notify, WorkerInv, Busy, InHost, Woken
<1>6. AnswerInv'
    BY DEF Notify, AnswerInv, Dropped
<1> QED
    BY <1>1, <1>2, <1>3, <1>4, <1>5, <1>6

\* A plugin that is trusted again.
LEMMA ResumeKeeps ==
    ASSUME SchedulerInv, NEW p \in Plugins, ResumePlugin(p)
    PROVE  SchedulerInv'
<1> USE LimitsAssumption DEF SchedulerInv, shared, perJob, perWorker
<1>1. LineInv' /\ OwnerInv' /\ RetiredInv' /\ WorkerInv' /\ AnswerInv'
    BY DEF ResumePlugin, LineInv, OwnerInv, RetiredInv, WorkerInv, Busy, InHost, AnswerInv,
           Dropped
<1>2. TypeOK'
    <2> DEFINE state == [health[p] EXCEPT !.degraded = FALSE, !.failures = 0]
    <2>1. state \in [queued : Nat, running : Nat, failures : Nat, degraded : BOOLEAN]
        <3>1. health[p] \in [queued : Nat, running : Nat, failures : Nat, degraded : BOOLEAN]
            BY DEF TypeOK
        <3> QED
            BY <3>1
    <2>2. health' = [health EXCEPT ![p] = state]
        BY DEF ResumePlugin, TypeOK
    <2> HIDE DEF state
    <2>3. health' \in [Plugins -> [queued : Nat, running : Nat, failures : Nat,
                                   degraded : BOOLEAN]]
        BY <2>1, <2>2 DEF TypeOK
    <2> QED
        BY <2>3 DEF ResumePlugin, TypeOK
<1>3. HostInv'
    <2>1. InHost' = InHost
        BY DEF ResumePlugin, InHost
    <2>2. \A q \in Plugins : health'[q].running = health[q].running
        BY DEF ResumePlugin, TypeOK
    <2> QED
        BY <2>1, <2>2, HostKept DEF ResumePlugin
<1>4. CountInv'
    <2>1. \A q \in Plugins : health'[q].queued = health[q].queued
        BY DEF ResumePlugin, TypeOK
    <2> QED
        BY <2>1 DEF ResumePlugin, CountInv, Waiting
<1> QED
    BY <1>1, <1>2, <1>3, <1>4

\* What a worker does without the lock.
LEMMA WakeSpuriouslyKeeps ==
    ASSUME SchedulerInv, NEW w \in Workers, WakeSpuriously(w)
    PROVE  SchedulerInv'
<1> USE LimitsAssumption DEF SchedulerInv, shared, perJob, perWorker
<1>1. LineInv' /\ OwnerInv' /\ RetiredInv' /\ CountInv' /\ AnswerInv'
    BY DEF WakeSpuriously, LineInv, OwnerInv, RetiredInv, CountInv, Waiting, AnswerInv,
           Dropped
<1>2. TypeOK'
    BY DEF WakeSpuriously, TypeOK, Answers, Messages
<1>3. HostInv'
    <2>1. InHost' = InHost
        BY DEF WakeSpuriously, TypeOK, InHost, Woken
    <2> QED
        BY <2>1, HostKept DEF WakeSpuriously
<1>4. WorkerInv'
    BY DEF WakeSpuriously, WorkerInv, Busy, InHost
<1> QED
    BY <1>1, <1>2, <1>3, <1>4

\* The call into the host, which runs without the lock.
LEMMA WorkKeeps ==
    ASSUME SchedulerInv, NEW w \in Workers, Work(w)
    PROVE  SchedulerInv'
<1> USE LimitsAssumption DEF SchedulerInv, shared, perJob, perWorker
<1>1. LineInv' /\ OwnerInv' /\ RetiredInv' /\ CountInv' /\ AnswerInv'
    BY DEF Work, LineInv, OwnerInv, RetiredInv, CountInv, Waiting, AnswerInv, Dropped
<1>2. TypeOK'
    BY DEF Work, TypeOK, Answers, Messages
<1>3. HostInv'
    <2>1. InHost' = InHost
        BY DEF Work, TypeOK, InHost, Woken
    <2> QED
        BY <2>1, HostKept DEF Work
<1>4. WorkerInv'
    BY DEF Work, TypeOK, WorkerInv, Busy, InHost
<1> QED
    BY <1>1, <1>2, <1>3, <1>4

\* The worker that ended a call wakes the others.
LEMMA NotifyFinishKeeps ==
    ASSUME SchedulerInv, NEW w \in Workers, NotifyFinish(w)
    PROVE  SchedulerInv'
<1> USE LimitsAssumption DEF SchedulerInv, shared, perJob, perWorker
<1>1. LineInv' /\ OwnerInv' /\ RetiredInv' /\ CountInv' /\ AnswerInv'
    BY DEF NotifyFinish, LineInv, OwnerInv, RetiredInv, CountInv, Waiting, AnswerInv,
           Dropped
<1>2. TypeOK'
    BY DEF NotifyFinish, TypeOK, Woken, Answers, Messages
<1>3. HostInv'
    <2>1. InHost' = InHost
        BY DEF NotifyFinish, TypeOK, InHost, Woken
    <2> QED
        BY <2>1, HostKept DEF NotifyFinish
<1>4. WorkerInv'
    BY DEF NotifyFinish, WorkerInv, Busy, InHost, Woken
<1> QED
    BY <1>1, <1>2, <1>3, <1>4

\* The close wakes every worker.
LEMMA NotifyCloseKeeps ==
    ASSUME SchedulerInv, NotifyClose
    PROVE  SchedulerInv'
<1> USE LimitsAssumption DEF SchedulerInv, shared, perJob, perWorker
<1>1. LineInv' /\ OwnerInv' /\ RetiredInv' /\ CountInv' /\ AnswerInv'
    BY DEF NotifyClose, LineInv, OwnerInv, RetiredInv, CountInv, Waiting, AnswerInv, Dropped
<1>2. TypeOK'
    BY DEF NotifyClose, TypeOK, Woken, Answers, Messages
<1>3. HostInv'
    <2>1. InHost' = InHost
        BY DEF NotifyClose, TypeOK, InHost, Woken
    <2> QED
        BY <2>1, HostKept DEF NotifyClose
<1>4. WorkerInv'
    BY DEF NotifyClose, WorkerInv, Busy, InHost, Woken
<1> QED
    BY <1>1, <1>2, <1>3, <1>4

\* The close has seen every worker exit.
LEMMA JoinKeeps ==
    ASSUME SchedulerInv, Join
    PROVE  SchedulerInv'
<1> USE LimitsAssumption DEF SchedulerInv, shared, perJob, perWorker
<1>1. LineInv' /\ OwnerInv' /\ RetiredInv' /\ HostInv' /\ WorkerInv' /\ CountInv' /\ AnswerInv'
    BY DEF Join, LineInv, OwnerInv, RetiredInv, HostInv, InHost, WorkerInv, Busy, CountInv,
           Waiting, AnswerInv, Dropped
<1>2. TypeOK'
    BY DEF Join, TypeOK, Answers, Messages
<1> QED
    BY <1>1, <1>2

\* A step of something else.
LEMMA StutterKeeps ==
    ASSUME SchedulerInv, UNCHANGED vars
    PROVE  SchedulerInv'
<1> USE LimitsAssumption DEF SchedulerInv, shared, perJob, perWorker
<1>1. TypeOK' /\ LineInv' /\ OwnerInv' /\ RetiredInv'
    BY DEF vars, TypeOK, LineInv, OwnerInv, RetiredInv
<1>2. HostInv' /\ WorkerInv'
    BY DEF vars, HostInv, InHost, WorkerInv, Busy
<1>3. CountInv' /\ AnswerInv'
    BY DEF vars, CountInv, Waiting, AnswerInv, Dropped
<1> QED
    BY <1>1, <1>2, <1>3

\* The one step that fills a channel.
LEMMA DeliverKeeps ==
    ASSUME SchedulerInv, NEW w \in Workers, Deliver(w)
    PROVE  SchedulerInv'
<1> USE LimitsAssumption DEF SchedulerInv, shared, perJob, perWorker
<1>1. RetiredInv' /\ CountInv'
    BY DEF Deliver, MessageOf, RetiredInv, CountInv, Waiting
<1>2. TypeOK'
    BY DEF Deliver, MessageOf, TypeOK, Answers, Messages
<1>3. LineInv'
    <2>1. task[w] \in Jobs /\ jobs[task[w]] # "queued"
        BY DEF Deliver, TypeOK, WorkerInv, Busy, InHost, JobStateOf
    <2>2. \A j \in Jobs : j # task[w] => channel'[j] = channel[j]
        BY <2>1 DEF Deliver, TypeOK
    <2> QED
        BY <2>1, <2>2 DEF Deliver, LineInv
<1>4. OwnerInv'
    BY DEF Deliver, TypeOK, OwnerInv, WorkerInv, Busy
<1>5. HostInv'
    <2>1. InHost' = InHost /\ \A v \in InHost : task'[v] = task[v]
        BY DEF Deliver, TypeOK, InHost, Woken
    <2> QED
        BY <2>1, HostKept DEF Deliver
<1>6. WorkerInv'
    BY DEF Deliver, TypeOK, WorkerInv, Busy, InHost
<1>7. AnswerInv'
    <2>1. /\ task[w] \in Jobs /\ report[w] \in Reports
          /\ jobs[task[w]] \in {JobStateOf(report[w]), "unknown"}
        BY DEF Deliver, WorkerInv, Busy, InHost
    <2>2. /\ channel'[task[w]] = MessageOf(report[w])
          /\ \A j \in Jobs \ {task[w]} : channel'[j] = channel[j]
        BY <2>1 DEF Deliver, TypeOK
    <2>3. /\ MessageOf(report[w]) = "value" => jobs[task[w]] \in {"done", "unknown"}
          /\ MessageOf(report[w]) = "cancelled" => jobs[task[w]] \in {"cancelled", "unknown"}
          /\ MessageOf(report[w]) = "error" => jobs[task[w]] \in {"failed", "unknown"}
          /\ MessageOf(report[w]) # "closed"
        BY <2>1 DEF MessageOf, JobStateOf
    <2>4. UNCHANGED <<jobs, caller, stopping>>
        BY DEF Deliver
    <2> QED
        BY <2>1, <2>2, <2>3, <2>4 DEF AnswerInv, Dropped
<1> QED
    BY <1>1, <1>2, <1>3, <1>4, <1>5, <1>6, <1>7

------------------------------------------------------------------------------
(* The steps that move a job *)

\* submit: one more job at the end of the line, one more in the count of its plugin.
LEMMA SubmitKeeps ==
    ASSUME SchedulerInv, NEW j \in Jobs, NEW p \in Plugins, Submit(j, p)
    PROVE  SchedulerInv'
<1> USE LimitsAssumption DEF SchedulerInv, perWorker
<1> DEFINE state == [health[p] EXCEPT !.queued = @ + 1]
<1>1. /\ state \in [queued : Nat, running : Nat, failures : Nat, degraded : BOOLEAN]
      /\ state.queued = health[p].queued + 1 /\ state.running = health[p].running
    <2>1. health[p] \in [queued : Nat, running : Nat, failures : Nat, degraded : BOOLEAN]
        BY DEF TypeOK
    <2> QED
        BY <2>1
<1>2. health' = [health EXCEPT ![p] = state]
    BY DEF Submit, TypeOK
<1> HIDE DEF state
<1>3. /\ jobs[j] = "unknown" /\ owner[j] = None /\ channel[j] = "none"
      /\ ~Contains(queue, j) /\ j \notin inFlight /\ caller[j] = "new"
    BY DEF Submit, OwnerInv, LineInv, HostInv
<1>4. /\ queue' \in Seq(Jobs) /\ Distinct(queue')
      /\ \A k : Contains(queue', k) <=> Contains(queue, k) \/ k = j
    BY <1>3, AppendContains DEF Submit, TypeOK, LineInv
<1>5. TypeOK'
    <2>1. health' \in [Plugins -> [queued : Nat, running : Nat, failures : Nat,
                                   degraded : BOOLEAN]]
        BY <1>1, <1>2 DEF TypeOK
    <2> QED
        BY <1>4, <2>1 DEF Submit, TypeOK, Answers, Messages
<1>6. /\ jobs'[j] = "queued" /\ owner'[j] = p /\ channel'[j] = "open" /\ caller'[j] = "submitting"
      /\ \A i \in Jobs \ {j} : /\ jobs'[i] = jobs[i] /\ owner'[i] = owner[i]
                               /\ channel'[i] = channel[i] /\ caller'[i] = caller[i]
      /\ ~stopping /\ UNCHANGED <<retired, inFlight, running, stopping, at, task, report>>
    BY DEF Submit, TypeOK
<1>7. LineInv'
    BY <1>4, <1>6 DEF LineInv
<1>8. OwnerInv'
    BY <1>6 DEF OwnerInv
<1>9. RetiredInv'
    BY <1>3, <1>6 DEF RetiredInv, Ended
<1>10. HostInv'
    <2>1. InHost' = InHost
        BY <1>6 DEF InHost
    <2>2. \A q \in Plugins : health'[q].running = health[q].running
        BY <1>1, <1>2 DEF TypeOK
    <2>3. \A i \in inFlight : i \in Jobs /\ owner'[i] = owner[i]
        BY <1>3, <1>6 DEF TypeOK
    <2> QED
        BY <1>3, <1>6, <2>1, <2>2, <2>3 DEF HostInv
<1>11. WorkerInv'
    <2>1. InHost' = InHost /\ Busy' = Busy
        BY <1>6 DEF InHost, Busy
    <2> QED
        BY <1>3, <1>6, <2>1 DEF WorkerInv
<1>12. CountInv'
    <2>1. Waiting(p)' = Waiting(p) \cup {j} /\ j \notin Waiting(p)
        BY <1>3, <1>4, <1>6 DEF Waiting
    <2>2. \A q \in Plugins \ {p} : Waiting(q)' = Waiting(q)
        BY <1>3, <1>4, <1>6 DEF Waiting
    <2>6. \A q \in Plugins \ {p} : health'[q] = health[q]
        BY <1>2 DEF TypeOK
    <2>3. health'[p].queued = health[p].queued + 1
        BY <1>1, <1>2 DEF TypeOK
    <2>4. IsFiniteSet(Waiting(p)) /\ health[p].queued = Cardinality(Waiting(p))
        BY <1>6 DEF CountInv
    <2>5. IsFiniteSet(Waiting(p)') /\ health'[p].queued = Cardinality(Waiting(p)')
        BY <2>1, <2>3, <2>4, FS_AddElement
    <2> QED
        BY <1>6, <2>2, <2>5, <2>6 DEF CountInv
<1>13. AnswerInv'
    BY <1>3, <1>6 DEF AnswerInv, Dropped
<1> QED
    BY <1>5, <1>7, <1>8, <1>9, <1>10, <1>11, <1>12, <1>13

\* A job that leaves the line: whoever takes it out, its plugin's count follows.
LEMMA LeavingCounts ==
    ASSUME TypeOK, CountInv, NEW j \in Jobs, owner[j] \in Plugins, jobs[j] = "queued", ~stopping,
           stopping' = stopping, owner' = owner,
           \A k \in Jobs : jobs'[k] = "queued" <=> jobs[k] = "queued" /\ k # j,
           \A q \in Plugins \ {owner[j]} : health'[q].queued = health[q].queued,
           health'[owner[j]].queued = Less(health[owner[j]].queued)
    PROVE  CountInv'
<1> DEFINE p == owner[j]
<1>1. Waiting(p)' = Waiting(p) \ {j} /\ j \in Waiting(p)
    BY DEF Waiting
<1>2. \A q \in Plugins \ {p} : Waiting(q)' = Waiting(q)
    BY DEF Waiting
<1>3. IsFiniteSet(Waiting(p)) /\ health[p].queued = Cardinality(Waiting(p))
    BY DEF CountInv
<1>4. /\ IsFiniteSet(Waiting(p)')
      /\ Cardinality(Waiting(p)') = Cardinality(Waiting(p)) - 1
      /\ Cardinality(Waiting(p)) \in Nat /\ Cardinality(Waiting(p)') \in Nat
    BY <1>1, <1>3, FS_RemoveElement, FS_CardinalityType
<1>5. health'[p].queued = Cardinality(Waiting(p)')
    BY <1>3, <1>4 DEF Less
<1> QED
    BY <1>2, <1>4, <1>5 DEF CountInv

\* cancel: a queued job leaves the line and its count, a running one is only told.
LEMMA CancelKeeps ==
    ASSUME SchedulerInv, NEW j \in Jobs, Cancel(j)
    PROVE  SchedulerInv'
<1> USE LimitsAssumption DEF SchedulerInv, perWorker
<1>1. CASE jobs[j] = "queued" /\ Contains(queue, j)
    <2> DEFINE p == owner[j]
               state == [health[p] EXCEPT !.queued = Less(@)]
    <2>1. p \in Plugins
        BY <1>1 DEF OwnerInv, TypeOK
    <2>2. /\ state \in [queued : Nat, running : Nat, failures : Nat, degraded : BOOLEAN]
          /\ state.queued = Less(health[p].queued) /\ state.running = health[p].running
        <3>1. health[p] \in [queued : Nat, running : Nat, failures : Nat, degraded : BOOLEAN]
            BY <2>1 DEF TypeOK
        <3> QED
            BY <3>1 DEF Less
    <2>3. health' = [health EXCEPT ![p] = state]
        BY <1>1, <2>1 DEF Cancel, TypeOK
    <2> HIDE DEF state
    <2>4. /\ queue' \in Seq(Jobs) /\ Distinct(queue')
          /\ \A k : Contains(queue', k) <=> Contains(queue, k) /\ k # j
        BY <1>1, RemoveFirstContains DEF Cancel, TypeOK, LineInv
    <2>5. SetJob(j, "cancelled") /\ jobs[j] \notin Ended
        BY <1>1 DEF Cancel, Ended
    <2>6. /\ jobs' \in [Jobs -> {"unknown", "queued", "running"} \cup Ended]
          /\ retired' \in Seq(Jobs)
          /\ jobs'[j] \in {"cancelled", "unknown"}
          /\ \A i \in Jobs \ {j} :
                 jobs'[i] = jobs[i] \/ (jobs[i] \in Ended /\ jobs'[i] = "unknown")
          /\ RetiredInv'
        <3>1. "cancelled" \in {"running"} \cup Ended
            BY DEF Ended
        <3> QED
            BY <2>5, <3>1, SetJobKeeps
    <2>7. /\ channel' = [channel EXCEPT ![j] = "closed"]
          /\ UNCHANGED <<told, inFlight, running, stopping, owner, caller,
                         at, task, report, closing>>
        BY <1>1 DEF Cancel
    <2>8. channel'[j] = "closed" /\ \A i \in Jobs \ {j} : channel'[i] = channel[i]
        BY <2>7 DEF TypeOK
    <2>9. ~stopping /\ caller[j] = "holding" /\ j \notin inFlight
        <3>1. stopping => ~Contains(queue, j)
            BY DEF LineInv, Contains
        <3> QED
            BY <1>1, <3>1 DEF Cancel, HostInv, TypeOK
    <2>10. TypeOK'
        <3>1. health' \in [Plugins -> [queued : Nat, running : Nat, failures : Nat,
                                       degraded : BOOLEAN]]
            BY <2>1, <2>2, <2>3 DEF TypeOK
        <3> QED
            BY <2>4, <2>6, <2>7, <3>1 DEF TypeOK
    <2>11. LineInv'
        BY <2>4, <2>6, <2>7, <2>8, <2>9 DEF LineInv, Ended
    <2>12. OwnerInv'
        BY <2>6, <2>7, <2>8, <2>9, <1>1 DEF OwnerInv, Ended
    <2>13. HostInv'
        <3>1. InHost' = InHost
            BY <2>7 DEF InHost
        <3>2. \A q \in Plugins : health'[q].running = health[q].running
            BY <2>1, <2>2, <2>3 DEF TypeOK
        <3>3. \A i \in Jobs : jobs'[i] = "running" <=> i \in inFlight
            BY <1>1, <2>6, <2>9 DEF HostInv, Ended
        <3> QED
            BY <2>7, <3>1, <3>2, <3>3 DEF HostInv
    <2>14. WorkerInv'
        <3>1. InHost' = InHost /\ Busy' = Busy
            BY <2>7 DEF InHost, Busy
        <3>2. \A w \in Busy : task[w] # j
            BY <1>1 DEF WorkerInv, HostInv, Busy, InHost, JobStateOf
        <3>3. \A w \in Busy : /\ task[w] \in Jobs \ {j} /\ channel'[task[w]] = channel[task[w]]
                              /\ jobs'[task[w]] \in {jobs[task[w]], "unknown"}
            BY <2>6, <2>8, <3>2 DEF WorkerInv
        <3> QED
            BY <2>7, <3>1, <3>3 DEF WorkerInv
    <2>15. CountInv'
        <3>1. \A q \in Plugins \ {p} : health'[q].queued = health[q].queued
            BY <2>3 DEF TypeOK
        <3>2. health'[p].queued = Less(health[p].queued)
            BY <2>1, <2>2, <2>3 DEF TypeOK
        <3>3. \A k \in Jobs : jobs'[k] = "queued" <=> jobs[k] = "queued" /\ k # j
            BY <2>6 DEF Ended
        <3> QED
            BY <1>1, <2>1, <2>7, <2>9, <3>1, <3>2, <3>3, LeavingCounts
    <2>16. AnswerInv'
        BY <1>1, <2>6, <2>7, <2>8, <2>9 DEF AnswerInv, Dropped, LineInv, Ended
    <2> QED
        BY <2>6, <2>10, <2>11, <2>12, <2>13, <2>14, <2>15, <2>16
<1>2. CASE jobs[j] = "running" /\ j \in inFlight
    <2>1. /\ told' = told \cup {j}
          /\ UNCHANGED <<queue, health, jobs, retired, channel, inFlight, running, stopping,
                         owner, caller, at, task, report, closing>>
        BY <1>2 DEF Cancel
    <2>2. TypeOK'
        BY <1>2, <2>1 DEF TypeOK
    <2>3. LineInv' /\ OwnerInv' /\ RetiredInv'
        BY <2>1 DEF LineInv, OwnerInv, RetiredInv
    <2>4. HostInv' /\ CountInv'
        BY <2>1 DEF HostInv, InHost, CountInv, Waiting
    <2>5. WorkerInv'
        BY <2>1 DEF WorkerInv, Busy, InHost
    <2>6. AnswerInv'
        BY <2>1 DEF AnswerInv, Dropped
    <2> QED
        BY <2>2, <2>3, <2>4, <2>5, <2>6
<1> QED
    BY <1>1, <1>2 DEF Cancel

\* close: the line is forgotten and what it held keeps its state, so the counts of the
\* plugins say nothing any more; the calls that run go on.
LEMMA CloseKeeps ==
    ASSUME SchedulerInv, Close
    PROVE  SchedulerInv'
<1> USE LimitsAssumption DEF SchedulerInv, perWorker
<1>1. /\ stopping' = TRUE /\ queue' = <<>> /\ ~stopping
      /\ \A j \in Jobs : channel'[j] = IF Contains(queue, j) THEN "closed" ELSE channel[j]
      /\ UNCHANGED <<health, jobs, retired, inFlight, told, running,
                     owner, caller, at, task, report>>
    BY DEF Close
<1>2. \A k : ~Contains(queue', k)
    BY <1>1 DEF Contains
<1>3. TypeOK'
    BY DEF Close, TypeOK
<1>4. LineInv'
    <2>1. Distinct(queue')
        BY <1>1 DEF Distinct
    <2> QED
        BY <1>1, <1>2, <2>1 DEF LineInv
<1>5. OwnerInv'
    BY <1>1 DEF OwnerInv, LineInv
<1>6. RetiredInv'
    BY <1>1 DEF RetiredInv
<1>7. HostInv'
    BY <1>1 DEF HostInv, InHost
<1>8. WorkerInv'
    <2>1. \A w \in Busy : ~Contains(queue, task[w])
        BY DEF WorkerInv, HostInv, LineInv, Busy, InHost, JobStateOf
    <2> QED
        BY <1>1, <2>1 DEF WorkerInv, Busy, InHost
<1>9. CountInv'
    BY <1>1 DEF CountInv
<1>10. AnswerInv'
    BY <1>1 DEF AnswerInv, Dropped, LineInv
<1> QED
    BY <1>3, <1>4, <1>5, <1>6, <1>7, <1>8, <1>9, <1>10

\* Two counts of a plugin's state are set and the rest is kept.
LEMMA CountsSet ==
    ASSUME NEW state \in [queued : Nat, running : Nat, failures : Nat, degraded : BOOLEAN],
           NEW m \in Nat, NEW n \in Nat
    PROVE  LET set == [state EXCEPT !.queued = m, !.running = n]
           IN  /\ set \in [queued : Nat, running : Nat, failures : Nat, degraded : BOOLEAN]
               /\ set.queued = m /\ set.running = n
OBVIOUS

\* take: the first job of an idle plugin leaves the line for the host, or the worker sleeps
\* or exits.
LEMMA TakeKeeps ==
    ASSUME SchedulerInv, NEW w \in Workers, Take(w)
    PROVE  SchedulerInv'
<1> USE LimitsAssumption DEF SchedulerInv, perJob
<1>1. CASE NextIndex # 0
    <2> DEFINE n == NextIndex
               j == queue[n]
               p == owner[j]
               state == [health[p] EXCEPT !.queued = Less(@), !.running = @ + 1]
    <2>1. n \in 1..Len(queue) /\ health[p].running = 0
        BY <1>1, NextIndexFound DEF TypeOK
    <2>2. j \in Jobs /\ Contains(queue, j)
        BY <2>1 DEF TypeOK, Contains
    <2>3. /\ queue' = RemoveAt(queue, n)
          /\ health' = [health EXCEPT ![p].queued = Less(@), ![p].running = @ + 1]
          /\ SetJob(j, "running")
          /\ inFlight' = inFlight \cup {j} /\ task' = [task EXCEPT ![w] = j]
          /\ running' = running + 1 /\ at' = [at EXCEPT ![w] = "working"] /\ at[w] = "ready"
          /\ UNCHANGED <<told, stopping, owner, channel, caller, report, closing>>
        BY <1>1 DEF Take
    <2>4. /\ queue' \in Seq(Jobs) /\ Distinct(queue')
          /\ \A k : Contains(queue', k) <=> Contains(queue, k) /\ k # j
        BY <2>1, <2>3, RemoveAtContains DEF TypeOK, LineInv
    <2> HIDE DEF n, j
    <2>5. jobs[j] = "queued" /\ channel[j] = "open" /\ caller[j] # "new" /\ p \in Plugins
        BY <2>2 DEF LineInv, OwnerInv, TypeOK
    <2>6. ~stopping
        BY <2>2 DEF LineInv, Contains
    <2>7. /\ jobs' \in [Jobs -> {"unknown", "queued", "running"} \cup Ended]
          /\ retired' \in Seq(Jobs)
          /\ jobs'[j] = "running"
          /\ \A i \in Jobs \ {j} :
                 jobs'[i] = jobs[i] \/ (jobs[i] \in Ended /\ jobs'[i] = "unknown")
          /\ RetiredInv'
        <3>1. /\ "running" \in {"running"} \cup Ended /\ "running" \notin Ended
              /\ jobs[j] \notin Ended
            BY <2>5 DEF Ended
        <3> QED
            BY <2>2, <2>3, <3>1, SetJobKeeps
    <2>8. /\ state \in [queued : Nat, running : Nat, failures : Nat, degraded : BOOLEAN]
          /\ state.queued = Less(health[p].queued) /\ state.running = 1
        <3>1. health[p] \in [queued : Nat, running : Nat, failures : Nat, degraded : BOOLEAN]
            BY <2>5 DEF TypeOK
        <3>2. Less(health[p].queued) \in Nat /\ health[p].running + 1 = 1 /\ 1 \in Nat
            BY <2>1, <3>1 DEF Less
        <3> QED
            BY <3>1, <3>2, CountsSet, Zenon
    <2>9. health' = [health EXCEPT ![p] = state]
        BY <2>3, <2>5 DEF TypeOK
    <2> HIDE DEF state
    <2>10. TypeOK'
        <3>1. health' \in [Plugins -> [queued : Nat, running : Nat, failures : Nat,
                                       degraded : BOOLEAN]]
            BY <2>5, <2>8, <2>9 DEF TypeOK
        <3>2. inFlight' \subseteq Jobs /\ told' \subseteq inFlight' /\ running' \in Nat
            BY <2>2, <2>3 DEF TypeOK
        <3>3. /\ task' \in [Workers -> Jobs \cup {None}]
              /\ at' \in [Workers -> {"ready", "asleep", "working", "finishing", "notifying",
                                     "delivering", "exited"}]
            BY <2>2, <2>3 DEF TypeOK
        <3> QED
            BY <2>3, <2>4, <2>7, <3>1, <3>2, <3>3 DEF TypeOK
    <2>11. LineInv'
        BY <2>3, <2>4, <2>6, <2>7 DEF LineInv, Ended
    <2>12. OwnerInv'
        BY <2>3, <2>5, <2>7 DEF OwnerInv, Ended
    <2>13. InHost' = InHost \cup {w} /\ w \notin Busy /\ Busy' = Busy \cup {w}
        BY <2>3 DEF InHost, Busy, TypeOK
    <2>14. task'[w] = j /\ \A v \in Workers \ {w} : task'[v] = task[v]
        BY <2>3 DEF TypeOK
    <2>15. \A v \in Busy : task[v] # j
        BY <2>5 DEF WorkerInv, HostInv, Busy, InHost, JobStateOf
    <2>16. HostInv'
        <3>1. inFlight' = {task'[v] : v \in InHost'}
            <4>1. \A v \in InHost : v # w /\ v \in Workers /\ task'[v] = task[v]
                BY <2>13, <2>14 DEF InHost, Busy
            <4> QED
                BY <2>3, <2>13, <2>14, <4>1 DEF HostInv
        <3>2. \A i \in Jobs : jobs'[i] = "running" <=> i \in inFlight'
            BY <2>3, <2>7 DEF HostInv, Ended
        <3>3. IsFiniteSet(InHost') /\ running' = Cardinality(InHost')
            <4>1. w \notin InHost
                BY <2>13 DEF InHost, Busy
            <4> QED
                BY <2>3, <2>13, <4>1, FS_AddElement DEF HostInv
        <3>4. \A i \in inFlight : owner[i] # p
            BY <2>1, <2>5 DEF HostInv
        <3>5. \A q \in Plugins \ {p} : health'[q].running = health[q].running
            BY <2>9 DEF TypeOK
        <3>6. health'[p].running = 1
            BY <2>5, <2>8, <2>9 DEF TypeOK
        <3>7. ASSUME NEW q \in Plugins
              PROVE  health'[q].running = IF \E i \in inFlight' : owner'[i] = q THEN 1 ELSE 0
            <4>1. CASE q = p
                BY <2>3, <3>6, <4>1
            <4>2. CASE q # p
                <5>1. (\E i \in inFlight' : owner'[i] = q) <=> \E i \in inFlight : owner[i] = q
                    BY <2>3, <4>2
                <5> QED
                    BY <3>5, <4>2, <5>1 DEF HostInv
            <4> QED
                BY <4>1, <4>2
        <3>8. \A i, k \in inFlight' : owner'[i] = owner'[k] => i = k
            BY <2>3, <3>4 DEF HostInv
        <3> QED
            BY <3>1, <3>2, <3>3, <3>7, <3>8 DEF HostInv
    <2>17. WorkerInv'
        <3>1. \A v \in Busy :
                  v \in Workers \ {w} /\ task'[v] = task[v] /\ task[v] \in Jobs \ {j}
                              /\ at'[v] = at[v] /\ jobs'[task[v]] \in {jobs[task[v]], "unknown"}
            BY <2>3, <2>7, <2>13, <2>14, <2>15 DEF WorkerInv, Busy, TypeOK
        <3>2. Busy' \ InHost' = Busy \ InHost /\ at'[w] = "working"
            BY <2>3, <2>13 DEF TypeOK
        <3> QED
            BY <2>2, <2>3, <2>5, <2>13, <2>14, <2>15, <3>1, <3>2 DEF WorkerInv
    <2>18. CountInv'
        <3>1. \A q \in Plugins \ {p} : health'[q].queued = health[q].queued
            BY <2>9 DEF TypeOK
        <3>2. health'[p].queued = Less(health[p].queued)
            BY <2>5, <2>8, <2>9 DEF TypeOK
        <3>3. \A k \in Jobs : jobs'[k] = "queued" <=> jobs[k] = "queued" /\ k # j
            BY <2>2, <2>7 DEF Ended
        <3> QED
            BY <2>2, <2>3, <2>5, <2>6, <3>1, <3>2, <3>3, LeavingCounts
    <2>19. AnswerInv'
        BY <2>3, <2>5, <2>6, <2>7 DEF AnswerInv, Dropped, Ended
    <2> QED
        BY <2>7, <2>10, <2>11, <2>12, <2>16, <2>17, <2>18, <2>19
<1>2. CASE NextIndex = 0
    <2>1. /\ at[w] = "ready" /\ \E b \in {"exited", "asleep"} : at' = [at EXCEPT ![w] = b]
          /\ UNCHANGED <<queue, health, jobs, retired, inFlight, running, task, told, stopping,
                         owner, channel, caller, report, closing>>
        BY <1>2 DEF Take
    <2>2. InHost' = InHost /\ Busy' = Busy /\ \A v \in Busy : at'[v] = at[v]
        BY <2>1 DEF TypeOK, InHost, Busy
    <2>3. TypeOK'
        BY <2>1 DEF TypeOK
    <2>4. LineInv' /\ OwnerInv' /\ RetiredInv'
        BY <2>1 DEF LineInv, OwnerInv, RetiredInv
    <2>5. HostInv' /\ CountInv'
        BY <2>1, <2>2 DEF HostInv, CountInv, Waiting
    <2>6. WorkerInv'
        BY <2>1, <2>2 DEF WorkerInv
    <2>7. AnswerInv'
        BY <2>1 DEF AnswerInv, Dropped
    <2> QED
        BY <2>3, <2>4, <2>5, <2>6, <2>7
<1> QED
    BY <1>1, <1>2

\* finish: the job and its plugin leave the host, under the lock that counted them in.
LEMMA FinishKeeps ==
    ASSUME SchedulerInv, NEW w \in Workers, Finish(w)
    PROVE  SchedulerInv'
<1> USE LimitsAssumption DEF SchedulerInv, perJob
<1> DEFINE j == task[w]
           p == owner[j]
           state == Counted(health[p], report[w])
<1>1. /\ running' = Less(running) /\ inFlight' = inFlight \ {j} /\ told' = told \ {j}
      /\ health' = [health EXCEPT ![p] = state]
      /\ SetJob(j, JobStateOf(report[w]))
      /\ at' = [at EXCEPT ![w] = "notifying"] /\ at[w] = "finishing"
      /\ UNCHANGED <<queue, stopping, owner, channel, caller, task, report, closing>>
    BY DEF Finish, TypeOK
<1>2. /\ w \in Busy /\ w \in InHost /\ j \in Jobs /\ channel[j] = "open" /\ caller[j] # "new"
      /\ report[w] \in Reports
    BY <1>1 DEF WorkerInv, Busy, InHost
<1>3. j \in inFlight /\ jobs[j] = "running" /\ p \in Plugins
    <2>1. j \in inFlight
        BY <1>2 DEF HostInv
    <2>2. jobs[j] = "running"
        BY <1>2, <2>1 DEF HostInv
    <2>3. owner[j] # None
        BY <1>2, <2>2 DEF OwnerInv
    <2> QED
        BY <1>2, <2>1, <2>2, <2>3 DEF TypeOK
<1>4. JobStateOf(report[w]) \in Ended
    BY DEF JobStateOf, Ended
<1>5. /\ state \in [queued : Nat, running : Nat, failures : Nat, degraded : BOOLEAN]
      /\ state.queued = health[p].queued /\ state.running = Less(health[p].running)
    <2>1. health[p] \in [queued : Nat, running : Nat, failures : Nat, degraded : BOOLEAN]
        BY <1>3 DEF TypeOK
    <2> DEFINE failures == CASE report[w] = "done" -> 0
                             [] report[w] = "failed" -> health[p].failures + 1
                             [] OTHER -> health[p].failures
               degraded == health[p].degraded \/ (report[w] = "failed" /\ failures >= MaxFailures)
    <2>2. failures \in Nat /\ degraded \in BOOLEAN /\ Less(health[p].running) \in Nat
        BY <2>1 DEF Less
    <2>3. state = [health[p] EXCEPT !.running = Less(@), !.failures = failures,
                                    !.degraded = degraded]
        BY <2>1 DEF Counted
    <2> HIDE DEF failures, degraded, state
    <2> QED
        BY <2>1, <2>2, <2>3
<1> HIDE DEF j, state
<1>6. /\ jobs' \in [Jobs -> {"unknown", "queued", "running"} \cup Ended]
      /\ retired' \in Seq(Jobs)
      /\ jobs'[j] \in {JobStateOf(report[w]), "unknown"}
      /\ \A i \in Jobs \ {j} :
             jobs'[i] = jobs[i] \/ (jobs[i] \in Ended /\ jobs'[i] = "unknown")
      /\ RetiredInv'
    <2>1. jobs[j] \notin Ended /\ JobStateOf(report[w]) \in {"running"} \cup Ended
        BY <1>3, <1>4 DEF Ended
    <2> QED
        BY <1>1, <1>2, <2>1, SetJobKeeps
<1>7. TypeOK'
    <2>1. health' \in [Plugins -> [queued : Nat, running : Nat, failures : Nat,
                                   degraded : BOOLEAN]]
        BY <1>1, <1>3, <1>5 DEF TypeOK
    <2>2. running' \in Nat
        BY <1>1 DEF TypeOK, Less
    <2>3. at' \in [Workers -> {"ready", "asleep", "working", "finishing", "notifying",
                               "delivering", "exited"}]
        BY <1>1 DEF TypeOK
    <2>4. inFlight' \subseteq Jobs /\ told' \subseteq inFlight'
        BY <1>1 DEF TypeOK
    <2> QED
        BY <1>1, <1>6, <2>1, <2>2, <2>3, <2>4 DEF TypeOK
<1>8. LineInv'
    BY <1>1, <1>3, <1>4, <1>6 DEF LineInv, Ended
<1>9. OwnerInv'
    BY <1>1, <1>2, <1>3, <1>6 DEF OwnerInv, Ended
<1>10. InHost' = InHost \ {w} /\ Busy' = Busy
    BY <1>1 DEF InHost, Busy, TypeOK
<1>11. \A v \in Busy \ {w} : task[v] # j
    BY <1>2 DEF WorkerInv, j
<1>12. HostInv'
    <2>1. inFlight' = {task'[v] : v \in InHost'}
        <3>1. \A v \in InHost : v # w => task[v] # j
            BY <1>11 DEF InHost, Busy
        <3>2. j = task[w]
            BY DEF j
        <3> QED
            BY <1>1, <1>2, <1>10, <3>1, <3>2 DEF HostInv
    <2>2. \A i \in Jobs : jobs'[i] = "running" <=> i \in inFlight'
        BY <1>1, <1>3, <1>4, <1>6 DEF HostInv, Ended
    <2>3. IsFiniteSet(InHost') /\ running' = Cardinality(InHost')
        <3>1. /\ IsFiniteSet(InHost') /\ Cardinality(InHost') = Cardinality(InHost) - 1
              /\ Cardinality(InHost') \in Nat /\ Cardinality(InHost) \in Nat
            BY <1>2, <1>10, FS_RemoveElement, FS_CardinalityType DEF HostInv
        <3> QED
            BY <1>1, <3>1 DEF HostInv, Less
    <2>4. \A q \in Plugins \ {p} : health'[q].running = health[q].running
        BY <1>1 DEF TypeOK
    <2>5. health'[p].running = 0
        <3>1. health[p].running = 1
            BY <1>3 DEF HostInv
        <3> QED
            BY <1>1, <1>3, <1>5, <3>1 DEF TypeOK, Less
    <2>6. \A q \in Plugins :
              health'[q].running = IF \E i \in inFlight' : owner'[i] = q THEN 1 ELSE 0
        BY <1>1, <1>3, <2>4, <2>5 DEF HostInv
    <2>7. \A i, k \in inFlight' : owner'[i] = owner'[k] => i = k
        BY <1>1 DEF HostInv
    <2> QED
        BY <2>1, <2>2, <2>3, <2>6, <2>7 DEF HostInv
<1>13. WorkerInv'
    <2>1. \A v \in Busy : at'[v] = IF v = w THEN "notifying" ELSE at[v]
        BY <1>1 DEF TypeOK, Busy
    <2>2. \A v \in Busy \ {w} : jobs'[task[v]] \in {jobs[task[v]], "unknown"}
        BY <1>6, <1>11 DEF WorkerInv
    <2>3. j = task[w]
        BY DEF j
    <2>4. Busy' \ InHost' = (Busy \ InHost) \cup {w}
        BY <1>2, <1>10
    <2>5. \A v \in Busy' \ InHost' :
              report'[v] \in Reports /\ jobs'[task'[v]] \in {JobStateOf(report'[v]), "unknown"}
        BY <1>1, <1>2, <1>6, <1>10, <2>2, <2>3, <2>4 DEF WorkerInv
    <2>6. \A v \in Busy' : at'[v] = "finishing" => report'[v] \in Reports
        BY <1>1, <1>10, <2>1 DEF WorkerInv
    <2> QED
        BY <1>1, <1>10, <2>5, <2>6 DEF WorkerInv
<1>14. CountInv'
    <2>1. \A q \in Plugins : health'[q].queued = health[q].queued
        BY <1>1, <1>3, <1>5 DEF TypeOK
    <2>2. \A i \in Jobs : jobs'[i] = "queued" <=> jobs[i] = "queued"
        BY <1>3, <1>4, <1>6 DEF Ended
    <2>3. \A q \in Plugins : Waiting(q)' = Waiting(q)
        BY <1>1, <2>2 DEF Waiting
    <2> QED
        BY <1>1, <2>1, <2>3 DEF CountInv
<1>15. AnswerInv'
    <2>1. \A i \in Jobs : i = j \/ jobs'[i] = jobs[i] \/ jobs'[i] = "unknown"
        BY <1>6
    <2>2. jobs'[j] = "unknown" \/ (channel[j] = "open" /\ jobs[j] = "running")
        BY <1>2, <1>3
    <2> QED
        BY <1>1, <2>1, <2>2 DEF AnswerInv, Dropped
<1> QED
    BY <1>6, <1>7, <1>8, <1>9, <1>12, <1>13, <1>14, <1>15

------------------------------------------------------------------------------
(* The theorems *)

\* The scheduler starts with nothing in it.
LEMMA InitKeeps == Init => SchedulerInv
<1> SUFFICES ASSUME Init PROVE SchedulerInv
    OBVIOUS
<1> USE LimitsAssumption DEF Init, SchedulerInv
<1>1. TypeOK
    <2>1. [queued |-> 0, running |-> 0, failures |-> 0, degraded |-> FALSE]
              \in [queued : Nat, running : Nat, failures : Nat, degraded : BOOLEAN]
        OBVIOUS
    <2>2. health \in [Plugins -> [queued : Nat, running : Nat, failures : Nat,
                                  degraded : BOOLEAN]]
        BY <2>1
    <2>3. queue \in Seq(Jobs) /\ retired \in Seq(Jobs)
        OBVIOUS
    <2> QED
        BY <2>2, <2>3 DEF TypeOK
<1>2. \A j : ~Contains(queue, j) /\ ~Contains(retired, j)
    BY DEF Contains
<1>3. LineInv /\ OwnerInv /\ RetiredInv
    BY <1>2 DEF LineInv, OwnerInv, RetiredInv, Distinct, Ended
<1>4. InHost = {} /\ Busy = {}
    BY DEF InHost, Busy
<1>5. HostInv
    BY <1>4, FS_EmptySet DEF HostInv
<1>6. WorkerInv
    BY <1>4 DEF WorkerInv
<1>7. CountInv
    <2>1. \A p \in Plugins : Waiting(p) = {} /\ health[p].queued = 0
        BY <1>2 DEF Waiting
    <2> QED
        BY <2>1, FS_EmptySet DEF CountInv
<1>8. AnswerInv
    BY DEF AnswerInv
<1> QED
    BY <1>1, <1>3, <1>5, <1>6, <1>7, <1>8

\* Every step keeps the invariant.
LEMMA NextKeeps == SchedulerInv /\ [Next]_vars => SchedulerInv'
<1> SUFFICES ASSUME SchedulerInv, [Next]_vars PROVE SchedulerInv'
    OBVIOUS
<1>1. ASSUME NEW w \in Workers, WorkerStep(w) \/ WakeSpuriously(w) PROVE SchedulerInv'
    BY <1>1, TakeKeeps, WorkKeeps, FinishKeeps, NotifyFinishKeeps, DeliverKeeps,
       WakeSpuriouslyKeeps DEF WorkerStep
<1>2. ASSUME NEW j \in Jobs, \E p \in Plugins : Submit(j, p) PROVE SchedulerInv'
    BY <1>2, SubmitKeeps
<1>3. ASSUME NEW j \in Jobs, CallerStep(j) \/ Cancel(j) \/ Wait(j) \/ GiveUp(j)
      PROVE  SchedulerInv'
    BY <1>3, NotifyKeeps, ReceiveKeeps, AskKeeps, CancelKeeps, WaitKeeps, GiveUpKeeps
       DEF CallerStep
<1>4. ASSUME NEW p \in Plugins, ResumePlugin(p) PROVE SchedulerInv'
    BY <1>4, ResumeKeeps
<1>5. ASSUME Close \/ CloseStep \/ Closed PROVE SchedulerInv'
    BY <1>5, CloseKeeps, NotifyCloseKeeps, JoinKeeps, StutterKeeps DEF CloseStep, Closed
<1>6. ASSUME UNCHANGED vars PROVE SchedulerInv'
    BY <1>6, StutterKeeps
<1> QED
    BY <1>1, <1>2, <1>3, <1>4, <1>5, <1>6 DEF Next

\* Whatever the callers, the workers and the close do, in whatever order, the line, the map,
\* the counters, the workers and the channels tell one story.
THEOREM SchedulerInvariant == Spec => []SchedulerInv
BY InitKeeps, NextKeeps, PTL DEF Spec

\* Every variable keeps its type; the line never holds anything but jobs.
THEOREM TypeCorrect == Spec => []TypeOK
<1>1. SchedulerInv => TypeOK
    BY DEF SchedulerInv
<1> QED
    BY <1>1, SchedulerInvariant, PTL

\* Two workers are never inside the host for one plugin: the guests are not re-entrant.
THEOREM OneCallEach == Spec => []OneCallPerPlugin
<1>1. SchedulerInv => OneCallPerPlugin
    <2> SUFFICES ASSUME SchedulerInv, NEW v \in InHost, NEW w \in InHost, v # w
                 PROVE  owner[task[v]] # owner[task[w]]
        BY DEF OneCallPerPlugin
    <2>1. task[v] \in inFlight /\ task[w] \in inFlight
        BY DEF SchedulerInv, HostInv
    <2>2. v \in Busy /\ w \in Busy
        BY DEF InHost, Busy
    <2> QED
        BY <2>1, <2>2 DEF SchedulerInv, HostInv, WorkerInv
<1> QED
    BY <1>1, SchedulerInvariant, PTL

\* A caller is never told that its job succeeded, failed or was cancelled when it did not:
\* what it hears is how the job ended, or the job has been forgotten since.
THEOREM AnswersAreTrue == Spec => []AnswerIsTrue
<1>1. SchedulerInv => AnswerIsTrue
    BY DEF SchedulerInv, AnswerInv, AnswerIsTrue, Answers, Messages
<1> QED
    BY <1>1, SchedulerInvariant, PTL

\* The calls in flight are no more than the workers that run them.
LEMMA CallsCounted ==
    ASSUME SchedulerInv
    PROVE  /\ IsFiniteSet(inFlight)
           /\ Cardinality(inFlight) \in Nat /\ Cardinality(inFlight) <= running
<1> DEFINE call == [w \in InHost |-> task[w]]
<1>1. call \in Surjection(InHost, inFlight)
    BY DEF SchedulerInv, HostInv, Surjection
<1> HIDE DEF call
<1>2. IsFiniteSet(inFlight) /\ Cardinality(inFlight) <= Cardinality(InHost)
    BY <1>1, FS_Surjection, Zenon DEF SchedulerInv, HostInv
<1> QED
    BY <1>2, FS_CardinalityType DEF SchedulerInv, HostInv

\* Between two locks the counts of each plugin, the calls in flight, the line and the map
\* agree, and the map never outgrows its bound.
THEOREM BooksAgree == Spec => []BookkeepingAgrees
<1>1. SchedulerInv => BookkeepingAgrees
    <2> SUFFICES ASSUME SchedulerInv PROVE BookkeepingAgrees
        OBVIOUS
    <2> USE DEF SchedulerInv
    <2>1. IsFiniteSet(inFlight) /\ Cardinality(inFlight) <= running
        BY CallsCounted
    <2>2. JobMapBounded
        <3> SUFFICES ASSUME ~stopping
                     PROVE  Cardinality({j \in Jobs : jobs[j] # "unknown"})
                                <= Len(queue) + running + MaxRetained
            BY DEF JobMapBounded
        <3> DEFINE waiting == {j \in Jobs : Contains(queue, j)}
                   ended == {j \in Jobs : Contains(retired, j)}
                   known == {j \in Jobs : jobs[j] # "unknown"}
        <3>1. IsFiniteSet(waiting) /\ Cardinality(waiting) <= Len(queue)
            BY ElementsBounded DEF TypeOK
        <3>2. IsFiniteSet(ended) /\ Cardinality(ended) <= Len(retired)
            BY ElementsBounded DEF TypeOK
        <3>3. known \subseteq (waiting \cup inFlight) \cup ended
            BY DEF TypeOK, LineInv, HostInv, RetiredInv
        <3> HIDE DEF waiting, ended, known
        <3>4. /\ IsFiniteSet(waiting \cup inFlight)
              /\ Cardinality(waiting \cup inFlight)
                     <= Cardinality(waiting) + Cardinality(inFlight)
            BY <2>1, <3>1, UnionBounded
        <3>5. /\ IsFiniteSet((waiting \cup inFlight) \cup ended)
              /\ Cardinality((waiting \cup inFlight) \cup ended)
                     <= Cardinality(waiting \cup inFlight) + Cardinality(ended)
            BY <3>2, <3>4, UnionBounded
        <3>6. IsFiniteSet(known) /\ Cardinality(known)
                                        <= Cardinality((waiting \cup inFlight) \cup ended)
            BY <3>3, <3>5, FS_Subset
        <3>7. /\ Cardinality(known) \in Nat /\ Cardinality(waiting) \in Nat
              /\ Cardinality(inFlight) \in Nat /\ Cardinality(ended) \in Nat
              /\ Cardinality(waiting \cup inFlight) \in Nat
              /\ Cardinality((waiting \cup inFlight) \cup ended) \in Nat
            BY <2>1, <3>1, <3>2, <3>4, <3>5, <3>6, FS_CardinalityType
        <3>8. Len(queue) \in Nat /\ Len(retired) \in Nat /\ running \in Nat
              /\ Len(retired) <= MaxRetained /\ MaxRetained \in Nat
            BY LimitsAssumption DEF TypeOK, RetiredInv
        <3>9. Cardinality(known) <= Len(queue) + running + MaxRetained
            BY <2>1, <3>1, <3>2, <3>4, <3>5, <3>6, <3>7, <3>8
        <3> QED
            BY <3>9 DEF known
    <2>3. \A p \in Plugins : health[p].running = Cardinality({j \in inFlight : owner[j] = p})
        <3> TAKE p \in Plugins
        <3> DEFINE own == {j \in inFlight : owner[j] = p}
        <3>1. CASE own = {}
            BY <3>1, FS_EmptySet DEF HostInv
        <3>2. CASE own # {}
            <4>1. PICK j \in own : own = {j}
                BY <3>2 DEF HostInv
            <4>2. Cardinality(own) = 1
                BY <4>1, FS_Singleton
            <4> QED
                BY <3>2, <4>2 DEF HostInv
        <3> QED
            BY <3>1, <3>2
    <2>4. \A i, k \in DOMAIN queue : queue[i] = queue[k] => i = k
        <3>1. DOMAIN queue = 1..Len(queue)
            BY LenProperties DEF TypeOK
        <3> QED
            BY <3>1 DEF LineInv, Distinct
    <2>5. ASSUME ~stopping
          PROVE  /\ \A j \in Jobs : jobs[j] = "queued" <=> Contains(queue, j)
                 /\ \A p \in Plugins : health[p].queued = Cardinality(Waiting(p))
        BY <2>5 DEF LineInv, CountInv
    <2> QED
        BY <2>2, <2>3, <2>4, <2>5 DEF BookkeepingAgrees, HostInv
<1> QED
    BY <1>1, SchedulerInvariant, PTL

\* A job that has ended never changes its end; it can only be forgotten.
THEOREM NoSecondEnd == Spec => EndedIsFinal
<1>1. SchedulerInv /\ [Next]_vars =>
          [\A j \in Jobs : jobs[j] \in Ended => jobs'[j] \in {jobs[j], "unknown"}]_vars
    <2> SUFFICES ASSUME SchedulerInv, Next
                 PROVE  \A j \in Jobs : jobs[j] \in Ended => jobs'[j] \in {jobs[j], "unknown"}
        OBVIOUS
    <2> USE DEF SchedulerInv
    <2>1. ASSUME NEW j \in Jobs, jobs[j] \notin Ended, NEW state \in {"running"} \cup Ended,
                 SetJob(j, state)
          PROVE  \A i \in Jobs : jobs[i] \in Ended => jobs'[i] \in {jobs[i], "unknown"}
        BY <2>1, SetJobKeeps
    <2>2. ASSUME UNCHANGED jobs
          PROVE  \A i \in Jobs : jobs[i] \in Ended => jobs'[i] \in {jobs[i], "unknown"}
        BY <2>2
    <2>3. ASSUME NEW w \in Workers, Take(w)
          PROVE  \A i \in Jobs : jobs[i] \in Ended => jobs'[i] \in {jobs[i], "unknown"}
        <3>1. CASE NextIndex # 0
            <4>1. NextIndex \in 1..Len(queue)
                BY <3>1, NextIndexFound DEF TypeOK
            <4> DEFINE j == queue[NextIndex]
            <4>2. j \in Jobs /\ Contains(queue, j)
                BY <4>1 DEF TypeOK, Contains
            <4>3. SetJob(j, "running")
                BY <2>3, <3>1 DEF Take
            <4> HIDE DEF j
            <4>4. jobs[j] \notin Ended /\ "running" \in {"running"} \cup Ended
                BY <4>2 DEF LineInv, Ended
            <4> QED
                BY <2>1, <4>2, <4>3, <4>4
        <3>2. CASE NextIndex = 0
            BY <2>2, <2>3, <3>2 DEF Take
        <3> QED
            BY <3>1, <3>2
    <2>4. ASSUME NEW w \in Workers, Finish(w)
          PROVE  \A i \in Jobs : jobs[i] \in Ended => jobs'[i] \in {jobs[i], "unknown"}
        <3>1. task[w] \in Jobs /\ jobs[task[w]] \notin Ended
            BY <2>4 DEF Finish, WorkerInv, HostInv, Busy, InHost, Ended
        <3>2. JobStateOf(report[w]) \in {"running"} \cup Ended
            BY DEF JobStateOf, Ended
        <3>3. SetJob(task[w], JobStateOf(report[w]))
            BY <2>4 DEF Finish
        <3> QED
            BY <2>1, <3>1, <3>2, <3>3
    <2>5. ASSUME NEW j \in Jobs, Cancel(j)
          PROVE  \A i \in Jobs : jobs[i] \in Ended => jobs'[i] \in {jobs[i], "unknown"}
        <3>1. CASE UNCHANGED jobs
            BY <2>2, <3>1
        <3>2. CASE SetJob(j, "cancelled") /\ jobs[j] = "queued"
            <4>1. jobs[j] \notin Ended /\ "cancelled" \in {"running"} \cup Ended
                BY <3>2 DEF Ended
            <4> QED
                BY <2>1, <3>2, <4>1
        <3> QED
            BY <2>5, <3>1, <3>2 DEF Cancel
    <2>6. ASSUME NEW j \in Jobs, NEW p \in Plugins, Submit(j, p)
          PROVE  \A i \in Jobs : jobs[i] \in Ended => jobs'[i] \in {jobs[i], "unknown"}
        BY <2>6 DEF Submit, OwnerInv, TypeOK, Ended
    <2>7. ASSUME NEW w \in Workers,
                 Work(w) \/ NotifyFinish(w) \/ Deliver(w) \/ WakeSpuriously(w)
          PROVE  UNCHANGED jobs
        BY <2>7 DEF Work, NotifyFinish, Deliver, WakeSpuriously, shared
    <2>8. ASSUME NEW j \in Jobs, CallerStep(j) \/ Wait(j) \/ GiveUp(j)
          PROVE  UNCHANGED jobs
        BY <2>8 DEF CallerStep, Notify, Receive, Ask, Wait, GiveUp, shared
    <2>9. ASSUME (\E p \in Plugins : ResumePlugin(p)) \/ Close \/ CloseStep \/ Closed
          PROVE  UNCHANGED jobs
        BY <2>9 DEF ResumePlugin, Close, CloseStep, NotifyClose, Join, Closed, shared, vars
    <2> QED
        BY <2>2, <2>3, <2>4, <2>5, <2>6, <2>7, <2>8, <2>9 DEF Next, WorkerStep
<1> QED
    BY <1>1, SchedulerInvariant, PTL DEF Spec, EndedIsFinal

------------------------------------------------------------------------------
(* The refinement of PluginQueue *)

\* The instance counts with the same Cardinality.
LEMMA SameCount == \A S : Queue!Cardinality(S) = Cardinality(S)
BY DEF Queue!Cardinality, Cardinality

\* The line in the terms of PluginQueue.
LEMMA MappedLine ==
    ASSUME SchedulerInv
    PROVE  /\ ~stopping => \A p \in Plugins : Queue!InLine(p) = Waiting(p)
           /\ \A n \in 1..Len(queue) : Queue!Without(n) = RemoveAt(queue, n)
           /\ DOMAIN queue = 1..Len(queue)
<1> USE DEF SchedulerInv
<1>1. DOMAIN queue = 1..Len(queue)
    BY LenProperties DEF TypeOK
<1>2. ~stopping => \A p \in Plugins : Queue!InLine(p) = Waiting(p)
    <2> SUFFICES ASSUME ~stopping, NEW p \in Plugins PROVE Queue!InLine(p) = Waiting(p)
        OBVIOUS
    <2>1. \A j \in Jobs : Contains(queue, j) <=> \E i \in DOMAIN queue : queue[i] = j
        BY <1>1 DEF Contains
    <2>2. \A j \in Jobs : Contains(queue, j) <=> jobs[j] = "queued"
        BY DEF LineInv
    <2> QED
        BY <2>1, <2>2 DEF Queue!InLine, Waiting
<1>3. \A n \in 1..Len(queue) : Queue!Without(n) = RemoveAt(queue, n)
    BY DEF Queue!Without, RemoveAt
<1> QED
    BY <1>1, <1>2, <1>3

\* What PluginQueue sees of the scheduler.
seen == <<queue, owner, inFlight, ~stopping>>

\* submit is the acceptance of a job, for its plugin has room in the line.
LEMMA SubmitAccepts ==
    ASSUME SchedulerInv, NEW j \in Jobs, NEW p \in Plugins, Submit(j, p)
    PROVE  Queue!Accept(p)
<1> USE DEF SchedulerInv
<1>1. ~stopping /\ Queue!Cardinality(Queue!InLine(p)) < QueueDepth
    BY MappedLine, SameCount DEF Submit, CountInv
<1>2. owner[j] = None
    BY DEF Submit, OwnerInv
<1> QED
    BY <1>1, <1>2 DEF Submit, Queue!Accept

\* cancel takes a queued job out of the line, and changes nothing there for a running one.
LEMMA CancelWithdraws ==
    ASSUME SchedulerInv, NEW j \in Jobs, Cancel(j)
    PROVE  Queue!Withdraw \/ UNCHANGED seen
<1> USE DEF SchedulerInv
<1>1. CASE jobs[j] = "queued" /\ Contains(queue, j)
    <2>1. queue' = RemoveFirst(queue, j) /\ UNCHANGED <<owner, inFlight, stopping>>
        BY <1>1 DEF Cancel
    <2>2. PICK n \in 1..Len(queue) : queue' = RemoveAt(queue, n)
        BY <1>1, <2>1, RemoveFirstContains DEF TypeOK, LineInv
    <2> QED
        BY <2>1, <2>2, MappedLine DEF Queue!Withdraw
<1>2. CASE jobs[j] = "running"
    BY <1>2 DEF Cancel, seen
<1> QED
    BY <1>1, <1>2 DEF Cancel

\* take starts the oldest job of a plugin that runs none, below the bound on calls.
LEMMA TakeStarts ==
    ASSUME SchedulerInv, NEW w \in Workers, Take(w)
    PROVE  Queue!Start \/ UNCHANGED seen
<1> USE LimitsAssumption DEF SchedulerInv
<1>1. CASE NextIndex # 0
    <2> SUFFICES ASSUME NEW n, n = NextIndex PROVE Queue!Start
        OBVIOUS
    <2>1. /\ running < MaxConcurrency
          /\ n \in 1..Len(queue) /\ health[owner[queue[n]]].running = 0
          /\ \A k \in 1..n - 1 : health[owner[queue[k]]].running # 0
        BY <1>1, NextIndexFound DEF TypeOK
    <2>2. /\ queue' = RemoveAt(queue, n) /\ inFlight' = inFlight \cup {queue[n]}
          /\ UNCHANGED <<stopping, owner>>
        BY <1>1 DEF Take, perJob
    <2>3. owner[queue[n]] \in Plugins
        <3>1. queue[n] \in Jobs /\ Contains(queue, queue[n])
            BY <2>1 DEF TypeOK, Contains
        <3>2. owner[queue[n]] # None
            BY <3>1 DEF LineInv, OwnerInv
        <3> QED
            BY <3>1, <3>2 DEF TypeOK
    <2>4. \A j \in inFlight : owner[j] # owner[queue[n]]
        BY <2>1, <2>3 DEF HostInv
    <2>5. \A k \in 1..n - 1 : owner[queue[k]] # owner[queue[n]]
        BY <2>1
    <2>6. Queue!Cardinality(inFlight) < MaxConcurrency
        BY <2>1, CallsCounted, SameCount DEF TypeOK
    <2>7. queue' = Queue!Without(n) /\ n \in DOMAIN queue
        BY <2>1, <2>2, MappedLine
    <2> QED
        BY <2>2, <2>4, <2>5, <2>6, <2>7 DEF Queue!Start
<1>2. CASE NextIndex = 0
    BY <1>2 DEF Take, perJob, seen
<1> QED
    BY <1>1, <1>2

\* finish ends a call that runs.
LEMMA FinishEnds ==
    ASSUME SchedulerInv, NEW w \in Workers, Finish(w)
    PROVE  Queue!End
<1>1. task[w] \in inFlight
    BY DEF Finish, SchedulerInv, HostInv, InHost
<1> QED
    BY <1>1 DEF Finish, perJob, Queue!End

\* Every step of the scheduler is a step of PluginQueue or none.
LEMMA StepIsSeen ==
    ASSUME SchedulerInv, [Next]_vars
    PROVE  [Queue!Next]_seen
<1>1. ASSUME NEW w \in Workers, WorkerStep(w) \/ WakeSpuriously(w)
      PROVE  Queue!Next \/ UNCHANGED seen
    <2>1. CASE Take(w)
        BY <2>1, TakeStarts DEF Queue!Next
    <2>2. CASE Finish(w)
        BY <2>2, FinishEnds DEF Queue!Next
    <2>3. CASE Work(w) \/ NotifyFinish(w) \/ Deliver(w) \/ WakeSpuriously(w)
        BY <2>3 DEF Work, NotifyFinish, Deliver, WakeSpuriously, shared, perJob, seen
    <2> QED
        BY <1>1, <2>1, <2>2, <2>3 DEF WorkerStep
<1>2. ASSUME NEW j \in Jobs, NEW p \in Plugins, Submit(j, p) PROVE Queue!Next
    BY <1>2, SubmitAccepts DEF Queue!Next
<1>3. ASSUME NEW j \in Jobs, CallerStep(j) \/ Cancel(j) \/ Wait(j) \/ GiveUp(j)
      PROVE  Queue!Next \/ UNCHANGED seen
    <2>1. CASE Cancel(j)
        BY <2>1, CancelWithdraws DEF Queue!Next
    <2>2. CASE CallerStep(j) \/ Wait(j) \/ GiveUp(j)
        BY <2>2 DEF CallerStep, Notify, Receive, Ask, Wait, GiveUp, shared, seen
    <2> QED
        BY <1>3, <2>1, <2>2
<1>4. CASE Close
    BY <1>4 DEF Close, Queue!Close, Queue!Next
<1>5. CASE \E p \in Plugins : ResumePlugin(p)
    BY <1>5 DEF ResumePlugin, perJob, seen
<1>6. CASE CloseStep \/ Closed \/ UNCHANGED vars
    BY <1>6 DEF CloseStep, NotifyClose, Join, Closed, shared, perJob, vars, seen
<1> QED
    BY <1>1, <1>2, <1>3, <1>4, <1>5, <1>6 DEF Next

\* The scheduler keeps the promise of PluginQueue: in order for each plugin, one call of a
\* plugin at a time, bounded in the line and in the host.
THEOREM SchedulerRefinement == Spec => ImplementsPluginQueue
<1>1. Init => Queue!Init
    BY DEF Init, Queue!Init
<1>2. SchedulerInv /\ [Next]_vars => [Queue!Next]_<<queue, owner, inFlight, ~stopping>>
    BY StepIsSeen DEF seen
<1> QED
    BY <1>1, <1>2, SchedulerInvariant, PTL DEF Spec, ImplementsPluginQueue, Queue!Spec


------------------------------------------------------------------------------
(* Counting *)

\* The first numbers.
LEMMA UpTo ==
    ASSUME NEW n \in Nat
    PROVE  IsFiniteSet(1..n) /\ Cardinality(1..n) = n
<1>1. 1 \in Int /\ n \in Int  OBVIOUS
<1>2. /\ IsFiniteSet(1..n)
      /\ Cardinality(1..n) = IF 1 > n THEN 0 ELSE n - 1 + 1
    BY <1>1, FS_Interval
<1> QED  BY <1>2

------------------------------------------------------------------------------
(* The limits of a call *)

\* The numbers the instance counts are those of this module.
LEMMA SizeInH == \A S : H!Cardinality(S) = Cardinality(S) /\ H!IsFiniteSet(S) = IsFiniteSet(S)
BY DEF H!Cardinality, Cardinality, H!IsFiniteSet, IsFiniteSet

Leased == {"notify", "started", "run", "charge", "leave"}
Leases == {c \in Workers : calling[c] \in Leased}

HostTypes ==
    /\ calling \in [Workers -> {"idle", "enter", "drop"} \cup Leased]
    /\ ticks \in [Workers -> 0..Ticks]
    /\ due \subseteq Workers /\ cancelled \subseteq Workers
    /\ stop \in BOOLEAN
    /\ ticker \in {"check", "waiting", "sleep", "ended"}
    /\ runtime \in {"open", "notify", "join", "closed"}

\* A call that charges has room left in its instance, and read the budget.
BudgetInv ==
    /\ charged \in [Workers -> 0..Instance] /\ read \in [Workers -> 0..Total]
    /\ \A c \in Workers : H!At(c, "charge") => charged[c] + 1 <= Instance
    /\ committed = Cardinality(H!Charges) /\ committed <= Total

CallInv == HostTypes /\ BudgetInv /\ leases = Cardinality(Leases)

LEMMA HostFinite ==
    ASSUME H!LimitsAssumption
    PROVE  /\ IsFiniteSet(H!Charges) /\ Cardinality(H!Charges) \in Nat
           /\ IsFiniteSet(Leases) /\ Cardinality(Leases) \in 0..Cardinality(Workers)
           /\ Cardinality(Workers) \in Nat
<1>1. IsFiniteSet(Workers) /\ 1 \in Int /\ Instance \in Int
    BY SizeInH DEF H!LimitsAssumption
<1>2. IsFiniteSet(1..Instance)  BY <1>1, FS_Interval
<1>3. IsFiniteSet(Workers \X (1..Instance))  BY <1>1, <1>2, FS_Product
<1>4. H!Charges \subseteq Workers \X (1..Instance) /\ Leases \subseteq Workers
    BY DEF H!Charges, Leases
<1>5. IsFiniteSet(H!Charges) /\ Cardinality(H!Charges) \in Nat
    BY <1>3, <1>4, FS_Subset, FS_CardinalityType
<1>6. /\ IsFiniteSet(Leases) /\ Cardinality(Leases) \in Nat /\ Cardinality(Workers) \in Nat
      /\ Cardinality(Leases) <= Cardinality(Workers)
    BY <1>1, <1>4, FS_Subset, FS_CardinalityType
<1> QED  BY <1>5, <1>6

\* One unit more.
LEMMA UnitCharged ==
    ASSUME H!LimitsAssumption, charged \in [Workers -> 0..Instance], NEW c \in Workers,
           charged[c] + 1 <= Instance, charged' = [charged EXCEPT ![c] = @ + 1]
    PROVE  /\ charged' \in [Workers -> 0..Instance]
           /\ Cardinality(H!Charges)' = Cardinality(H!Charges) + 1
<1> DEFINE unit == <<c, charged[c] + 1>>
<1>1. charged[c] \in Nat /\ Instance \in Nat /\ charged[c] + 1 \in 1..Instance
    BY DEF H!LimitsAssumption
<1>2. unit \in Workers \X (1..Instance) /\ unit \notin H!Charges  BY <1>1 DEF H!Charges
<1>3. H!Charges' = H!Charges \cup {unit}
  <2>1. ASSUME NEW u \in Workers \X (1..Instance)
        PROVE  u[2] <= charged'[u[1]] <=> u[2] <= charged[u[1]] \/ u = unit
    <3>1. /\ u[1] \in Workers /\ u[2] \in 1..Instance /\ u = <<u[1], u[2]>>
          /\ charged[u[1]] \in Nat
        OBVIOUS
    <3>2. CASE u[1] = c
      <4>1. charged'[u[1]] = charged[c] + 1  BY <3>2
      <4>2. u = unit <=> u[2] = charged[c] + 1  BY <3>1, <3>2
      <4> QED  BY <1>1, <3>1, <3>2, <4>1, <4>2
    <3>3. CASE u[1] # c
      <4>1. charged'[u[1]] = charged[u[1]] /\ u # unit  BY <3>1, <3>3
      <4> QED  BY <4>1
    <3> QED  BY <3>2, <3>3
  <2> HIDE DEF unit
  <2> QED  BY <1>2, <2>1 DEF H!Charges
<1>4. charged' \in [Workers -> 0..Instance]  BY <1>1
<1> HIDE DEF unit
<1>5. Cardinality(H!Charges \cup {unit}) = Cardinality(H!Charges) + 1
    BY <1>2, HostFinite, FS_AddElement
<1> QED  BY <1>3, <1>4, <1>5

\* All that a store charged.
LEMMA StoreDropped ==
    ASSUME H!LimitsAssumption, charged \in [Workers -> 0..Instance], NEW c \in Workers,
           charged' = [charged EXCEPT ![c] = 0]
    PROVE  /\ charged' \in [Workers -> 0..Instance]
           /\ Cardinality(H!Charges)' = Cardinality(H!Charges) - charged[c]
<1> DEFINE Own == {c} \X (1..charged[c])
<1>1. /\ charged[c] \in Nat /\ Instance \in Nat /\ charged[c] <= Instance
      /\ 1 \in Int /\ charged[c] \in Int
    BY DEF H!LimitsAssumption
<1>2. IsFiniteSet(Own) /\ Cardinality(Own) = charged[c]
  <2>1. /\ IsFiniteSet(1..charged[c])
        /\ Cardinality(1..charged[c]) = IF 1 > charged[c] THEN 0 ELSE charged[c] - 1 + 1
      BY <1>1, FS_Interval
  <2>2. Cardinality(1..charged[c]) = charged[c]  BY <1>1, <2>1
  <2>3. IsFiniteSet({c}) /\ Cardinality({c}) = 1  BY FS_Singleton
  <2>4. /\ IsFiniteSet(Own)
        /\ Cardinality(Own) = Cardinality({c}) * Cardinality(1..charged[c])
      BY <2>1, <2>3, FS_Product
  <2> QED  BY <1>1, <2>2, <2>3, <2>4
<1>3. H!Charges' = H!Charges \ Own
  <2>1. ASSUME NEW u \in Workers \X (1..Instance)
        PROVE  u[2] <= charged'[u[1]] <=> u[2] <= charged[u[1]] /\ u \notin Own
    <3>1. /\ u[1] \in Workers /\ u[2] \in 1..Instance /\ u = <<u[1], u[2]>>
          /\ charged[u[1]] \in Nat
        OBVIOUS
    <3>2. CASE u[1] = c
      <4>1. charged'[u[1]] = 0  BY <3>2
      <4>2. u \in Own <=> u[2] \in 1..charged[c]  BY <3>1, <3>2
      <4> QED  BY <1>1, <3>1, <3>2, <4>1, <4>2
    <3>3. CASE u[1] # c
      <4>1. charged'[u[1]] = charged[u[1]] /\ u \notin Own  BY <3>1, <3>3
      <4> QED  BY <4>1
    <3> QED  BY <3>2, <3>3
  <2> HIDE DEF Own
  <2> QED  BY <2>1 DEF H!Charges
<1>4. Own \subseteq H!Charges
  <2>1. ASSUME NEW u \in Own  PROVE u \in H!Charges
    <3>1. u = <<c, u[2]>> /\ u[1] = c /\ u[2] \in 1..charged[c]  OBVIOUS
    <3>2. u[2] \in 1..Instance /\ u[2] <= charged[c]  BY <1>1, <3>1
    <3> HIDE DEF Own
    <3> QED  BY <3>1, <3>2 DEF H!Charges
  <2> QED  BY <2>1
<1>5. charged' \in [Workers -> 0..Instance]  BY <1>1
<1> HIDE DEF Own
<1>6. Cardinality(H!Charges \ Own) = Cardinality(H!Charges) - Cardinality(H!Charges \cap Own)
    BY HostFinite, FS_Difference
<1>7. H!Charges \cap Own = Own  BY <1>4
<1> QED  BY <1>2, <1>3, <1>5, <1>6, <1>7

\* A call that neither takes nor gives back a lease.
LEMMA SameLeases ==
    ASSUME calling \in [Workers -> {"idle", "enter", "drop"} \cup Leased],
           NEW c \in Workers, NEW to \in {"idle", "enter", "drop"} \cup Leased, H!Goto(c, to),
           calling[c] \in Leased <=> to \in Leased
    PROVE  calling' \in [Workers -> {"idle", "enter", "drop"} \cup Leased] /\ Leases' = Leases
<1>1. calling' \in [Workers -> {"idle", "enter", "drop"} \cup Leased]  BY DEF H!Goto
<1>2. \A d \in Workers : calling'[d] \in Leased <=> calling[d] \in Leased  BY DEF H!Goto
<1> QED  BY <1>1, <1>2 DEF Leases

\* The steps of a call that leave the budget alone.
LEMMA CallKeeps ==
    ASSUME H!LimitsAssumption, CallInv, NEW c \in Workers,
           \/ H!Begin(c) \/ H!NotifyTicker(c) \/ H!Cancel(c) \/ H!Instantiate(c) \/ H!Return(c)
           \/ H!EpochCallback(c) \/ H!Grow(c)
    PROVE  CallInv'
<1>1. HostTypes' /\ Leases' = Leases
  <2>1. CASE H!Begin(c)
    <3>1. calling' \in [Workers -> {"idle", "enter", "drop"} \cup Leased] /\ Leases' = Leases
        BY <2>1, SameLeases DEF H!Begin, H!At, CallInv, HostTypes, Leased
    <3>2. ticks' \in [Workers -> 0..Ticks]
        BY <2>1 DEF H!Begin, CallInv, HostTypes, H!LimitsAssumption
    <3> QED  BY <2>1, <3>1, <3>2 DEF H!Begin, H!epoch, CallInv, HostTypes
  <2>2. CASE H!NotifyTicker(c)
    <3>1. calling' \in [Workers -> {"idle", "enter", "drop"} \cup Leased] /\ Leases' = Leases
        BY <2>2, SameLeases DEF H!NotifyTicker, H!At, CallInv, HostTypes, Leased
    <3> QED  BY <2>2, <3>1 DEF H!NotifyTicker, H!Wake, CallInv, HostTypes
  <2>3. CASE H!Cancel(c)
      BY <2>3 DEF H!Cancel, H!epoch, CallInv, HostTypes, Leases
  <2>4. CASE H!Instantiate(c)
    <3>1. calling' \in [Workers -> {"idle", "enter", "drop"} \cup Leased] /\ Leases' = Leases
        BY <2>4, SameLeases DEF H!Instantiate, H!At, CallInv, HostTypes, Leased
    <3> QED  BY <2>4, <3>1 DEF H!Instantiate, H!epoch, CallInv, HostTypes
  <2>5. CASE H!Return(c)
    <3>1. calling' \in [Workers -> {"idle", "enter", "drop"} \cup Leased] /\ Leases' = Leases
        BY <2>5, SameLeases DEF H!Return, H!At, CallInv, HostTypes, Leased
    <3> QED  BY <2>5, <3>1 DEF H!Return, H!epoch, CallInv, HostTypes
  <2>6. CASE H!EpochCallback(c)
    <3>1. CASE H!Goto(c, "leave") /\ UNCHANGED <<due, ticks>>
      <4>1. calling' \in [Workers -> {"idle", "enter", "drop"} \cup Leased] /\ Leases' = Leases
          BY <2>6, <3>1, SameLeases DEF H!EpochCallback, H!At, CallInv, HostTypes, Leased
      <4> QED  BY <2>6, <3>1, <4>1 DEF H!EpochCallback, H!epoch, CallInv, HostTypes
    <3>2. CASE /\ ticks[c] > 0 /\ ticks' = [ticks EXCEPT ![c] = @ - 1]
               /\ due' = due \ {c} /\ UNCHANGED calling
      <4>1. ticks' \in [Workers -> 0..Ticks]
          BY <3>2 DEF CallInv, HostTypes, H!LimitsAssumption
      <4> QED  BY <2>6, <3>2, <4>1 DEF H!EpochCallback, H!epoch, CallInv, HostTypes, Leases
    <3> QED  BY <2>6, <3>1, <3>2 DEF H!EpochCallback
  <2>7. CASE H!Grow(c)
    <3>1. calling' \in [Workers -> {"idle", "enter", "drop"} \cup Leased] /\ Leases' = Leases
        BY <2>7, SameLeases DEF H!Grow, H!At, CallInv, HostTypes, Leased
    <3> QED  BY <2>7, <3>1 DEF H!Grow, H!epoch, CallInv, HostTypes
  <2> QED  BY <2>1, <2>2, <2>3, <2>4, <2>5, <2>6, <2>7
<1>2. BudgetInv'
  <2>1. CASE H!Grow(c)
    <3>1. /\ read' = [read EXCEPT ![c] = committed] /\ UNCHANGED <<committed, charged>>
          /\ charged[c] + 1 <= Instance /\ calling' = [calling EXCEPT ![c] = "charge"]
        BY <2>1 DEF H!Grow, H!Goto
    <3>2. committed \in 0..Total  BY HostFinite DEF CallInv, BudgetInv
    <3>3. read' \in [Workers -> 0..Total]  BY <3>1, <3>2 DEF CallInv, BudgetInv
    <3> QED  BY <3>1, <3>3 DEF CallInv, HostTypes, BudgetInv, H!At, H!Charges
  <2>2. CASE ~H!Grow(c)
    <3>1. UNCHANGED H!memory /\ \A d \in Workers : H!At(d, "charge")' => H!At(d, "charge")
      <4>1. /\ UNCHANGED H!memory
            /\ (UNCHANGED calling \/ \E to \in {"enter", "started", "leave", "run"} :
                                     H!Goto(c, to))
          BY <2>2 DEF H!Begin, H!NotifyTicker, H!Cancel, H!Instantiate, H!Return,
                 H!EpochCallback
      <4> QED  BY <4>1 DEF H!Goto, H!At, CallInv, HostTypes
    <3> QED  BY <3>1 DEF CallInv, BudgetInv, H!memory, H!Charges
  <2> QED  BY <2>1, <2>2
<1>3. leases' = leases
    BY DEF H!Begin, H!NotifyTicker, H!Cancel, H!Instantiate, H!Return, H!EpochCallback, H!Grow,
           H!epoch
<1> QED  BY <1>1, <1>2, <1>3 DEF CallInv

\* A lease is taken, and given back.
LEMMA LeaseKeeps ==
    ASSUME H!LimitsAssumption, CallInv, NEW c \in Workers, H!Enter(c) \/ H!Leave(c)
    PROVE  CallInv'
<1>1. HostTypes'
  <2>1. \E to \in {"notify", "drop"} : H!Goto(c, to)  BY DEF H!Enter, H!Leave
  <2>2. calling' \in [Workers -> {"idle", "enter", "drop"} \cup Leased]
      BY <2>1 DEF H!Goto, CallInv, HostTypes, Leased
  <2> QED  BY <2>2 DEF H!Enter, H!Leave, CallInv, HostTypes
<1>2. BudgetInv'
  <2>1. UNCHANGED H!memory  BY DEF H!Enter, H!Leave
  <2>2. \A d \in Workers : H!At(d, "charge")' => H!At(d, "charge")
      BY DEF H!Enter, H!Leave, H!Goto, H!At, CallInv, HostTypes
  <2> QED  BY <2>1, <2>2 DEF CallInv, BudgetInv, H!memory, H!Charges
<1>3. leases' = Cardinality(Leases')
  <2>1. CASE H!Enter(c)
    <3>1. Leases' = Leases \cup {c} /\ c \notin Leases
        BY <2>1 DEF H!Enter, H!Goto, H!At, Leases, CallInv, HostTypes, Leased
    <3>2. Cardinality(Leases \cup {c}) = Cardinality(Leases) + 1
        BY <3>1, HostFinite, FS_AddElement
    <3> QED  BY <2>1, <3>1, <3>2 DEF H!Enter, CallInv
  <2>2. CASE H!Leave(c)
    <3>1. Leases' = Leases \ {c} /\ c \in Leases
        BY <2>2 DEF H!Leave, H!Goto, H!At, Leases, CallInv, HostTypes, Leased
    <3>2. Cardinality(Leases \ {c}) = Cardinality(Leases) - 1
        BY <3>1, HostFinite, FS_RemoveElement
    <3>3. IsFiniteSet(Leases \ {c})  BY HostFinite, FS_Subset
    <3>4. Cardinality(Leases \ {c}) \in Nat  BY <3>3, FS_CardinalityType
    <3>5. leases # 0  BY <3>2, <3>4, HostFinite DEF CallInv
    <3> QED  BY <2>2, <3>1, <3>2, <3>5 DEF H!Leave, CallInv
  <2> QED  BY <2>1, <2>2
<1> QED  BY <1>1, <1>2, <1>3 DEF CallInv

\* MemoryBudget: a growth is charged, and a store gives back what it charged.
LEMMA BudgetKeeps ==
    ASSUME H!LimitsAssumption, CallInv, NEW c \in Workers, H!Charge(c) \/ H!DropStore(c)
    PROVE  CallInv'
<1> USE DEF CallInv, BudgetInv
<1>1. UNCHANGED <<due, ticks, cancelled, leases, stop, ticker, runtime>>
    BY DEF H!Charge, H!DropStore, H!epoch
<1>2. Total \in Nat /\ committed \in 0..Total  BY HostFinite DEF H!LimitsAssumption
<1>3. CASE H!Charge(c) /\ UNCHANGED calling
  <2>1. /\ read' \in [Workers -> 0..Total] /\ UNCHANGED <<committed, charged>>
    <3>1. \/ UNCHANGED H!memory
          \/ committed' = read[c] + 1 /\ H!Goto(c, "run")
          \/ read' = [read EXCEPT ![c] = committed] /\ UNCHANGED <<committed, charged>>
        BY <1>3 DEF H!Charge
    <3>2. ~H!Goto(c, "run")  BY <1>3 DEF H!Goto, H!Charge, H!At, HostTypes
    <3>3. UNCHANGED H!memory => read' = read /\ UNCHANGED <<committed, charged>>  BY DEF H!memory
    <3> QED  BY <1>2, <3>1, <3>2, <3>3
  <2> QED  BY <1>1, <1>3, <2>1 DEF HostTypes, Leases, H!Charges, H!At
<1>4. CASE H!Charge(c) /\ H!Goto(c, "run")
  <2>1. /\ calling' \in [Workers -> {"idle", "enter", "drop"} \cup Leased] /\ Leases' = Leases
        /\ \A d \in Workers : H!At(d, "charge")' => H!At(d, "charge") /\ d # c
    <3>1. /\ calling' \in [Workers -> {"idle", "enter", "drop"} \cup Leased] /\ Leases' = Leases
        BY <1>4, SameLeases DEF H!Charge, H!At, HostTypes, Leased
    <3> QED  BY <1>4, <3>1 DEF H!Goto, H!At, HostTypes
  <2>2. CASE UNCHANGED H!memory
      BY <1>1, <2>1, <2>2 DEF H!memory, HostTypes, H!Charges
  <2>3. CASE /\ read[c] + 1 <= Total /\ committed = read[c] /\ committed' = read[c] + 1
             /\ charged' = [charged EXCEPT ![c] = @ + 1] /\ UNCHANGED read
    <3>1. charged[c] + 1 <= Instance  BY <1>4 DEF H!Charge
    <3>2. /\ charged' \in [Workers -> 0..Instance]
          /\ Cardinality(H!Charges)' = Cardinality(H!Charges) + 1
        BY <2>3, <3>1, UnitCharged
    <3>3. committed' = Cardinality(H!Charges)' /\ committed' <= Total  BY <2>3, <3>2
    <3>4. \A d \in Workers : H!At(d, "charge")' => charged'[d] + 1 <= Instance  BY <2>1, <2>3
    <3> QED  BY <1>1, <2>1, <2>3, <3>2, <3>3, <3>4 DEF HostTypes
  <2>4. ~(read' = [read EXCEPT ![c] = committed] /\ UNCHANGED calling)
      BY <1>4 DEF H!Goto, H!Charge, H!At, HostTypes
  <2> QED  BY <1>4, <2>2, <2>3, <2>4 DEF H!Charge
<1>5. CASE H!DropStore(c)
  <2>1. /\ calling' \in [Workers -> {"idle", "enter", "drop"} \cup Leased] /\ Leases' = Leases
        /\ \A d \in Workers : H!At(d, "charge")' => H!At(d, "charge") /\ d # c
    <3>1. /\ calling' \in [Workers -> {"idle", "enter", "drop"} \cup Leased] /\ Leases' = Leases
        BY <1>5, SameLeases DEF H!DropStore, H!At, HostTypes, Leased
    <3> QED  BY <1>5, <3>1 DEF H!DropStore, H!Goto, H!At, HostTypes
  <2>2. /\ charged' \in [Workers -> 0..Instance] /\ charged[c] \in Nat
        /\ Cardinality(H!Charges)' = Cardinality(H!Charges) - charged[c]
    <3>1. charged' = [charged EXCEPT ![c] = 0]  BY <1>5 DEF H!DropStore
    <3>2. charged[c] \in Nat  BY DEF H!LimitsAssumption
    <3> QED  BY <3>1, <3>2, StoreDropped
  <2>3. committed' = Cardinality(H!Charges)' /\ committed' <= Total
      BY <1>2, <1>5, <2>2 DEF H!DropStore
  <2>4. \A d \in Workers : H!At(d, "charge")' => charged'[d] + 1 <= Instance
      BY <1>5, <2>1 DEF H!DropStore
  <2> QED  BY <1>1, <1>5, <2>1, <2>2, <2>3, <2>4 DEF H!DropStore, HostTypes
<1> QED  BY <1>3, <1>4, <1>5 DEF H!Charge

\* The epoch thread, and the end of the runtime.
LEMMA EpochKeeps ==
    ASSUME H!LimitsAssumption, CallInv,
           H!Ticker \/ H!WakeSpuriously \/ H!Close \/ H!Owner \/ UNCHANGED H!vars
    PROVE  CallInv'
<1>1. UNCHANGED H!memory /\ calling' = calling /\ leases' = leases
    BY DEF H!Ticker, H!TickerCheck, H!Tick, H!WakeSpuriously, H!Close, H!Owner, H!NotifyClose,
           H!Join, H!vars,
           H!calls, H!epoch
<1>2. HostTypes'
    BY DEF CallInv, HostTypes, H!Ticker, H!TickerCheck, H!Tick, H!WakeSpuriously, H!Wake,
           H!Close, H!Owner,
           H!NotifyClose, H!Join, H!vars, H!calls, H!epoch
<1> QED  BY <1>1, <1>2 DEF CallInv, BudgetInv, H!memory, H!Charges, Leases, H!At

LEMMA CallsInvariant ==
    ASSUME H!LimitsAssumption
    PROVE  H!Spec => []CallInv
<1>1. H!Init => CallInv
  <2> SUFFICES ASSUME H!Init  PROVE CallInv  OBVIOUS
  <2>1. H!Charges = {} /\ Leases = {}
      BY DEF H!Init, H!Charges, Leases, Leased
  <2>2. committed = Cardinality(H!Charges) /\ leases = Cardinality(Leases)
      BY <2>1, FS_EmptySet DEF H!Init
  <2>3. 0 \in 0..Ticks /\ Ticks \in 0..Ticks /\ 0 \in 0..Instance /\ 0 \in 0..Total
      BY DEF H!LimitsAssumption
  <2>4. HostTypes  BY <2>3 DEF H!Init, HostTypes
  <2>5. BudgetInv  BY <2>2, <2>3 DEF H!Init, BudgetInv, H!At
  <2> QED  BY <2>2, <2>4, <2>5 DEF CallInv
<1>2. CallInv /\ [H!Next]_(H!vars) => CallInv'
    BY CallKeeps, LeaseKeeps, BudgetKeeps, EpochKeeps DEF H!Next, H!Host
<1> QED  BY <1>1, <1>2, PTL DEF H!Spec

\* plugin_runtime.rs: the budget is what the live stores have charged, below the
\* ceiling, however two growths interleave.
THEOREM BudgetIsExact ==
    ASSUME H!LimitsAssumption
    PROVE  H!Spec => []H!CommittedIsCharged
<1>1. CallInv => H!CommittedIsCharged
    BY SizeInH DEF CallInv, BudgetInv, H!CommittedIsCharged
<1> QED  BY <1>1, CallsInvariant, PTL

\* plugin_runtime.rs: the leases counted are those that calls hold, and no store is
\* past its instance.
THEOREM HostTypeCorrect ==
    ASSUME H!LimitsAssumption
    PROVE  H!Spec => []H!TypeOK
<1>1. CallInv => H!TypeOK
    BY HostFinite, SizeInH DEF CallInv, HostTypes, BudgetInv, H!TypeOK, Leased, H!LimitsAssumption
<1> QED  BY <1>1, CallsInvariant, PTL

------------------------------------------------------------------------------
(* The journal of refusals *)

LEMMA SizeInJ == \A S : J!Cardinality(S) = Cardinality(S) /\ J!IsFiniteSet(S) = IsFiniteSet(S)
BY DEF J!Cardinality, Cardinality, J!IsFiniteSet, IsFiniteSet

Places(entries, plugin) == {i \in DOMAIN entries : entries[i].plugin = plugin}

\* What a plugin holds of a journal.
LEMMA HeldPlaces ==
    ASSUME NEW s \in Seq(J!Entry), NEW p
    PROVE  /\ J!Held(s, p) = Cardinality(Places(s, p)) /\ IsFiniteSet(Places(s, p))
           /\ Places(s, p) \subseteq 1..Len(s)
           /\ J!Held(s, p) \in Nat /\ J!Held(s, p) <= Len(s) /\ Len(s) \in Nat
<1>1. Len(s) \in Nat /\ DOMAIN s = 1..Len(s)  OBVIOUS
<1>2. IsFiniteSet(1..Len(s)) /\ Cardinality(1..Len(s)) = Len(s)  BY <1>1, UpTo
<1>3. J!Held(s, p) = Cardinality(Places(s, p))  BY SizeInJ DEF J!Held, Places
<1>4. Places(s, p) \subseteq 1..Len(s)  BY <1>1 DEF Places
<1>5. IsFiniteSet(Places(s, p)) /\ Cardinality(Places(s, p)) <= Len(s)
    BY <1>2, <1>4, FS_Subset
<1> QED  BY <1>1, <1>3, <1>4, <1>5, FS_CardinalityType

\* One more entry.
LEMMA HeldAppended ==
    ASSUME NEW s \in Seq(J!Entry), NEW e \in J!Entry, NEW p
    PROVE  /\ Append(s, e) \in Seq(J!Entry) /\ Len(Append(s, e)) = Len(s) + 1
           /\ J!Held(Append(s, e), p) = J!Held(s, p) + IF e.plugin = p THEN 1 ELSE 0
           /\ \A i \in DOMAIN Append(s, e) :
                  Append(s, e)[i] = e \/ \E k \in DOMAIN s : Append(s, e)[i] = s[k]
<1> DEFINE r == Append(s, e)
<1>1. /\ Len(s) \in Nat /\ DOMAIN s = 1..Len(s)
      /\ r \in Seq(J!Entry) /\ Len(r) = Len(s) + 1 /\ DOMAIN r = 1..Len(s) + 1
      /\ r[Len(s) + 1] = e /\ \A i \in 1..Len(s) : r[i] = s[i]
    OBVIOUS
<1> HIDE DEF r
<1>2. \A i \in 1..Len(s) + 1 : i \in 1..Len(s) \/ i = Len(s) + 1  BY <1>1
<1>3. Len(s) + 1 \notin 1..Len(s) /\ Len(s) + 1 \in 1..Len(s) + 1
      /\ \A i \in 1..Len(s) : i \in 1..Len(s) + 1
    BY <1>1
<1>4. /\ J!Held(s, p) = Cardinality(Places(s, p))
      /\ IsFiniteSet(Places(s, p)) /\ J!Held(s, p) \in Nat
    BY HeldPlaces
<1>5. CASE e.plugin = p
  <2>1. Places(r, p) = Places(s, p) \cup {Len(s) + 1} /\ Len(s) + 1 \notin Places(s, p)
      BY <1>1, <1>2, <1>3, <1>5 DEF Places
  <2>2. Cardinality(Places(s, p) \cup {Len(s) + 1}) = Cardinality(Places(s, p)) + 1
      BY <1>4, <2>1, FS_AddElement
  <2>3. J!Held(r, p) = J!Held(s, p) + 1  BY <1>4, <2>1, <2>2, SizeInJ DEF J!Held, Places
  <2> QED  BY <1>1, <1>2, <1>5, <2>3 DEF r
<1>6. CASE e.plugin # p
  <2>1. Places(r, p) = Places(s, p)  BY <1>1, <1>2, <1>3, <1>6 DEF Places
  <2>2. J!Held(r, p) = J!Held(s, p)  BY <1>4, <2>1 DEF J!Held, Places
  <2> QED  BY <1>1, <1>2, <1>4, <1>6, <2>2 DEF r
<1> QED  BY <1>5, <1>6

\* What stays where when one entry is taken out.
LEMMA RemovedPlaces ==
    ASSUME NEW s \in Seq(J!Entry), NEW n \in 1..Len(s)
    PROVE  /\ RemoveAt(s, n) \in Seq(J!Entry)
           /\ Len(RemoveAt(s, n)) = Len(s) - 1
           /\ \A i \in 1..Len(s) - 1 : RemoveAt(s, n)[i] = IF i < n THEN s[i] ELSE s[i + 1]
<1> DEFINE a == SubSeq(s, 1, n - 1)
           b == SubSeq(s, n + 1, Len(s))
<1>1. /\ a \in Seq(J!Entry) /\ Len(a) = n - 1
      /\ \A i \in 1..n - 1 : a[i] = s[i]
    OBVIOUS
<1>2. /\ b \in Seq(J!Entry) /\ Len(b) = Len(s) - n
      /\ \A i \in 1..Len(s) - n : b[i] = s[i + n]
    OBVIOUS
<1>3. RemoveAt(s, n) = a \o b  BY DEF RemoveAt
<1> HIDE DEF a, b
<1>4. /\ a \o b \in Seq(J!Entry) /\ Len(a \o b) = Len(a) + Len(b)
      /\ \A i \in 1..Len(a) + Len(b) :
             (a \o b)[i] = IF i <= Len(a) THEN a[i] ELSE b[i - Len(a)]
    BY <1>1, <1>2, ConcatProperties, Zenon
<1>5. \A i \in 1..Len(s) - 1 :
          i >= n => i - (n - 1) \in 1..Len(s) - n /\ i - (n - 1) + n = i + 1
    OBVIOUS
<1>6. ASSUME NEW i \in 1..Len(s) - 1
      PROVE  (a \o b)[i] = IF i < n THEN s[i] ELSE s[i + 1]
  <2>1. CASE i < n  BY <1>1, <1>2, <1>4, <2>1
  <2>2. CASE i >= n
    <3>1. (a \o b)[i] = b[i - (n - 1)]  BY <1>1, <1>2, <1>4, <2>2
    <3> QED  BY <1>2, <1>5, <2>2, <3>1
  <2>3. i < n \/ i >= n  OBVIOUS
  <2> QED  BY <2>1, <2>2, <2>3
<1> QED  BY <1>1, <1>2, <1>3, <1>4, <1>6

\* One entry less.
LEMMA HeldRemoved ==
    ASSUME NEW s \in Seq(J!Entry), NEW n \in 1..Len(s), NEW p
    PROVE  /\ RemoveAt(s, n) \in Seq(J!Entry) /\ Len(RemoveAt(s, n)) = Len(s) - 1
           /\ J!Held(RemoveAt(s, n), p) >= J!Held(s, p) - IF s[n].plugin = p THEN 1 ELSE 0
           /\ \A i \in DOMAIN RemoveAt(s, n) : \E k \in DOMAIN s : RemoveAt(s, n)[i] = s[k]
<1> DEFINE r == RemoveAt(s, n)
           From(i) == IF i < n THEN i ELSE i - 1
           moved == [i \in Places(s, p) \ {n} |-> From(i)]
<1>1. /\ Len(s) \in Nat /\ DOMAIN s = 1..Len(s) /\ n \in Int
      /\ r \in Seq(J!Entry) /\ Len(r) = Len(s) - 1 /\ DOMAIN r = 1..Len(s) - 1
      /\ \A i \in 1..Len(s) - 1 : r[i] = IF i < n THEN s[i] ELSE s[i + 1]
    BY RemovedPlaces
<1> HIDE DEF r
<1>2. \A i \in 1..Len(s) - 1 : i \in 1..Len(s) /\ i + 1 \in 1..Len(s)  BY <1>1
<1>3. \A i \in DOMAIN r : \E k \in DOMAIN s : r[i] = s[k]  BY <1>1, <1>2
<1>4. /\ J!Held(s, p) = Cardinality(Places(s, p)) /\ IsFiniteSet(Places(s, p))
      /\ J!Held(s, p) \in Nat
    BY HeldPlaces
<1>5. /\ J!Held(r, p) = Cardinality(Places(r, p))
      /\ IsFiniteSet(Places(r, p)) /\ J!Held(r, p) \in Nat
    BY <1>1, HeldPlaces
<1>6. ASSUME NEW i \in Places(s, p) \ {n}
      PROVE  From(i) \in Places(r, p) /\ i \in Int
    <2>1. i \in 1..Len(s) /\ i # n /\ s[i].plugin = p  BY <1>1 DEF Places
    <2>2. From(i) \in 1..Len(s) - 1 /\ r[From(i)] = s[i]  BY <1>1, <2>1
    <2> QED  BY <1>1, <2>1, <2>2 DEF Places
<1>7. \A i, k \in Places(s, p) \ {n} : From(i) = From(k) => i = k
    <2>1. \A i \in Places(s, p) \ {n} : i \in Int /\ i # n  BY <1>6
    <2> QED  BY <1>1, <2>1
<1>8. moved \in Injection(Places(s, p) \ {n}, Places(r, p))
    BY <1>6, <1>7 DEF Injection, IsInjective
<1>9. Cardinality(Places(s, p) \ {n}) <= J!Held(r, p)  BY <1>5, <1>8, FS_Injection
<1>10. Cardinality(Places(s, p) \ {n})
           = IF n \in Places(s, p) THEN Cardinality(Places(s, p)) - 1
             ELSE Cardinality(Places(s, p))
    BY <1>4, FS_RemoveElement
<1>11. n \in Places(s, p) <=> s[n].plugin = p  BY <1>1 DEF Places
<1>12. J!Held(r, p) >= J!Held(s, p) - IF s[n].plugin = p THEN 1 ELSE 0
    BY <1>4, <1>5, <1>9, <1>10, <1>11
<1> QED  BY <1>1, <1>3, <1>12 DEF r

\* A share of each plugin is less than the ring.
LEMMA ShareFits ==
    ASSUME J!JournalAssumption, Plugins # {}
    PROVE  /\ Cardinality(Plugins) \in Nat /\ J!Share \in Nat
           /\ Cardinality(Plugins) * J!Share < MaxEntries
<1> DEFINE n == Cardinality(Plugins)
           m == MaxEntries - 1
<1>1. n \in Nat /\ n # 0
    BY SizeInJ, FS_CardinalityType, FS_EmptySet DEF J!JournalAssumption
<1>2. m \in Nat /\ m < MaxEntries /\ MaxEntries \in Nat  BY DEF J!JournalAssumption
<1>3. J!Share = m \div n  BY SizeInJ DEF J!Share
<1> HIDE DEF n, m
<1>4. m \div n \in Nat /\ n * (m \div n) <= m  BY <1>1, <1>2
<1> QED  BY <1>1, <1>2, <1>3, <1>4 DEF n

\* A full ring holds more than a share of someone's entries.
LEMMA SomeoneIsGreedy ==
    ASSUME J!JournalAssumption, NEW s \in Seq(J!Entry), Len(s) = MaxEntries
    PROVE  \E p \in Plugins : J!Held(s, p) > J!Share
<1> SUFFICES ASSUME \A p \in Plugins : ~(J!Held(s, p) > J!Share)  PROVE FALSE
    OBVIOUS
<1> DEFINE Upto(i) == {j \in Places(s, s[i].plugin) : j <= i}
           Rank(i) == Cardinality(Upto(i))
           placed == [i \in 1..Len(s) |-> <<s[i].plugin, Rank(i)>>]
<1>1. /\ Len(s) \in Nat /\ DOMAIN s = 1..Len(s) /\ 1 \in 1..Len(s)
      /\ \A i \in 1..Len(s) : s[i].plugin \in Plugins
  <2>1. \A i \in 1..Len(s) : s[i] \in J!Entry  OBVIOUS
  <2> QED  BY <2>1 DEF J!JournalAssumption, J!Entry
<1>2. Plugins # {} /\ J!Share \in Nat  BY <1>1, ShareFits
<1>3. ASSUME NEW i \in 1..Len(s)
      PROVE  /\ IsFiniteSet(Upto(i)) /\ Rank(i) \in 1..J!Share
             /\ i \in Upto(i)
  <2>1. /\ IsFiniteSet(Places(s, s[i].plugin))
        /\ Cardinality(Places(s, s[i].plugin)) = J!Held(s, s[i].plugin)
        /\ J!Held(s, s[i].plugin) \in Nat
      BY HeldPlaces
  <2>2. i \in Upto(i) /\ Upto(i) \subseteq Places(s, s[i].plugin)  BY <1>1 DEF Places
  <2>3. IsFiniteSet(Upto(i)) /\ Rank(i) <= J!Held(s, s[i].plugin)
      BY <2>1, <2>2, FS_Subset
  <2>4. Rank(i) \in Nat  BY <2>3, FS_CardinalityType
  <2>5. Rank(i) # 0  BY <2>2, <2>3, FS_EmptySet
  <2>6. J!Held(s, s[i].plugin) <= J!Share  BY <1>1, <1>2, <2>1
  <2> HIDE DEF Rank
  <2>7. Rank(i) \in 1..J!Share  BY <1>2, <2>1, <2>3, <2>4, <2>5, <2>6
  <2> QED  BY <2>2, <2>3, <2>7
<1>4. ASSUME NEW i \in 1..Len(s), NEW k \in 1..Len(s), i < k, s[i].plugin = s[k].plugin
      PROVE  Rank(i) # Rank(k)
  <2>1. Upto(i) \subseteq Upto(k)
    <3>1. ASSUME NEW j \in Places(s, s[i].plugin), j <= i  PROVE j <= k
      <4>1. j \in Int  BY <1>1 DEF Places
      <4> QED  BY <1>4, <3>1, <4>1
    <3> QED  BY <1>4, <3>1
  <2>2. k \in Upto(k) /\ k \notin Upto(i)
    <3>1. ~(k <= i)  BY <1>4
    <3>2. k \notin Upto(i)  BY <3>1
    <3>3. k \in Upto(k)  BY <1>3
    <3> QED  BY <3>2, <3>3
  <2>3. IsFiniteSet(Upto(k))  BY <1>3
  <2>4. Upto(i) \in SUBSET Upto(k) /\ Upto(i) # Upto(k)  BY <2>1, <2>2
  <2> HIDE DEF Upto
  <2> QED  BY <2>3, <2>4, FS_Subset
<1>5. placed \in Injection(1..Len(s), Plugins \X (1..J!Share))
  <2> HIDE DEF Rank
  <2>1. placed \in [1..Len(s) -> Plugins \X (1..J!Share)]  BY <1>1, <1>3
  <2>2. ASSUME NEW i \in 1..Len(s), NEW k \in 1..Len(s), placed[i] = placed[k]
        PROVE  i = k
    <3>1. s[i].plugin = s[k].plugin /\ Rank(i) = Rank(k)  BY <2>2
    <3>2. ~(i < k) /\ ~(k < i)  BY <1>4, <3>1
    <3> QED  BY <3>2
  <2> HIDE DEF placed
  <2> QED  BY <2>1, <2>2 DEF Injection, IsInjective
<1> HIDE DEF placed
<1>6. IsFiniteSet(1..J!Share) /\ Cardinality(1..J!Share) = J!Share  BY <1>2, UpTo
<1>7. /\ IsFiniteSet(Plugins \X (1..J!Share))
      /\ Cardinality(Plugins \X (1..J!Share)) = Cardinality(Plugins) * J!Share
    BY <1>6, SizeInJ, FS_Product DEF J!JournalAssumption
<1>8. Cardinality(1..Len(s)) <= Cardinality(Plugins \X (1..J!Share))
    BY <1>5, <1>7, FS_Injection
<1>9. Cardinality(1..Len(s)) = MaxEntries  BY <1>1, UpTo
<1>10. Cardinality(Plugins) * J!Share < MaxEntries  BY <1>2, ShareFits
<1>11. Cardinality(Plugins) * J!Share \in Int /\ MaxEntries \in Int
    BY <1>2, ShareFits DEF J!JournalAssumption
<1> QED  BY <1>7, <1>8, <1>9, <1>10, <1>11

\* Who the eviction takes from has more than a share, and what it takes is theirs.
LEMMA EvictedOne ==
    ASSUME J!JournalAssumption, NEW s \in Seq(J!Entry), Len(s) = MaxEntries
    PROVE  \E n \in 1..Len(s) : J!EvictOne(s) = RemoveAt(s, n) /\ J!Held(s, s[n].plugin) > J!Share
<1> DEFINE Greedy(p) == \A q \in Plugins : J!Held(s, p) >= J!Held(s, q)
           greediest == CHOOSE p \in Plugins : Greedy(p)
           Oldest(i) == /\ s[i].plugin = greediest
                        /\ \A j \in 1..(i - 1) : s[j].plugin # greediest
           oldest == CHOOSE i \in DOMAIN s : Oldest(i)
<1>1. Len(s) \in Nat /\ DOMAIN s = 1..Len(s)  OBVIOUS
<1>2. \A p : J!Held(s, p) \in Nat /\ J!Held(s, p) <= Len(s)  BY HeldPlaces
<1>3. PICK p \in Plugins : J!Held(s, p) > J!Share  BY SomeoneIsGreedy
<1>4. \E q \in Plugins : Greedy(q)
  <2> DEFINE Missing == {Len(s) - J!Held(s, q) : q \in Plugins}
  <2>1. Missing \subseteq Nat /\ Missing # {}  BY <1>1, <1>2, <1>3
  <2>2. PICK n \in Missing : \A m \in Missing : n =< m  BY <2>1, LeastExists
  <2>3. PICK q \in Plugins : n = Len(s) - J!Held(s, q)  BY <2>2
  <2>4. \A r \in Plugins : n =< Len(s) - J!Held(s, r)  BY <2>2
  <2>5. Greedy(q)  BY <1>1, <1>2, <2>3, <2>4
  <2> QED  BY <2>5
<1>5. greediest \in Plugins /\ Greedy(greediest)  BY <1>4
<1> HIDE DEF greediest
<1>6. J!Share \in Nat  BY <1>3, ShareFits
<1>7. J!Held(s, greediest) > J!Share  BY <1>2, <1>3, <1>5, <1>6
<1>8. \E i \in DOMAIN s : Oldest(i)
  <2>1. Places(s, greediest) # {} /\ Places(s, greediest) \subseteq 1..Len(s)
    <3>1. J!Held(s, greediest) # 0  BY <1>2, <1>6, <1>7
    <3> QED  BY <3>1, HeldPlaces, FS_EmptySet
  <2>2. Places(s, greediest) \in SUBSET Nat  BY <2>1
  <2>3. PICK i \in Places(s, greediest) : \A j \in Places(s, greediest) : i =< j
      BY <2>1, <2>2, LeastExists
  <2>4. i \in 1..Len(s) /\ s[i].plugin = greediest  BY <1>1 DEF Places
  <2>5. ASSUME NEW j \in 1..(i - 1)  PROVE s[j].plugin # greediest
    <3>1. j \in 1..Len(s) /\ ~(i =< j)  BY <1>1, <2>4
    <3> QED  BY <1>1, <2>3, <3>1 DEF Places
  <2> QED  BY <1>1, <2>4, <2>5
<1>9. oldest \in DOMAIN s /\ Oldest(oldest)
  <2> HIDE DEF Oldest
  <2> QED  BY <1>8
<1>10. J!EvictOne(s) = RemoveAt(s, oldest)
    BY DEF J!EvictOne, J!RemoveAt, RemoveAt, greediest
<1> HIDE DEF oldest
<1> QED  BY <1>1, <1>7, <1>9, <1>10

Own(p) == {entry \in recorded : entry.plugin = p}
Due(p) == IF Cardinality(Own(p)) < J!Share THEN Cardinality(Own(p)) ELSE J!Share

\* Everything in the ring was recorded, and every plugin has its due.
JournalInv ==
    /\ ring \in Seq(J!Entry) /\ Len(ring) <= MaxEntries
    /\ recorded \subseteq J!Entry /\ IsFiniteSet(recorded)
    /\ \A i \in DOMAIN ring : ring[i] \in recorded
    /\ \A p \in Plugins : J!Held(ring, p) >= Due(p)

\* What one more record asks for.
LEMMA DueGrows ==
    ASSUME J!JournalAssumption, JournalInv, NEW entry \in J!Entry,
           recorded' = recorded \cup {entry}, NEW p \in Plugins
    PROVE  /\ Due(p) \in Nat /\ Due(p)' \in Nat /\ Due(p)' <= J!Share /\ J!Share \in Nat
           /\ Due(p)' <= Due(p) + IF entry.plugin = p THEN 1 ELSE 0
<1> DEFINE more == IF entry.plugin = p THEN 1 ELSE 0
           own == Own(p)
<1>1. J!Share \in Nat  BY ShareFits
<1>2. IsFiniteSet(own) /\ Cardinality(own) \in Nat
  <2>1. own \subseteq recorded  BY DEF Own
  <2> QED  BY <2>1, FS_Subset, FS_CardinalityType DEF JournalInv
<1>3. Own(p)' = IF entry.plugin = p THEN own \cup {entry} ELSE own  BY DEF Own
<1> HIDE DEF own
<1>4. Cardinality(own \cup {entry}) = IF entry \in own THEN Cardinality(own)
                                                     ELSE Cardinality(own) + 1
    BY <1>2, FS_AddElement
<1>5. Cardinality(Own(p)') \in Nat /\ Cardinality(Own(p)') <= Cardinality(own) + more
    BY <1>2, <1>3, <1>4
<1>6. Due(p)' = IF Cardinality(Own(p)') < J!Share THEN Cardinality(Own(p)') ELSE J!Share
    BY DEF Due, J!Share
<1>7. Due(p) = IF Cardinality(own) < J!Share THEN Cardinality(own) ELSE J!Share
    BY DEF Due, own
<1>8. more \in Nat  OBVIOUS
<1> HIDE DEF more
<1>9. /\ Due(p) \in Nat /\ Due(p)' \in Nat /\ Due(p)' <= J!Share /\ Due(p)' <= Due(p) + more
    BY <1>1, <1>2, <1>5, <1>6, <1>7, <1>8
<1> QED  BY <1>1, <1>9 DEF more

\* push.
LEMMA PushKeeps ==
    ASSUME J!JournalAssumption, JournalInv, NEW plugin \in Plugins, NEW refusal \in Refusals,
           J!Push(plugin, refusal)
    PROVE  JournalInv'
<1> DEFINE entry == [plugin |-> plugin, refusal |-> refusal]
           rest == IF Len(ring) = MaxEntries THEN J!EvictOne(ring) ELSE ring
<1>1. entry \in J!Entry /\ entry.plugin = plugin /\ recorded' = recorded \cup {entry}
    BY DEF J!Entry, J!Push
<1>2. CASE \E i \in DOMAIN ring : ring[i] = entry
  <2>1. ring' = ring /\ recorded' = recorded
      BY <1>1, <1>2 DEF J!Push, JournalInv
  <2> QED  BY <2>1 DEF JournalInv, Due, Own, J!Share
<1>3. CASE ~\E i \in DOMAIN ring : ring[i] = entry
  <2>1. ring' = Append(rest, entry)  BY <1>3 DEF J!Push
  <2>2. /\ rest \in Seq(J!Entry) /\ Len(rest) + 1 <= MaxEntries
        /\ \A i \in DOMAIN rest : \E k \in DOMAIN ring : rest[i] = ring[k]
        /\ \A p \in Plugins : J!Held(rest, p) >= J!Held(ring, p) \/ J!Held(rest, p) >= J!Share
    <3>1. CASE Len(ring) = MaxEntries
      <4>1. PICK n \in 1..Len(ring) :
                J!EvictOne(ring) = RemoveAt(ring, n) /\ J!Held(ring, ring[n].plugin) > J!Share
          BY <3>1, EvictedOne DEF JournalInv
      <4>2. rest = RemoveAt(ring, n)  BY <3>1, <4>1
      <4> HIDE DEF rest
      <4>3. /\ rest \in Seq(J!Entry) /\ Len(rest) = Len(ring) - 1
            /\ \A i \in DOMAIN rest : \E k \in DOMAIN ring : rest[i] = ring[k]
            /\ \A p : J!Held(rest, p) >= J!Held(ring, p) - IF ring[n].plugin = p THEN 1 ELSE 0
          BY <4>2, HeldRemoved DEF JournalInv
      <4>4. ASSUME NEW p \in Plugins
            PROVE  J!Held(rest, p) >= J!Held(ring, p) \/ J!Held(rest, p) >= J!Share
        <5>1. /\ J!Held(ring, p) \in Nat /\ J!Held(rest, p) \in Nat /\ J!Share \in Nat
              /\ J!Held(rest, p) >= J!Held(ring, p) - IF ring[n].plugin = p THEN 1 ELSE 0
            BY <4>3, HeldPlaces, ShareFits DEF JournalInv
        <5>2. CASE ring[n].plugin = p  BY <4>1, <5>1, <5>2
        <5>3. CASE ring[n].plugin # p  BY <5>1, <5>3
        <5> QED  BY <5>2, <5>3
      <4>5. Len(rest) + 1 <= MaxEntries  BY <3>1, <4>3 DEF J!JournalAssumption
      <4> QED  BY <4>3, <4>4, <4>5
    <3>2. CASE Len(ring) # MaxEntries
      <4>1. rest = ring  BY <3>2
      <4>2. \A p \in Plugins : J!Held(ring, p) \in Nat  BY HeldPlaces DEF JournalInv
      <4>3. Len(ring) + 1 <= MaxEntries  BY <3>2 DEF JournalInv, J!JournalAssumption
      <4> HIDE DEF rest
      <4> QED  BY <4>1, <4>2, <4>3 DEF JournalInv
    <3> QED  BY <3>1, <3>2
  <2> HIDE DEF rest, entry
  <2>3. /\ ring' \in Seq(J!Entry) /\ Len(ring') = Len(rest) + 1
        /\ \A p : J!Held(ring', p) = J!Held(rest, p) + IF entry.plugin = p THEN 1 ELSE 0
        /\ \A i \in DOMAIN ring' : ring'[i] = entry \/ \E k \in DOMAIN rest : ring'[i] = rest[k]
      BY <1>1, <2>1, <2>2, HeldAppended
  <2>4. \A i \in DOMAIN ring' : ring'[i] \in recorded'
      BY <1>1, <2>2, <2>3 DEF JournalInv
  <2>5. IsFiniteSet(recorded') /\ recorded' \subseteq J!Entry
      BY <1>1, FS_AddElement DEF JournalInv
  <2>6. ASSUME NEW p \in Plugins  PROVE J!Held(ring', p) >= Due(p)'
    <3> DEFINE more == IF entry.plugin = p THEN 1 ELSE 0
    <3>1. /\ Due(p) \in Nat /\ Due(p)' \in Nat /\ Due(p)' <= J!Share /\ J!Share \in Nat
          /\ Due(p)' <= Due(p) + more
        BY <1>1, DueGrows
    <3>2. J!Held(ring, p) \in Nat /\ J!Held(rest, p) \in Nat  BY <2>2, HeldPlaces DEF JournalInv
    <3>3. J!Held(ring, p) >= Due(p)  BY DEF JournalInv
    <3>4. J!Held(ring', p) = J!Held(rest, p) + more /\ more \in Nat  BY <2>3
    <3>5. J!Held(rest, p) >= J!Held(ring, p) \/ J!Held(rest, p) >= J!Share  BY <2>2
    <3> HIDE DEF more
    <3> QED  BY <3>1, <3>2, <3>3, <3>4, <3>5
  <2>7. \A p \in Plugins : J!Held(ring', p) = J!Held(ring, p)'  BY DEF J!Held
  <2> QED  BY <2>2, <2>3, <2>4, <2>5, <2>6, <2>7 DEF JournalInv
<1> QED  BY <1>2, <1>3

LEMMA JournalInvariant ==
    ASSUME J!JournalAssumption
    PROVE  J!Spec => []JournalInv
<1>1. J!Init => JournalInv
  <2> SUFFICES ASSUME J!Init  PROVE JournalInv  OBVIOUS
  <2>1. ring = <<>> /\ recorded = {} /\ ring \in Seq(J!Entry) /\ Len(ring) = 0  BY DEF J!Init
  <2>2. IsFiniteSet(recorded)  BY <2>1, FS_EmptySet
  <2>3. ASSUME NEW p \in Plugins  PROVE J!Held(ring, p) >= Due(p)
    <3>1. Own(p) = {}  BY <2>1 DEF Own
    <3>2. J!Share \in Nat /\ Cardinality(Own(p)) = 0  BY <3>1, ShareFits, FS_EmptySet
    <3>3. J!Held(ring, p) \in Nat  BY <2>1, HeldPlaces
    <3> QED  BY <3>2, <3>3 DEF Due
  <2> QED  BY <2>1, <2>2, <2>3 DEF JournalInv, J!JournalAssumption
<1>2. JournalInv /\ [J!Next]_(J!vars) => JournalInv'
  <2>1. ASSUME JournalInv, UNCHANGED J!vars  PROVE JournalInv'
      BY <2>1 DEF J!vars, JournalInv, Due, Own, J!Held, J!Share
  <2> QED  BY <2>1, PushKeeps DEF J!Next
<1> QED  BY <1>1, <1>2, PTL DEF J!Spec

\* plugin_runtime.rs: however much its neighbours are refused, a plugin keeps what it
\* recorded, up to its share of the ring.
THEOREM ShareIsKept ==
    ASSUME J!JournalAssumption
    PROVE  J!Spec => []J!KeepsItsShare
<1>1. JournalInv => J!KeepsItsShare
    BY SizeInJ DEF JournalInv, J!KeepsItsShare, Due, Own
<1> QED  BY <1>1, JournalInvariant, PTL

\* plugin_runtime.rs: the ring never holds more entries than it may.
THEOREM JournalTypeCorrect ==
    ASSUME J!JournalAssumption
    PROVE  J!Spec => []J!TypeOK
<1>1. JournalInv => J!TypeOK  BY DEF JournalInv, J!TypeOK
<1> QED  BY <1>1, JournalInvariant, PTL

------------------------------------------------------------------------------
(* The artifacts of the compile cache *)

LEMMA SizeInC == \A S : C!Cardinality(S) = Cardinality(S)
BY DEF C!Cardinality, Cardinality

\* The places of a sequence can be counted off, one by one.
LEMMA PlacesCounted ==
    ASSUME NEW L \in Nat, NEW P \in SUBSET (1..L)
    PROVE  /\ IsFiniteSet(P) /\ Cardinality(P) \in Nat
           /\ \A n \in 1..Cardinality(P) : \E i \in P : Cardinality({j \in P : j <= i}) = n
<1> DEFINE Below(i) == {j \in P : j <= i}
           Missed == {n \in 1..Cardinality(P) : \A i \in P : Cardinality(Below(i)) # n}
<1>1. IsFiniteSet(1..L)  BY FS_Interval
<1>2. \A Q \in SUBSET P : IsFiniteSet(Q) /\ Cardinality(Q) \in Nat
    <2>1. \A Q \in SUBSET P : Q \subseteq 1..L  OBVIOUS
    <2> QED  BY <1>1, <2>1, FS_Subset, FS_CardinalityType
<1>3. IsFiniteSet(P) /\ Cardinality(P) \in Nat  BY <1>2
<1>4. ASSUME Missed # {}  PROVE FALSE
  <2>1. Missed \subseteq Nat  BY <1>3
  <2>2. PICK n \in Missed : \A m \in Missed : n =< m  BY <1>4, <2>1, LeastExists
  <2>3. n \in 1..Cardinality(P) /\ n \in Nat  BY <1>3
  <2>4. PICK Before \in SUBSET P :
           /\ Cardinality(Before) = n - 1
           /\ \A i \in Before, j \in P : j <= i => j \in Before
    <3>1. CASE n = 1
      <4>1. Cardinality({}) = 0  BY FS_EmptySet
      <4> QED  BY <3>1, <4>1
    <3>2. CASE n # 1
      <4>1. n - 1 \in 1..Cardinality(P) /\ ~(n =< n - 1)  BY <1>3, <2>3, <3>2
      <4>2. n - 1 \notin Missed  BY <2>2, <4>1
      <4>3. PICK i \in P : Cardinality(Below(i)) = n - 1  BY <4>1, <4>2
      <4>4. /\ Below(i) \in SUBSET P
            /\ \A k \in Below(i), j \in P : j <= k => j \in Below(i)  OBVIOUS
      <4> QED  BY <4>3, <4>4
    <3> QED  BY <3>1, <3>2
  <2>5. P \ Before # {}
    <3>1. n - 1 < Cardinality(P)  BY <1>3, <2>3
    <3>2. Before # P  BY <1>3, <2>3, <2>4, <3>1
    <3> QED  BY <2>4, <3>2
  <2>6. P \ Before \subseteq Nat  OBVIOUS
  <2>7. PICK i \in P \ Before : \A j \in P \ Before : i =< j  BY <2>5, <2>6, LeastExists
  <2>8. Below(i) = Before \cup {i}
    <3>1. ASSUME NEW j \in Below(i)  PROVE j \in Before \cup {i}
        BY <2>7
    <3>2. ASSUME NEW j \in Before  PROVE j \in Below(i)
      <4>1. j \in P /\ j \in Int /\ i \in Int /\ i \in P  OBVIOUS
      <4>2. i <= j => i \in Before  BY <2>4, <4>1
      <4> QED  BY <2>7, <4>1, <4>2
    <3>3. i \in Below(i)  OBVIOUS
    <3> QED  BY <3>1, <3>2, <3>3
  <2>9. Cardinality(Below(i)) = n
    <3>1. IsFiniteSet(Before)  BY <1>2
    <3>2. Cardinality(Before \cup {i}) = Cardinality(Before) + 1
        BY <2>7, <3>1, FS_AddElement
    <3> QED  BY <2>3, <2>4, <2>8, <3>2
  <2> QED  BY <2>2, <2>7, <2>9
<1> QED  BY <1>3, <1>4

Artifacts == [slot : C!Slots, proven : BOOLEAN]

\* No slot has two files.
Single == \A i, k \in DOMAIN artifacts : artifacts[i].slot = artifacts[k].slot => i = k

Steps ==
    {C!Idle} \cup [at : {"refuse", "store"}, slot : C!Slots] \cup [at : {"list"}]
        \cup [at : {"sweep"}, total : Int, oldest : Seq(C!Slots)]

CacheTypes ==
    /\ engine \in Engines
    /\ artifacts \in Seq(Artifacts) /\ Single
    /\ leftovers \subseteq Workers
    /\ prepare \in [Workers -> Steps]
    /\ unswept \in BOOLEAN

\* A sweep that has every file left on its list, and counts at least those.
SweptBy(w) ==
    /\ C!At(w, "sweep")
    /\ \A i \in DOMAIN artifacts :
           \E k \in DOMAIN prepare[w].oldest : prepare[w].oldest[k] = artifacts[i].slot
    /\ Len(artifacts) <= prepare[w].total

\* What is over the ceiling was stored since, or is on the list of a sweep.
CacheInv == CacheTypes /\ (unswept \/ Len(artifacts) <= Ceiling \/ \E w \in Workers : SweptBy(w))

\* The files of some places, in order.
LEMMA KeptFiles ==
    ASSUME artifacts \in Seq(Artifacts), Single, NEW P \in SUBSET DOMAIN artifacts
    PROVE  /\ C!Kept(P) \in Seq(Artifacts)
           /\ IsFiniteSet(P) /\ Len(C!Kept(P)) = Cardinality(P)
           /\ Len(C!Kept(P)) <= Len(artifacts)
           /\ \A n \in DOMAIN C!Kept(P) : \E i \in P : C!Kept(P)[n] = artifacts[i]
           /\ \A n, m \in DOMAIN C!Kept(P) : C!Kept(P)[n].slot = C!Kept(P)[m].slot => n = m
<1> DEFINE Nth(n) == CHOOSE i \in P : C!Cardinality({j \in P : j <= i}) = n
<1>1. Len(artifacts) \in Nat /\ DOMAIN artifacts = 1..Len(artifacts)  OBVIOUS
<1>2. /\ IsFiniteSet(P) /\ Cardinality(P) \in Nat
      /\ \A n \in 1..Cardinality(P) : \E i \in P : Cardinality({j \in P : j <= i}) = n
    <2>1. P \in SUBSET (1..Len(artifacts))  BY <1>1
    <2> QED  BY <1>1, <2>1, PlacesCounted
<1>3. ASSUME NEW n \in 1..Cardinality(P)
      PROVE  Nth(n) \in P /\ Cardinality({j \in P : j <= Nth(n)}) = n
    BY <1>2, SizeInC
<1>4. C!Kept(P) = [n \in 1..Cardinality(P) |-> artifacts[Nth(n)]]
    <2>1. C!Kept(P) = [n \in 1..C!Cardinality(P) |-> artifacts[Nth(n)]]  BY DEF C!Kept
    <2>2. C!Cardinality(P) = Cardinality(P)  BY SizeInC
    <2> HIDE DEF Nth
    <2> QED  BY <2>1, <2>2
<1> HIDE DEF Nth
<1>5. ASSUME NEW n \in 1..Cardinality(P)  PROVE artifacts[Nth(n)] \in Artifacts
    <2>1. Nth(n) \in DOMAIN artifacts  BY <1>3
    <2> QED  BY <2>1
<1>6. C!Kept(P) \in Seq(Artifacts) /\ Len(C!Kept(P)) = Cardinality(P)
      /\ DOMAIN C!Kept(P) = 1..Cardinality(P)
    BY <1>2, <1>4, <1>5
<1>7. Cardinality(P) <= Len(artifacts)
    <2>1. IsFiniteSet(1..Len(artifacts)) /\ Cardinality(1..Len(artifacts)) = Len(artifacts)
        BY <1>1, UpTo
    <2>2. P \subseteq 1..Len(artifacts)  BY <1>1
    <2> QED  BY <2>1, <2>2, FS_Subset
<1>8. \A n \in DOMAIN C!Kept(P) : \E i \in P : C!Kept(P)[n] = artifacts[i]
    BY <1>3, <1>4, <1>6
<1>9. ASSUME NEW n \in 1..Cardinality(P), NEW m \in 1..Cardinality(P),
             C!Kept(P)[n].slot = C!Kept(P)[m].slot
      PROVE  n = m
    <2>1. Nth(n) = Nth(m)  BY <1>3, <1>4, <1>9 DEF Single
    <2> QED  BY <1>3, <2>1
<1> QED  BY <1>2, <1>6, <1>7, <1>8, <1>9

\* Removing a file by name.
LEMMA RemovedFiles ==
    ASSUME artifacts \in Seq(Artifacts), Single, NEW slot
    PROVE  /\ C!Removed(slot) \in Seq(Artifacts)
           /\ Len(C!Removed(slot)) <= Len(artifacts)
           /\ C!Stored(slot) # {} => Len(C!Removed(slot)) <= Len(artifacts) - 1
           /\ \A n \in DOMAIN C!Removed(slot) :
                  /\ C!Removed(slot)[n].slot # slot
                  /\ \E i \in DOMAIN artifacts : C!Removed(slot)[n] = artifacts[i]
           /\ \A n, m \in DOMAIN C!Removed(slot) :
                  C!Removed(slot)[n].slot = C!Removed(slot)[m].slot => n = m
<1> DEFINE P == DOMAIN artifacts \ C!Stored(slot)
<1>1. /\ C!Kept(P) \in Seq(Artifacts)
      /\ IsFiniteSet(P) /\ Len(C!Kept(P)) = Cardinality(P)
      /\ Len(C!Kept(P)) <= Len(artifacts)
      /\ \A n \in DOMAIN C!Kept(P) : \E i \in P : C!Kept(P)[n] = artifacts[i]
      /\ \A n, m \in DOMAIN C!Kept(P) : C!Kept(P)[n].slot = C!Kept(P)[m].slot => n = m
    <2>1. P \in SUBSET DOMAIN artifacts  OBVIOUS
    <2> HIDE DEF P
    <2> QED  BY <2>1, KeptFiles
<1>2. C!Removed(slot) = C!Kept(P)  BY DEF C!Removed
<1>3. \A i \in P : artifacts[i].slot # slot /\ i \in DOMAIN artifacts  BY DEF C!Stored
<1>4. ASSUME C!Stored(slot) # {}  PROVE Cardinality(P) <= Len(artifacts) - 1
    <2>1. PICK i \in DOMAIN artifacts : i \in C!Stored(slot)  BY <1>4 DEF C!Stored
    <2>2. Len(artifacts) \in Nat /\ DOMAIN artifacts = 1..Len(artifacts)  OBVIOUS
    <2>3. IsFiniteSet(1..Len(artifacts)) /\ Cardinality(1..Len(artifacts)) = Len(artifacts)
        BY <2>2, UpTo
    <2>4. /\ IsFiniteSet((1..Len(artifacts)) \ {i})
          /\ Cardinality((1..Len(artifacts)) \ {i}) = Len(artifacts) - 1
        BY <2>1, <2>2, <2>3, FS_RemoveElement
    <2>5. P \subseteq (1..Len(artifacts)) \ {i}  BY <2>1, <2>2
    <2> QED  BY <2>4, <2>5, FS_Subset
<1> HIDE DEF P
<1> QED  BY <1>1, <1>2, <1>3, <1>4

\* Fewer files, and none that was not there.
LEMMA FewerFiles ==
    ASSUME CacheTypes, artifacts' \in Seq(Artifacts), Len(artifacts') <= Len(artifacts),
           \A n \in DOMAIN artifacts' : \E i \in DOMAIN artifacts :
               artifacts'[n].slot = artifacts[i].slot,
           NEW w \in Workers, SweptBy(w), prepare'[w] = prepare[w]
    PROVE  SweptBy(w)'
<1>1. prepare[w] \in Steps /\ Len(artifacts) \in Nat /\ Len(artifacts') \in Nat
    BY DEF CacheTypes
<1>2. C!At(w, "sweep") /\ prepare[w].total \in Int
    BY <1>1 DEF SweptBy, C!At, Steps, C!Idle
<1> QED  BY <1>1, <1>2 DEF SweptBy, C!At

\* component, load and store: nothing but the worker's own step changes, or a store.
LEMMA LoadKeeps ==
    ASSUME CacheInv, NEW w \in Workers,
           (\E c \in Sources : C!Load(w, c)) \/ C!GiveUp(w)
    PROVE  CacheInv'
<1>1. /\ ~C!At(w, "sweep") /\ UNCHANGED <<engine, artifacts, leftovers, unswept>>
      /\ prepare' \in [Workers -> Steps]
      /\ \A o \in Workers \ {w} : prepare'[o] = prepare[o]
  <2>1. engine \in Engines /\ prepare \in [Workers -> Steps]  BY DEF CacheInv, CacheTypes
  <2>2. ASSUME NEW step \in Steps, C!Goto(w, step)
        PROVE  /\ prepare' \in [Workers -> Steps]
               /\ \A o \in Workers \ {w} : prepare'[o] = prepare[o]
      BY <2>1, <2>2 DEF C!Goto
  <2>3. ASSUME NEW c \in Sources
        PROVE  /\ [at |-> "store", slot |-> C!Slot(c)] \in Steps
               /\ [at |-> "refuse", slot |-> C!Slot(c)] \in Steps
    <3>1. C!Slot(c) \in C!Slots  BY <2>1 DEF C!Slot, C!Slots
    <3> QED  BY <3>1 DEF Steps
  <2>4. C!Idle \in Steps  BY DEF Steps
  <2>5. ASSUME NEW c \in Sources, C!Load(w, c)
        PROVE  \/ UNCHANGED prepare
               \/ \E step \in Steps : C!Goto(w, step)
      BY <2>3, <2>5 DEF C!Load
  <2>6. C!GiveUp(w) => \E step \in Steps : C!Goto(w, step)  BY <2>4 DEF C!GiveUp, C!Leave
  <2>7. /\ ~C!At(w, "sweep") /\ UNCHANGED <<engine, artifacts, leftovers, unswept>>
      BY DEF C!Load, C!GiveUp, C!At
  <2> QED  BY <2>1, <2>2, <2>5, <2>6, <2>7
<1>2. CacheTypes'  BY <1>1 DEF CacheInv, CacheTypes, Single, Steps, C!Idle
<1>3. \A o \in Workers : SweptBy(o) => SweptBy(o)'  BY <1>1 DEF SweptBy, C!At
<1> QED  BY <1>1, <1>2, <1>3 DEF CacheInv

LEMMA RefuseKeeps ==
    ASSUME C!CeilingAssumption, CacheInv, NEW w \in Workers, C!Refuse(w)
    PROVE  CacheInv'
<1> DEFINE slot == prepare[w].slot
<1>1. /\ artifacts' = C!Removed(slot) /\ UNCHANGED <<engine, leftovers, unswept>>
      /\ C!At(w, "refuse") /\ slot \in C!Slots
      /\ prepare' = [prepare EXCEPT ![w] = [at |-> "store", slot |-> slot]]
    BY DEF C!Refuse, CacheInv, CacheTypes, Steps, C!Idle, C!At, C!Goto
<1> HIDE DEF slot
<1>2. /\ artifacts' \in Seq(Artifacts) /\ Len(artifacts') <= Len(artifacts) /\ Single'
      /\ \A n \in DOMAIN artifacts' : \E i \in DOMAIN artifacts : artifacts'[n] = artifacts[i]
    BY <1>1, RemovedFiles DEF CacheInv, CacheTypes, Single
<1>3. prepare' \in [Workers -> Steps]  BY <1>1 DEF CacheInv, CacheTypes, Steps
<1>4. CacheTypes'  BY <1>1, <1>2, <1>3 DEF CacheInv, CacheTypes, Steps, C!Slots, C!Idle
<1>5. ASSUME NEW o \in Workers, SweptBy(o)  PROVE SweptBy(o)'
    <2>1. prepare'[o] = prepare[o]
        BY <1>1, <1>5 DEF CacheInv, CacheTypes, SweptBy, C!At
    <2> QED  BY <1>2, <1>5, <2>1, FewerFiles DEF CacheInv
<1>6. Len(artifacts) <= Ceiling => Len(artifacts') <= Ceiling
    BY <1>2 DEF CacheInv, CacheTypes, C!CeilingAssumption
<1> QED  BY <1>1, <1>4, <1>5, <1>6 DEF CacheInv

LEMMA RenameKeeps ==
    ASSUME CacheInv, NEW w \in Workers, C!Rename(w)
    PROVE  CacheInv'
<1> DEFINE slot == prepare[w].slot
           new == [slot |-> slot, proven |-> TRUE]
<1>1. /\ artifacts' = Append(C!Removed(slot), new) /\ UNCHANGED <<engine, leftovers>>
      /\ slot \in C!Slots /\ unswept'
      /\ prepare' = [prepare EXCEPT ![w] = [at |-> "list"]]
    BY DEF C!Rename, CacheInv, CacheTypes, Steps, C!Idle, C!At, C!Goto
<1>2. new \in Artifacts /\ new.slot = slot  BY <1>1 DEF Artifacts
<1> HIDE DEF slot, new
<1>3. /\ C!Removed(slot) \in Seq(Artifacts)
      /\ \A n \in DOMAIN C!Removed(slot) : C!Removed(slot)[n].slot # slot
      /\ \A n, m \in DOMAIN C!Removed(slot) :
             C!Removed(slot)[n].slot = C!Removed(slot)[m].slot => n = m
    BY RemovedFiles DEF CacheInv, CacheTypes
<1>4. artifacts' \in Seq(Artifacts)  BY <1>1, <1>2, <1>3
<1>5. Single'
    <2> DEFINE L == Len(C!Removed(slot))
    <2>1. L \in Nat /\ DOMAIN C!Removed(slot) = 1..L  BY <1>3
    <2>2. /\ DOMAIN artifacts' = 1..L + 1 /\ artifacts'[L + 1] = new
          /\ \A i \in 1..L : artifacts'[i] = C!Removed(slot)[i]
        BY <1>1, <1>2, <1>3
    <2> HIDE DEF L
    <2>3. \A i \in 1..L + 1 : i \in 1..L \/ i = L + 1  BY <2>1
    <2> QED  BY <1>2, <1>3, <2>1, <2>2, <2>3 DEF Single
<1>6. prepare' \in [Workers -> Steps]  BY <1>1 DEF CacheInv, CacheTypes, Steps
<1>7. CacheTypes'  BY <1>1, <1>4, <1>5, <1>6 DEF CacheInv, CacheTypes, Steps, C!Slots, C!Idle
<1> QED  BY <1>1, <1>7 DEF CacheInv

\* enforce_ceiling, as it lists the directory.
LEMMA ListKeeps ==
    ASSUME CacheInv, NEW w \in Workers, C!List(w)
    PROVE  CacheInv'
<1> DEFINE sweep == [at |-> "sweep", total |-> Len(C!Own),
                     oldest |-> [i \in DOMAIN C!Own |-> C!Own[i].slot]]
<1>1. /\ artifacts' = C!Own /\ leftovers' \subseteq leftovers /\ unswept' = FALSE
      /\ UNCHANGED engine /\ prepare' = [prepare EXCEPT ![w] = sweep]
    BY DEF C!List, C!Goto
<1>2. /\ C!Own \in Seq(Artifacts)
      /\ \A n, m \in DOMAIN C!Own : C!Own[n].slot = C!Own[m].slot => n = m
    BY KeptFiles DEF C!Own, CacheInv, CacheTypes
<1>3. /\ Len(C!Own) \in Nat /\ DOMAIN C!Own = 1..Len(C!Own)
      /\ \A i \in 1..Len(C!Own) : C!Own[i].slot \in C!Slots
    <2>1. Len(C!Own) \in Nat /\ DOMAIN C!Own = 1..Len(C!Own)  BY <1>2
    <2>2. \A i \in 1..Len(C!Own) : C!Own[i] \in Artifacts  BY <1>2
    <2> QED  BY <2>1, <2>2 DEF Artifacts
<1>4. sweep \in Steps
    <2>1. [i \in DOMAIN C!Own |-> C!Own[i].slot] \in Seq(C!Slots)  BY <1>3
    <2> QED  BY <1>3, <2>1 DEF Steps
<1>5. prepare' \in [Workers -> Steps]  BY <1>1, <1>4 DEF CacheInv, CacheTypes
<1>6. CacheTypes'
    BY <1>1, <1>2, <1>5 DEF CacheInv, CacheTypes, Single, Steps, C!Slots, C!Idle, Artifacts
<1>7. SweptBy(w)'
    <2>1. prepare'[w] = sweep  BY <1>1 DEF CacheInv, CacheTypes
    <2>2. /\ sweep.at = "sweep" /\ sweep.total = Len(C!Own) /\ DOMAIN sweep.oldest = DOMAIN C!Own
          /\ \A i \in DOMAIN C!Own : sweep.oldest[i] = C!Own[i].slot
        OBVIOUS
    <2> HIDE DEF sweep
    <2> QED  BY <1>1, <1>3, <2>1, <2>2 DEF SweptBy, C!At
<1> QED  BY <1>6, <1>7 DEF CacheInv

\* enforce_ceiling, as it removes the oldest file.
LEMMA SweepKeeps ==
    ASSUME C!CeilingAssumption, CacheInv, NEW w \in Workers, C!Sweep(w)
    PROVE  CacheInv'
<1> DEFINE total == prepare[w].total
           oldest == prepare[w].oldest
<1>1. /\ C!At(w, "sweep") /\ total \in Int /\ oldest \in Seq(C!Slots)
      /\ UNCHANGED <<engine, leftovers, unswept>>
      /\ artifacts \in Seq(Artifacts) /\ Len(artifacts) \in Nat
      /\ DOMAIN artifacts = 1..Len(artifacts)
    BY DEF C!Sweep, CacheInv, CacheTypes, Steps, C!Idle, C!At
<1>2. CASE total <= Ceiling \/ oldest = <<>>
  <2>1. artifacts' = artifacts /\ prepare' = [prepare EXCEPT ![w] = C!Idle]
      BY <1>2 DEF C!Sweep, C!Leave, C!Goto
  <2>2. prepare' \in [Workers -> Steps]  BY <2>1 DEF CacheInv, CacheTypes, Steps
  <2>3. CacheTypes'
      BY <1>1, <2>1, <2>2 DEF CacheInv, CacheTypes, Single, Steps, C!Slots, C!Idle
  <2>4. SweptBy(w) => Len(artifacts) <= Ceiling
    <3>1. CASE total <= Ceiling  BY <1>1, <3>1 DEF SweptBy, C!CeilingAssumption
    <3>2. CASE oldest = <<>>
      <4>1. SweptBy(w) => ~(1 \in DOMAIN artifacts)  BY <3>2 DEF SweptBy
      <4> QED  BY <1>1, <4>1 DEF C!CeilingAssumption
    <3> QED  BY <1>2, <3>1, <3>2
  <2>5. \A o \in Workers \ {w} : SweptBy(o) => SweptBy(o)'
      BY <2>1 DEF SweptBy, C!At, CacheInv, CacheTypes
  <2> QED  BY <1>1, <2>1, <2>3, <2>4, <2>5 DEF CacheInv
<1>3. CASE ~(total <= Ceiling \/ oldest = <<>>)
  <2> DEFINE slot == Head(oldest)
             gone == IF C!Stored(slot) = {} THEN 0 ELSE 1
             sweep == [at |-> "sweep", total |-> total - gone, oldest |-> Tail(oldest)]
  <2>1. artifacts' = C!Removed(slot) /\ prepare' = [prepare EXCEPT ![w] = sweep]
      BY <1>3 DEF C!Sweep, C!Goto
  <2>2. /\ sweep.at = "sweep" /\ sweep.total = total - gone /\ sweep.oldest = Tail(oldest)
        /\ sweep \in Steps
    <3>1. gone \in Int /\ Tail(oldest) \in Seq(C!Slots)  BY <1>1, <1>3
    <3> HIDE DEF gone
    <3>2. total - gone \in Int  BY <1>1, <3>1
    <3> QED  BY <3>1, <3>2 DEF Steps
  <2> HIDE DEF slot, sweep
  <2>3. /\ artifacts' \in Seq(Artifacts) /\ Len(artifacts') <= Len(artifacts) /\ Single'
        /\ C!Stored(slot) # {} => Len(artifacts') <= Len(artifacts) - 1
        /\ \A n \in DOMAIN artifacts' :
               /\ artifacts'[n].slot # slot
               /\ \E i \in DOMAIN artifacts : artifacts'[n] = artifacts[i]
      BY <2>1, RemovedFiles DEF CacheInv, CacheTypes, Single
  <2>4. prepare' \in [Workers -> Steps] /\ prepare'[w] = sweep
      BY <2>1, <2>2 DEF CacheInv, CacheTypes
  <2>5. CacheTypes'
      BY <1>1, <2>3, <2>4 DEF CacheInv, CacheTypes, Steps, C!Slots, C!Idle
  <2>6. ASSUME NEW o \in Workers, o # w, SweptBy(o)  PROVE SweptBy(o)'
    <3>1. prepare'[o] = prepare[o]  BY <2>1, <2>6 DEF CacheInv, CacheTypes
    <3> QED  BY <2>3, <2>6, <3>1, FewerFiles DEF CacheInv
  <2>7. ASSUME SweptBy(w)  PROVE SweptBy(w)'
    <3>1. ASSUME NEW n \in DOMAIN artifacts'
          PROVE  \E k \in DOMAIN Tail(oldest) : Tail(oldest)[k] = artifacts'[n].slot
      <4>1. PICK i \in DOMAIN artifacts : artifacts'[n] = artifacts[i]  BY <2>3
      <4>2. PICK k \in DOMAIN oldest : oldest[k] = artifacts[i].slot  BY <2>7 DEF SweptBy
      <4>3. k # 1  BY <1>1, <1>3, <2>3, <4>1, <4>2 DEF slot
      <4>4. k - 1 \in DOMAIN Tail(oldest) /\ Tail(oldest)[k - 1] = oldest[k]
          BY <1>1, <1>3, <4>2, <4>3
      <4> QED  BY <4>1, <4>2, <4>4
    <3>2. Len(artifacts') <= total - gone
        BY <1>1, <2>3, <2>7 DEF SweptBy
    <3> QED  BY <2>2, <2>4, <3>1, <3>2 DEF SweptBy, C!At
  <2>8. Len(artifacts) <= Ceiling => Len(artifacts') <= Ceiling
      BY <1>1, <2>3 DEF C!CeilingAssumption
  <2> QED  BY <1>1, <2>5, <2>6, <2>7, <2>8 DEF CacheInv
<1> QED  BY <1>2, <1>3

\* What is outside a worker: a purge, a damaged file, the end of the process.
LEMMA OutsideKeeps ==
    ASSUME C!CeilingAssumption, CacheInv,
           C!Purge \/ C!Restart \/ (\E i \in DOMAIN artifacts : C!Damage(i)) \/ UNCHANGED C!vars
    PROVE  CacheInv'
<1>1. CASE C!Purge
  <2>1. Len(artifacts') <= Ceiling  BY <1>1 DEF C!Purge, C!CeilingAssumption
  <2>2. CacheTypes'
    <3>1. artifacts' = <<>> /\ leftovers' = {} /\ UNCHANGED <<engine, prepare, unswept>>
        BY <1>1 DEF C!Purge
    <3> QED  BY <3>1 DEF CacheInv, CacheTypes, Single, Steps, C!Slots, C!Idle
  <2> QED  BY <2>1, <2>2 DEF CacheInv
<1>2. CASE C!Restart
  <2>1. /\ engine' \in Engines /\ leftovers' \subseteq Workers /\ artifacts' = artifacts
        /\ prepare' = [w \in Workers |-> C!Idle] /\ unswept' \in BOOLEAN
        /\ unswept' <=> unswept \/ \E w \in Workers : C!At(w, "sweep")
      BY <1>2 DEF C!Restart, CacheInv, CacheTypes
  <2>2. prepare' \in [Workers -> Steps]  BY <2>1 DEF Steps
  <2>3. CacheTypes'  BY <2>1, <2>2 DEF CacheInv, CacheTypes, Single, Steps, C!Slots, C!Idle
  <2>4. unswept' \/ Len(artifacts') <= Ceiling  BY <2>1 DEF CacheInv, SweptBy
  <2> QED  BY <2>3, <2>4 DEF CacheInv
<1>3. ASSUME NEW i \in DOMAIN artifacts, C!Damage(i)  PROVE CacheInv'
  <2>1. /\ artifacts' = [artifacts EXCEPT ![i].proven = FALSE]
        /\ UNCHANGED <<engine, leftovers, prepare, unswept>>
      BY <1>3 DEF C!Damage
  <2>2. artifacts \in Seq(Artifacts) /\ DOMAIN artifacts = 1..Len(artifacts)
      BY DEF CacheInv, CacheTypes
  <2>3. /\ artifacts' \in Seq(Artifacts) /\ Len(artifacts') = Len(artifacts)
        /\ DOMAIN artifacts' = DOMAIN artifacts
        /\ \A n \in DOMAIN artifacts : artifacts'[n].slot = artifacts[n].slot
    <3>1. \A n \in DOMAIN artifacts : artifacts[n] \in Artifacts  BY <2>2
    <3> DEFINE damaged == [artifacts[i] EXCEPT !.proven = FALSE]
    <3>2. damaged \in Artifacts /\ damaged.slot = artifacts[i].slot  BY <3>1 DEF Artifacts
    <3>3. artifacts' = [artifacts EXCEPT ![i] = damaged]  BY <2>1
    <3> HIDE DEF damaged
    <3> QED  BY <2>2, <3>2, <3>3
  <2>4. CacheTypes'
      BY <2>1, <2>3 DEF CacheInv, CacheTypes, Single, Steps, C!Slots, C!Idle
  <2>5. \A w \in Workers : SweptBy(w) => SweptBy(w)'
      BY <2>1, <2>3 DEF SweptBy, C!At
  <2> QED  BY <2>1, <2>3, <2>4, <2>5 DEF CacheInv
<1>4. CASE UNCHANGED C!vars
    BY <1>4 DEF C!vars, CacheInv, CacheTypes, Single, Steps, C!Slots, C!Idle, SweptBy, C!At
<1> QED  BY <1>1, <1>2, <1>3, <1>4

LEMMA CacheInvariant ==
    ASSUME C!CeilingAssumption
    PROVE  C!Spec => []CacheInv
<1>1. C!Init => CacheInv
  <2> SUFFICES ASSUME C!Init  PROVE CacheInv  OBVIOUS
  <2>1. engine \in Engines  BY DEF C!Init, C!CeilingAssumption
  <2>2. artifacts = <<>> /\ artifacts \in Seq(Artifacts) /\ Single  BY DEF C!Init, Single
  <2>3. prepare \in [Workers -> Steps]  BY DEF C!Init, Steps
  <2>4. Len(artifacts) <= Ceiling  BY <2>2 DEF C!CeilingAssumption
  <2> QED  BY <2>1, <2>2, <2>3, <2>4 DEF C!Init, CacheInv, CacheTypes
<1>2. CacheInv /\ [C!Next]_(C!vars) => CacheInv'
    BY LoadKeeps, RefuseKeeps, RenameKeeps, ListKeeps, SweepKeeps, OutsideKeeps DEF C!Next
<1> QED  BY <1>1, <1>2, PTL DEF C!Spec

\* plugin_compile_cache.rs: once the stores are over, the directory is under its
\* ceiling, however many workers swept it at once and whatever was cut short.
THEOREM CeilingIsHeld ==
    ASSUME C!CeilingAssumption
    PROVE  C!Spec => []C!CeilingHolds
<1>1. CacheInv => C!CeilingHolds  BY DEF CacheInv, C!CeilingHolds, SweptBy
<1> QED  BY <1>1, CacheInvariant, PTL

\* plugin_compile_cache.rs: every file is one a worker stored, and no name has two.
THEOREM CacheTypeCorrect ==
    ASSUME C!CeilingAssumption
    PROVE  C!Spec => []C!TypeOK
<1>1. CacheInv => C!TypeOK
  <2> SUFFICES ASSUME CacheInv  PROVE C!TypeOK  OBVIOUS
  <2>1. ASSUME NEW i \in DOMAIN artifacts
        PROVE  artifacts[i] \in [slot : C!Slots, proven : BOOLEAN]
    <3>1. artifacts \in Seq(Artifacts)  BY DEF CacheInv, CacheTypes
    <3>2. artifacts[i] \in Artifacts  BY <3>1
    <3> QED  BY <3>2 DEF Artifacts
  <2>2. ASSUME NEW slot \in C!Slots  PROVE Cardinality(C!Stored(slot)) <= 1
    <3>1. CASE C!Stored(slot) = {}
        BY <3>1, FS_EmptySet
    <3>2. CASE C!Stored(slot) # {}
      <4>1. PICK i \in DOMAIN artifacts : i \in C!Stored(slot)  BY <3>2 DEF C!Stored
      <4>2. C!Stored(slot) = {i}  BY <4>1 DEF C!Stored, CacheInv, CacheTypes, Single
      <4>3. Cardinality({i}) = 1  BY FS_Singleton
      <4> QED  BY <4>2, <4>3
    <3> QED  BY <3>1, <3>2
  <2>3. \A w \in Workers : prepare[w].at \in {"idle", "refuse", "store", "list", "sweep"}
      BY DEF CacheInv, CacheTypes, Steps, C!Idle
  <2> QED  BY <2>1, <2>2, <2>3, SizeInC DEF CacheInv, CacheTypes, C!TypeOK
<1> QED  BY <1>1, CacheInvariant, PTL
==============================================================================
