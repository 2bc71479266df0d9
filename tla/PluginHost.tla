----------------------------- MODULE PluginHost -----------------------------
(****************************************************************************)
(* The limits of a plugin call (src-tauri/src/plugin_runtime.rs): the       *)
(* memory every call charges to one budget, and the epoch thread that ticks *)
(* while, and only while, a call is running and so ends one that does not   *)
(* end by itself.                                                           *)
(*                                                                          *)
(* One action is one critical section, one atomic operation, or one step    *)
(* of the guest that the host hears of.  The epoch is kept relative: a      *)
(* store is `due` once the epoch has passed its deadline of one tick.       *)
(****************************************************************************)
EXTENDS Naturals, FiniteSets

CONSTANTS
    Calls,     \* the workers of the scheduler, each with a call at a time
    Ticks,     \* the ticks a call is given
    Instance,  \* instance_memory_bytes, in units of growth
    Total      \* total_memory_bytes, in the same units

LimitsAssumption ==
    /\ IsFiniteSet(Calls)
    /\ Ticks \in Nat /\ Instance \in Nat /\ Total \in Nat

VARIABLES
    call,       \* where each call is
    due,        \* those whose store has an expired epoch deadline
    ticks,      \* ticks_remaining of each store
    cancelled,  \* the calls whose token is set
    inFlight,   \* TickerState
    stop,
    ticker,     \* where the epoch thread is
    owner,      \* the drop of the runtime
    committed,  \* MemoryBudget
    charged,    \* of each store
    seen        \* the value a charge last read

calls == <<call, due, ticks, cancelled>>
memory == <<committed, charged, seen>>
epoch == <<inFlight, stop, ticker>>
vars == <<calls, epoch, owner, memory>>

At(c, at) == call[c] = at
Goto(c, at) == call' = [call EXCEPT ![c] = at]

------------------------------------------------------------------------------
(* A call: invoke *)

\* The store is new: nothing charged, one tick before the first callback.  The
\* job that carries the call holds the runtime, which is not being dropped.
Begin(c) ==
    /\ At(c, "idle") /\ owner = "open"
    /\ Goto(c, "enter")
    /\ due' = due \ {c} /\ cancelled' = cancelled \ {c}
    /\ ticks' = [ticks EXCEPT ![c] = Ticks]
    /\ UNCHANGED <<epoch, owner, memory>>

\* The lease is counted under the lock and announced after it.
Enter(c) ==
    /\ At(c, "enter")
    /\ inFlight' = inFlight + 1
    /\ Goto(c, "notify")
    /\ UNCHANGED <<due, ticks, cancelled, stop, ticker, owner, memory>>

Wake == ticker' = IF ticker = "waiting" THEN "check" ELSE ticker

\* Mutant: the lease is counted and announced to nobody.
NotifyNoTicker(c) ==
    /\ At(c, "notify")
    /\ Goto(c, "started")
    /\ UNCHANGED <<due, ticks, cancelled, epoch, owner, memory>>

NotifyTicker(c) ==
    /\ At(c, "notify")
    /\ Wake
    /\ Goto(c, "started")
    /\ UNCHANGED <<due, ticks, cancelled, inFlight, stop, owner, memory>>

Cancel(c) ==
    /\ ~At(c, "idle") /\ c \notin cancelled
    /\ cancelled' = cancelled \cup {c}
    /\ UNCHANGED <<call, due, ticks, epoch, owner, memory>>

\* A cancel that came first costs no instantiation.
Instantiate(c) ==
    /\ At(c, "started")
    /\ Goto(c, IF c \in cancelled THEN "leave" ELSE "run")
    /\ UNCHANGED <<due, ticks, cancelled, epoch, owner, memory>>

\* The guest returns, traps or runs out of fuel: nothing says it ever does.
Return(c) ==
    /\ At(c, "run")
    /\ Goto(c, "leave")
    /\ UNCHANGED <<due, ticks, cancelled, epoch, owner, memory>>

\* The guest reaches a check of the epoch.  Past the deadline the callback ends
\* the call when it was cancelled, or when the ticks or the clock ran out, and
\* gives it one more tick otherwise.
EpochCallback(c) ==
    /\ At(c, "run") /\ c \in due
    /\ \/ Goto(c, "leave") /\ UNCHANGED <<due, ticks>>
       \/ /\ c \notin cancelled /\ ticks[c] > 0
          /\ ticks' = [ticks EXCEPT ![c] = @ - 1]
          /\ due' = due \ {c}
          /\ UNCHANGED call
    /\ UNCHANGED <<cancelled, epoch, owner, memory>>

\* The lease is dropped first, then the store.
Leave(c) ==
    /\ At(c, "leave")
    /\ inFlight' = IF inFlight = 0 THEN 0 ELSE inFlight - 1
    /\ Goto(c, "drop")
    /\ UNCHANGED <<due, ticks, cancelled, stop, ticker, owner, memory>>

\* Mutant: what the store charged is given back and not forgotten.
DropStoreCharged(c) ==
    /\ At(c, "drop")
    /\ committed' = committed - charged[c]
    /\ Goto(c, "idle")
    /\ UNCHANGED <<due, ticks, cancelled, epoch, owner, charged, seen>>

DropStore(c) ==
    /\ At(c, "drop")
    /\ committed' = committed - charged[c]
    /\ charged' = [charged EXCEPT ![c] = 0]
    /\ Goto(c, "idle")
    /\ UNCHANGED <<due, ticks, cancelled, epoch, owner, seen>>

------------------------------------------------------------------------------
(* Memory: memory_growing, MemoryBudget::charge *)

\* Past the ceiling of one instance the growth is refused and nothing is read.
Grow(c) ==
    /\ At(c, "run") /\ charged[c] + 1 <= Instance
    /\ Goto(c, "charge")
    /\ seen' = [seen EXCEPT ![c] = committed]
    /\ UNCHANGED <<due, ticks, cancelled, epoch, owner, committed, charged>>

\* Mutant: a plain store, whatever was charged in between.
ChargeStoring(c) ==
    /\ At(c, "charge")
    /\ UNCHANGED <<due, ticks, cancelled, epoch, owner>>
    /\ \/ /\ seen[c] + 1 > Total
          /\ Goto(c, "run") /\ UNCHANGED memory
       \/ /\ seen[c] + 1 <= Total
          /\ committed' = seen[c] + 1
          /\ charged' = [charged EXCEPT ![c] = @ + 1]
          /\ Goto(c, "run") /\ UNCHANGED seen

\* compare_exchange: refused past the global ceiling, taken if nobody charged
\* in between, and read again otherwise.
Charge(c) ==
    /\ At(c, "charge")
    /\ UNCHANGED <<due, ticks, cancelled, epoch, owner>>
    /\ \/ /\ seen[c] + 1 > Total
          /\ Goto(c, "run") /\ UNCHANGED memory
       \/ /\ seen[c] + 1 <= Total /\ committed = seen[c]
          /\ committed' = seen[c] + 1
          /\ charged' = [charged EXCEPT ![c] = @ + 1]
          /\ Goto(c, "run") /\ UNCHANGED seen
       \/ /\ seen[c] + 1 <= Total /\ committed # seen[c]
          /\ seen' = [seen EXCEPT ![c] = committed]
          /\ UNCHANGED <<call, committed, charged>>

------------------------------------------------------------------------------
(* The epoch thread: run, stop *)

TickerCheck ==
    /\ ticker = "check"
    /\ ticker' = IF stop THEN "ended" ELSE IF inFlight = 0 THEN "waiting" ELSE "sleep"
    /\ UNCHANGED <<calls, inFlight, stop, owner, memory>>

\* sleep, then increment_epoch: every store is past its deadline of one tick.
Tick ==
    /\ ticker = "sleep"
    /\ ticker' = "check"
    /\ due' = Calls
    /\ UNCHANGED <<call, ticks, cancelled, inFlight, stop, owner, memory>>

WakeSpuriously ==
    /\ ticker = "waiting" /\ Wake
    /\ UNCHANGED <<calls, inFlight, stop, owner, memory>>

\* The runtime is dropped by its last owner, which is no call.
Close ==
    /\ owner = "open" /\ \A c \in Calls : At(c, "idle")
    /\ stop' = TRUE
    /\ owner' = "notify"
    /\ UNCHANGED <<calls, inFlight, ticker, memory>>

NotifyClose ==
    /\ owner = "notify" /\ Wake
    /\ owner' = "join"
    /\ UNCHANGED <<calls, inFlight, stop, memory>>

Join ==
    /\ owner = "join" /\ ticker = "ended"
    /\ owner' = "closed"
    /\ UNCHANGED <<calls, epoch, memory>>

------------------------------------------------------------------------------

Init ==
    /\ call = [c \in Calls |-> "idle"]
    /\ ticks = [c \in Calls |-> Ticks]
    /\ due = {} /\ cancelled = {}
    /\ inFlight = 0 /\ stop = FALSE
    /\ ticker = "check" /\ owner = "open"
    /\ committed = 0
    /\ charged = [c \in Calls |-> 0]
    /\ seen = [c \in Calls |-> 0]

\* What the worker does of itself; the guest decides only Return and Grow.
Host(c) ==
    \/ Enter(c) \/ NotifyTicker(c) \/ Instantiate(c)
    \/ Charge(c) \/ Leave(c) \/ DropStore(c)

Ticker == TickerCheck \/ Tick
Owner == NotifyClose \/ Join

Next ==
    \/ \E c \in Calls :
        \/ Begin(c) \/ Cancel(c) \/ Return(c) \/ Grow(c) \/ EpochCallback(c) \/ Host(c)
    \/ Ticker \/ WakeSpuriously \/ Close \/ Owner

\* Threads are scheduled, and compiled code checks the epoch at every loop and
\* every call, so a guest that runs on for ever is checked again and again.
\* A compare-exchange does not lose to another call for ever.
Settled(c) == Charge(c) /\ At(c, "charge") /\ ~At(c, "charge")'

Fairness ==
    /\ \A c \in Calls : WF_vars(Host(c)) /\ SF_vars(Settled(c)) /\ SF_vars(EpochCallback(c))
    /\ WF_vars(Ticker) /\ WF_vars(Owner)

Spec == Init /\ [][Next]_vars
------------------------------------------------------------------------------
(* Properties *)

TypeOK ==
    /\ call \in [Calls -> {"idle", "enter", "notify", "started", "run", "charge", "leave", "drop"}]
    /\ ticks \in [Calls -> 0..Ticks]
    /\ due \subseteq Calls /\ cancelled \subseteq Calls
    /\ inFlight \in 0..Cardinality(Calls) /\ stop \in BOOLEAN
    /\ ticker \in {"check", "waiting", "sleep", "ended"}
    /\ owner \in {"open", "notify", "join", "closed"}
    /\ committed \in 0..Total
    /\ charged \in [Calls -> 0..Instance] /\ seen \in [Calls -> 0..Total]

\* The units of growth of the live stores.
Charges == {unit \in Calls \X (1..Instance) : unit[2] <= charged[unit[1]]}

\* The budget is what the live stores have charged, no more and no less, and
\* never past the ceiling, however two growths interleave: "an over-commit must
\* never be briefly visible to a concurrent instance".
CommittedIsCharged ==
    /\ committed = Cardinality(Charges)
    /\ committed <= Total

\* A call ends within its ticks even if its guest never returns, whichever call
\* was the last to leave and put the epoch thread to sleep just before; and a
\* runtime that is dropped joins that thread.
CallsEnd ==
    /\ \A c \in Calls : ~At(c, "idle") ~> At(c, "idle")
    /\ owner # "open" ~> owner = "closed"
=============================================================================
