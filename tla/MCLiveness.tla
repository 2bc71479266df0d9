------------------------------ MODULE MCLiveness ------------------------------
(****************************************************************************)
(* What must eventually happen outside the scheduler, checked in one run of *)
(* TLC: the calls of the runtime, with the epoch thread, and the            *)
(* transaction of the store.  `component` says which of the two a behaviour *)
(* is of, and never changes; the other one stays as it starts.              *)
(****************************************************************************)
EXTENDS Naturals

CONSTANTS Absent, Unsigned, Torn, keyA, oldCode, w1, w2

VARIABLES
    component,
    call, due, ticks, cancelled, inFlight, stop, ticker, owner, committed, charged, seen,
    live, previous, staged, discard, kept, journal, smoke, trust, pc, then, op, rec, boot

hostVars == <<call, due, ticks, cancelled, inFlight, stop, ticker, owner, committed, charged, seen>>
storeVars ==
    <<live, previous, staged, discard, kept, journal, smoke, trust, pc, then, op, rec, boot>>
vars == <<component, hostVars, storeVars>>

Workers == {w1, w2}

Host == INSTANCE PluginHost WITH Calls <- Workers, Ticks <- 1, Instance <- 1, Total <- 1

Store == INSTANCE PluginStore WITH
    Packages <- {[version |-> 1, channel |-> keyA, component |-> oldCode]},
    FaultSites <- {}, Signers <- {keyA}, Components <- {oldCode}

Init == component \in {"host", "store"} /\ Host!Init /\ Store!Init

OfHost(Step) == component = "host" /\ Step
OfStore(Step) == component = "store" /\ Step

Next ==
    /\ UNCHANGED component
    /\ \/ OfHost(Host!Next) /\ UNCHANGED storeVars
       \/ OfStore(Store!Next) /\ UNCHANGED hostVars

\* The fairness that each of the two modules states, for the one that runs.
Fairness ==
    /\ \A w \in Workers :
        /\ WF_hostVars(OfHost(Host!Host(w)))
        /\ SF_hostVars(OfHost(Host!Settled(w)))
        /\ SF_hostVars(OfHost(Host!EpochCallback(w)))
    /\ WF_hostVars(OfHost(Host!Ticker)) /\ WF_hostVars(OfHost(Host!Owner))
    /\ WF_storeVars(OfStore(Store!Step))
    /\ WF_storeVars(OfStore(Store!BeginStartup))
    /\ WF_storeVars(OfStore(Store!BeginSweep))

FairSpec == Init /\ [][Next]_vars /\ Fairness
------------------------------------------------------------------------------
(* The properties of the components: each one speaks of its own only.       *)

\* plugin_runtime.rs: a call ends within its ticks, and the drop of the runtime
\* returns.
CallsEnd == Host!CallsEnd

\* plugin_update.rs: an operation that was interrupted is settled.
EveryOperationSettles ==
    <>[][~OfStore(Store!Crash)]_storeVars => (journal # Absent ~> journal = Absent)
===============================================================================
