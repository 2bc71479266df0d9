----------------------------- MODULE PluginQueue -----------------------------
(****************************************************************************)
(* What the scheduler in front of the plugin host promises its callers,     *)
(* with no lock, worker or condition variable in sight: one line of         *)
(* accepted jobs, of which a plugin may have a bounded number and is served *)
(* in order, one call of a plugin at a time, and a bounded number of calls  *)
(* in all.  PluginScheduler implements this specification.                  *)
(****************************************************************************)
EXTENDS Naturals, Sequences, FiniteSets

CONSTANTS Plugins, Jobs, MaxConcurrency, QueueDepth, None

VARIABLES
    line,       \* the accepted jobs that have not started, oldest first
    plugin,     \* the plugin of each job, None until it is accepted
    active,     \* the jobs being run
    open        \* the scheduler still takes and starts jobs

InLine(p) == {j \in Jobs : plugin[j] = p /\ \E i \in DOMAIN line : line[i] = j}

\* The line without its i-th job.
Without(i) == SubSeq(line, 1, i - 1) \o SubSeq(line, i + 1, Len(line))

Init ==
    /\ line = <<>>
    /\ plugin = [j \in Jobs |-> None]
    /\ active = {}
    /\ open = TRUE

Accept(p) ==
    /\ open
    /\ \E j \in Jobs :
        /\ plugin[j] = None
        /\ plugin' = [plugin EXCEPT ![j] = p]
        /\ line' = Append(line, j)
    /\ Cardinality(InLine(p)) < QueueDepth
    /\ UNCHANGED <<active, open>>

\* The oldest job of a plugin that runs none.
Start ==
    /\ \E i \in DOMAIN line :
        /\ active' = active \cup {line[i]}
        /\ \A j \in active : plugin[j] # plugin[line[i]]
        /\ \A k \in 1..i - 1 : plugin[line[k]] # plugin[line[i]]
        /\ line' = Without(i)
    /\ Cardinality(active) < MaxConcurrency
    /\ UNCHANGED <<plugin, open>>

\* A caller changed its mind before the job started.
Withdraw ==
    /\ \E i \in DOMAIN line : line' = Without(i)
    /\ UNCHANGED <<plugin, active, open>>

End ==
    /\ \E j \in active : active' = active \ {j}
    /\ UNCHANGED <<line, plugin, open>>

Close ==
    /\ open
    /\ open' = FALSE
    /\ line' = <<>>
    /\ UNCHANGED <<plugin, active>>

Next == Close \/ Withdraw \/ Start \/ End \/ \E p \in Plugins : Accept(p)

Spec == Init /\ [][Next]_<<line, plugin, active, open>>
==============================================================================
