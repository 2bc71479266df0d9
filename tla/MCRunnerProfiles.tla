-------------------------- MODULE MCRunnerProfiles --------------------------
(****************************************************************************)
(* Instances of RunnerProfiles for TLC: a signed release and an unsigned    *)
(* build of other code, threads and profiles being interchangeable.         *)
(****************************************************************************)
EXTENDS RunnerProfiles, TLC

CONSTANTS t1, t2, p1, p2, keyA, oldCode, newCode

Interchangeable == Permutations(Threads) \cup Permutations(Profiles)

Builds == {[version |-> 1, channel |-> keyA, component |-> oldCode],
           [version |-> 2, channel |-> Unsigned, component |-> newCode]}
=============================================================================
