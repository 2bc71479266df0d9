-------------------------- MODULE MCPluginScheduler --------------------------
(****************************************************************************)
(* Instances of PluginScheduler for TLC: two workers and two plugins, which *)
(* are interchangeable.                                                     *)
(****************************************************************************)
EXTENDS PluginScheduler, TLC

CONSTANTS p1, p2, w1, w2

Interchangeable == Permutations({p1, p2}) \cup Permutations({w1, w2})
==============================================================================
