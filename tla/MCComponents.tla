---------------------------- MODULE MCComponents ----------------------------
(****************************************************************************)
(* Components that meet nowhere in the code, checked in one run of TLC.     *)
(* `component` says which one a behaviour is of, and never changes.  They   *)
(* share the slots s1, s2...: the INSTANCE of a component says which of its *)
(* variables is in which, and the rest hold None.                           *)
(****************************************************************************)
EXTENDS Naturals, TLC

CONSTANTS Absent, None, Unsigned, keyA, oldCode, newCode, w1, w2

VARIABLES component, s1, s2, s3, s4, s5, s6, s7, s8, s9, s10, s11, s12, s13

vars == <<component, s1, s2, s3, s4, s5, s6, s7, s8, s9, s10, s11, s12, s13>>

\* Two threads, workers or commands of any component: no action names one.
Interchangeable == Permutations({w1, w2})

Release == [version |-> 1, channel |-> keyA, component |-> oldCode]
OneRelease == {Release}

\* A step of this component.
Turn(of) == component = of /\ UNCHANGED component

\* The slots a component leaves free: all but its first n.
Free2 == <<s3, s4, s5, s6, s7, s8, s9, s10, s11, s12, s13>>
Free3 == <<s4, s5, s6, s7, s8, s9, s10, s11, s12, s13>>
Free4 == <<s5, s6, s7, s8, s9, s10, s11, s12, s13>>
Free5 == <<s6, s7, s8, s9, s10, s11, s12, s13>>
Free6 == <<s7, s8, s9, s10, s11, s12, s13>>
Free7 == <<s8, s9, s10, s11, s12, s13>>
Free8 == <<s9, s10, s11, s12, s13>>
Free9 == <<s10, s11, s12, s13>>
Free10 == <<s11, s12, s13>>
Free11 == <<s12, s13>>
===============================================================================
