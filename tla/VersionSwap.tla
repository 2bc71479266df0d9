----------------------------- MODULE VersionSwap -----------------------------
(****************************************************************************)
(* What the plugin store promises about one plugin, with no file, journal   *)
(* or recovery in sight: at every moment there is one installed version     *)
(* and at most one version to go back to, and each of them changes in one   *)
(* step.  PluginStore implements this specification; a crash of the store   *)
(* is a stuttering step here, except in the middle of an uninstall.         *)
(****************************************************************************)
EXTENDS PackageTree

VARIABLES
    installed,  \* the version the plugin is at, a Tree or Absent
    fallback    \* the version a rollback would return to, a Tree or Absent

TypeOK ==
    /\ installed \in Tree \cup {Absent}
    /\ fallback \in Tree \cup {Absent}

Init == installed = Absent /\ fallback = Absent

\* A whole and proved version takes over; the one it displaces is kept if it
\* can still be named (its manifest is readable).
Upgrade ==
    \E package \in Packages :
        /\ installed' = [package |-> package, files |-> Files, proved |-> TRUE]
        /\ fallback' = IF installed # Absent /\ "manifest" \in installed.files
                       THEN installed ELSE Absent

\* An update attempt gives up the earlier way back before it swaps anything.
SpendFallback ==
    /\ fallback # Absent
    /\ fallback' = Absent
    /\ UNCHANGED installed

Return ==
    /\ fallback # Absent
    /\ installed' = fallback
    /\ fallback' = Absent

Uninstall ==
    /\ installed # Absent
    /\ installed' \in Remnants(installed) \cup {Absent}
    /\ UNCHANGED fallback

\* The kept version goes after the installed one, not before it.
ForgetFallback ==
    /\ installed = Absent
    /\ fallback # Absent
    /\ fallback' \in Remnants(fallback)
    /\ UNCHANGED installed

Next == Upgrade \/ SpendFallback \/ Return \/ Uninstall \/ ForgetFallback

Spec == Init /\ [][Next]_<<installed, fallback>>
==============================================================================
