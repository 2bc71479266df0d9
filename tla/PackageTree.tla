----------------------------- MODULE PackageTree -----------------------------
(****************************************************************************)
(* A plugin package as it lies on disk, shared by the promise of the plugin *)
(* store (VersionSwap) and by the store itself (PluginStore).               *)
(****************************************************************************)
CONSTANTS
    Packages,   \* the packages offered for the plugin
    Absent      \* the value of anything that is not there

\* The files of a package the host reads: the manifest (its version) and the
\* component (its code and its digest).  A tree with fewer is half deleted.
Files == {"component", "manifest"}

\* A version on disk.  `proved` records that the smoke test accepted the
\* component at its final path; no file of the program holds it.
Tree == [package : Packages, files : SUBSET Files, proved : BOOLEAN]

\* What an interrupted deletion of a tree may leave behind.
Remnants(tree) ==
    IF tree = Absent THEN {} ELSE {[tree EXCEPT !.files = f] : f \in SUBSET tree.files}
==============================================================================
