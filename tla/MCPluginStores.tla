---------------------------- MODULE MCPluginStores ----------------------------
(****************************************************************************)
(* Two instances of PluginStore in one run of TLC.  What is offered for the *)
(* plugin is chosen at the start of a behaviour and never changes: a        *)
(* release and a newer one, or a release and a newer unsigned build.        *)
(****************************************************************************)
EXTENDS MCPluginStore

VARIABLE offered

AllPackages == TwoReleases \cup ReleaseAndUnsigned

InstallsOffered == op' # Absent /\ op'.kind = "install" => op'.package \in offered

OfferedInit == Init /\ offered \in {TwoReleases, ReleaseAndUnsigned}

OfferedNext == Next /\ InstallsOffered /\ UNCHANGED offered

OfferedSpec == OfferedInit /\ [][OfferedNext]_<<vars, offered>>
==============================================================================
