---------------------------- MODULE MCPluginStore ----------------------------
(****************************************************************************)
(* Instances of PluginStore for TLC: what is offered for the plugin.  An    *)
(* update to new code, one release installed again and again (where failing *)
(* calls, not versions, are the question), and a signed release beside an   *)
(* unsigned build of other code under a later version.                      *)
(****************************************************************************)
EXTENDS PluginStoreProofs

CONSTANTS keyA, oldCode, newCode

OneRelease == {[version |-> 1, channel |-> keyA, component |-> oldCode]}

TwoReleases == OneRelease \cup {[version |-> 2, channel |-> keyA, component |-> newCode]}

ReleaseAndUnsigned ==
    OneRelease \cup {[version |-> 2, channel |-> Unsigned, component |-> newCode]}
==============================================================================
