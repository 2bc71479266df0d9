---------------------------- MODULE MCEpicInstall ----------------------------
(****************************************************************************)
(* An instance of EpicInstall for TLC: two games of one title, whose        *)
(* folders differ only by the suffix.                                       *)
(****************************************************************************)
EXTENDS EpicInstall, TLC

SameTitle == [g \in Games |-> "title"]
OwnSuffix == "a" :> "title-a" @@ "b" :> "title-b"
==============================================================================
