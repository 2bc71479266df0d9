---------------------------- MODULE MCLibraryCards ----------------------------
(****************************************************************************)
(* An instance of LibraryCards for TLC: three games of one title.           *)
(****************************************************************************)
EXTENDS LibraryCards, TLC

Listing == <<"r1">>
OneTitle == [g \in {"r1", "s", "d"} |-> "title"]
===============================================================================
