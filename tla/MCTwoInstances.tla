--------------------------- MODULE MCTwoInstances ---------------------------
(* Two daemons, one directory, for TLC. *)
EXTENDS TwoInstances

MCInitFiles == {<<Meta(0), Rec(1, NoEnd)>>}
=============================================================================
