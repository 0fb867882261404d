---------------------------- MODULE MCSocketBind ----------------------------
(* Three starters, interchangeable, for TLC. *)
EXTENDS SocketBind, TLC

Perms == Permutations(Starters)
=============================================================================
