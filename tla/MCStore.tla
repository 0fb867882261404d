------------------------------ MODULE MCStore ------------------------------
(* Small instances of Store for TLC. *)
EXTENDS StoreInv

\* A legacy file without a meta line, with a duplicate and a record that is no
\* event; and a current file with an event that ends early.
MCInitFiles ==
  { <<Rec(2, NoEnd), Rec(1, Bad), Junk, Rec(2, 0)>>,
    <<Meta(0), Rec(1, 0), Rec(2, NoEnd)>> }

\* A whole file, a file cut before its first line, and an old file.
MCPeerFiles ==
  { <<>>, <<Meta(0), Rec(2, NoEnd)>>, <<Meta(1), Rec(1, NoEnd)>> }
=============================================================================
