----------------------------- MODULE MCBodySync -----------------------------
(* An instance of BodySync for TLC: three nodes in a row, of which the first
   mines.  What the third node gets, it gets from the second. *)
EXTENDS BodySync

CONSTANTS n1, n2, n3

Row == {<<n1, n2>>, <<n2, n1>>, <<n2, n3>>, <<n3, n2>>}
=============================================================================
