----------------------------- MODULE MCOhieNode -----------------------------
(* The instances of OhieNode that TLC checks. *)
EXTENDS OhieNode, TLC

CONSTANTS n1, n2

\* Three blocks in chain 2.
Three == <<
    [chain |-> 2, parent |-> 2, trailing |-> 1, rank |-> 0, next_rank |-> 1,
     depth |-> 1, number |-> 1],
    [chain |-> 2, parent |-> 3, trailing |-> 3, rank |-> 1, next_rank |-> 2,
     depth |-> 2, number |-> 2],
    [chain |-> 2, parent |-> 4, trailing |-> 4, rank |-> 2, next_rank |-> 3,
     depth |-> 3, number |-> 3]>>

\* A fork that is deeper than T_DISCARD, each node with a chain of its own, and
\* both.
Deeper == n1 :> <<3, 0>> @@ n2 :> <<2, 0>>
Apart == n1 :> <<3, 0>> @@ n2 :> <<0, 2>>
Mixed == n1 :> <<2, 1>> @@ n2 :> <<1, 0>>
ThreeQuotas == {Deeper, Apart, Mixed}
=============================================================================
