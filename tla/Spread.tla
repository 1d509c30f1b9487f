------------------------------- MODULE Spread -------------------------------
(***************************************************************************)
(* What the exchange of bodies promises.  A block appears at the node that *)
(* mines it.  Other nodes hear of it from a node that knows it, and take   *)
(* its body once, from a node that has it, when they know the block its    *)
(* body points to.  Nothing is forgotten.                                  *)
(***************************************************************************)
EXTENDS Integers

CONSTANTS
    Node,
    Block,
    Genesis

VARIABLES
    trailing,    \* block mined |-> the block its body points to
    known,       \* known[n] : blocks whose header n has
    full         \* full[n] : blocks whose body n has

vars == <<trailing, known, full>>

Mined == DOMAIN trailing

Init ==
    /\ trailing = [b \in {} |-> Genesis]
    /\ known = [n \in Node |-> {Genesis}]
    /\ full = [n \in Node |-> {Genesis}]

Appear(n, b) ==
    /\ b \notin Mined
    /\ \E t \in known[n] :
         trailing' = [x \in Mined \cup {b} |-> IF x = b THEN t ELSE trailing[x]]
    /\ known' = [known EXCEPT ![n] = @ \cup {b}]
    /\ full' = [full EXCEPT ![n] = @ \cup {b}]

Hear(n, b) ==
    /\ \E m \in Node : b \in known[m]
    /\ known' = [known EXCEPT ![n] = @ \cup {b}]
    /\ UNCHANGED <<trailing, full>>

Take(n, b) ==
    /\ b \in known[n] \ full[n]
    /\ trailing[b] \in known[n]
    /\ \E m \in Node : b \in full[m]
    /\ full' = [full EXCEPT ![n] = @ \cup {b}]
    /\ UNCHANGED <<trailing, known>>

Next == \E n \in Node, b \in Block : Appear(n, b) \/ Hear(n, b) \/ Take(n, b)

Spec == Init /\ [][Next]_vars
=============================================================================
