----------------------------- MODULE Algorithms -----------------------------
(***************************************************************************)
(* Three algorithms that share no state with the protocol, side by side:   *)
(* a behaviour runs one of them, and the other two do not start.           *)
(***************************************************************************)
EXTENDS HashTree, Merkle, Packaging

VARIABLE running

vars == <<running, treeVars, merkleVars, packVars>>

NoTree ==
    /\ root = 0 /\ child = 0 /\ todo = 0 /\ path = 0 /\ phase = 0
    /\ value = 0 /\ added = {} /\ clashed = TRUE /\ exposed = {}

NoMerkle ==
    /\ row = 0 /\ index = 0 /\ proof = 0 /\ claim = 0 /\ hash = 0
    /\ step = 0 /\ verdict = "none" /\ made = 0

NoPackaging ==
    /\ strategy = "none" /\ times = 0 /\ pool = 0 /\ packed = <<>>
    /\ first = 0 /\ look = 0 /\ numbers = 0

Init ==
    \/ running = "tree" /\ TreeInit /\ NoMerkle /\ NoPackaging
    \/ running = "merkle" /\ NoTree /\ MerkleInit /\ NoPackaging
    \/ running = "packaging" /\ NoTree /\ NoMerkle /\ PackInit

Next ==
    \/ running = "tree" /\ TreeNext /\ UNCHANGED <<running, merkleVars, packVars>>
    \/ running = "merkle" /\ MerkleNext /\ UNCHANGED <<running, treeVars, packVars>>
    \/ running = "packaging" /\ PackNext /\ UNCHANGED <<running, treeVars, merkleVars>>

Spec == Init /\ [][Next]_vars

\* What is in the search tree can be found (HashTree).
Searchable == running = "tree" => TreeSearchable

\* Insertions that meet lose none but the blocks of these insertions (HashTree).
LostExposed == running = "tree" => LostOnlyExposed
=============================================================================
