------------------------------- MODULE Merkle -------------------------------
(***************************************************************************)
(* The proof that ties a new block to the end of one chain: the miner      *)
(* hashes the deepest blocks of all chains into a tree and sends the       *)
(* siblings on the way from the chain of the new block to the root         *)
(* (compute_merkle_proof); a node that receives the block hashes its       *)
(* parent up again (verify_merkle_proof).                                  *)
(*                                                                         *)
(* Source: Snowball_Main/code/verify.cpp, miner.cpp (mine_new_block); the  *)
(* loops are steps.  A hash is the pair of what is hashed: no collisions.  *)
(***************************************************************************)
EXTENDS Integers, Sequences

CONSTANT MaxChains     \* bound: number of chains

ASSUME MerkleAssumption == MaxChains \in Nat

VARIABLES
    row,       \* tmp of compute_merkle_proof
    index,     \* index: of the chain in row, or of the check in its level
    proof,     \* proof_new_chain
    claim,     \* the block and the chain that are checked against proof
    hash,      \* h of verify_merkle_proof
    step,      \* i of verify_merkle_proof, counted from 1
    verdict,   \* "proving", "checking", and then "true" or "false"
    made       \* history: the block and the chain the proof is made for

merkleVars == <<row, index, proof, claim, hash, step, verdict, made>>

Leaf(b) == <<b>>
EMPTY_LEAF == <<0>>

\* The leaves of a complete binary tree that n chains need.
size[n \in 1 .. MaxChains] == IF n = 1 THEN 1 ELSE 2 * size[(n + 1) \div 2]

\* The leaves of n chains, of which chain c ends in block c + 1.
Leaves(n) == [i \in 1 .. size[n] |-> IF i <= n THEN Leaf(i) ELSE EMPTY_LEAF]

\* One turn of the loop of compute_merkle_tree_root.
Pairs(r) == [i \in 1 .. Len(r) \div 2 |-> <<r[2 * i - 1], r[2 * i]>>]

\* The miner proves one chain; a block is received that says it extends any
\* block in any chain.
MerkleInit ==
    \E n \in 1 .. MaxChains : \E c, d \in 0 .. n - 1 : \E b \in 1 .. n + 1 :
       /\ row = Leaves(n)
       /\ index = c
       /\ proof = <<Leaves(n)[c + 1]>>
       /\ claim = <<b, d>>
       /\ hash = Leaf(b)
       /\ step = 2
       /\ verdict = "proving"
       /\ made = <<c + 1, c>>

\* compute_merkle_proof, one level: the sibling of the node at index, which is
\* counted from 0, is added to the proof.
ProveLevel ==
    /\ verdict = "proving" /\ Len(row) > 1
    /\ LET sibling == IF index % 2 = 1 THEN index - 1 ELSE index + 1
       IN  proof' = Append(proof, row[sibling + 1])
    /\ row' = Pairs(row)
    /\ index' = index \div 2
    /\ UNCHANGED <<claim, hash, step, verdict, made>>

\* The root ends the proof, and the check begins: the block must be one of the
\* two leaves the proof starts with.
Proved ==
    /\ verdict = "proving" /\ Len(row) = 1
    /\ proof' = Append(proof, row[1])
    /\ index' = claim[2]
    /\ verdict' = IF hash \in {proof'[1], proof'[2]} THEN "checking" ELSE "false"
    /\ UNCHANGED <<row, claim, hash, step, made>>

\* Mutant: the sibling is always taken to be on the right.
CheckLevelOneSided ==
    /\ verdict = "checking" /\ step < Len(proof)
    /\ hash' = <<hash, proof[step]>>
    /\ step' = step + 1
    /\ index' = index \div 2
    /\ UNCHANGED <<row, proof, claim, verdict, made>>

\* verify_merkle_proof, one level.
CheckLevel ==
    /\ verdict = "checking" /\ step < Len(proof)
    /\ hash' = IF index % 2 = 1 THEN <<proof[step], hash>>
                                ELSE <<hash, proof[step]>>
    /\ step' = step + 1
    /\ index' = index \div 2
    /\ UNCHANGED <<row, proof, claim, verdict, made>>

Checked ==
    /\ verdict = "checking" /\ step = Len(proof)
    /\ verdict' = IF proof[step] = hash /\ row[1] = hash THEN "true" ELSE "false"
    /\ UNCHANGED <<row, index, proof, claim, hash, step, made>>

MerkleNext == ProveLevel \/ Proved \/ CheckLevel \/ Checked

-----------------------------------------------------------------------------
\* A proof is accepted for the block and the chain it was made for, and for no
\* other block and no other chain.
ProofBinds ==
    /\ verdict = "true" => claim = made
    /\ verdict = "false" => claim # made
=============================================================================
