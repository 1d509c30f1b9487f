---------------------------- MODULE MCChainTree ----------------------------
(* Instances of ChainTree for TLC.  Block hashes are interchangeable. *)
EXTENDS ChainTree, TLC

Symmetry == Permutations(Hash)
=============================================================================
