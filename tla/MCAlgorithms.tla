---------------------------- MODULE MCAlgorithms ----------------------------
EXTENDS Algorithms

FiveHashes == 1 .. 5
=============================================================================
