----------------------------- MODULE MCEmqQueue ----------------------------
EXTENDS EmqQueue, TLC

Symmetry == Permutations(Job) \cup Permutations(Token)
=============================================================================
