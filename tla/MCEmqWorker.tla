---------------------------- MODULE MCEmqWorker ----------------------------
EXTENDS EmqWorker, TLC

Symmetry == Permutations(Job)
=============================================================================
