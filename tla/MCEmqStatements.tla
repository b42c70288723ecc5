-------------------------- MODULE MCEmqStatements --------------------------
EXTENDS EmqStatements, TLC

Symmetry == Permutations(Job) \cup Permutations(Token) \cup Permutations(Session)
=============================================================================
