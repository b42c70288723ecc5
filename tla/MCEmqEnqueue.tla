---------------------------- MODULE MCEmqEnqueue ---------------------------
EXTENDS EmqEnqueue
=============================================================================
