---------------------------- MODULE MCEmqEvents ----------------------------
EXTENDS EmqEvents
=============================================================================
