--------------------------- MODULE MCEmqScheduler ---------------------------
EXTENDS EmqScheduler
=============================================================================
