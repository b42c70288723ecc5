--------------------------- MODULE MCEmqListener ---------------------------
EXTENDS EmqListener
=============================================================================
