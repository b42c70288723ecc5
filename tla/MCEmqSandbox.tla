---------------------------- MODULE MCEmqSandbox ----------------------------
EXTENDS EmqSandbox
=============================================================================
