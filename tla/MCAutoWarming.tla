---------------------------- MODULE MCAutoWarming ----------------------------
EXTENDS AutoWarming
=============================================================================
