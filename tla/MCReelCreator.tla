---------------------------- MODULE MCReelCreator ----------------------------
EXTENDS ReelCreator
=============================================================================
