----------------------------- MODULE MCLiveSession ------------------------------
(* LiveSession for TLC: one profile, its queue execution and direct sessions.    *)
EXTENDS LiveSession
=============================================================================
