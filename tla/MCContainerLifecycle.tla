------------------------ MODULE MCContainerLifecycle ------------------------
(* Instances of ContainerLifecycle for TLC: one profile, two attempts. *)
EXTENDS ContainerLifecycle
=============================================================================
