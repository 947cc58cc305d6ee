-------------------------- MODULE MCPublishPipeline --------------------------
(* The configurations of job and account are all initial states. *)
EXTENDS PublishPipeline
=============================================================================
