--------------------------- MODULE MCCloudWorker ---------------------------
(* Instances of CloudWorker for TLC. *)
EXTENDS CloudWorker
=============================================================================
