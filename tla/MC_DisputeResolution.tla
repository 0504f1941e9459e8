------------------------ MODULE MC_DisputeResolution ------------------------
(* An instance of DisputeResolution for TLC. *)
EXTENDS DisputeResolution
=============================================================================
