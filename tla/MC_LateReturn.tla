---------------------------- MODULE MC_LateReturn ----------------------------
(* Instances of LateReturn for TLC. *)
EXTENDS LateReturn, TLC

\* Workers are interchangeable.
WorkerSymmetry == Permutations(Workers)
=============================================================================
