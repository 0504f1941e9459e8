------------------------- MODULE MC_ReferralPayouts -------------------------
(* Instances of ReferralPayouts for TLC. *)
EXTENDS ReferralPayouts, TLC

\* Workers are interchangeable.
WorkerSymmetry == Permutations(Workers)
=============================================================================
