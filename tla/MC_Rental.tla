----------------------------- MODULE MC_Rental -----------------------------
(* The hold of a rental (HoldLedger) and its two handoffs (Handoff), on small         *)
(* instances.  No handler touches both, so one run examines one of them per           *)
(* behaviour: "component" is chosen at the start and the variables of the other rest. *)
EXTENDS HoldLedger, TLC

CONSTANTS Users, Host, Renter, Requests, MaxRows

VARIABLES component, status, proofs, pin, request, seen

handoff == <<status, proofs, pin, request, seen>>
rental == <<component, vars, handoff>>

H == INSTANCE Handoff

ASSUME HandoffConstants == H!HandoffAssumption

RentalInit == component \in {"hold", "handoff"} /\ Init /\ H!Init

Holding == component = "hold" /\ Next /\ UNCHANGED <<component, handoff>>
HandingOver == component = "handoff" /\ H!Next /\ UNCHANGED <<component, vars>>

RentalNext == Holding \/ HandingOver

RentalSpec == RentalInit /\ [][RentalNext]_rental

\* Requests are interchangeable (two of the workers are called like them), and so are the
\* users besides the host: only BothPartiesWereThere, which is checked without symmetry,
\* tells the renter from the others.
Symmetry == Permutations(Requests) \cup Permutations(Users \ {Host})

\* No handoff without the proofs of the host and of somebody else (Handoff).
TwoWereThere == H!TwoWereThere

\* The claim about the two parties (Handoff).
BothPartiesWereThere == H!BothPartiesWereThere

=============================================================================
