------------------------------ MODULE Handoff ------------------------------
(***************************************************************************)
(* The two handoffs of one booking: package proximity (GPS and PIN proofs) *)
(* and the handlers Accept, CheckIn and CheckOut of package booking that   *)
(* drive it.  Whoever is signed in may send a proof for any booking: the   *)
(* handlers and the service of proximity tell the host from everybody      *)
(* else, and the renter from nobody.                                       *)
(*                                                                         *)
(* Every statement on proximity_proofs stands alone and the table has no   *)
(* unique key besides its id: what a request found may be outdated, or     *)
(* doubled, when it writes.  The other handlers of booking are free to     *)
(* take any transition of the state machine (BookingPromise).              *)
(***************************************************************************)
EXTENDS Naturals, FiniteSets, Sequences

CONSTANTS
  Users,     \* users who are signed in
  Host,      \* transactions.host_id
  Renter,    \* transactions.renter_id
  Requests,  \* HTTP requests that may be in flight at once
  MaxRows    \* bound on the rows of proximity_proofs

HandoffAssumption == MaxRows \in Nat /\ {Host, Renter} \subseteq Users

VARIABLES
  status,   \* transactions.status of the booking
  proofs,   \* proofs[<<u, t>>]: rows of user u for handoff t, each whether it is verified
  pin,      \* the PIN of the check-in, and the row that holds it
  request,  \* request[r]: what an HTTP request in flight has read
  seen      \* history: <<user, handoff>> proved so far

vars == <<status, proofs, pin, request, seen>>

Booking == [b |-> status]
Promise == INSTANCE BookingPromise
             WITH Bookings <- {"b"}, Overlapping <- [b |-> {}], status <- Booking

ProofType == {"CHECK_IN", "CHECK_OUT"}
StepOf == [CHECK_IN |-> "ACTIVE", CHECK_OUT |-> "COMPLETED"]
Guests == Users \ {Host}
NoPIN == [state |-> "none", row |-> 0]
Idle == [op |-> "idle", user |-> Host, type |-> "CHECK_IN", row |-> 0]

TypeOK ==
  /\ status \in Promise!Status
  /\ proofs \in [Users \X ProofType -> Seq(BOOLEAN)]
  /\ pin \in [state : {"none", "due", "stored", "texted"}, row : 0 .. MaxRows]
  /\ request \in [Requests -> [op : {"idle", "insert", "update", "pin", "commit"}, user : Users,
                               type : ProofType, row : 0 .. MaxRows]]
  /\ seen \subseteq Users \X ProofType

Init ==
  /\ status = "REQUESTED"
  /\ proofs = [ut \in Users \X ProofType |-> << >>]
  /\ pin = NoPIN
  /\ request = [r \in Requests |-> Idle]
  /\ seen = {}

-----------------------------------------------------------------------------
(* proximity.Repository.                                                   *)

Rows == Cardinality(UNION {{ut} \X DOMAIN proofs[ut] : ut \in Users \X ProofType})

Insert(user, type) ==
  /\ Rows < MaxRows
  /\ proofs' = [proofs EXCEPT ![<<user, type>>] = Append(@, FALSE)]

\* One row of this user and handoff, whichever the database returns first; 0 for none.
FindByTransactionAndType(user, type) ==
  IF proofs[<<user, type>>] = << >> THEN {0} ELSE DOMAIN proofs[<<user, type>>]

UpdateVerified(user, type, row, verified) ==
  proofs' = [proofs EXCEPT ![<<user, type>>][row] = verified]

-----------------------------------------------------------------------------
(* Accept, as far as the handoffs go.                                      *)

Accept ==
  /\ Promise!CanTransition(status, "ACCEPTED")
  /\ status' = "ACCEPTED"
  /\ pin' = [pin EXCEPT !.state = "due"]
  /\ UNCHANGED <<proofs, request, seen>>

\* After the commit: a new row for the host, with a PIN that nobody is told yet.  Whether
\* the host has a row already is not looked at.
GenerateCheckInPIN ==
  /\ pin.state = "due"
  /\ Insert(Host, "CHECK_IN")
  /\ pin' = [state |-> "stored", row |-> Len(proofs[<<Host, "CHECK_IN">>]) + 1]
  /\ UNCHANGED <<status, request, seen>>

\* Best-effort: the booking is accepted although no PIN could be stored.
GeneratePINFails ==
  /\ pin.state = "due"
  /\ pin' = NoPIN
  /\ UNCHANGED <<status, proofs, request, seen>>

-----------------------------------------------------------------------------
(* proximity.Service.                                                      *)

Begin(r, op, user, type, row) ==
  /\ request[r] = Idle
  /\ request' = [request EXCEPT ![r] = [op |-> op, user |-> user, type |-> type, row |-> row]]

Finish(r) == request' = [request EXCEPT ![r] = Idle]

\* Looks for the caller's row.  The parties are read for the listing and the PIN only, and
\* the booking's status not at all: anybody can prove a position, before the host has
\* accepted, and for the return before the pickup.
VerifyGPSReads(r, user, type) ==
  /\ \E row \in FindByTransactionAndType(user, type) :
       Begin(r, IF row = 0 THEN "insert" ELSE "update", user, type, row)
  /\ UNCHANGED <<status, proofs, pin, seen>>

VerifyGPSInserts(r) ==
  /\ request[r].op = "insert"
  /\ Insert(request[r].user, request[r].type)
  /\ request' = [request EXCEPT ![r].op = "update",
                                ![r].row = Len(proofs[<<request[r].user, request[r].type>>]) + 1]
  /\ UNCHANGED <<status, pin, seen>>

\* The distance that was sent may be either side of the threshold.
IsWithinThreshold == BOOLEAN

\* Far away clears what an earlier check,
\* or the PIN, has established.
VerifyGPSUpdates(r) ==
  /\ request[r].op = "update"
  /\ \E near \in IsWithinThreshold :
       /\ UpdateVerified(request[r].user, request[r].type, request[r].row, near)
       /\ seen' = seen \cup (IF near THEN {<<request[r].user, request[r].type>>} ELSE {})
  /\ Finish(r)
  /\ UNCHANGED <<status, pin>>

\* The row that FindByTransactionAndType returns for the host is the one with the PIN.
HostRowHasPIN == pin.row \in FindByTransactionAndType(Host, "CHECK_IN") \ {0}

\* The caller knows the PIN, and it has not expired.
ValidatePIN == pin.state = "texted" /\ HostRowHasPIN

\* The caller has a row too; the service calls whoever that is the renter.  A wrong PIN, or
\* a host row without one, changes nothing.
VerifyPINReads(r, user) ==
  /\ ValidatePIN
  /\ \E row \in FindByTransactionAndType(user, "CHECK_IN") \ {0} :
       Begin(r, "pin", user, "CHECK_IN", row)
  /\ UNCHANGED <<status, proofs, pin, seen>>

VerifyPINUpdates(r) ==
  /\ request[r].op = "pin"
  /\ UpdateVerified(request[r].user, "CHECK_IN", request[r].row, TRUE)
  /\ seen' = seen \cup {<<request[r].user, "CHECK_IN">>}
  /\ Finish(r)
  /\ UNCHANGED <<status, pin>>

\* The host has the PIN sent to a phone: the only way it leaves the server.
SMSFallback ==
  /\ pin.state = "stored" /\ HostRowHasPIN
  /\ pin' = [pin EXCEPT !.state = "texted"]
  /\ UNCHANGED <<status, proofs, request, seen>>

\* PINValidityDuration after it was generated.
PINExpires ==
  /\ pin.state \in {"stored", "texted"}
  /\ pin' = NoPIN
  /\ UNCHANGED <<status, proofs, request, seen>>

IsProved(user, type) == \E i \in DOMAIN proofs[<<user, type>>] : proofs[<<user, type>>][i]

\* Slip: a proof of either handoff will do.
CheckHandoffCompleteAnyType(type) ==
  /\ \E t \in ProofType : IsProved(Host, t)
  /\ \E user \in Guests, t \in ProofType : IsProved(user, t)

\* Some row of the host is verified for this handoff, and some row of anybody who is not the
\* host: the renter's id is not compared.
CheckHandoffComplete(type) ==
  IsProved(Host, type) /\ \E user \in Guests : IsProved(user, type)

-----------------------------------------------------------------------------
(* CheckIn and CheckOut.                                                   *)

CheckReads(r, type) ==
  /\ CheckHandoffComplete(type)
  /\ Begin(r, "commit", Host, type, 0)
  /\ UNCHANGED <<status, proofs, pin, seen>>

CheckCommits(r) ==
  /\ request[r].op = "commit"
  /\ \/ /\ Promise!CanTransition(status, StepOf[request[r].type])
        /\ status' = StepOf[request[r].type]
     \/ /\ ~ Promise!CanTransition(status, StepOf[request[r].type])
        /\ status' = status
  /\ Finish(r)
  /\ UNCHANGED <<proofs, pin, seen>>

\* The other handlers and jobs: a booking ends before the pickup (CANCELLED stands for
\* DECLINED and AUTO_DECLINED too, which no handoff tells from it), and two packages write
\* DISPUTED whatever the status.
OthersMove ==
  /\ \/ Promise!CanTransition(status, "CANCELLED") /\ status' = "CANCELLED"
     \/ status # "DISPUTED" /\ status' = "DISPUTED"
  /\ UNCHANGED <<proofs, pin, request, seen>>

-----------------------------------------------------------------------------

Proving(r) ==
  \/ \E user \in Users, type \in ProofType : VerifyGPSReads(r, user, type)
  \/ \E user \in Users : VerifyPINReads(r, user)
  \/ VerifyGPSInserts(r) \/ VerifyGPSUpdates(r) \/ VerifyPINUpdates(r)

AfterAccept ==
  \/ SMSFallback \/ PINExpires \/ OthersMove
  \/ \E r \in Requests :
        Proving(r) \/ CheckCommits(r) \/ \E type \in ProofType : CheckReads(r, type)

Next == Accept \/ GenerateCheckInPIN \/ GeneratePINFails \/ AfterAccept

Spec == Init /\ [][Next]_vars

-----------------------------------------------------------------------------
(* Properties.                                                             *)

\* The host and somebody else have proved this handoff at some time.
ProvedByTwo(type) ==
  <<Host, type>> \in seen /\ \E user \in Guests : <<user, type>> \in seen

\* However requests overlap, and although CheckIn and CheckOut look at the proofs before they
\* lock the booking: a rental starts only if the host and somebody else proved the pickup, and
\* it is completed only if the host and somebody else proved the return.
TwoWereThere ==
  [][/\ status' = "ACTIVE" => status = "ACTIVE" \/ ProvedByTwo("CHECK_IN")
     /\ status' = "COMPLETED" => status = "COMPLETED" \/ ProvedByTwo("CHECK_OUT")]_vars

\* What booking/service.go:342 says of CheckIn: a rental starts only once both parties, the
\* host and the renter, have proved the pickup.
BothPartiesWereThere ==
  [][status' = "ACTIVE" => status = "ACTIVE" \/ {Host, Renter} \X {"CHECK_IN"} \subseteq seen]_vars

=============================================================================
