---------------------------- MODULE Rental_proofs ----------------------------
(***************************************************************************)
(* Theorems about HoldLedger, for any set of workers, any authorized       *)
(* amount, with or without several partial captures and with or without    *)
(* crashes; and about Handoff, for any requests, as MC_Rental composes the *)
(* two.                                                                    *)
(***************************************************************************)
EXTENDS MC_Rental, TLAPS, SequenceTheorems

Sum(a) == Captured(a) + a.released + a.remaining

\* What holds of the private variables of a worker that is inside an operation.
CallInv(w) ==
  /\ Sum(snap[w]) = Authorized
  /\ Captured(snap[w]) <= intent.captured
  /\ snap[w].released > 0 => intent.cancelled
  /\ pc[w] \in {"capturing", "captured"} => req[w].amount <= snap[w].remaining
  /\ pc[w] = "captured" =>
       /\ snap[w].released = 0
       /\ Captured(snap[w]) + req[w].amount <= intent.captured
  /\ pc[w] = "released" => snap[w].released = 0 /\ intent.cancelled

\* The inductive invariant: the stored row and every snapshot add up, and Stripe
\* is never behind either of them.
IInv ==
  /\ TypeOK
  /\ Balanced
  /\ NoPhantomCapture
  /\ ReleaseIsReal
  /\ \A w \in Workers : CallInv(w)

LEMMA InitType == Hold!InitAlloc \in Hold!Allocation /\ Sum(Hold!InitAlloc) = Authorized
                  /\ Captured(Hold!InitAlloc) = 0 /\ Hold!InitAlloc.released = 0
  BY HoldAssumption DEF Hold!InitAlloc, Hold!Allocation, Sum, Captured

\* AfterCapture moves `amount` from remaining to captured and changes nothing else.
LEMMA AfterCaptureLemma ==
  ASSUME NEW a \in Hold!Allocation, NEW amount \in Nat, NEW r \in Hold!CaptureReason,
         amount <= a.remaining
  PROVE  /\ Hold!AfterCapture(a, amount, r) \in Hold!Allocation
         /\ Sum(Hold!AfterCapture(a, amount, r)) = Sum(a)
         /\ Captured(Hold!AfterCapture(a, amount, r)) = Captured(a) + amount
         /\ Hold!AfterCapture(a, amount, r).released = a.released
  BY DEF Hold!AfterCapture, Hold!Allocation, Hold!CaptureReason, Sum, Captured

\* AfterRelease keeps the sum when nothing had been released before.
LEMMA AfterReleaseLemma ==
  ASSUME NEW a \in Hold!Allocation, a.released = 0
  PROVE  /\ Hold!AfterRelease(a) \in Hold!Allocation
         /\ Sum(Hold!AfterRelease(a)) = Sum(a)
         /\ Captured(Hold!AfterRelease(a)) = Captured(a)
  BY DEF Hold!AfterRelease, Hold!Allocation, Sum, Captured

LEMMA InitIInv == Init => IInv
  <1> SUFFICES ASSUME Init PROVE IInv
    OBVIOUS
  <1>1. TypeOK
    BY InitType DEF Init, TypeOK, HoldStatus, Steps, NoRequest, Hold!CaptureReason
  <1>2. Balanced /\ NoPhantomCapture /\ ReleaseIsReal
    BY InitType, HoldAssumption DEF Init, Balanced, NoPhantomCapture, ReleaseIsReal, Sum
  <1>3. \A w \in Workers : CallInv(w)
    BY InitType, HoldAssumption DEF Init, CallInv, NoRequest
  <1> QED BY <1>1, <1>2, <1>3 DEF IInv

\* A worker that returns leaves values that satisfy CallInv whatever Stripe holds.
LEMMA ReturnLemma ==
  ASSUME TypeOK, TypeOK', NEW w \in Workers, Return(w)
  PROVE  CallInv(w)'
  BY InitType, HoldAssumption DEF Return, CallInv, TypeOK, Steps

\* A worker none of whose variables changed keeps CallInv as long as Stripe's
\* captured amount does not shrink and no cancellation is undone.
LEMMA OtherLemma ==
  ASSUME TypeOK, TypeOK', NEW v \in Workers, CallInv(v),
         pc'[v] = pc[v], req'[v] = req[v], snap'[v] = snap[v],
         intent'.captured >= intent.captured,
         intent.cancelled => intent'.cancelled
  PROVE  CallInv(v)'
  <1>1. /\ snap[v] \in Hold!Allocation /\ req[v].amount \in Nat
        /\ intent.captured \in Nat /\ intent'.captured \in Nat
        /\ Captured(snap[v]) \in Nat
    BY DEF TypeOK, Hold!Allocation, Captured
  <1>2. Sum(snap[v])' = Sum(snap[v]) /\ Captured(snap[v])' = Captured(snap[v])
    BY DEF Sum, Captured
  <1> QED BY <1>1, <1>2 DEF CallInv

LEMMA TypeStep == IInv /\ [Next]_vars => TypeOK'
  <1> SUFFICES ASSUME IInv, [Next]_vars PROVE TypeOK'
    OBVIOUS
  <1> USE DEF TypeOK, HoldStatus, Steps, NoRequest
  <1>0. TypeOK /\ InitType!1
    BY InitType DEF IInv
  <1>1. ASSUME NEW w \in Workers, NEW amount \in 1 .. Authorized,
               NEW r \in Hold!CaptureReason, BeginCapture(w, amount, r)
        PROVE  TypeOK'
    BY <1>0, <1>1, HoldAssumption DEF BeginCapture, Begin
  <1>2. ASSUME NEW w \in Workers, StripeCapture(w) PROVE TypeOK'
    BY <1>0, <1>2 DEF StripeCapture
  <1>3. ASSUME NEW w \in Workers, RecordCapture(w) PROVE TypeOK'
    <2>1. req[w].amount \in Nat /\ req[w].reason \in Hold!CaptureReason
          /\ snap[w] \in Hold!Allocation /\ req[w].amount <= snap[w].remaining
      BY <1>0, <1>3 DEF RecordCapture, IInv, CallInv
    <2>2. Hold!AfterCapture(snap[w], req[w].amount, req[w].reason) \in Hold!Allocation
      BY <2>1, AfterCaptureLemma
    <2> QED BY <1>0, <1>3, <2>2 DEF RecordCapture, Return, Hold!CaptureReason
  <1>4. ASSUME NEW w \in Workers, BeginRelease(w) PROVE TypeOK'
    BY <1>0, <1>4 DEF BeginRelease, Begin
  <1>5. ASSUME NEW w \in Workers, StripeRelease(w) PROVE TypeOK'
    BY <1>0, <1>5 DEF StripeRelease
  <1>6. ASSUME NEW w \in Workers, RecordRelease(w) PROVE TypeOK'
    <2>1. Hold!AfterRelease(snap[w]) \in Hold!Allocation
      BY <1>0, <1>6, AfterReleaseLemma DEF RecordRelease, IInv, CallInv
    <2> QED BY <1>0, <1>6, <2>1 DEF RecordRelease, Return, Hold!CaptureReason
  <1>7. ASSUME NEW w \in Workers, StripeFails(w) PROVE TypeOK'
    BY <1>0, <1>7 DEF StripeFails, Return, Hold!CaptureReason
  <1>8. ASSUME NEW w \in Workers, Crash(w) PROVE TypeOK'
    BY <1>0, <1>8 DEF Crash, Return, Hold!CaptureReason
  <1>9. CASE UNCHANGED vars
    BY <1>0, <1>9 DEF vars
  <1> QED BY <1>1, <1>2, <1>3, <1>4, <1>5, <1>6, <1>7, <1>8, <1>9 DEF Next

LEMMA InvStep == IInv /\ [Next]_vars => IInv'
  <1> SUFFICES ASSUME IInv, [Next]_vars PROVE IInv'
    OBVIOUS
  <1>0. TypeOK /\ TypeOK'
    BY TypeStep DEF IInv
  <1>t. /\ alloc \in Hold!Allocation /\ alloc' \in Hold!Allocation
        /\ intent \in [captured : Nat, cancelled : BOOLEAN]
        /\ \A v \in Workers : /\ snap[v] \in Hold!Allocation
                             /\ req[v].amount \in Nat /\ req[v].reason \in Hold!CaptureReason
    BY <1>0 DEF TypeOK
  \* Only intent, alloc and the acting worker's variables change.
  <1> DEFINE Ledger == Balanced /\ NoPhantomCapture /\ ReleaseIsReal
  <1>1. ASSUME NEW w \in Workers, NEW amount \in 1 .. Authorized,
               NEW r \in Hold!CaptureReason, BeginCapture(w, amount, r)
        PROVE  IInv'
    <2>1. Ledger'
      BY <1>1 DEF BeginCapture, Begin, IInv, Balanced, NoPhantomCapture, ReleaseIsReal, Captured
    <2>2. CallInv(w)'
      BY <1>0, <1>t, <1>1 DEF BeginCapture, Begin, CallInv, IInv, TypeOK, Balanced,
            NoPhantomCapture, ReleaseIsReal, Sum, Captured, Hold!Allocation
    <2>3. ASSUME NEW v \in Workers, v # w PROVE CallInv(v)'
      BY <1>0, <1>1, <2>3, OtherLemma DEF BeginCapture, Begin, IInv, TypeOK
    <2> QED BY <1>0, <2>1, <2>2, <2>3 DEF IInv
  <1>2. ASSUME NEW w \in Workers, StripeCapture(w) PROVE IInv'
    <2>0. /\ intent'.captured = intent.captured + req[w].amount
          /\ intent'.cancelled = intent.cancelled
          /\ ~ intent.cancelled
      BY <1>t, <1>2 DEF StripeCapture, CanCapture
    <2>1. Ledger'
      BY <1>t, <1>2, <2>0 DEF StripeCapture, IInv, Balanced, NoPhantomCapture,
            ReleaseIsReal, Captured, Hold!Allocation
    <2>2. CallInv(w)'
      BY <1>0, <1>t, <1>2, <2>0 DEF StripeCapture, CallInv, IInv, TypeOK, Sum, Captured,
            Hold!Allocation
    <2>3. ASSUME NEW v \in Workers, v # w PROVE CallInv(v)'
      BY <1>0, <1>t, <1>2, <2>0, <2>3, OtherLemma DEF StripeCapture, IInv, TypeOK
    <2> QED BY <1>0, <2>1, <2>2, <2>3 DEF IInv
  <1>3. ASSUME NEW w \in Workers, RecordCapture(w) PROVE IInv'
    <2>1. alloc' = Hold!AfterCapture(snap[w], req[w].amount, req[w].reason)
      BY <1>3 DEF RecordCapture
    <2>2. req[w].amount <= snap[w].remaining /\ CallInv(w) /\ pc[w] = "captured"
      BY <1>3 DEF RecordCapture, IInv, CallInv
    <2>3. /\ Sum(alloc') = Sum(snap[w])
          /\ Captured(alloc') = Captured(snap[w]) + req[w].amount
          /\ alloc'.released = snap[w].released
      BY <1>t, <2>1, <2>2, AfterCaptureLemma
    <2>4. Ledger'
      BY <1>3, <2>2, <2>3 DEF RecordCapture, CallInv, Balanced, NoPhantomCapture,
            ReleaseIsReal, Sum, Captured
    <2>5. CallInv(w)'
      BY <1>0, <1>3, ReturnLemma DEF RecordCapture
    <2>6. ASSUME NEW v \in Workers, v # w PROVE CallInv(v)'
      BY <1>0, <1>3, <2>6, OtherLemma DEF RecordCapture, Return, IInv, TypeOK
    <2> QED BY <1>0, <2>4, <2>5, <2>6 DEF IInv
  <1>4. ASSUME NEW w \in Workers, BeginRelease(w) PROVE IInv'
    <2>1. Ledger'
      BY <1>4 DEF BeginRelease, Begin, IInv, Balanced, NoPhantomCapture, ReleaseIsReal, Captured
    <2>2. CallInv(w)'
      BY <1>0, <1>t, <1>4 DEF BeginRelease, Begin, CallInv, IInv, TypeOK, Balanced,
            NoPhantomCapture, ReleaseIsReal, Sum, Captured, Hold!Allocation
    <2>3. ASSUME NEW v \in Workers, v # w PROVE CallInv(v)'
      BY <1>0, <1>4, <2>3, OtherLemma DEF BeginRelease, Begin, IInv, TypeOK
    <2> QED BY <1>0, <2>1, <2>2, <2>3 DEF IInv
  <1>5. ASSUME NEW w \in Workers, StripeRelease(w) PROVE IInv'
    <2>0. /\ intent'.captured = intent.captured
          /\ intent'.cancelled
          /\ ~ intent.cancelled
      BY <1>t, <1>5 DEF StripeRelease, CanCancel
    <2>1. Ledger'
      BY <1>t, <1>5, <2>0 DEF StripeRelease, IInv, Balanced, NoPhantomCapture,
            ReleaseIsReal, Captured, Hold!Allocation
    <2>2. CallInv(w)'
      BY <1>0, <1>t, <1>5, <2>0 DEF StripeRelease, CallInv, IInv, TypeOK, Sum, Captured,
            Hold!Allocation
    <2>3. ASSUME NEW v \in Workers, v # w PROVE CallInv(v)'
      BY <1>0, <1>t, <1>5, <2>0, <2>3, OtherLemma DEF StripeRelease, IInv, TypeOK
    <2> QED BY <1>0, <2>1, <2>2, <2>3 DEF IInv
  <1>6. ASSUME NEW w \in Workers, RecordRelease(w) PROVE IInv'
    <2>1. /\ alloc' = Hold!AfterRelease(snap[w])
          /\ CallInv(w) /\ snap[w].released = 0 /\ intent.cancelled
          /\ intent' = intent
      BY <1>6 DEF RecordRelease, IInv, CallInv
    <2>2. Sum(alloc') = Sum(snap[w]) /\ Captured(alloc') = Captured(snap[w])
      BY <1>t, <2>1, AfterReleaseLemma
    <2>3. Ledger'
      BY <2>1, <2>2 DEF CallInv, Balanced, NoPhantomCapture, ReleaseIsReal, Sum, Captured
    <2>4. CallInv(w)'
      BY <1>0, <1>6, ReturnLemma DEF RecordRelease
    <2>5. ASSUME NEW v \in Workers, v # w PROVE CallInv(v)'
      BY <1>0, <1>6, <2>5, OtherLemma DEF RecordRelease, Return, IInv, TypeOK
    <2> QED BY <1>0, <2>3, <2>4, <2>5 DEF IInv
  <1>7. ASSUME NEW w \in Workers, StripeFails(w) \/ Crash(w) PROVE IInv'
    <2>1. Return(w) /\ UNCHANGED <<alloc, intent>>
      BY <1>7 DEF StripeFails, Crash
    <2>2. Ledger'
      BY <2>1 DEF IInv, Balanced, NoPhantomCapture, ReleaseIsReal, Captured
    <2>3. CallInv(w)'
      BY <1>0, <2>1, ReturnLemma
    <2>4. ASSUME NEW v \in Workers, v # w PROVE CallInv(v)'
      BY <1>0, <2>1, <2>4, OtherLemma DEF Return, IInv, TypeOK
    <2> QED BY <1>0, <2>2, <2>3, <2>4 DEF IInv
  <1>8. CASE UNCHANGED vars
    <2>1. Ledger'
      BY <1>8 DEF vars, IInv, Balanced, NoPhantomCapture, ReleaseIsReal, Captured
    <2>2. ASSUME NEW v \in Workers PROVE CallInv(v)'
      BY <1>0, <1>8, OtherLemma DEF vars, IInv, TypeOK
    <2> QED BY <1>0, <2>1, <2>2 DEF IInv
  <1> QED BY <1>1, <1>2, <1>3, <1>4, <1>5, <1>6, <1>7, <1>8 DEF Next

\* The hold ledger is well typed and every interleaving of captures, releases and
\* crashes leaves a balanced row that claims no more than Stripe took.
THEOREM Invariance == Spec => []IInv
  BY InitIInv, InvStep, PTL DEF Spec

\* CaptureFromHold and ReleaseHold keep amounts natural numbers: in particular no
\* stale snapshot drives the remaining amount below zero.
THEOREM TypeCorrect == Spec => []TypeOK
  <1>1. IInv => TypeOK
    BY DEF IInv
  <1> QED BY <1>1, Invariance, PTL

\* Cents are neither created nor lost in hold_allocation, for every amount.
THEOREM AlwaysBalanced == Spec => []Balanced
  <1>1. IInv => Balanced
    BY DEF IInv
  <1> QED BY <1>1, Invariance, PTL

\* hold_allocation never records a capture that Stripe did not make.
THEOREM NeverPhantom == Spec => []NoPhantomCapture
  <1>1. IInv => NoPhantomCapture
    BY DEF IInv
  <1> QED BY <1>1, Invariance, PTL

\* hold_allocation records a release only of a cancelled intent.
THEOREM ReleasesAreReal == Spec => []ReleaseIsReal
  <1>1. IInv => ReleaseIsReal
    BY DEF IInv
  <1> QED BY <1>1, Invariance, PTL

-----------------------------------------------------------------------------
(* As long as nothing has disturbed them, the operations are indivisible.   *)

\* Only one worker is inside an operation, what it read is still the row, and Stripe is
\* ahead of the row exactly by the capture it is about to record.
Undisturbed ==
  /\ \A v, w \in Workers : pc[v] # "idle" /\ pc[w] # "idle" => v = w
  /\ \A w \in Workers :
       /\ pc[w] # "idle" => snap[w] = alloc
       /\ pc[w] \in {"capturing", "captured"} => req[w].amount > 0
       /\ pc[w] # "captured" /\ pc[w] # "idle" => Captured(alloc) = intent.captured
       /\ pc[w] = "captured" => Captured(alloc) + req[w].amount = intent.captured
  /\ LedgerExact

SerialInv == ~ disturbed => Undisturbed

LEMMA InitSerial == Init => SerialInv
  BY InitType DEF Init, SerialInv, Undisturbed, LedgerExact

LEMMA SerialStep == IInv /\ SerialInv /\ [Next]_vars => SerialInv'
  <1> SUFFICES ASSUME IInv, SerialInv, [Next]_vars, ~ disturbed'
               PROVE  Undisturbed'
    BY DEF SerialInv
  <1>0. TypeOK /\ TypeOK'
    BY TypeStep DEF IInv
  <1>t. /\ alloc \in Hold!Allocation /\ Captured(alloc) \in Nat
        /\ intent \in [captured : Nat, cancelled : BOOLEAN]
        /\ pc \in [Workers -> Steps]
        /\ \A v \in Workers : req[v].amount \in Nat /\ req[v].reason \in Hold!CaptureReason
    BY <1>0 DEF TypeOK, Captured, Hold!Allocation
  <1>1. ASSUME NEW w \in Workers, NEW amount \in 1 .. Authorized,
               NEW r \in Hold!CaptureReason, BeginCapture(w, amount, r)
        PROVE  Undisturbed'
    <2>1. ~ disturbed /\ \A v \in Workers : pc[v] = "idle"
      BY <1>1 DEF BeginCapture, Begin
    <2>2. Captured(alloc) = intent.captured
      BY <2>1 DEF SerialInv, Undisturbed, LedgerExact
    <2> QED BY <1>0, <1>1, <2>1, <2>2 DEF BeginCapture, Undisturbed, LedgerExact, TypeOK, Captured
  <1>2. ASSUME NEW w \in Workers, BeginRelease(w) PROVE Undisturbed'
    <2>1. ~ disturbed /\ \A v \in Workers : pc[v] = "idle"
      BY <1>2 DEF BeginRelease, Begin
    <2>2. Captured(alloc) = intent.captured
      BY <2>1 DEF SerialInv, Undisturbed, LedgerExact
    <2> QED BY <1>0, <1>2, <2>1, <2>2 DEF BeginRelease, Undisturbed, LedgerExact, TypeOK, Captured
  <1>3. ASSUME NEW w \in Workers, StripeCapture(w) PROVE Undisturbed'
    <2>1. Undisturbed /\ pc[w] = "capturing" /\ Captured(alloc) = intent.captured
      BY <1>3 DEF StripeCapture, SerialInv, Undisturbed
    <2>2. intent'.captured = intent.captured + req[w].amount
      BY <1>t, <1>3 DEF StripeCapture
    <2>3. \A v \in Workers : pc'[v] = IF v = w THEN "captured" ELSE pc[v]
      BY <1>t, <1>3 DEF StripeCapture
    <2>4. Captured(alloc)' = Captured(alloc) /\ alloc' = alloc /\ req' = req /\ snap' = snap
      BY <1>3 DEF StripeCapture, Captured
    <2> QED BY <1>t, <2>1, <2>2, <2>3, <2>4 DEF Undisturbed, LedgerExact
  <1>4. ASSUME NEW w \in Workers, StripeRelease(w) PROVE Undisturbed'
    <2>1. Undisturbed /\ pc[w] = "releasing"
      BY <1>4 DEF StripeRelease, SerialInv
    <2>2. intent'.captured = intent.captured
      BY <1>t, <1>4 DEF StripeRelease
    <2>3. \A v \in Workers : pc'[v] = IF v = w THEN "released" ELSE pc[v]
      BY <1>t, <1>4 DEF StripeRelease
    <2>4. Captured(alloc)' = Captured(alloc) /\ alloc' = alloc /\ req' = req /\ snap' = snap
      BY <1>4 DEF StripeRelease, Captured
    <2> QED BY <1>t, <2>1, <2>2, <2>3, <2>4 DEF Undisturbed, LedgerExact
  \* The operations' last steps leave nobody inside.
  <1>5. ASSUME NEW w \in Workers, Return(w), pc[w] # "idle", ~ disturbed,
               Captured(alloc)' = intent'.captured
        PROVE  Undisturbed'
    <2>1. \A v \in Workers : pc'[v] = "idle"
      BY <1>t, <1>5 DEF Return, SerialInv, Undisturbed
    <2> QED BY <1>5, <2>1 DEF Undisturbed, LedgerExact
  <1>6. ASSUME NEW w \in Workers, RecordCapture(w) PROVE Undisturbed'
    <2>1. /\ ~ disturbed /\ pc[w] = "captured" /\ snap[w] = alloc /\ intent' = intent
          /\ Captured(alloc) + req[w].amount = intent.captured
          /\ req[w].amount <= snap[w].remaining
      BY <1>6 DEF RecordCapture, SerialInv, Undisturbed, IInv, CallInv
    <2>2. alloc' = Hold!AfterCapture(alloc, req[w].amount, req[w].reason)
      BY <1>6, <2>1 DEF RecordCapture
    <2>3. Captured(alloc') = Captured(alloc) + req[w].amount
      BY <1>t, <2>1, <2>2, AfterCaptureLemma
    <2>4. Captured(alloc)' = Captured(alloc')
      BY DEF Captured
    <2> QED BY <1>5, <1>6, <2>1, <2>3, <2>4 DEF RecordCapture
  <1>7. ASSUME NEW w \in Workers, RecordRelease(w) PROVE Undisturbed'
    <2>1. /\ ~ disturbed /\ pc[w] = "released" /\ snap[w] = alloc /\ intent' = intent
          /\ Captured(alloc) = intent.captured /\ alloc.released = 0
      BY <1>7 DEF RecordRelease, SerialInv, Undisturbed, IInv, CallInv
    <2>2. alloc' = Hold!AfterRelease(alloc)
      BY <1>7, <2>1 DEF RecordRelease
    <2>3. Captured(alloc') = Captured(alloc)
      BY <1>t, <2>1, <2>2, AfterReleaseLemma
    <2>4. Captured(alloc)' = Captured(alloc')
      BY DEF Captured
    <2> QED BY <1>5, <1>7, <2>1, <2>3, <2>4 DEF RecordRelease
  <1>8. ASSUME NEW w \in Workers, StripeFails(w) PROVE Undisturbed'
    <2>1. /\ ~ disturbed /\ pc[w] \in {"capturing", "releasing"}
          /\ Captured(alloc) = intent.captured /\ UNCHANGED <<alloc, intent>>
      BY <1>8 DEF StripeFails, SerialInv, Undisturbed
    <2> QED BY <1>5, <1>8, <2>1 DEF StripeFails, Captured
  <1>9. ASSUME NEW w \in Workers, Crash(w) PROVE Undisturbed'
    BY <1>9 DEF Crash
  <1>10. CASE UNCHANGED vars
    BY <1>10 DEF vars, SerialInv, Undisturbed, LedgerExact, Captured
  <1> QED BY <1>1, <1>2, <1>3, <1>4, <1>6, <1>7, <1>8, <1>9, <1>10 DEF Next

\* Every step that commits is a capture or a release of the atomic hold.
LEMMA StepImplements ==
  IInv /\ SerialInv /\ SerialInv' /\ [Next]_vars => [disturbed' \/ Hold!Next]_alloc
  <1> SUFFICES ASSUME IInv, SerialInv, [Next]_vars, ~ disturbed', alloc' # alloc
               PROVE  Hold!Next
    OBVIOUS
  <1>1. ASSUME NEW w \in Workers, RecordCapture(w) PROVE Hold!Next
    <2>1. /\ snap[w] = alloc /\ req[w].amount > 0 /\ req[w].amount <= alloc.remaining
          /\ alloc.remaining \in Nat /\ req[w].amount \in Nat
          /\ req[w].reason \in Hold!CaptureReason
      BY <1>1 DEF RecordCapture, SerialInv, Undisturbed, IInv, CallInv, TypeOK, Hold!Allocation
    <2>2. alloc' = Hold!AfterCapture(alloc, req[w].amount, req[w].reason)
      BY <1>1, <2>1 DEF RecordCapture
    <2>3. req[w].amount \in 1 .. alloc.remaining
      BY <2>1
    <2> QED BY <2>1, <2>2, <2>3 DEF Hold!Next, Hold!Capture
  <1>2. ASSUME NEW w \in Workers, RecordRelease(w) PROVE Hold!Next
    <2>1. snap[w] = alloc /\ snap[w].released = 0
      BY <1>2 DEF RecordRelease, SerialInv, Undisturbed, IInv, CallInv
    <2> QED BY <1>2, <2>1 DEF RecordRelease, Hold!Next, Hold!Release
  <1>3. \E w \in Workers : RecordCapture(w) \/ RecordRelease(w)
    BY DEF Next, vars, BeginCapture, StripeCapture, BeginRelease, StripeRelease, StripeFails, Crash
  <1> QED BY <1>1, <1>2, <1>3

LEMMA SerialInvariance == Spec => [](IInv /\ SerialInv)
  BY InitIInv, InvStep, InitSerial, SerialStep, PTL DEF Spec

\* Operations that never overlapped and were never cut off have recorded exactly what
\* Stripe captured, whatever Stripe refused meanwhile.
THEOREM ExactWhenUndisturbed == Spec => []ExactUndisturbed
  <1>1. SerialInv => ExactUndisturbed
    BY DEF SerialInv, Undisturbed, ExactUndisturbed
  <1> QED BY <1>1, SerialInvariance, PTL

\* The three-step operations implement the indivisible hold until two of them overlap or
\* a caller dies.
THEOREM Refinement == Spec => Implements
  <1>1. Init => Hold!Init
    BY DEF Init, Hold!Init
  <1> QED BY <1>1, SerialInvariance, StepImplements, PTL DEF Spec, Implements

-----------------------------------------------------------------------------
(* The handoffs of a rental (Handoff).                                     *)

\* A row that is verified was verified by a request that was seen.
RowsWereProved ==
  \A p \in Users, t \in H!ProofType : \A i \in DOMAIN proofs[<<p, t>>] :
    proofs[<<p, t>>][i] => <<p, t>> \in seen

\* The inductive invariant: what is proved was seen, and a request that is about to commit a
\* handoff has found the proofs of two, the host and somebody else, and what was once proved
\* stays so whatever a later check writes.
HandoffInv ==
  /\ proofs \in [Users \X H!ProofType -> Seq(BOOLEAN)]
  /\ request \in [Requests -> [op : {"idle", "insert", "update", "pin", "commit"}, user : Users,
                               type : H!ProofType, row : Nat]]
  /\ RowsWereProved
  /\ \A r \in Requests : request[r].op = "commit" => H!ProvedByTwo(request[r].type)

LEMMA HandoffInit == ASSUME H!Init PROVE HandoffInv
  <1>1. \A p \in Users, t \in H!ProofType : proofs[<<p, t>>] = << >>
    BY DEF H!Init
  <1>2. RowsWereProved
    BY <1>1 DEF RowsWereProved
  <1>3. proofs \in [Users \X H!ProofType -> Seq(BOOLEAN)]
    BY DEF H!Init
  <1> QED BY <1>2, <1>3, HandoffConstants
         DEF H!Init, HandoffInv, H!Idle, H!ProofType, H!HandoffAssumption

\* A new row is not verified (Insert).
LEMMA InsertKeepsProofs ==
  ASSUME HandoffInv, NEW p \in Users, NEW t \in H!ProofType, H!Insert(p, t), seen' = seen
  PROVE  /\ proofs' \in [Users \X H!ProofType -> Seq(BOOLEAN)] /\ RowsWereProved'
         /\ Len(proofs[<<p, t>>]) + 1 \in Nat
  <1> DEFINE old == proofs[<<p, t>>]
             new == Append(old, FALSE)
  <1>1. old \in Seq(BOOLEAN)
    BY DEF HandoffInv
  <1>2. new \in Seq(BOOLEAN) /\ \A i \in DOMAIN new : new[i] => i \in DOMAIN old /\ old[i]
    <2> HIDE DEF old
    <2> QED BY <1>1
  <1>3. proofs' = [proofs EXCEPT ![<<p, t>>] = new]
    BY DEF H!Insert
  <1>4. Len(old) + 1 \in Nat
    <2> HIDE DEF old
    <2> QED BY <1>1
  <1> HIDE DEF new
  <1>5. proofs' \in [Users \X H!ProofType -> Seq(BOOLEAN)]
    BY <1>2, <1>3 DEF HandoffInv
  <1>6. ASSUME NEW q \in Users, NEW u \in H!ProofType, NEW i \in DOMAIN proofs'[<<q, u>>], proofs'[<<q, u>>][i]
        PROVE  <<q, u>> \in seen
    <2>1. CASE <<q, u>> = <<p, t>>
      BY <1>2, <1>3, <1>6, <2>1 DEF HandoffInv, RowsWereProved
    <2>2. CASE <<q, u>> # <<p, t>>
      <3>1. proofs'[<<q, u>>] = proofs[<<q, u>>]
        BY <1>3, <2>2 DEF HandoffInv
      <3> QED BY <1>6, <3>1 DEF HandoffInv, RowsWereProved
    <2> QED BY <2>1, <2>2
  <1> QED BY <1>4, <1>5, <1>6 DEF RowsWereProved

\* A row becomes verified only as its party and handoff are seen (UpdateVerified).
LEMMA UpdateKeepsProofs ==
  ASSUME HandoffInv, NEW p \in Users, NEW t \in H!ProofType, NEW row, NEW verified \in BOOLEAN,
         H!UpdateVerified(p, t, row, verified), seen \subseteq seen',
         verified => <<p, t>> \in seen'
  PROVE  proofs' \in [Users \X H!ProofType -> Seq(BOOLEAN)] /\ RowsWereProved'
  <1> DEFINE old == proofs[<<p, t>>]
             new == [old EXCEPT ![row] = verified]
  <1>1. old \in Seq(BOOLEAN)
    BY DEF HandoffInv
  <1>2. /\ new \in Seq(BOOLEAN) /\ DOMAIN new = DOMAIN old
        /\ \A i \in DOMAIN new : new[i] => old[i] \/ verified
    <2> HIDE DEF old
    <2>1. DOMAIN old = 1 .. Len(old) /\ Len(old) \in Nat /\ old \in [1 .. Len(old) -> BOOLEAN]
      BY <1>1
    <2>2. DOMAIN new = DOMAIN old /\ new \in [1 .. Len(old) -> BOOLEAN]
      BY <2>1
    <2>3. new \in Seq(BOOLEAN)
      BY <2>1, <2>2
    <2>4. \A i \in DOMAIN new : new[i] = (IF i = row THEN verified ELSE old[i])
      BY <2>1
    <2>5. \A i \in DOMAIN new : new[i] => old[i] \/ verified
      BY <2>4, Zenon
    <2> QED BY <2>2, <2>3, <2>5
  <1>3. proofs' = [proofs EXCEPT ![<<p, t>>] = new]
    BY DEF H!UpdateVerified, HandoffInv
  <1> HIDE DEF new
  <1>5. proofs' \in [Users \X H!ProofType -> Seq(BOOLEAN)]
    BY <1>2, <1>3 DEF HandoffInv
  <1>6. ASSUME NEW q \in Users, NEW u \in H!ProofType, NEW i \in DOMAIN proofs'[<<q, u>>], proofs'[<<q, u>>][i]
        PROVE  <<q, u>> \in seen'
    <2>1. CASE <<q, u>> = <<p, t>>
      BY <1>2, <1>3, <1>6, <2>1 DEF HandoffInv, RowsWereProved
    <2>2. CASE <<q, u>> # <<p, t>>
      <3>1. proofs'[<<q, u>>] = proofs[<<q, u>>]
        BY <1>3, <2>2 DEF HandoffInv
      <3> QED BY <1>6, <3>1 DEF HandoffInv, RowsWereProved
    <2> QED BY <2>1, <2>2
  <1> QED BY <1>5, <1>6 DEF RowsWereProved

LEMMA HandoffStep == ASSUME HandoffInv, [H!Next]_handoff PROVE HandoffInv'
  <1> DEFINE Calls == [op : {"idle", "insert", "update", "pin", "commit"}, user : Users,
                       type : H!ProofType, row : Nat]
             Ready(call) == call.op = "commit" => H!ProvedByTwo(call.type)
  <1>0. H!Idle \in Calls /\ Ready(H!Idle) /\ Host \in Users /\ "CHECK_IN" \in H!ProofType
    BY HandoffConstants DEF H!Idle, H!ProofType, H!HandoffAssumption
  \* One request changes, and is ready for what it is to commit.
  <1>a. ASSUME NEW r \in Requests, NEW call \in Calls, Ready(call),
               request' = [request EXCEPT ![r] = call], seen \subseteq seen',
               proofs' \in [Users \X H!ProofType -> Seq(BOOLEAN)], RowsWereProved'
        PROVE  HandoffInv'
    <2>1. \A s \in Requests : request'[s] = IF s = r THEN call ELSE request[s]
      BY <1>a DEF HandoffInv
    <2>2. request' \in [Requests -> Calls]
      BY <1>a DEF HandoffInv
    <2>3. \A s \in Requests : request'[s].op = "commit" => H!ProvedByTwo(request[s].type)'
      <3>1. ASSUME NEW s \in Requests, request'[s].op = "commit"
            PROVE  H!ProvedByTwo(request'[s].type)
        BY <1>a, <2>1, <3>1 DEF HandoffInv
      <3> QED BY <1>a, <3>1 DEF H!ProvedByTwo
    <2> QED BY <1>a, <2>2, <2>3 DEF HandoffInv
  <1>b. ASSUME UNCHANGED <<proofs, seen>>
        PROVE  proofs' \in [Users \X H!ProofType -> Seq(BOOLEAN)] /\ RowsWereProved'
               /\ seen \subseteq seen'
    BY <1>b DEF HandoffInv, RowsWereProved
  <1>1. CASE \/ UNCHANGED handoff \/ H!Accept \/ H!GeneratePINFails \/ H!SMSFallback
             \/ H!PINExpires \/ H!OthersMove
    <2>1. UNCHANGED <<proofs, request, seen>>
      BY <1>1 DEF handoff, H!Accept, H!GeneratePINFails, H!SMSFallback, H!PINExpires, H!OthersMove
    <2> QED BY <2>1 DEF HandoffInv, RowsWereProved, H!ProvedByTwo
  <1>2. CASE H!GenerateCheckInPIN
    <2>1. H!Insert(Host, "CHECK_IN") /\ UNCHANGED <<request, seen>>
      BY <1>2 DEF H!GenerateCheckInPIN
    <2> QED BY <1>0, <2>1, InsertKeepsProofs DEF HandoffInv, H!ProvedByTwo
  <1>3. ASSUME NEW r \in Requests, NEW user \in Users, NEW type \in H!ProofType,
               H!VerifyGPSReads(r, user, type)
        PROVE  HandoffInv'
    <2>1. PICK row \in H!FindByTransactionAndType(user, type) :
            H!Begin(r, IF row = 0 THEN "insert" ELSE "update", user, type, row)
      BY <1>3 DEF H!VerifyGPSReads
    <2> DEFINE call == [op |-> IF row = 0 THEN "insert" ELSE "update", user |-> user,
                        type |-> type, row |-> row]
    <2>2. row \in Nat
      BY <2>1 DEF H!FindByTransactionAndType, HandoffInv
    <2>3. call \in Calls /\ Ready(call)
      BY <2>2
    <2>4. request' = [request EXCEPT ![r] = call]
      BY <2>1 DEF H!Begin
    <2> HIDE DEF call, Calls, Ready
    <2> QED BY <1>3, <1>a, <1>b, <2>3, <2>4 DEF H!VerifyGPSReads
  <1>4. ASSUME NEW r \in Requests, H!VerifyGPSInserts(r) PROVE HandoffInv'
    <2> DEFINE old == request[r]
               row == Len(proofs[<<old.user, old.type>>]) + 1
               call == [old EXCEPT !.op = "update", !.row = row]
    <2>1. old \in Calls /\ H!Insert(old.user, old.type) /\ seen' = seen
      BY <1>4 DEF H!VerifyGPSInserts, HandoffInv
    <2>2. old.user \in Users /\ old.type \in H!ProofType
      <3> HIDE DEF old
      <3> QED BY <2>1
    <2>3. /\ proofs' \in [Users \X H!ProofType -> Seq(BOOLEAN)] /\ RowsWereProved'
          /\ row \in Nat
      BY <2>1, <2>2, InsertKeepsProofs
    <2>4. request' = [request EXCEPT ![r] = call]
      BY <1>4 DEF H!VerifyGPSInserts, HandoffInv
    <2>5. call \in Calls /\ Ready(call)
      <3> HIDE DEF old, row
      <3> QED BY <2>1, <2>3
    <2> HIDE DEF call, Calls, Ready
    <2> QED BY <1>a, <2>1, <2>3, <2>4, <2>5
  <1>5. ASSUME NEW r \in Requests, H!VerifyGPSUpdates(r) \/ H!VerifyPINUpdates(r) PROVE HandoffInv'
    <2>1. request' = [request EXCEPT ![r] = H!Idle] /\ seen \subseteq seen'
      BY <1>5 DEF H!VerifyGPSUpdates, H!VerifyPINUpdates, H!Finish
    <2>2. proofs' \in [Users \X H!ProofType -> Seq(BOOLEAN)] /\ RowsWereProved'
      <3>1. CASE H!VerifyGPSUpdates(r)
        <4>1. PICK near \in BOOLEAN :
                /\ H!UpdateVerified(request[r].user, request[r].type, request[r].row, near)
                /\ seen' = seen \cup (IF near THEN {<<request[r].user, request[r].type>>} ELSE {})
          BY <3>1 DEF H!VerifyGPSUpdates, H!IsWithinThreshold
        <4>2. request[r].user \in Users /\ request[r].type \in H!ProofType
          BY DEF HandoffInv
        <4>3. near => <<request[r].user, request[r].type>> \in seen'
          BY <4>1
        <4> QED BY <2>1, <4>1, <4>2, <4>3, UpdateKeepsProofs
      <3>2. CASE H!VerifyPINUpdates(r)
        <4>1. request[r].user \in Users
          BY DEF HandoffInv
        <4> QED BY <1>0, <2>1, <3>2, <4>1, UpdateKeepsProofs DEF H!VerifyPINUpdates
      <3> QED BY <1>5, <3>1, <3>2
    <2> HIDE DEF Calls, Ready
    <2> QED BY <1>0, <1>a, <2>1, <2>2
  <1>6. ASSUME NEW r \in Requests, NEW user \in Users, H!VerifyPINReads(r, user)
        PROVE  HandoffInv'
    <2>1. PICK row \in H!FindByTransactionAndType(user, "CHECK_IN") \ {0} :
            H!Begin(r, "pin", user, "CHECK_IN", row)
      BY <1>6 DEF H!VerifyPINReads
    <2> DEFINE call == [op |-> "pin", user |-> user, type |-> "CHECK_IN", row |-> row]
    <2>2. row \in Nat
      BY <1>0, <2>1 DEF H!FindByTransactionAndType, HandoffInv
    <2>3. call \in Calls /\ Ready(call)
      BY <1>0, <2>2
    <2>4. request' = [request EXCEPT ![r] = call]
      BY <2>1 DEF H!Begin
    <2> HIDE DEF call, Calls, Ready
    <2> QED BY <1>6, <1>a, <1>b, <2>3, <2>4 DEF H!VerifyPINReads
  <1>7. ASSUME NEW r \in Requests, H!CheckCommits(r) PROVE HandoffInv'
    <2>1. request' = [request EXCEPT ![r] = H!Idle] /\ UNCHANGED <<proofs, seen>>
      BY <1>7 DEF H!CheckCommits, H!Finish
    <2> HIDE DEF Calls, Ready
    <2> QED BY <1>0, <1>a, <1>b, <2>1
  <1>8. ASSUME NEW r \in Requests, NEW type \in H!ProofType, H!CheckReads(r, type) PROVE HandoffInv'
    <2> DEFINE call == [op |-> "commit", user |-> Host, type |-> type, row |-> 0]
    <2>1. request' = [request EXCEPT ![r] = call] /\ UNCHANGED <<proofs, seen>>
      BY <1>8 DEF H!CheckReads, H!Begin
    <2>2. H!ProvedByTwo(type)
      BY <1>0, <1>8
      DEF H!CheckReads, H!CheckHandoffComplete, H!IsProved, H!ProvedByTwo, H!Guests,
          HandoffInv, RowsWereProved
    <2>3. call \in Calls /\ Ready(call)
      BY <1>0, <2>2
    <2> HIDE DEF call, Calls, Ready
    <2> QED BY <1>a, <1>b, <2>1, <2>3
  <1> QED BY <1>1, <1>2, <1>3, <1>4, <1>5, <1>6, <1>7, <1>8 DEF H!Next, H!AfterAccept, H!Proving

\* CheckIn and CheckOut: only their commits make a booking ACTIVE or COMPLETED.
LEMMA HandoffsAreProved ==
  ASSUME HandoffInv, [H!Next]_handoff
  PROVE  /\ status' = "ACTIVE" => status = "ACTIVE" \/ H!ProvedByTwo("CHECK_IN")
         /\ status' = "COMPLETED" => status = "COMPLETED" \/ H!ProvedByTwo("CHECK_OUT")
  <1>1. CASE status' = status
    BY <1>1
  <1>2. CASE H!Accept \/ H!OthersMove
    BY <1>2 DEF H!Accept, H!OthersMove
  <1>3. ASSUME NEW r \in Requests, H!CheckCommits(r), status' # status
        PROVE  status' = H!StepOf[request[r].type] /\ H!ProvedByTwo(request[r].type)
               /\ request[r].type \in H!ProofType
    BY <1>3 DEF H!CheckCommits, HandoffInv
  <1>4. ASSUME NEW r \in Requests, H!CheckCommits(r), status' # status
        PROVE  /\ status' = "ACTIVE" => H!ProvedByTwo("CHECK_IN")
               /\ status' = "COMPLETED" => H!ProvedByTwo("CHECK_OUT")
    BY <1>3, <1>4 DEF H!StepOf, H!ProofType
  <1>5. \/ status' = status \/ H!Accept \/ H!OthersMove
        \/ \E r \in Requests : H!CheckCommits(r)
    BY DEF handoff, H!Next, H!AfterAccept, H!Proving, H!GenerateCheckInPIN, H!GeneratePINFails,
           H!SMSFallback, H!PINExpires, H!VerifyGPSReads, H!VerifyGPSInserts, H!VerifyGPSUpdates,
           H!VerifyPINReads, H!VerifyPINUpdates, H!CheckReads
  <1> QED BY <1>1, <1>2, <1>4, <1>5

\* CheckIn and CheckOut of any number of overlapping requests of any users: a rental starts only
\* if the host and somebody else proved the pickup, and completes only if the host and somebody
\* else proved the return, although rows may be doubled and the proofs are read before the
\* booking is locked.
THEOREM HandoffsHadTwo == RentalSpec => TwoWereThere
  <1>1. RentalInit => HandoffInv
    BY HandoffInit DEF RentalInit
  <1>2. [RentalNext]_rental => [H!Next]_handoff
    BY DEF RentalNext, rental, Holding, HandingOver
  <1>3. HandoffInv /\ [RentalNext]_rental => HandoffInv'
    BY <1>2, HandoffStep
  <1>4. HandoffInv /\ [RentalNext]_rental =>
          [ /\ status' = "ACTIVE" => status = "ACTIVE" \/ H!ProvedByTwo("CHECK_IN")
            /\ status' = "COMPLETED" =>
                 status = "COMPLETED" \/ H!ProvedByTwo("CHECK_OUT") ]_(H!vars)
    BY <1>2, HandoffsAreProved
  <1> QED BY <1>1, <1>3, <1>4, PTL DEF RentalSpec, TwoWereThere, H!TwoWereThere

==============================================================================
