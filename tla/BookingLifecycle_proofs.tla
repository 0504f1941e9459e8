----------------------- MODULE BookingLifecycle_proofs -----------------------
(***************************************************************************)
(* Theorems about BookingLifecycle, for any number of requests, any        *)
(* overlap of their dates and any failures.                                *)
(***************************************************************************)
EXTENDS BookingLifecycle, TLAPS

\* What the state machine guarantees about a single transition.
LEMMA TransitionFacts ==
  ASSUME NEW from, NEW to, Promise!CanTransition(from, to)
  PROVE  /\ from \in Status /\ to \in Status
         /\ from # "none" /\ to # "none"
         /\ to \in Promise!Blocking => from \in Promise!Blocking
  BY DEF Status, Promise!Status, Promise!CanTransition, Promise!AllowedTransitions,
         Promise!Blocking

-----------------------------------------------------------------------------
(* Types.                                                                  *)

LEMMA TypeInit == Init => TypeOK
  BY BookingAssumption DEF Init, TypeOK, Status, Promise!Status

LEMMA TypeStep == TypeOK /\ [Next]_vars => TypeOK'
  <1> SUFFICES ASSUME TypeOK, [Next]_vars PROVE TypeOK'
    OBVIOUS
  <1> USE BookingAssumption DEF TypeOK
  <1>1. ASSUME NEW b \in Bookings, Creation(b) PROVE TypeOK'
    <2>1. CASE CheckAvailability(b)
      <3>1. creator' \in [Bookings -> {"new", "checked", "authorized", "charged", "inserted",
                                        "done", "failed"}]
        BY <2>1 DEF CheckAvailability, Goto
      <3>2. \A o \in Bookings : {b, o} \in SUBSET Bookings
        OBVIOUS
      <3>3. raced' \subseteq SUBSET Bookings
        BY <2>1, <3>2 DEF CheckAvailability, RacesNow
      <3> QED BY <2>1, <3>1, <3>3 DEF CheckAvailability
    <2>9. CASE Refuse(b)
      BY <2>9 DEF Refuse, Goto
    <2>2. CASE AuthorizeHold(b)
      BY <2>2, SMTT(30) DEF AuthorizeHold, Goto
    <2>8. CASE AuthorizeAnswerLost(b)
      BY <2>8, SMTT(30) DEF AuthorizeAnswerLost, Goto, Fault
    <2>7. CASE ChargeRentalFee(b)
      BY <2>7, SMTT(30) DEF ChargeRentalFee, Goto
    <2>3. CASE ChargeFails(b)
      BY <2>3 DEF ChargeFails, Goto, Fault
    <2>4. CASE InsertRow(b)
      BY <2>4 DEF InsertRow, Goto, Status, Promise!Status
    <2>5. CASE InsertFails(b) \/ ScheduleFails(b)
      BY <2>5 DEF InsertFails, ScheduleFails, Goto, Fault
    <2>6. CASE ScheduleAutoDecline(b)
      BY <2>6 DEF ScheduleAutoDecline, Goto
    <2> QED BY <1>1, <2>1, <2>2, <2>3, <2>4, <2>5, <2>6, <2>7, <2>8, <2>9 DEF Creation
  <1>2. ASSUME NEW b \in Bookings, Handling(b) PROVE TypeOK'
    <2>1. CASE Accept(b)
      BY SMTT(30), <2>1, TransitionFacts DEF Accept, Commit
    <2>2. CASE Decline(b) \/ Cancel(b)
      BY SMTT(30), <2>2, TransitionFacts DEF Decline, Cancel, Commit
    <2>3. ASSUME NEW type \in HandoffType, BeginHandoff(b, type) \/ HandoffFails(b, type)
          PROVE  TypeOK'
      BY <2>3 DEF BeginHandoff, HandoffFails
    <2>4. ASSUME NEW type \in HandoffType, CommitHandoff(b, type) PROVE TypeOK'
      BY <2>4, TransitionFacts DEF CommitHandoff, Commit
    <2> QED BY <1>2, <2>1, <2>2, <2>3, <2>4 DEF Handling
  <1>3. ASSUME NEW b \in Bookings, DeclineJob(b) PROVE TypeOK'
    <2>1. CASE DeclineJobReads(b) \/ DeclineJobRefused(b)
      BY <2>1 DEF DeclineJobReads, DeclineJobRefused
    <2>2. CASE DeclineJobCommits(b)
      BY <2>2, TransitionFacts DEF DeclineJobCommits, Commit
    <2>3. CASE DeclineJobFails(b)
      BY <2>3, TransitionFacts DEF DeclineJobFails, Commit, Fault
    <2> QED BY <1>3, <2>1, <2>2, <2>3 DEF DeclineJob
  <1>4. ASSUME NEW b \in Bookings, Unguarded(b) PROVE TypeOK'
    <2>1. CASE FileDispute(b)
      BY <2>1 DEF FileDispute
    <2>2. CASE DisputeMarks(b)
      BY <2>2 DEF DisputeMarks, Status, Promise!Status
    <2>4. CASE LateCheckReads(b)
      BY <2>4 DEF LateCheckReads
    <2>5. CASE LateCheckEscalates(b)
      BY <2>5 DEF LateCheckEscalates, Status, Promise!Status
    <2>3. CASE ResolveDispute(b)
      BY <2>3 DEF ResolveDispute
    <2> QED BY <1>4, <2>1, <2>2, <2>3, <2>4, <2>5 DEF Unguarded
  <1>5. CASE UNCHANGED vars
    BY <1>5 DEF vars
  <1> QED BY <1>1, <1>2, <1>3, <1>4, <1>5 DEF Next

\* Every status, every step of CreateBooking and every job keeps to its values.
THEOREM BookingTypes == Spec => []TypeOK
  BY TypeInit, TypeStep, PTL DEF Spec

-----------------------------------------------------------------------------
(* Rows are paid for, and only disputes break in.                          *)

\* What each step of CreateBooking has achieved, and what a writer that is about to
\* overwrite a status relies on: that there is a row.
StepInv(b) ==
  /\ creator[b] \in {"authorized", "charged"} => stripe[b].hold # "none"
  /\ creator[b] = "charged" => stripe[b].charged
  /\ status[b] = "none" <=> creator[b] \notin {"inserted", "done"}
  /\ status[b] # "none" => stripe[b].charged /\ stripe[b].hold # "none"
  /\ dispute[b] # "none" => status[b] # "none"
  /\ late[b] # "none" => status[b] # "none"

IInv == TypeOK /\ \A b \in Bookings : StepInv(b)

LEMMA IInvInit == Init => IInv
  BY TypeInit DEF Init, IInv, StepInv

\* A step of one booking leaves the others alone.
LEMMA OneAtATime ==
  ASSUME TypeOK, NEW b \in Bookings,
         Creation(b) \/ Handling(b) \/ DeclineJob(b) \/ Unguarded(b),
         NEW o \in Bookings, o # b
  PROVE  /\ status'[o] = status[o] /\ creator'[o] = creator[o] /\ stripe'[o] = stripe[o]
         /\ dispute'[o] = dispute[o] /\ late'[o] = late[o]
  <1> USE DEF TypeOK
  <1>1. CASE Creation(b)
    <2>1. CASE CheckAvailability(b) \/ Refuse(b) \/ InsertRow(b) \/ InsertFails(b)
               \/ ScheduleAutoDecline(b) \/ ScheduleFails(b)
      BY <2>1 DEF CheckAvailability, Refuse, InsertRow, InsertFails, ScheduleAutoDecline,
         ScheduleFails, Goto
    <2>2. CASE AuthorizeHold(b) \/ AuthorizeAnswerLost(b) \/ ChargeRentalFee(b)
      BY <2>2 DEF AuthorizeHold, AuthorizeAnswerLost, ChargeRentalFee, Goto
    <2>3. CASE ChargeFails(b)
      BY <2>3 DEF ChargeFails, Goto
    <2> QED BY <1>1, <2>1, <2>2, <2>3 DEF Creation
  <1>2. CASE Handling(b)
    BY <1>2 DEF Handling, Accept, Decline, Cancel, BeginHandoff, CommitHandoff,
       HandoffFails, Commit
  <1>3. CASE DeclineJob(b)
    BY <1>3 DEF DeclineJob, DeclineJobReads, DeclineJobCommits, DeclineJobRefused,
       DeclineJobFails, Commit
  <1>4. CASE Unguarded(b)
    BY <1>4 DEF Unguarded, FileDispute, DisputeMarks, ResolveDispute, LateCheckReads,
       LateCheckEscalates
  <1> QED BY <1>1, <1>2, <1>3, <1>4

LEMMA OwnStep ==
  ASSUME TypeOK, NEW b \in Bookings, StepInv(b),
         Creation(b) \/ Handling(b) \/ DeclineJob(b) \/ Unguarded(b)
  PROVE  StepInv(b)'
  <1> USE DEF TypeOK, StepInv
  <1>1. CASE Creation(b)
    <2>1. CASE CheckAvailability(b) \/ Refuse(b)
      BY <2>1 DEF CheckAvailability, Refuse, Goto, At
    <2>2. CASE AuthorizeHold(b) \/ AuthorizeAnswerLost(b) \/ ChargeRentalFee(b)
      BY <2>2 DEF AuthorizeHold, AuthorizeAnswerLost, ChargeRentalFee, Goto, At
    <2>3. CASE ChargeFails(b)
      BY <2>3 DEF ChargeFails, Goto, At
    <2>4. CASE InsertRow(b) \/ InsertFails(b)
      BY <2>4 DEF InsertRow, InsertFails, Goto, At
    <2>5. CASE ScheduleAutoDecline(b) \/ ScheduleFails(b)
      BY <2>5 DEF ScheduleAutoDecline, ScheduleFails, Goto, At
    <2> QED BY <1>1, <2>1, <2>2, <2>3, <2>4, <2>5 DEF Creation
  <1>2. CASE Handling(b)
    BY <1>2, TransitionFacts DEF Handling, Accept, Decline, Cancel, BeginHandoff,
       CommitHandoff, HandoffFails, Commit
  <1>3. CASE DeclineJob(b)
    BY <1>3, TransitionFacts DEF DeclineJob, DeclineJobReads, DeclineJobCommits,
       DeclineJobRefused, DeclineJobFails, Commit
  <1>4. CASE Unguarded(b)
    BY <1>4 DEF Unguarded, FileDispute, DisputeMarks, ResolveDispute, LateCheckReads,
       LateCheckEscalates
  <1> QED BY <1>1, <1>2, <1>3, <1>4

LEMMA IInvStep == IInv /\ [Next]_vars => IInv'
  <1> SUFFICES ASSUME IInv, [Next]_vars PROVE IInv'
    OBVIOUS
  <1>1. TypeOK /\ TypeOK'
    BY TypeStep DEF IInv
  <1>2. ASSUME NEW b \in Bookings,
               Creation(b) \/ Handling(b) \/ DeclineJob(b) \/ Unguarded(b),
               NEW o \in Bookings
        PROVE  StepInv(o)'
    <2>1. CASE o = b
      BY <1>1, <1>2, <2>1, OwnStep DEF IInv
    <2>2. CASE o # b
      BY <1>1, <1>2, <2>2, OneAtATime DEF IInv, StepInv
    <2> QED BY <2>1, <2>2
  <1>3. CASE UNCHANGED vars
    BY <1>3, <1>1 DEF vars, IInv, StepInv
  <1> QED BY <1>1, <1>2, <1>3 DEF Next, IInv

LEMMA IInvariance == Spec => []IInv
  BY IInvInit, IInvStep, PTL DEF Spec

\* Whatever fails in CreateBooking, and whoever writes the status, a row belongs to a
\* charged fee and an authorized hold.
THEOREM RowsArePaid == Spec => []PaidBeforeRow
  <1>1. IInv => PaidBeforeRow
    BY DEF IInv, StepInv, PaidBeforeRow
  <1> QED BY <1>1, IInvariance, PTL

\* However a step changes a status, it is an insertion, a documented transition or DISPUTED.
LEMMA StatusStep ==
  ASSUME IInv, NEW b \in Bookings,
         Creation(b) \/ Handling(b) \/ DeclineJob(b) \/ Unguarded(b)
  PROVE  \/ status' = status
         \/ /\ InsertRow(b) /\ status[b] = "none"
            /\ status' = [status EXCEPT ![b] = "REQUESTED"]
         \/ \E to : Commit(b, to)
         \/ /\ dispute[b] = "filed" \/ late[b] = "escalating"
            /\ status[b] # "none" /\ status' = [status EXCEPT ![b] = "DISPUTED"]
  <1> USE DEF IInv, StepInv
  <1>1. CASE Creation(b)
    BY <1>1 DEF Creation, CheckAvailability, Refuse, AuthorizeHold, AuthorizeAnswerLost,
       ChargeRentalFee, ChargeFails, InsertRow, InsertFails, ScheduleAutoDecline, ScheduleFails, At
  <1>2. CASE Handling(b)
    BY <1>2 DEF Handling, Accept, Decline, Cancel, BeginHandoff, CommitHandoff, HandoffFails
  <1>3. CASE DeclineJob(b)
    BY <1>3 DEF DeclineJob, DeclineJobReads, DeclineJobCommits, DeclineJobRefused,
       DeclineJobFails
  <1>4. CASE Unguarded(b)
    BY <1>4 DEF Unguarded, FileDispute, DisputeMarks, ResolveDispute, LateCheckReads,
       LateCheckEscalates
  <1> QED BY <1>1, <1>2, <1>3, <1>4

\* The decline job and the host may race in any way: a booking becomes AUTO_DECLINED
\* from REQUESTED or not at all.
THEOREM AnswersAreKept == Spec => AnswersStand
  <1> DEFINE Kept(b) == status'[b] = "AUTO_DECLINED" => status[b] \in {"REQUESTED", "AUTO_DECLINED"}
  <1>1. ASSUME NEW from, Promise!CanTransition(from, "AUTO_DECLINED") PROVE from = "REQUESTED"
    BY <1>1 DEF Promise!CanTransition, Promise!AllowedTransitions, Promise!Status
  <1>2. IInv /\ [Next]_vars => \A b \in Bookings : Kept(b)
    <2> SUFFICES ASSUME IInv, [Next]_vars, NEW o \in Bookings PROVE Kept(o)
      OBVIOUS
    <2>1. ASSUME NEW b \in Bookings,
                 Creation(b) \/ Handling(b) \/ DeclineJob(b) \/ Unguarded(b)
          PROVE  Kept(o)
      BY <2>1, <1>1, StatusStep DEF IInv, TypeOK, Commit
    <2>2. CASE UNCHANGED vars
      BY <2>2 DEF vars
    <2> QED BY <2>1, <2>2 DEF Next
  <1> HIDE DEF Kept
  <1>3. Spec => [][\A b \in Bookings : Kept(b)]_vars
    BY <1>2, IInvariance, PTL DEF Spec
  <1> QED BY <1>3 DEF AnswersStand, Kept

-----------------------------------------------------------------------------
(* Double bookings come from races.                                        *)

\* Requests for the same dates that have not raced: at most one of them is under way or live.
PairInv(a, b) ==
  a # b /\ a \in Overlapping[b] /\ {a, b} \notin raced =>
    /\ ~ (creator[a] \in UnderWay /\ creator[b] \in UnderWay)
    /\ ~ (creator[a] \in UnderWay /\ status[b] \in Promise!Blocking)
    /\ ~ (status[a] \in Promise!Blocking /\ creator[b] \in UnderWay)
    /\ ~ (status[a] \in Promise!Blocking /\ status[b] \in Promise!Blocking)

RaceInv == IInv /\ \A a, b \in Bookings : PairInv(a, b)

LEMMA RaceInit == Init => RaceInv
  BY IInvInit DEF Init, RaceInv, PairInv, UnderWay, Promise!Blocking

\* How a request comes to be under way or live: only through the availability check or the
\* insertion of its row, from which the handlers keep it where it is.
LEMMA OwnRace ==
  ASSUME IInv, NEW b \in Bookings,
         Creation(b) \/ Handling(b) \/ DeclineJob(b) \/ Unguarded(b),
         ~ CheckAvailability(b)
  PROVE  /\ raced' = raced
         /\ creator'[b] \in UnderWay => creator[b] \in UnderWay
         /\ status'[b] \in Promise!Blocking =>
              status[b] \in Promise!Blocking \/ creator[b] \in UnderWay
  <1> USE DEF IInv, TypeOK, UnderWay
  <1>1. raced' = raced /\ (creator'[b] \in UnderWay => creator[b] \in UnderWay)
    <2>1. CASE Creation(b)
      BY <2>1 DEF Creation, Refuse, AuthorizeHold, AuthorizeAnswerLost, ChargeRentalFee,
         ChargeFails, InsertRow, InsertFails, ScheduleAutoDecline, ScheduleFails, Goto, At
    <2>2. CASE Handling(b) \/ DeclineJob(b) \/ Unguarded(b)
      BY <2>2 DEF Handling, Accept, Decline, Cancel, BeginHandoff, CommitHandoff,
         HandoffFails, DeclineJob, DeclineJobReads, DeclineJobCommits, DeclineJobRefused,
         DeclineJobFails, Unguarded, FileDispute, DisputeMarks, ResolveDispute,
         LateCheckReads, LateCheckEscalates
    <2> QED BY <2>1, <2>2
  <1>2. ASSUME NEW to, Commit(b, to), status'[b] \in Promise!Blocking
        PROVE  status[b] \in Promise!Blocking
    BY <1>2, TransitionFacts DEF Commit
  <1>3. "DISPUTED" \notin Promise!Blocking
    BY DEF Promise!Blocking
  <1>4. InsertRow(b) => creator[b] \in UnderWay
    BY DEF InsertRow, At
  <1> QED BY <1>1, <1>2, <1>3, <1>4, StatusStep

LEMMA PairStep ==
  ASSUME RaceInv, NEW b \in Bookings,
         Creation(b) \/ Handling(b) \/ DeclineJob(b) \/ Unguarded(b),
         NEW x \in Bookings, NEW y \in Bookings
  PROVE  PairInv(x, y)'
  <1>1. TypeOK /\ PairInv(x, y) /\ IInv
    BY DEF RaceInv, IInv
  <1>2. \A o \in Bookings \ {b} : status'[o] = status[o] /\ creator'[o] = creator[o]
    BY <1>1, OneAtATime
  <1>3. CASE ~ CheckAvailability(b)
    BY <1>1, <1>2, <1>3, OwnRace DEF PairInv
  <1>4. CASE CheckAvailability(b)
    <2>1. /\ status' = status /\ status[b] = "none"
          /\ \A o \in Overlapping[b] \ {b} : status[o] \notin Promise!Blocking
      BY <1>1, <1>4 DEF CheckAvailability, At, IInv, StepInv, Promise!IsListingAvailable
    <2>2. \A o \in Bookings : creator[o] \in UnderWay => {b, o} \in raced'
      BY <1>4 DEF CheckAvailability, RacesNow
    <2>3. "none" \notin Promise!Blocking
      BY DEF Promise!Blocking
    <2>4. CASE x = b \/ y = b
      <3>1. ASSUME NEW o \in Bookings, o # b, b \in Overlapping[o] \/ o \in Overlapping[b],
                   {b, o} \notin raced'
            PROVE  /\ creator'[o] \notin UnderWay
                   /\ status'[o] \notin Promise!Blocking /\ status'[b] \notin Promise!Blocking
        BY <1>2, <2>1, <2>2, <2>3, <3>1, BookingAssumption
      <3>2. {x, y} = {b, x} \/ {x, y} = {b, y}
        BY <2>4
      <3> QED BY <2>4, <3>1, <3>2 DEF PairInv
    <2>5. CASE x # b /\ y # b
      <3>1. {x, y} \in raced => {x, y} \in raced'
        BY <1>4, <2>5 DEF CheckAvailability, RacesNow
      <3> QED BY <1>1, <1>2, <2>5, <3>1 DEF PairInv
    <2> QED BY <2>4, <2>5
  <1> QED BY <1>3, <1>4

LEMMA RaceStep == RaceInv /\ [Next]_vars => RaceInv'
  <1> SUFFICES ASSUME RaceInv, [Next]_vars PROVE RaceInv'
    OBVIOUS
  <1>1. IInv'
    BY IInvStep DEF RaceInv
  <1>2. CASE UNCHANGED vars
    BY <1>1, <1>2 DEF RaceInv, PairInv, vars
  <1>3. CASE Next
    BY <1>1, <1>3, PairStep DEF Next, RaceInv
  <1> QED BY <1>2, <1>3

LEMMA RaceInvariance == Spec => []RaceInv
  BY RaceInit, RaceStep, PTL DEF Spec

\* Whatever fails, and whatever the handlers, the jobs and the other packages write: two live
\* bookings for the same dates come from requests that were under way at one time, between
\* their availability checks and the insertions of their rows.
THEOREM RacesAreTheOnlyWayIn == Spec => []OnlyRacesDoubleBook
  <1>1. RaceInv => OnlyRacesDoubleBook
    BY DEF RaceInv, PairInv, OnlyRacesDoubleBook
  <1> QED BY <1>1, RaceInvariance, PTL

\* Every change of a status is a step of the promise, or one of the two that the code lets in:
\* the row of a request that has raced, and DISPUTED written by another package.
THEOREM PromiseIsKept == Spec => KeepsPromise
  <1> DEFINE Kept == Promise!Next \/ \E b \in Bookings : RacedRequest(b) \/ BreaksIn(b)
  <1>1. Init => Promise!Init
    BY DEF Init, Promise!Init
  <1>2. RaceInv /\ [Next]_vars => [Kept]_status
    <2> SUFFICES ASSUME RaceInv, [Next]_vars PROVE [Kept]_status
      OBVIOUS
    <2>1. ASSUME NEW b \in Bookings,
                 Creation(b) \/ Handling(b) \/ DeclineJob(b) \/ Unguarded(b)
          PROVE  [Kept]_status
      <3>1. ASSUME NEW to, Commit(b, to) PROVE Promise!Next
        BY <3>1, TransitionFacts DEF Commit, Promise!Next, Promise!Move, Status
      <3>2. ASSUME InsertRow(b), status[b] = "none",
                   status' = [status EXCEPT ![b] = "REQUESTED"]
            PROVE  Promise!Next \/ RacedRequest(b)
        <4>1. creator[b] \in UnderWay
          BY <3>2 DEF InsertRow, At, UnderWay
        <4>2. CASE Promise!IsListingAvailable(b)
          BY <3>2, <4>2 DEF Promise!Next, Promise!Request
        <4>3. CASE ~ Promise!IsListingAvailable(b)
          <5>1. PICK o \in Overlapping[b] \ {b} : status[o] \in Promise!Blocking
            BY <4>3 DEF Promise!IsListingAvailable
          <5>2. o \in Bookings /\ b \in Overlapping[o]
            BY <5>1, BookingAssumption
          <5>3. {b, o} \in raced
            BY <4>1, <5>1, <5>2 DEF RaceInv, PairInv
          <5> QED BY <3>2, <5>1, <5>3 DEF RacedRequest
        <4> QED BY <4>2, <4>3
      <3> QED BY <2>1, <3>1, <3>2, StatusStep DEF RaceInv, BreaksIn
    <2>2. CASE UNCHANGED vars
      BY <2>2 DEF vars
    <2> QED BY <2>1, <2>2 DEF Next
  <1>3. Spec => [][Kept]_status
    BY <1>2, RaceInvariance, PTL DEF Spec
  <1>4. Spec => Promise!Init
    BY <1>1 DEF Spec
  <1> QED BY <1>3, <1>4 DEF KeepsPromise

=============================================================================
