----------------------- MODULE DisputeResolution_proofs -----------------------
(***************************************************************************)
(* Theorems about DisputeResolution, for any number of disputes, workers   *)
(* and reviewers, any amounts and any mixture of failures.                 *)
(***************************************************************************)
EXTENDS DisputeResolution, TLAPS

Actions == {"APPROVE", "OVERRIDE"}
Steps == {"idle", "reprompted", "gathering", "analyzing"} \cup SettlementSteps
ActorState == [step : Steps, d : Disputes \cup {"none"}, job : Kinds \cup {"none"},
               route : Route \cup {"none"}, amount : Nat, over : Nat, sent : SUBSET Nat]

\* An operation is for a dispute, an agent runs a job, and a reviewer only settles.
ActorRefs(a) ==
  LET o == actor[a] IN
  /\ IF o.step = "idle" THEN o.d = "none" ELSE o.d \in Disputes
  /\ o.step = "reprompted" => o.job = "reprompt"
  /\ o.step \in {"gathering", "analyzing"} => o.job = "resolution"
  /\ o.step \in SettlementSteps => o.job \in {"resolution", "none"}

DisputeTypes ==
  /\ status \in [Disputes -> Status \cup {"none", "filing"}]
  /\ charge \in [Disputes -> Nat]
  /\ jobs \subseteq Kinds \X Disputes
  /\ hold \in H!Allocation
  /\ fund \in Nat
  /\ taken \in [card : Nat, fund : Nat, collections : Nat]
  /\ drawn \in [Disputes -> Nat]
  /\ actor \in [Actors -> ActorState]
  /\ events \subseteq Features
  /\ disturbed \subseteq Disputes
  /\ \A a \in Actors : ActorRefs(a)

-----------------------------------------------------------------------------
(* What the operators do.                                                  *)

LEMMA ActorFields ==
  ASSUME NEW o \in ActorState
  PROVE  /\ \A s \in Steps : [o EXCEPT !.step = s] \in ActorState
         /\ \A d \in Disputes : [o EXCEPT !.d = d] \in ActorState
         /\ \A j \in Kinds : [o EXCEPT !.job = j] \in ActorState
         /\ \A r \in Route : [o EXCEPT !.route = r] \in ActorState
         /\ \A n \in Nat : [o EXCEPT !.amount = n] \in ActorState
         /\ \A n \in Nat : [o EXCEPT !.over = n] \in ActorState
         /\ \A ns \in SUBSET Nat : [o EXCEPT !.sent = ns] \in ActorState
  BY DEF ActorState

LEMMA IdleFacts == Idle \in ActorState /\ Idle.step = "idle" /\ Idle.d = "none" /\ Idle.over = 0
                     /\ Idle.route = "none" /\ Idle.sent = {} /\ Idle.job = "none"
  BY DEF Idle, ActorState, Steps, SettlementSteps

\* Only a acts.
ActorOnly(a) ==
  actor' \in [Actors -> ActorState] /\ \A b \in Actors : b # a => actor'[b] = actor[b]

LEMMA ActorWrite ==
  ASSUME actor \in [Actors -> ActorState], NEW a \in Actors, NEW o \in ActorState,
         actor' = [actor EXCEPT ![a] = o]
  PROVE  ActorOnly(a) /\ actor'[a] = o
  BY DEF ActorOnly

LEMMA ActorGoing ==
  ASSUME actor \in [Actors -> ActorState], NEW a \in Actors, NEW s \in Steps, Goto(a, s)
  PROVE  /\ ActorOnly(a) /\ actor'[a].step = s
         /\ actor'[a].d = actor[a].d /\ actor'[a].job = actor[a].job
         /\ actor'[a].amount = actor[a].amount /\ actor'[a].over = actor[a].over
         /\ actor'[a].route = actor[a].route /\ actor'[a].sent = actor[a].sent
  <1>1. PICK o : o = [actor[a] EXCEPT !.step = s]
    OBVIOUS
  <1>2. actor' = [actor EXCEPT ![a] = o]
    BY Zenon, <1>1 DEF Goto
  <1>3. /\ o \in ActorState /\ o.step = s /\ o.d = actor[a].d /\ o.job = actor[a].job
        /\ o.amount = actor[a].amount /\ o.over = actor[a].over
        /\ o.route = actor[a].route /\ o.sent = actor[a].sent
    BY <1>1, ActorFields DEF ActorState
  <1> QED BY <1>2, <1>3, ActorWrite

LEMMA ActorStopping ==
  ASSUME actor \in [Actors -> ActorState], NEW a \in Actors, Stop(a)
  PROVE  ActorOnly(a) /\ actor'[a] = Idle
  BY IdleFacts, ActorWrite DEF Stop

\* a starts a job, or a reviewer a settlement.
LEMMA ActorTakes ==
  ASSUME actor \in [Actors -> ActorState], NEW a \in Actors, NEW d \in Disputes,
         NEW s \in Steps, NEW job \in Kinds,
         actor' = [actor EXCEPT ![a] = [Idle EXCEPT !.step = s, !.d = d, !.job = job]]
  PROVE  /\ ActorOnly(a) /\ actor'[a].step = s /\ actor'[a].d = d /\ actor'[a].job = job
         /\ actor'[a].over = 0 /\ actor'[a].sent = {} /\ actor'[a].route = "none"
  <1>1. PICK p : p = [Idle EXCEPT !.step = s]
    OBVIOUS
  <1>2. PICK q : q = [p EXCEPT !.d = d]
    OBVIOUS
  <1>3. PICK r : r = [q EXCEPT !.job = job]
    OBVIOUS
  <1>4. p \in ActorState /\ p.step = s /\ p.over = 0 /\ p.sent = {} /\ p.route = "none"
    BY <1>1, IdleFacts, ActorFields DEF ActorState
  <1>5. q \in ActorState /\ q.step = s /\ q.d = d /\ q.over = 0 /\ q.sent = {} /\ q.route = "none"
    BY <1>2, <1>4, ActorFields DEF ActorState
  <1>6. r \in ActorState /\ r.step = s /\ r.d = d /\ r.job = job /\ r.over = 0 /\ r.sent = {}
        /\ r.route = "none"
    BY <1>3, <1>5, ActorFields DEF ActorState
  <1>7. actor' = [actor EXCEPT ![a] = r]
    BY <1>1, <1>2, <1>3
  <1> QED BY <1>6, <1>7, ActorWrite

LEMMA MarkFacts ==
  ASSUME status \in [Disputes -> Status \cup {"none", "filing"}], NEW d \in Disputes,
         NEW s \in Status \cup {"none", "filing"}, Mark(d, s)
  PROVE  /\ status' \in [Disputes -> Status \cup {"none", "filing"}]
         /\ status'[d] = s /\ \A e \in Disputes : e # d => status'[e] = status[e]
  BY DEF Mark

LEMMA StepsFacts ==
  /\ {"settle", "capture", "card", "fund", "refer", "mark", "audit"} \subseteq Steps
  /\ {"idle", "reprompted", "gathering", "analyzing"} \subseteq Steps
  /\ {"HUMAN_REVIEW", "GATHERING", "ANALYZING", "INCONCLUSIVE", "PENDING", "AUTO_RESOLVED",
      "RESOLVED", "AUDIT_QUEUED"} \subseteq Status
  /\ {"resolution", "reprompt"} = Kinds
  BY DEF Steps, SettlementSteps, Status, Kinds

LEMMA HoldFacts ==
  ASSUME hold \in H!Allocation
  PROVE  /\ hold.remaining \in Nat
         /\ H!AfterRelease(hold) \in H!Allocation /\ H!AfterRelease(hold).remaining = 0
         /\ \A n \in Nat : n <= hold.remaining =>
              /\ H!AfterCapture(hold, n, "damage") \in H!Allocation
              /\ H!AfterCapture(hold, n, "damage").remaining = hold.remaining - n
  BY DEF H!Allocation, H!AfterRelease, H!AfterCapture

LEMMA DrawFacts ==
  ASSUME drawn \in [Disputes -> Nat], NEW a, actor[a].d \in Disputes, NEW n \in Nat, Draw(a, n)
  PROVE  /\ drawn' \in [Disputes -> Nat]
         /\ drawn'[actor[a].d] = drawn[actor[a].d] + n
         /\ \A d \in Disputes : d # actor[a].d => drawn'[d] = drawn[d]
  BY DEF Draw

\* The frame of an action of a: what has to be said of a itself.
LEMMA DisputeTypesBy ==
  ASSUME DisputeTypes, NEW a \in Actors, ActorOnly(a), ActorRefs(a)',
         status' \in [Disputes -> Status \cup {"none", "filing"}],
         charge' \in [Disputes -> Nat], jobs' \subseteq Kinds \X Disputes,
         hold' \in H!Allocation, fund' \in Nat, taken' \in [card : Nat, fund : Nat, collections : Nat],
         drawn' \in [Disputes -> Nat], events' \subseteq Features, disturbed' \subseteq Disputes
  PROVE  DisputeTypes'
  <1>1. \A b \in Actors : ActorRefs(b)'
    BY DEF DisputeTypes, ActorOnly, ActorRefs
  <1> QED BY <1>1 DEF DisputeTypes, ActorOnly

-----------------------------------------------------------------------------
(* What the actions do.                                                    *)

LEMMA TakeResolutionFacts ==
  ASSUME DisputeTypes, NEW a \in Actors, NEW d \in Disputes, TakeResolution(a, d)
  PROVE  /\ actor[a].step = "idle" /\ <<"resolution", d>> \in jobs
         /\ jobs' = jobs \ {<<"resolution", d>>}
         /\ UNCHANGED <<charge, hold, fund, taken, drawn, events, disturbed>>
         /\ ActorOnly(a) /\ actor'[a].step = "gathering" /\ actor'[a].d = d
         /\ actor'[a].job = "resolution" /\ actor'[a].sent = {} /\ actor'[a].route = "none"
         /\ Mark(d, "GATHERING") /\ "GATHERING" \in Status
  <1>1. /\ actor \in [Actors -> ActorState] /\ "gathering" \in Steps /\ "resolution" \in Kinds
        /\ "GATHERING" \in Status
    BY StepsFacts DEF DisputeTypes
  <1>2. /\ actor[a].step = "idle" /\ <<"resolution", d>> \in jobs
        /\ jobs' = jobs \ {<<"resolution", d>>} /\ Mark(d, "GATHERING")
        /\ UNCHANGED <<charge, hold, fund, taken, drawn, events, disturbed>>
        /\ actor' = [actor EXCEPT ![a] = [Idle EXCEPT !.step = "gathering", !.d = d, !.job = "resolution"]]
    BY Zenon DEF TakeResolution, Is, money
  <1>3. /\ ActorOnly(a) /\ actor'[a].step = "gathering" /\ actor'[a].d = d
        /\ actor'[a].job = "resolution" /\ actor'[a].sent = {} /\ actor'[a].route = "none"
    <2>1. actor' = [actor EXCEPT ![a] = [Idle EXCEPT !.step = "gathering", !.d = d, !.job = "resolution"]]
      BY <1>2
    <2> HIDE <1>2
    <2> QED BY Zenon, <1>1, <2>1, ActorTakes
  <1> QED BY <1>1, <1>2, <1>3

LEMMA TakeRepromptFacts ==
  ASSUME DisputeTypes, NEW a \in Actors, NEW d \in Disputes, TakeReprompt(a, d)
  PROVE  /\ actor[a].step = "idle" /\ <<"reprompt", d>> \in jobs
         /\ jobs' = jobs \ {<<"reprompt", d>>}
         /\ UNCHANGED <<status, charge, hold, fund, taken, drawn, events, disturbed>>
         /\ ActorOnly(a)
         /\ \/ actor' = actor
            \/ /\ status[d] = "INCONCLUSIVE" /\ actor'[a].step = "reprompted"
               /\ actor'[a].d = d /\ actor'[a].job = "reprompt" /\ actor'[a].sent = {}
               /\ actor'[a].route = "none"
  <1>1. actor \in [Actors -> ActorState] /\ "reprompted" \in Steps /\ "reprompt" \in Kinds
    BY StepsFacts DEF DisputeTypes
  <1>2. /\ actor[a].step = "idle" /\ <<"reprompt", d>> \in jobs
        /\ jobs' = jobs \ {<<"reprompt", d>>}
        /\ UNCHANGED <<status, charge, hold, fund, taken, drawn, events, disturbed>>
        /\ \/ actor' = actor
           \/ /\ status[d] = "INCONCLUSIVE"
              /\ actor' = [actor EXCEPT ![a] = [Idle EXCEPT !.step = "reprompted", !.d = d, !.job = "reprompt"]]
    BY Zenon DEF TakeReprompt, Is, money
  <1>3. CASE actor' = actor
    BY <1>1, <1>2, <1>3 DEF ActorOnly
  <1>4. CASE /\ status[d] = "INCONCLUSIVE"
             /\ actor' = [actor EXCEPT ![a] = [Idle EXCEPT !.step = "reprompted", !.d = d, !.job = "reprompt"]]
    <2>1. /\ ActorOnly(a) /\ actor'[a].step = "reprompted" /\ actor'[a].d = d
          /\ actor'[a].job = "reprompt" /\ actor'[a].sent = {} /\ actor'[a].route = "none"
      <3>1. actor' = [actor EXCEPT ![a] = [Idle EXCEPT !.step = "reprompted", !.d = d, !.job = "reprompt"]]
        BY <1>4
      <3> QED BY Zenon, <1>1, <3>1, ActorTakes
    <2> QED BY <1>2, <1>4, <2>1
  <1> QED BY <1>2, <1>3, <1>4

LEMMA AnalyzeFacts ==
  ASSUME DisputeTypes, NEW a \in Actors, Analyze(a)
  PROVE  /\ actor[a].step = "gathering" /\ UNCHANGED <<charge, jobs, hold, fund, taken, drawn, events, disturbed>>
         /\ ActorOnly(a) /\ actor'[a].step = "analyzing"
         /\ actor'[a].d = actor[a].d /\ actor'[a].job = actor[a].job
         /\ actor'[a].sent = actor[a].sent /\ actor'[a].route = actor[a].route
         /\ Mark(actor[a].d, "ANALYZING") /\ "ANALYZING" \in Status
  <1>1. actor \in [Actors -> ActorState] /\ "analyzing" \in Steps /\ "ANALYZING" \in Status
    BY StepsFacts DEF DisputeTypes
  <1> QED BY <1>1, ActorGoing DEF Analyze, Is, money

\* The agent fails, or the re-prompt finds nothing: a human has to look.
LEMMA EscalateFacts ==
  ASSUME DisputeTypes, NEW a \in Actors, RepromptEscalates(a) \/ AgentFails(a)
  PROVE  /\ actor[a].step \in {"reprompted", "analyzing"}
         /\ UNCHANGED <<charge, jobs, hold, fund, taken, drawn, disturbed>>
         /\ ActorOnly(a) /\ actor'[a] = Idle /\ events' \subseteq Features
         /\ Mark(actor[a].d, "HUMAN_REVIEW") /\ "HUMAN_REVIEW" \in Status
  <1>1. actor \in [Actors -> ActorState] /\ "HUMAN_REVIEW" \in Status /\ events \subseteq Features
    BY StepsFacts DEF DisputeTypes
  <1>2. /\ actor[a].step \in {"reprompted", "analyzing"}
        /\ UNCHANGED <<charge, jobs, hold, fund, taken, drawn, disturbed>>
        /\ Stop(a) /\ Mark(actor[a].d, "HUMAN_REVIEW")
        /\ UNCHANGED events \/ Event("model")
    BY DEF RepromptEscalates, AgentFails, Is, money
  <1> QED BY <1>1, <1>2, ActorStopping DEF Event

LEMMA DecideFacts ==
  ASSUME DisputeTypes, DisputeAssumption, NEW a \in Actors, NEW amount \in Charges,
         NEW route \in Route, Decide(a, amount, route)
  PROVE  /\ actor[a].step = "analyzing" /\ UNCHANGED <<jobs, hold, fund, taken, drawn, events, disturbed>>
         /\ charge' \in [Disputes -> Nat] /\ ActorOnly(a)
         /\ charge' = [charge EXCEPT ![actor[a].d] = amount]
         /\ \/ Mark(actor[a].d, "HUMAN_REVIEW") /\ "HUMAN_REVIEW" \in Status /\ actor'[a] = Idle
            \/ /\ UNCHANGED status /\ actor'[a].step = "settle"
               /\ actor'[a].d = actor[a].d /\ actor'[a].job = actor[a].job
               /\ actor'[a].amount = amount /\ actor'[a].sent = actor[a].sent
               /\ actor'[a].route = route
         /\ route = "AUTO_RESOLVE_AUDIT" => amount > 0
  <1> DEFINE o == actor[a]
  <1>1. /\ actor \in [Actors -> ActorState] /\ o \in ActorState /\ "settle" \in Steps
        /\ "HUMAN_REVIEW" \in Status /\ amount \in Nat /\ charge \in [Disputes -> Nat]
    BY StepsFacts DEF DisputeTypes, DisputeAssumption
  <1>2. /\ o.step = "analyzing" /\ UNCHANGED <<jobs, hold, fund, taken, drawn, events, disturbed>>
        /\ charge' = [charge EXCEPT ![o.d] = amount]
        /\ \/ Mark(o.d, "HUMAN_REVIEW") /\ Stop(a)
           \/ /\ actor' = [actor EXCEPT ![a].step = "settle", ![a].amount = amount, ![a].route = route]
              /\ UNCHANGED status
    BY Zenon DEF Decide, Is, money
  <1>3. charge' \in [Disputes -> Nat]
    BY <1>1, <1>2
  <1>3a. route = "AUTO_RESOLVE_AUDIT" => amount > 0
    BY <1>1, DisputeAssumption DEF Decide, RouteDecision
  <1>4. CASE Mark(o.d, "HUMAN_REVIEW") /\ Stop(a)
    BY <1>1, <1>2, <1>3, <1>3a, <1>4, ActorStopping
  <1>5. CASE /\ actor' = [actor EXCEPT ![a].step = "settle", ![a].amount = amount, ![a].route = route]
             /\ UNCHANGED status
    <2>1. PICK p : p = [o EXCEPT !.step = "settle"]
      OBVIOUS
    <2>2. PICK q : q = [p EXCEPT !.amount = amount]
      OBVIOUS
    <2>3. PICK r : r = [q EXCEPT !.route = route]
      OBVIOUS
    <2>4. p \in ActorState /\ p.step = "settle" /\ p.d = o.d /\ p.job = o.job /\ p.sent = o.sent
      BY <1>1, <2>1, ActorFields DEF ActorState
    <2>5. q \in ActorState
      BY Zenon, <1>1, <2>2, <2>4, ActorFields
    <2>6. r \in ActorState
      BY Zenon, <1>1, <2>3, <2>5, ActorFields
    <2>a. q.step = "settle" /\ q.d = o.d /\ q.job = o.job /\ q.amount = amount /\ q.sent = o.sent
      BY <2>2, <2>4 DEF ActorState
    <2>b. r.step = "settle" /\ r.d = o.d /\ r.job = o.job /\ r.amount = amount /\ r.sent = o.sent
          /\ r.route = route
      BY <2>3, <2>5, <2>a DEF ActorState
    <2>7. actor' = [actor EXCEPT ![a] = r]
      <3>1. actor' = [actor EXCEPT ![a] = [o EXCEPT !.step = "settle", !.amount = amount, !.route = route]]
        BY Zenon, <1>5
      <3> QED BY <3>1, <2>1, <2>2, <2>3
    <2>8. ActorOnly(a) /\ actor'[a] = r
      BY <1>1, <2>6, <2>7, ActorWrite
    <2> QED BY <1>2, <1>3, <1>3a, <1>5, <2>6, <2>b, <2>8
  <1> QED BY <1>2, <1>4, <1>5

LEMMA ResolveFacts ==
  ASSUME DisputeTypes, DisputeAssumption, NEW a \in Actors, NEW d \in Disputes, NEW action,
         NEW sent \in SUBSET Charges, Resolve(a, d, action, sent)
  PROVE  /\ actor[a].step = "idle" /\ status[d] = "HUMAN_REVIEW"
         /\ UNCHANGED <<status, charge, jobs, hold, fund, taken, drawn>> /\ events' \subseteq Features
         /\ ActorOnly(a) /\ actor'[a].step = "settle" /\ actor'[a].d = d /\ actor'[a].job = "none"
         /\ actor'[a].route = "none" /\ actor'[a].sent = sent
         /\ IF action = "OVERRIDE" /\ sent # {} THEN actor'[a].amount \in sent
            ELSE actor'[a].amount = charge[d]
         /\ disturbed' \subseteq Disputes /\ disturbed \subseteq disturbed'
         /\ d \notin disturbed' =>
              Busy(d) = {} /\ (action = "APPROVE" => sent \in {{}, {charge[d]}})
  <1>1. /\ actor \in [Actors -> ActorState] /\ "settle" \in Steps /\ events \subseteq Features
        /\ charge \in [Disputes -> Nat] /\ Charges \subseteq Nat
    BY StepsFacts DEF DisputeTypes, DisputeAssumption
  <1>2. /\ actor[a].step = "idle" /\ status[d] = "HUMAN_REVIEW"
        /\ UNCHANGED <<status, charge, jobs, hold, fund, taken, drawn>>
        /\ IF action = "APPROVE" /\ sent # {} THEN Event("approve") ELSE UNCHANGED events
        /\ Disturb(d, Busy(d) # {} \/ (action = "APPROVE" /\ sent \notin {{}, {charge[d]}}))
    BY DEF Resolve, Is, money
  <1>3. PICK amount \in IF action = "OVERRIDE" /\ sent # {} THEN sent ELSE {charge[d]} :
          actor' = [actor EXCEPT ![a] = [Idle EXCEPT !.step = "settle", !.d = d, !.amount = amount,
                                                     !.sent = sent]]
    BY DEF Resolve
  <1>4. amount \in Nat /\ sent \in SUBSET Nat
    BY <1>1
  <1>5. PICK p : p = [Idle EXCEPT !.step = "settle"]
    OBVIOUS
  <1>6. PICK q : q = [p EXCEPT !.d = d]
    OBVIOUS
  <1>7. PICK r : r = [q EXCEPT !.amount = amount]
    OBVIOUS
  <1>8. PICK o : o = [r EXCEPT !.sent = sent]
    OBVIOUS
  <1>9. p \in ActorState /\ p.step = "settle" /\ p.route = "none" /\ p.job = "none"
    BY <1>1, <1>5, IdleFacts, ActorFields DEF ActorState
  <1>10. q \in ActorState /\ q.step = "settle" /\ q.d = d /\ q.route = "none" /\ q.job = "none"
    BY <1>6, <1>9, ActorFields DEF ActorState
  <1>11. /\ r \in ActorState /\ r.step = "settle" /\ r.d = d /\ r.route = "none" /\ r.amount = amount
         /\ r.job = "none"
    BY <1>4, <1>7, <1>10, ActorFields DEF ActorState
  <1>12. /\ o \in ActorState /\ o.step = "settle" /\ o.d = d /\ o.route = "none" /\ o.amount = amount
         /\ o.sent = sent /\ o.job = "none"
    BY <1>4, <1>8, <1>11, ActorFields DEF ActorState
  <1>13. actor' = [actor EXCEPT ![a] = o]
    BY <1>3, <1>5, <1>6, <1>7, <1>8
  <1>14. ActorOnly(a) /\ actor'[a] = o
    BY <1>1, <1>12, <1>13, ActorWrite
  <1>15. events' \subseteq Features
    BY <1>1, <1>2 DEF Event
  <1>16. IF action = "OVERRIDE" /\ sent # {} THEN o.amount \in sent ELSE o.amount = charge[d]
    BY <1>3, <1>12
  <1>17. /\ disturbed' \subseteq Disputes /\ disturbed \subseteq disturbed'
         /\ d \notin disturbed' =>
              Busy(d) = {} /\ (action = "APPROVE" => sent \in {{}, {charge[d]}})
    BY <1>2 DEF Disturb, DisputeTypes
  <1> QED BY <1>2, <1>12, <1>14, <1>15, <1>16, <1>17

\* The hold is read; only what it cannot cover is left over.
LEMMA SettleReadsFacts ==
  ASSUME DisputeTypes, NEW a \in Actors, SettleReads(a)
  PROVE  /\ actor[a].step = "settle" /\ UNCHANGED <<status, charge, jobs, hold, fund, taken, drawn, events, disturbed>>
         /\ ActorOnly(a) /\ actor'[a].step \in {"capture", "card"}
         /\ actor'[a].d = actor[a].d /\ actor'[a].job = actor[a].job
         /\ actor'[a].over > 0 => hold.remaining = actor'[a].amount
         /\ actor'[a].step = "card" => hold.remaining = 0 /\ actor'[a].amount = 0
         /\ actor'[a].amount + actor'[a].over = actor[a].amount
         /\ actor'[a].route = actor[a].route /\ actor'[a].sent = actor[a].sent
  <1> DEFINE o == actor[a]
             fromHold == IF o.amount <= hold.remaining THEN o.amount ELSE hold.remaining
             step == IF fromHold > 0 THEN "capture" ELSE "card"
  <1>1. /\ actor \in [Actors -> ActorState] /\ o \in ActorState /\ step \in Steps
        /\ hold.remaining \in Nat /\ o.amount \in Nat
    BY StepsFacts, HoldFacts DEF DisputeTypes, ActorState
  <1>2. /\ o.step = "settle" /\ o.amount > 0
        /\ UNCHANGED <<status, charge, jobs, hold, fund, taken, drawn, events, disturbed>>
    BY DEF SettleReads, Is, money
  <1>3. PICK from : from = fromHold
    OBVIOUS
  <1>4. PICK over : over = o.amount - from
    OBVIOUS
  <1>5. PICK s : s = step
    OBVIOUS
  <1>6. /\ from \in Nat /\ over \in Nat /\ s \in Steps /\ s \in {"capture", "card"}
        /\ over > 0 => hold.remaining = from
        /\ s = "card" => hold.remaining = 0 /\ from = 0
        /\ from + over = o.amount
    BY <1>1, <1>2, <1>3, <1>4, <1>5
  <1>7. actor' = [actor EXCEPT ![a].step = step, ![a].amount = fromHold, ![a].over = o.amount - fromHold]
    BY Zenon DEF SettleReads
  <1>8. actor' = [actor EXCEPT ![a] = [o EXCEPT !.step = s, !.amount = from, !.over = over]]
    BY Zenon, <1>3, <1>4, <1>5, <1>7
  <1> HIDE DEF step, fromHold
  <1>9. PICK p : p = [o EXCEPT !.step = s]
    OBVIOUS
  <1>10. PICK q : q = [p EXCEPT !.amount = from]
    OBVIOUS
  <1>11. PICK r : r = [q EXCEPT !.over = over]
    OBVIOUS
  <1>12. /\ p \in ActorState /\ p.step = s /\ p.d = o.d /\ p.job = o.job
         /\ p.route = o.route /\ p.sent = o.sent
    BY <1>1, <1>6, <1>9, ActorFields DEF ActorState
  <1>13. /\ q \in ActorState /\ q.step = s /\ q.d = o.d /\ q.job = o.job /\ q.amount = from
         /\ q.route = o.route /\ q.sent = o.sent
    BY <1>6, <1>10, <1>12, ActorFields DEF ActorState
  <1>14. /\ r \in ActorState /\ r.step = s /\ r.d = o.d /\ r.job = o.job /\ r.amount = from /\ r.over = over
         /\ r.route = o.route /\ r.sent = o.sent
    BY <1>6, <1>11, <1>13, ActorFields DEF ActorState
  <1>15. actor' = [actor EXCEPT ![a] = r]
    BY <1>8, <1>9, <1>10, <1>11
  <1>16. ActorOnly(a) /\ actor'[a] = r
    BY <1>1, <1>14, <1>15, ActorWrite
  <1> QED BY <1>2, <1>6, <1>14, <1>16

LEMMA SettleNothingFacts ==
  ASSUME DisputeTypes, NEW a \in Actors, SettleNothing(a)
  PROVE  /\ actor[a].step = "settle" /\ UNCHANGED <<status, charge, jobs, fund, taken, drawn, disturbed>>
         /\ actor[a].amount = 0 /\ ActorOnly(a) /\ actor'[a].step = "mark"
         /\ actor'[a].d = actor[a].d /\ actor'[a].job = actor[a].job
         /\ actor'[a].route = actor[a].route /\ actor'[a].sent = actor[a].sent
         /\ hold' \in H!Allocation /\ hold'.remaining <= hold.remaining /\ events' \subseteq Features
  <1>1. /\ actor \in [Actors -> ActorState] /\ "mark" \in Steps
        /\ hold \in H!Allocation /\ events \subseteq Features
    BY StepsFacts DEF DisputeTypes
  <1>2. /\ actor[a].step = "settle" /\ UNCHANGED <<status, charge, jobs, fund, taken, drawn, disturbed>>
        /\ actor[a].amount = 0 /\ Goto(a, "mark")
        /\ hold' = hold \/ hold' = H!AfterRelease(hold)
        /\ UNCHANGED events \/ Event("stripe")
    BY DEF SettleNothing, Is
  <1>3. hold' \in H!Allocation /\ hold'.remaining <= hold.remaining
    BY <1>1, <1>2, HoldFacts
  <1>4. events' \subseteq Features
    BY <1>1, <1>2 DEF Event
  <1> QED BY <1>1, <1>2, <1>3, <1>4, ActorGoing

LEMMA CaptureFacts ==
  ASSUME DisputeTypes, NEW a \in Actors, Capture(a)
  PROVE  /\ actor[a].step = "capture" /\ UNCHANGED <<status, charge, jobs, fund, taken, events, disturbed>>
         /\ actor[a].amount <= hold.remaining /\ Draw(a, actor[a].amount)
         /\ actor'[a].route = actor[a].route /\ actor'[a].sent = actor[a].sent
         /\ ActorOnly(a) /\ actor'[a].step = (IF actor[a].over > 0 THEN "card" ELSE "mark")
         /\ actor'[a].d = actor[a].d /\ actor'[a].job = actor[a].job
         /\ actor'[a].over = actor[a].over
         /\ hold' \in H!Allocation /\ hold'.remaining = hold.remaining - actor[a].amount
  <1>1. /\ actor \in [Actors -> ActorState] /\ {"card", "mark"} \subseteq Steps
        /\ hold \in H!Allocation /\ actor[a].amount \in Nat /\ actor[a].over \in Nat
    BY StepsFacts DEF DisputeTypes, ActorState
  <1>2. /\ actor[a].step = "capture" /\ UNCHANGED <<status, charge, jobs, fund, taken, events, disturbed>>
        /\ actor[a].amount <= hold.remaining /\ Draw(a, actor[a].amount)
        /\ hold' = H!AfterCapture(hold, actor[a].amount, "damage")
        /\ Goto(a, IF actor[a].over > 0 THEN "card" ELSE "mark")
    BY DEF Capture, Is
  <1>3. hold' \in H!Allocation /\ hold'.remaining = hold.remaining - actor[a].amount
    BY <1>1, <1>2, HoldFacts
  <1> QED BY <1>1, <1>2, <1>3, ActorGoing

LEMMA ChargeCardFacts ==
  ASSUME DisputeTypes, NEW a \in Actors, ChargeCard(a)
  PROVE  /\ actor[a].step = "card" /\ UNCHANGED <<status, charge, jobs, hold, fund, events, disturbed>>
         /\ ActorOnly(a) /\ actor'[a].step = "mark"
         /\ actor'[a].d = actor[a].d /\ actor'[a].job = actor[a].job
         /\ actor'[a].route = actor[a].route /\ actor'[a].sent = actor[a].sent
         /\ Draw(a, actor[a].over)
         /\ taken' \in [card : Nat, fund : Nat, collections : Nat] /\ taken'.collections = taken.collections
  <1>1. /\ actor \in [Actors -> ActorState] /\ "mark" \in Steps
        /\ taken \in [card : Nat, fund : Nat, collections : Nat] /\ actor[a].over \in Nat
    BY StepsFacts DEF DisputeTypes, ActorState
  <1>2. /\ actor[a].step = "card" /\ UNCHANGED <<status, charge, jobs, hold, fund, events, disturbed>>
        /\ taken' = [taken EXCEPT !.card = taken.card + actor[a].over]
        /\ Goto(a, "mark") /\ Draw(a, actor[a].over)
    BY DEF ChargeCard, Is
  <1>3. taken' \in [card : Nat, fund : Nat, collections : Nat] /\ taken'.collections = taken.collections
    BY <1>1, <1>2
  <1> QED BY <1>1, <1>2, <1>3, ActorGoing

LEMMA CardFailsFacts ==
  ASSUME DisputeTypes, NEW a \in Actors, CardFails(a)
  PROVE  /\ actor[a].step = "card" /\ UNCHANGED <<status, charge, jobs, hold, fund>>
         /\ ActorOnly(a) /\ actor'[a].step = "fund" /\ events' \subseteq Features
         /\ actor'[a].d = actor[a].d /\ actor'[a].job = actor[a].job /\ actor'[a].over = actor[a].over
         /\ actor'[a].route = actor[a].route /\ actor'[a].sent = actor[a].sent
         /\ taken' \in [card : Nat, fund : Nat, collections : Nat]
         /\ taken'.collections = taken.collections
         /\ \E made \in Nat : Draw(a, made) /\ Disturb(actor[a].d, made > 0)
  <1>1. /\ actor \in [Actors -> ActorState] /\ "fund" \in Steps /\ events \subseteq Features
        /\ actor[a].over \in Nat /\ taken \in [card : Nat, fund : Nat, collections : Nat]
    BY StepsFacts DEF DisputeTypes, ActorState
  <1>2. /\ actor[a].step = "card" /\ UNCHANGED <<status, charge, jobs, hold, fund>>
        /\ Goto(a, "fund") /\ Event("stripe")
    BY DEF CardFails, Is
  <1>3. PICK made \in {0, actor[a].over} :
          /\ taken' = [taken EXCEPT !.card = @ + made]
          /\ Draw(a, made) /\ Disturb(actor[a].d, made > 0)
    BY DEF CardFails
  <1>4. /\ taken' \in [card : Nat, fund : Nat, collections : Nat]
        /\ taken'.collections = taken.collections /\ made \in Nat
    BY <1>1, <1>3
  <1> QED BY <1>1, <1>2, <1>3, <1>4, ActorGoing DEF Event

LEMMA ClaimFundFacts ==
  ASSUME DisputeTypes, NEW a \in Actors, ClaimFund(a)
  PROVE  /\ actor[a].step = "fund" /\ UNCHANGED <<status, charge, jobs, hold, events, disturbed>>
         /\ taken' \in [card : Nat, fund : Nat, collections : Nat]
         /\ taken'.collections = taken.collections
         /\ ActorOnly(a) /\ actor'[a].step \in {"refer", "mark"}
         /\ actor'[a].d = actor[a].d /\ actor'[a].job = actor[a].job
         /\ actor'[a].route = actor[a].route /\ actor'[a].sent = actor[a].sent
         /\ fund' \in Nat /\ fund' <= fund
         /\ actor'[a].step = "refer" => fund' = 0
         /\ actor'[a].step = "mark" => actor'[a].over = 0
         /\ \E n \in Nat : Draw(a, n) /\ n + actor'[a].over = actor[a].over
  <1> DEFINE o == actor[a]
             claimed == IF o.over > fund THEN fund ELSE o.over
             step == IF o.over > claimed THEN "refer" ELSE "mark"
  <1>1. /\ actor \in [Actors -> ActorState] /\ o \in ActorState /\ fund \in Nat /\ o.over \in Nat
        /\ step \in Steps /\ taken \in [card : Nat, fund : Nat, collections : Nat]
    BY StepsFacts DEF DisputeTypes, ActorState
  <1>2. /\ o.step = "fund" /\ UNCHANGED <<status, charge, jobs, hold, events, disturbed>>
        /\ fund' = fund - claimed /\ Draw(a, claimed)
        /\ taken' = [taken EXCEPT !.fund = @ + claimed]
    BY DEF ClaimFund, Is
  <1>3. PICK s : s = step
    OBVIOUS
  <1>4. PICK over : over = o.over - claimed
    OBVIOUS
  <1>5. /\ s \in Steps /\ over \in Nat /\ s \in {"refer", "mark"} /\ fund' \in Nat /\ fund' <= fund
        /\ s = "refer" => fund' = 0
        /\ s = "mark" => over = 0
        /\ claimed \in Nat /\ claimed + over = o.over
    BY <1>1, <1>2, <1>3, <1>4
  <1>5a. /\ taken' \in [card : Nat, fund : Nat, collections : Nat]
         /\ taken'.collections = taken.collections
    BY <1>1, <1>2, <1>5
  <1>6. actor' = [actor EXCEPT ![a].step = step, ![a].over = @ - claimed]
    BY Zenon DEF ClaimFund
  <1> HIDE DEF step, claimed
  <1>7. PICK p : p = [o EXCEPT !.step = s]
    OBVIOUS
  <1>8. PICK q : q = [p EXCEPT !.over = over]
    OBVIOUS
  <1>9. /\ p \in ActorState /\ p.step = s /\ p.d = o.d /\ p.job = o.job /\ p.over = o.over
        /\ p.route = o.route /\ p.sent = o.sent
    BY <1>1, <1>5, <1>7, ActorFields DEF ActorState
  <1>10. /\ q \in ActorState /\ q.step = s /\ q.d = o.d /\ q.job = o.job /\ q.over = over
         /\ q.route = o.route /\ q.sent = o.sent
    BY <1>5, <1>8, <1>9, ActorFields DEF ActorState
  <1>11. actor' = [actor EXCEPT ![a] = q]
    BY <1>1, <1>3, <1>4, <1>6, <1>7, <1>8, <1>9
  <1>12. ActorOnly(a) /\ actor'[a] = q
    BY <1>1, <1>10, <1>11, ActorWrite
  <1> QED BY <1>2, <1>5, <1>5a, <1>10, <1>12

LEMMA ReferFacts ==
  ASSUME DisputeTypes, NEW a \in Actors, Refer(a)
  PROVE  /\ actor[a].step = "refer" /\ UNCHANGED <<status, charge, jobs, hold, fund, events, disturbed>>
         /\ ActorOnly(a) /\ actor'[a].step = "mark"
         /\ actor'[a].d = actor[a].d /\ actor'[a].job = actor[a].job
         /\ actor'[a].route = actor[a].route /\ actor'[a].sent = actor[a].sent
         /\ Draw(a, actor[a].over)
         /\ taken' \in [card : Nat, fund : Nat, collections : Nat]
  <1>1. /\ actor \in [Actors -> ActorState] /\ "mark" \in Steps
        /\ taken \in [card : Nat, fund : Nat, collections : Nat] /\ actor[a].over \in Nat
    BY StepsFacts DEF DisputeTypes, ActorState
  <1>2. /\ actor[a].step = "refer" /\ UNCHANGED <<status, charge, jobs, hold, fund, events, disturbed>>
        /\ taken' = [taken EXCEPT !.collections = taken.collections + actor[a].over]
        /\ Goto(a, "mark") /\ Draw(a, actor[a].over)
    BY DEF Refer, Is
  <1>3. taken' \in [card : Nat, fund : Nat, collections : Nat]
    BY <1>1, <1>2
  <1> QED BY <1>1, <1>2, <1>3, ActorGoing

LEMMA MarkSettledFacts ==
  ASSUME DisputeTypes, NEW a \in Actors, MarkSettled(a)
  PROVE  /\ actor[a].step = "mark" /\ UNCHANGED <<jobs, hold, fund, taken, drawn, events, disturbed>>
         /\ charge' \in [Disputes -> Nat] /\ ActorOnly(a)
         /\ Mark(actor[a].d, IF ByAgent(a) THEN "AUTO_RESOLVED" ELSE "RESOLVED")
         /\ charge' = [charge EXCEPT ![actor[a].d] =
              IF actor[a].sent = {} THEN charge[actor[a].d] ELSE CHOOSE n \in actor[a].sent : TRUE]
         /\ \/ actor'[a] = Idle
            \/ /\ actor'[a].step = "audit" /\ actor'[a].d = actor[a].d
               /\ actor'[a].job = actor[a].job /\ actor'[a].sent = actor[a].sent
               /\ actor'[a].route = "AUTO_RESOLVE_AUDIT" /\ actor[a].route = "AUTO_RESOLVE_AUDIT"
  <1> DEFINE o == actor[a]
             c == IF o.sent = {} THEN charge[o.d] ELSE CHOOSE n \in o.sent : TRUE
  <1>1. /\ actor \in [Actors -> ActorState] /\ o \in ActorState /\ "audit" \in Steps
        /\ charge \in [Disputes -> Nat] /\ o.sent \subseteq Nat
    BY StepsFacts DEF DisputeTypes, ActorState
  <1>2. /\ o.step = "mark" /\ UNCHANGED <<jobs, hold, fund, taken, drawn, events, disturbed>>
        /\ (o.route = "AUTO_RESOLVE_AUDIT" /\ Goto(a, "audit")) \/ Stop(a)
        /\ charge' = [charge EXCEPT ![o.d] = c]
    BY Zenon DEF MarkSettled, Is, money
  <1>3. Mark(o.d, IF ByAgent(a) THEN "AUTO_RESOLVED" ELSE "RESOLVED")
    BY DEF MarkSettled
  <1>4. o.d \in Disputes
    BY <1>2 DEF DisputeTypes, ActorRefs
  <1>5. c \in Nat
    BY <1>1, <1>4
  <1>5a. charge' = [charge EXCEPT ![o.d] = IF o.sent = {} THEN charge[o.d] ELSE CHOOSE n \in o.sent : TRUE]
    BY Zenon, <1>2
  <1> HIDE DEF c
  <1>6. charge' \in [Disputes -> Nat]
    BY <1>1, <1>2, <1>5
  <1>7. CASE o.route = "AUTO_RESOLVE_AUDIT" /\ Goto(a, "audit")
    BY <1>5a, <1>1, <1>2, <1>3, <1>6, <1>7, ActorGoing
  <1>8. CASE Stop(a)
    BY <1>5a, <1>1, <1>2, <1>3, <1>6, <1>8, ActorStopping
  <1> QED BY <1>2, <1>7, <1>8

LEMMA MarkAuditedFacts ==
  ASSUME DisputeTypes, NEW a \in Actors, MarkAudited(a)
  PROVE  /\ actor[a].step = "audit" /\ UNCHANGED <<charge, jobs, hold, fund, taken, drawn, events, disturbed>>
         /\ ActorOnly(a) /\ actor'[a] = Idle /\ Mark(actor[a].d, "AUDIT_QUEUED")
  <1>1. actor \in [Actors -> ActorState]
    BY DEF DisputeTypes
  <1> QED BY <1>1, ActorStopping DEF MarkAudited, Is, money

\* An agent's job is queued again; a reviewer's request is over.
LEMMA GiveUpFacts ==
  ASSUME DisputeTypes, NEW a \in Actors, Refused(a) \/ Crash(a)
  PROVE  /\ actor[a].step # "idle" /\ UNCHANGED <<status, charge, hold, fund, taken, drawn>>
         /\ ActorOnly(a) /\ actor'[a] = Idle /\ events' \subseteq Features
         /\ jobs' = IF ByAgent(a) THEN jobs \cup {<<actor[a].job, actor[a].d>>} ELSE jobs
         /\ jobs' \subseteq Kinds \X Disputes
         /\ Disturb(actor[a].d, drawn[actor[a].d] > 0)
  <1>1. /\ actor \in [Actors -> ActorState] /\ events \subseteq Features
        /\ jobs \subseteq Kinds \X Disputes /\ actor[a].job \in Kinds \cup {"none"}
    BY DEF DisputeTypes, ActorState
  <1>2. /\ actor[a].step # "idle" /\ GiveUp(a)
        /\ UNCHANGED events \/ Event("crash")
    BY DEF Refused, Crash, Is
  <1>3. ByAgent(a) => <<actor[a].job, actor[a].d>> \in Kinds \X Disputes
    BY <1>1, <1>2 DEF DisputeTypes, ActorRefs, ByAgent
  <1>4. /\ UNCHANGED <<status, charge, hold, fund, taken, drawn>> /\ Stop(a)
        /\ jobs' = IF ByAgent(a) THEN jobs \cup {<<actor[a].job, actor[a].d>>} ELSE jobs
        /\ Disturb(actor[a].d, drawn[actor[a].d] > 0)
    BY <1>2 DEF GiveUp, money
  <1> QED BY <1>1, <1>2, <1>3, <1>4, ActorStopping DEF Event

LEMMA FileFacts ==
  ASSUME DisputeTypes, NEW d \in Disputes, FileReads(d) \/ FileInserts(d) \/ RequestEvidence(d)
  PROVE  /\ UNCHANGED <<charge, hold, fund, taken, drawn, actor>> /\ events' \subseteq Features
         /\ disturbed' \subseteq Disputes /\ disturbed \subseteq disturbed'
         /\ \/ status[d] = "none" /\ Mark(d, "filing") /\ jobs' = jobs
            \/ /\ status[d] = "filing" /\ Mark(d, "PENDING")
               /\ jobs' = jobs \/ jobs' = jobs \cup {<<"resolution", d>>}
            \/ /\ Mark(d, "INCONCLUSIVE")
               /\ jobs' = jobs \/ jobs' = jobs \cup {<<"reprompt", d>>}
               /\ d \notin disturbed' =>
                    Busy(d) = {} /\ <<"resolution", d>> \notin jobs /\ ~ drawn[d] > 0
  BY DEF FileReads, FileInserts, RequestEvidence, Event, money, DisputeTypes, Disturb

-----------------------------------------------------------------------------
(* Types.                                                                  *)

LEMMA FileTypes ==
  ASSUME DisputeTypes, NEW d \in Disputes, FileReads(d) \/ FileInserts(d) \/ RequestEvidence(d)
  PROVE  DisputeTypes'
  <1>1. status' \in [Disputes -> Status \cup {"none", "filing"}]
    BY FileFacts, StepsFacts, MarkFacts DEF DisputeTypes
  <1>2. \/ jobs' = jobs
        \/ \E kind \in {"resolution", "reprompt"} : jobs' = jobs \cup {<<kind, d>>}
    BY FileFacts
  <1>3. jobs' \subseteq Kinds \X Disputes
    BY <1>2 DEF DisputeTypes, Kinds
  <1> QED BY <1>1, <1>3, FileFacts DEF DisputeTypes, ActorRefs

LEMMA WorkTypes ==
  ASSUME DisputeTypes, DisputeAssumption, NEW a \in Actors,
         \/ \E d \in Disputes : TakeResolution(a, d) \/ TakeReprompt(a, d)
         \/ RepromptEscalates(a) \/ Analyze(a) \/ AgentFails(a)
         \/ \E amount \in Charges, route \in Route : Decide(a, amount, route)
         \/ \E d \in Disputes, action \in Actions, sent \in SUBSET Charges : Resolve(a, d, action, sent)
  PROVE  DisputeTypes'
  <1> USE DEF SettlementSteps
  <1>0. /\ status \in [Disputes -> Status \cup {"none", "filing"}] /\ charge \in [Disputes -> Nat]
        /\ jobs \subseteq Kinds \X Disputes /\ hold \in H!Allocation /\ fund \in Nat
        /\ taken \in [card : Nat, fund : Nat, collections : Nat] /\ drawn \in [Disputes -> Nat]
        /\ events \subseteq Features
        /\ ActorRefs(a) /\ disturbed \subseteq Disputes
    BY DEF DisputeTypes
  <1>1. ASSUME NEW d \in Disputes, TakeResolution(a, d) PROVE DisputeTypes'
    <2>1. /\ jobs' \subseteq jobs /\ UNCHANGED <<charge, hold, fund, taken, drawn, events, disturbed>>
          /\ ActorOnly(a) /\ actor'[a].step = "gathering" /\ actor'[a].d = d
          /\ actor'[a].job = "resolution"
          /\ Mark(d, "GATHERING") /\ "GATHERING" \in Status
      BY <1>1, TakeResolutionFacts
    <2>2. ActorRefs(a)'
      BY <1>0, <2>1 DEF ActorRefs
    <2>3. status' \in [Disputes -> Status \cup {"none", "filing"}]
      BY <1>0, <2>1, MarkFacts
    <2> QED BY <1>0, <2>1, <2>2, <2>3, DisputeTypesBy
  <1>2. ASSUME NEW d \in Disputes, TakeReprompt(a, d) PROVE DisputeTypes'
    <2>0. jobs' = jobs \ {<<"reprompt", d>>}
      BY Zenon, <1>2, TakeRepromptFacts
    <2>1. /\ jobs' \subseteq jobs /\ ActorOnly(a)
          /\ UNCHANGED <<status, charge, hold, fund, taken, drawn, events, disturbed>>
          /\ \/ actor' = actor
             \/ /\ actor'[a].step = "reprompted" /\ actor'[a].d = d
                /\ actor'[a].job = "reprompt"
      BY Zenon, <1>2, <2>0, TakeRepromptFacts
    <2>2. ActorRefs(a)'
      BY <1>0, <2>1 DEF ActorRefs
    <2> QED BY <1>0, <2>1, <2>2, DisputeTypesBy
  <1>3. CASE RepromptEscalates(a) \/ AgentFails(a)
    <2>1. ActorRefs(a)'
      BY <1>3, EscalateFacts, IdleFacts DEF ActorRefs
    <2>2. status' \in [Disputes -> Status \cup {"none", "filing"}]
      BY <1>0, <1>3, EscalateFacts, MarkFacts DEF ActorRefs
    <2> QED BY <1>0, <1>3, <2>1, <2>2, EscalateFacts, DisputeTypesBy
  <1>4. CASE Analyze(a)
    <2>0. /\ actor[a].step = "gathering" /\ ActorOnly(a) /\ actor'[a].step = "analyzing"
          /\ actor'[a].d = actor[a].d /\ actor'[a].job = actor[a].job
          /\ UNCHANGED <<charge, jobs, hold, fund, taken, drawn, events, disturbed>>
          /\ Mark(actor[a].d, "ANALYZING") /\ "ANALYZING" \in Status
      BY Zenon, <1>4, AnalyzeFacts
    <2>1. ActorRefs(a)' /\ actor[a].d \in Disputes
      BY <1>0, <2>0 DEF ActorRefs
    <2>2. status' \in [Disputes -> Status \cup {"none", "filing"}]
      BY <1>0, <2>0, <2>1, MarkFacts
    <2> QED BY <1>0, <2>0, <2>1, <2>2, DisputeTypesBy
  <1>5. ASSUME NEW amount \in Charges, NEW route \in Route, Decide(a, amount, route) PROVE DisputeTypes'
    <2>0. /\ actor[a].step = "analyzing" /\ UNCHANGED <<jobs, hold, fund, taken, drawn, events, disturbed>>
          /\ charge' \in [Disputes -> Nat] /\ ActorOnly(a)
          /\ \/ Mark(actor[a].d, "HUMAN_REVIEW") /\ "HUMAN_REVIEW" \in Status /\ actor'[a] = Idle
             \/ /\ UNCHANGED status /\ actor'[a].step = "settle"
                /\ actor'[a].d = actor[a].d /\ actor'[a].job = actor[a].job
      BY Zenon, <1>5, DecideFacts
    <2>1. ActorRefs(a)' /\ actor[a].d \in Disputes
      BY <1>0, <2>0, IdleFacts DEF ActorRefs
    <2>2. status' \in [Disputes -> Status \cup {"none", "filing"}]
      BY <1>0, <2>0, <2>1, MarkFacts
    <2> QED BY <1>0, <2>0, <2>1, <2>2, DisputeTypesBy
  <1>6. ASSUME NEW d \in Disputes, NEW action \in Actions, NEW sent \in SUBSET Charges, Resolve(a, d, action, sent)
        PROVE  DisputeTypes'
    <2>1. ActorRefs(a)'
      BY <1>0, <1>6, ResolveFacts DEF ActorRefs
    <2> QED BY <1>0, <1>6, <2>1, ResolveFacts, DisputeTypesBy
  <1> QED BY <1>1, <1>2, <1>3, <1>4, <1>5, <1>6

LEMMA SettleTypes ==
  ASSUME DisputeTypes, NEW a \in Actors, Settle(a) \/ CardFails(a) \/ Crash(a)
  PROVE  DisputeTypes'
  <1> USE DEF SettlementSteps
  <1>0. /\ status \in [Disputes -> Status \cup {"none", "filing"}] /\ charge \in [Disputes -> Nat]
        /\ jobs \subseteq Kinds \X Disputes /\ hold \in H!Allocation /\ fund \in Nat
        /\ taken \in [card : Nat, fund : Nat, collections : Nat] /\ drawn \in [Disputes -> Nat]
        /\ events \subseteq Features
        /\ ActorRefs(a) /\ actor[a].amount \in Nat /\ actor[a].over \in Nat
        /\ disturbed \subseteq Disputes
    BY DEF DisputeTypes, ActorState
  <1>1. CASE SettleNothing(a)
    <2>1. ActorRefs(a)'
      BY <1>0, <1>1, SettleNothingFacts DEF ActorRefs
    <2> QED BY <1>0, <1>1, <2>1, SettleNothingFacts, DisputeTypesBy
  <1>2. CASE SettleReads(a)
    <2>1. ActorRefs(a)'
      BY <1>0, <1>2, SettleReadsFacts DEF ActorRefs
    <2> QED BY <1>0, <1>2, <2>1, SettleReadsFacts, DisputeTypesBy
  <1>3. CASE Capture(a)
    <2>1. ActorRefs(a)'
      BY <1>0, <1>3, CaptureFacts DEF ActorRefs
    <2>2. actor[a].d \in Disputes
      BY <1>0, <1>3, CaptureFacts DEF ActorRefs
    <2>3. drawn' \in [Disputes -> Nat]
      BY <1>0, <1>3, <2>2, CaptureFacts, DrawFacts
    <2> QED BY <1>0, <1>3, <2>1, <2>3, CaptureFacts, DisputeTypesBy
  <1>4. CASE ChargeCard(a)
    <2>1. ActorRefs(a)'
      BY <1>0, <1>4, ChargeCardFacts DEF ActorRefs
    <2>2. actor[a].d \in Disputes
      BY <1>0, <1>4, ChargeCardFacts DEF ActorRefs
    <2>3. drawn' \in [Disputes -> Nat]
      BY <1>0, <1>4, <2>2, ChargeCardFacts, DrawFacts
    <2> QED BY <1>0, <1>4, <2>1, <2>3, ChargeCardFacts, DisputeTypesBy
  <1>5. CASE CardFails(a)
    <2>1. ActorRefs(a)'
      BY <1>0, <1>5, CardFailsFacts DEF ActorRefs
    <2>2. actor[a].d \in Disputes
      BY <1>0, <1>5, CardFailsFacts DEF ActorRefs
    <2>3. drawn' \in [Disputes -> Nat] /\ disturbed' \subseteq Disputes
      BY <1>0, <1>5, <2>2, CardFailsFacts, DrawFacts DEF Disturb
    <2> QED BY <1>0, <1>5, <2>1, <2>3, CardFailsFacts, DisputeTypesBy
  <1>6. CASE ClaimFund(a)
    <2>1. ActorRefs(a)'
      BY <1>0, <1>6, ClaimFundFacts DEF ActorRefs
    <2>2. actor[a].d \in Disputes
      BY <1>0, <1>6, ClaimFundFacts DEF ActorRefs
    <2>3. drawn' \in [Disputes -> Nat]
      BY <1>0, <1>6, <2>2, ClaimFundFacts, DrawFacts
    <2> QED BY <1>0, <1>6, <2>1, <2>3, ClaimFundFacts, DisputeTypesBy
  <1>7. CASE Refer(a)
    <2>1. ActorRefs(a)'
      BY <1>0, <1>7, ReferFacts DEF ActorRefs
    <2>2. actor[a].d \in Disputes
      BY <1>0, <1>7, ReferFacts DEF ActorRefs
    <2>3. drawn' \in [Disputes -> Nat]
      BY <1>0, <1>7, <2>2, ReferFacts, DrawFacts
    <2> QED BY <1>0, <1>7, <2>1, <2>3, ReferFacts, DisputeTypesBy
  <1>8. CASE MarkSettled(a)
    <2>0. /\ actor[a].step = "mark" /\ UNCHANGED <<jobs, hold, fund, taken, drawn, events, disturbed>>
          /\ charge' \in [Disputes -> Nat] /\ ActorOnly(a)
          /\ Mark(actor[a].d, IF ByAgent(a) THEN "AUTO_RESOLVED" ELSE "RESOLVED")
          /\ \/ actor'[a] = Idle
             \/ /\ actor'[a].step = "audit" /\ actor'[a].d = actor[a].d
                /\ actor'[a].job = actor[a].job
      BY Zenon, <1>8, MarkSettledFacts
    <2>1. ActorRefs(a)' /\ actor[a].d \in Disputes
      BY <1>0, <2>0, IdleFacts DEF ActorRefs
    <2>2. status' \in [Disputes -> Status \cup {"none", "filing"}]
      BY <1>0, <2>0, <2>1, MarkFacts, StepsFacts
    <2> QED BY <1>0, <2>0, <2>1, <2>2, DisputeTypesBy
  <1>9. CASE MarkAudited(a)
    <2>1. ActorRefs(a)'
      BY <1>9, MarkAuditedFacts, IdleFacts DEF ActorRefs
    <2>2. status' \in [Disputes -> Status \cup {"none", "filing"}]
      BY <1>0, <1>9, MarkAuditedFacts, MarkFacts, StepsFacts DEF ActorRefs
    <2> QED BY <1>0, <1>9, <2>1, <2>2, MarkAuditedFacts, DisputeTypesBy
  <1>10. CASE Refused(a) \/ Crash(a)
    <2>1. ActorRefs(a)'
      BY <1>10, GiveUpFacts, IdleFacts DEF ActorRefs
    <2>2. disturbed' \subseteq Disputes
      BY <1>0, <1>10, GiveUpFacts DEF Disturb, ActorRefs
    <2> QED BY <1>0, <1>10, <2>1, <2>2, GiveUpFacts, DisputeTypesBy
  <1> QED BY Zenon, <1>1, <1>2, <1>3, <1>4, <1>5, <1>6, <1>7, <1>8, <1>9, <1>10 DEF Settle

LEMMA DisputeTypesInit == DisputeAssumption /\ Init => DisputeTypes
  <1> SUFFICES ASSUME DisputeAssumption, Init PROVE DisputeTypes
    OBVIOUS
  <1>1. H!InitAlloc \in H!Allocation
    BY DEF H!InitAlloc, H!Allocation, DisputeAssumption
  <1>2. actor \in [Actors -> ActorState] /\ \A a \in Actors : ActorRefs(a)
    BY IdleFacts DEF Init, ActorRefs
  <1> QED BY <1>1, <1>2 DEF Init, DisputeTypes, DisputeAssumption

\* The actions of Next, for the proofs below.
LEMMA StepsOfNext ==
  ASSUME NEW P,
         \A d \in Disputes : FileReads(d) \/ FileInserts(d) \/ RequestEvidence(d) => P,
         \A a \in Actors : Settle(a) \/ CardFails(a) \/ Crash(a) => P,
         \A a \in Actors :
           \/ \E d \in Disputes : TakeResolution(a, d) \/ TakeReprompt(a, d)
           \/ RepromptEscalates(a) \/ Analyze(a) \/ AgentFails(a)
           \/ \E amount \in Charges, route \in Route : Decide(a, amount, route)
           \/ \E d \in Disputes, action \in Actions, sent \in SUBSET Charges : Resolve(a, d, action, sent)
           => P,
         UNCHANGED vars => P, [Next]_vars
  PROVE  P
  <1>1. ASSUME NEW a \in Actors, NEW d \in Disputes, NEW action \in Actions,
               NEW sent \in {{}} \cup {{c} : c \in Charges}, Resolve(a, d, action, sent)
        PROVE  P
    <2>1. sent \in SUBSET Charges
      OBVIOUS
    <2>2. \E e \in Disputes, act \in Actions, s \in SUBSET Charges : Resolve(a, e, act, s)
      BY Zenon, <1>1, <2>1
    <2> QED BY Zenon, <2>2
  <1>2. ASSUME NEW a \in Actors, Work(a) \/ AgentFails(a) PROVE P
    BY Zenon, <1>2 DEF Work
  <1> QED BY Zenon, <1>1, <1>2 DEF Next, Actions

LEMMA DisputeTypesStep ==
  ASSUME DisputeTypes, [Next]_vars
  PROVE  DisputeTypes'
  <1>1. CASE UNCHANGED vars
    BY <1>1 DEF vars, money, DisputeTypes, ActorRefs
  <1>2. ASSUME NEW a \in Actors,
         \/ \E d \in Disputes : TakeResolution(a, d) \/ TakeReprompt(a, d)
         \/ RepromptEscalates(a) \/ Analyze(a) \/ AgentFails(a)
         \/ \E amount \in Charges, route \in Route : Decide(a, amount, route)
         \/ \E d \in Disputes, action \in Actions, sent \in SUBSET Charges : Resolve(a, d, action, sent)
        PROVE  DisputeTypes'
    BY Zenon, <1>2, WorkTypes, DisputeAssumption
  <1> QED BY Zenon, <1>1, <1>2, FileTypes, SettleTypes, StepsOfNext

-----------------------------------------------------------------------------
(* The order in which money is drawn.                                      *)

\* A settlement that left something for the card asked for everything that remained, and
\* what remains only shrinks: when it gets to the card, nothing does.
DrawnActor(a) ==
  LET o == actor[a] IN
  /\ o.step = "capture" /\ o.over > 0 => hold.remaining <= o.amount
  /\ o.step \in {"card", "fund", "refer"} => hold.remaining = 0
  /\ o.step = "refer" => fund = 0

DrawnInv == DrawnInOrder /\ \A a \in Actors : DrawnActor(a)

LEMMA DrawnBy ==
  ASSUME DisputeTypes, DisputeTypes', DrawnInv, NEW a \in Actors, ActorOnly(a), DrawnActor(a)',
         hold'.remaining <= hold.remaining, fund' <= fund,
         taken' # taken => hold'.remaining = 0,
         taken'.collections = taken.collections \/ fund' = 0
  PROVE  DrawnInv'
  <1>1. /\ hold.remaining \in Nat /\ hold'.remaining \in Nat /\ fund \in Nat /\ fund' \in Nat
        /\ taken \in [card : Nat, fund : Nat, collections : Nat] /\ taken' \in [card : Nat, fund : Nat, collections : Nat]
    BY DEF DisputeTypes, H!Allocation
  <1>2. \A b \in Actors : actor[b].over \in Nat /\ actor[b].amount \in Nat
    BY DEF DisputeTypes, ActorState
  <1>3. ASSUME NEW b \in Actors, b # a PROVE DrawnActor(b)'
    <2>1. DrawnActor(b) /\ actor'[b] = actor[b]
      BY <1>3 DEF DrawnInv, ActorOnly
    <2> QED BY <1>1, <1>2, <2>1 DEF DrawnActor
  <1>4. DrawnInOrder'
    BY <1>1 DEF DrawnInv, DrawnInOrder
  <1> QED BY <1>3, <1>4 DEF DrawnInv

LEMMA DrawnSettle ==
  ASSUME DisputeTypes, DisputeTypes', DrawnInv, NEW a \in Actors,
         Settle(a) \/ CardFails(a) \/ Crash(a)
  PROVE  DrawnInv'
  <1>0. /\ hold.remaining \in Nat /\ hold'.remaining \in Nat /\ fund \in Nat /\ fund' \in Nat
        /\ actor[a].amount \in Nat /\ actor[a].over \in Nat /\ DrawnActor(a)
    BY DEF DisputeTypes, H!Allocation, ActorState, DrawnInv
  <1>1. CASE SettleNothing(a)
    <2>1. DrawnActor(a)'
      BY <1>1, SettleNothingFacts DEF DrawnActor
    <2> QED BY <1>0, <1>1, <2>1, SettleNothingFacts, DrawnBy
  <1>2. CASE SettleReads(a)
    <2>1. DrawnActor(a)'
      BY <1>0, <1>2, SettleReadsFacts DEF DrawnActor
    <2> QED BY <1>0, <1>2, <2>1, SettleReadsFacts, DrawnBy
  <1>3. CASE Capture(a)
    <2>1. DrawnActor(a)'
      BY <1>0, <1>3, CaptureFacts DEF DrawnActor
    <2> QED BY <1>0, <1>3, <2>1, CaptureFacts, DrawnBy
  <1>4. CASE ChargeCard(a)
    <2>1. DrawnActor(a)' /\ hold.remaining = 0
      BY <1>0, <1>4, ChargeCardFacts DEF DrawnActor
    <2> QED BY <1>0, <1>4, <2>1, ChargeCardFacts, DrawnBy
  <1>5. CASE CardFails(a)
    <2>1. DrawnActor(a)' /\ hold.remaining = 0
      BY <1>0, <1>5, CardFailsFacts DEF DrawnActor
    <2> QED BY <1>0, <1>5, <2>1, CardFailsFacts, DrawnBy
  <1>6. CASE ClaimFund(a)
    <2>1. DrawnActor(a)' /\ hold.remaining = 0
      BY <1>0, <1>6, ClaimFundFacts DEF DrawnActor
    <2> QED BY <1>0, <1>6, <2>1, ClaimFundFacts, DrawnBy
  <1>7. CASE Refer(a)
    <2>1. DrawnActor(a)' /\ hold.remaining = 0 /\ fund = 0
      BY <1>0, <1>7, ReferFacts DEF DrawnActor
    <2> QED BY <1>0, <1>7, <2>1, ReferFacts, DrawnBy
  <1>8. CASE MarkSettled(a)
    <2>1. DrawnActor(a)'
      BY <1>8, MarkSettledFacts, IdleFacts DEF DrawnActor
    <2> QED BY <1>0, <1>8, <2>1, MarkSettledFacts, DrawnBy
  <1>9. CASE MarkAudited(a)
    <2>1. DrawnActor(a)'
      BY <1>9, MarkAuditedFacts, IdleFacts DEF DrawnActor
    <2> QED BY <1>0, <1>9, <2>1, MarkAuditedFacts, DrawnBy
  <1>10. CASE Refused(a) \/ Crash(a)
    <2>1. DrawnActor(a)'
      BY <1>10, GiveUpFacts, IdleFacts DEF DrawnActor
    <2> QED BY <1>0, <1>10, <2>1, GiveUpFacts, DrawnBy
  <1> QED BY Zenon, <1>1, <1>2, <1>3, <1>4, <1>5, <1>6, <1>7, <1>8, <1>9, <1>10 DEF Settle

\* What agents and reviewers do before a settlement draws on nothing.
LEMMA DrawnWork ==
  ASSUME DisputeTypes, DisputeTypes', DrawnInv, NEW a \in Actors,
         \/ \E d \in Disputes : TakeResolution(a, d) \/ TakeReprompt(a, d)
         \/ RepromptEscalates(a) \/ Analyze(a) \/ AgentFails(a)
         \/ \E amount \in Charges, route \in Route : Decide(a, amount, route)
         \/ \E d \in Disputes, action \in Actions, sent \in SUBSET Charges :
              Resolve(a, d, action, sent)
  PROVE  DrawnInv'
  <1> DEFINE DrawsNothing ==
               /\ UNCHANGED <<hold, fund, taken>> /\ ActorOnly(a)
               /\ \/ actor' = actor
                  \/ actor'[a].step \in {"idle", "reprompted", "gathering", "analyzing", "settle"}
  <1>1. DrawsNothing
    <2>1. ASSUME NEW d \in Disputes, TakeResolution(a, d) PROVE DrawsNothing
      BY <2>1, TakeResolutionFacts
    <2>2. ASSUME NEW d \in Disputes, TakeReprompt(a, d) PROVE DrawsNothing
      BY <2>2, TakeRepromptFacts
    <2>3. ASSUME NEW amount \in Charges, NEW route \in Route, Decide(a, amount, route) PROVE DrawsNothing
      BY <2>3, DecideFacts, IdleFacts, DisputeAssumption
    <2>4. ASSUME NEW d \in Disputes, NEW action \in Actions, NEW sent \in SUBSET Charges,
                 Resolve(a, d, action, sent)
          PROVE  DrawsNothing
      BY <2>4, ResolveFacts, DisputeAssumption
    <2>5. CASE RepromptEscalates(a) \/ AgentFails(a)
      BY <2>5, EscalateFacts, IdleFacts
    <2>6. CASE Analyze(a)
      BY <2>6, AnalyzeFacts
    <2> QED BY Zenon, <2>1, <2>2, <2>3, <2>4, <2>5, <2>6
  <1>2. DrawnActor(a)'
    BY <1>1 DEF DrawnActor, DrawnInv
  <1>3. hold'.remaining <= hold.remaining /\ fund' <= fund
    BY <1>1 DEF DisputeTypes, H!Allocation
  <1> QED BY <1>1, <1>2, <1>3, DrawnBy

LEMMA DrawnStep ==
  ASSUME DisputeTypes, DisputeTypes', DrawnInv, [Next]_vars
  PROVE  DrawnInv'
  <1>1. CASE UNCHANGED vars
    BY <1>1 DEF vars, money, DrawnInv, DrawnInOrder, DrawnActor
  <1>2. ASSUME NEW d \in Disputes, FileReads(d) \/ FileInserts(d) \/ RequestEvidence(d)
        PROVE  DrawnInv'
    <2>1. UNCHANGED <<hold, fund, taken, actor>>
      BY <1>2, FileFacts
    <2> QED BY <2>1 DEF DrawnInv, DrawnInOrder, DrawnActor
  <1> QED BY Zenon, <1>1, <1>2, DrawnSettle, DrawnWork, StepsOfNext

LEMMA DrawnInit == DisputeAssumption /\ Init => DrawnInv
  BY IdleFacts DEF Init, DrawnInv, DrawnInOrder, DrawnActor, DisputeAssumption

\* However many agents and reviewers settle at once, and wherever they are cut off and start
\* again, the card, the fund and collections are drawn on only when nothing is left of the
\* hold, and collections only when the fund is empty.
THEOREM HoldComesFirst == Spec => []DrawnInOrder
  <1>1. Init => DisputeTypes /\ DrawnInv
    BY DisputeAssumption, DisputeTypesInit, DrawnInit
  <1>2. DisputeTypes /\ DrawnInv /\ [Next]_vars => (DisputeTypes /\ DrawnInv)'
    BY DisputeTypesStep, DrawnStep
  <1>3. DrawnInv => DrawnInOrder
    BY DEF DrawnInv
  <1> QED BY <1>1, <1>2, <1>3, PTL DEF Spec

-----------------------------------------------------------------------------
(* A dispute that nothing has crossed.                                     *)

\* What the operation of a will have stored as the charge when it is done.
Target(a) ==
  IF actor[a].sent = {} THEN charge[actor[a].d] ELSE CHOOSE n \in actor[a].sent : TRUE

\* Where an operation is, its dispute is: an agent's dispute is not before a human, and a
\* reviewer's is.
StepStatus(o) ==
  IF o.job = "none" THEN "HUMAN_REVIEW"
  ELSE IF o.step = "reprompted" THEN "INCONCLUSIVE"
  ELSE IF o.step = "gathering" THEN "GATHERING"
  ELSE IF o.step = "audit" THEN "AUTO_RESOLVED" ELSE "ANALYZING"

\* Up to the capture nothing is drawn for the dispute of a; from there on, what is drawn and
\* what is left over make up the decision.
AtWork(a) ==
  LET o == actor[a] IN
  /\ status[o.d] = StepStatus(o)
  /\ o.job = "none" => o.route = "none" /\ o.step # "audit"
  /\ o.job # "none" => o.sent = {}
  /\ o.route = "AUTO_RESOLVE_AUDIT" => charge[o.d] > 0
  /\ o.step = "audit" => o.route = "AUTO_RESOLVE_AUDIT"
  /\ o.step \notin {"settle", "capture", "card", "fund", "refer", "mark", "audit"} =>
       drawn[o.d] = 0 /\ o.route = "none"
  /\ o.step \in {"settle", "capture"} => drawn[o.d] = 0
  /\ o.step = "settle" => o.amount = Target(a)
  /\ o.step = "capture" => o.amount + o.over = Target(a)
  /\ o.step \in {"card", "fund", "refer"} => drawn[o.d] + o.over = Target(a)
  /\ o.step \in {"mark", "audit"} => drawn[o.d] = Target(a)

\* Nobody is at work on d: what was decided is drawn, and a job that is queued for it finds
\* the status that this job is for.
AtRest(d) ==
  /\ drawn[d] = IF Settled(d) THEN charge[d] ELSE 0
  /\ <<"resolution", d>> \in jobs =>
       status[d] \in {"PENDING", "GATHERING", "ANALYZING"} /\ <<"reprompt", d>> \notin jobs
  /\ <<"reprompt", d>> \in jobs => status[d] = "INCONCLUSIVE"

\* One operation at a time, with no other queued, or none.
Book(d) ==
  /\ \A a \in Actors : actor[a].d = d =>
       /\ AtWork(a)
       /\ \A b \in Actors : actor[b].d = d => b = a
       /\ \A kind \in Kinds : <<kind, d>> \notin jobs
  /\ (\A a \in Actors : actor[a].d # d) => AtRest(d)

Books == \A d \in Disputes \ disturbed : Book(d)

\* A dispute that a step does not touch.
LEMMA BookElsewhere ==
  ASSUME DisputeTypes, NEW d \in Disputes, Book(d), NEW a \in Actors, ActorOnly(a),
         actor[a].d # d, actor'[a].d # d,
         status'[d] = status[d], charge'[d] = charge[d], drawn'[d] = drawn[d],
         \A kind \in Kinds : <<kind, d>> \in jobs' <=> <<kind, d>> \in jobs
  PROVE  Book(d)'
  <1>1. \A b \in Actors : actor'[b].d = d <=> actor[b].d = d
    BY DEF ActorOnly
  <1>2. ASSUME NEW b \in Actors, actor'[b].d = d
        PROVE  AtWork(b)' /\ \A kind \in Kinds : <<kind, d>> \notin jobs'
    <2>1. actor'[b] = actor[b] /\ actor[b].d = d
      BY <1>2 DEF ActorOnly
    <2>2. AtWork(b) /\ \A kind \in Kinds : <<kind, d>> \notin jobs
      BY <2>1 DEF Book
    <2>3. AtWork(b)'
      BY <2>1, <2>2 DEF AtWork, Target
    <2> QED BY <2>2, <2>3
  <1>3. ASSUME \A b \in Actors : actor'[b].d # d PROVE AtRest(d)'
    <2>1. AtRest(d)
      BY <1>1, <1>3 DEF Book
    <2> QED BY <2>1 DEF AtRest, Settled, Kinds
  <1> QED BY <1>1, <1>2, <1>3 DEF Book

\* a is at work on d, alone, and goes on or starts.
LEMMA BookGoesOn ==
  ASSUME NEW d \in Disputes, NEW a \in Actors, ActorOnly(a), actor'[a].d = d,
         \A b \in Actors : b # a => actor[b].d # d,
         \A kind \in Kinds : <<kind, d>> \notin jobs',
         AtWork(a)'
  PROVE  Book(d)'
  BY DEF Book, ActorOnly

\* a leaves d.
LEMMA BookStops ==
  ASSUME NEW d \in Disputes, Book(d), NEW a \in Actors, ActorOnly(a), actor[a].d = d,
         actor'[a] = Idle, AtRest(d)'
  PROVE  Book(d)'
  <1>1. Idle.d = "none" /\ "none" # d
    BY IdleFacts, DisputeAssumption
  <1>2. \A b \in Actors : actor'[b].d # d
    BY <1>1 DEF Book, ActorOnly
  <1> QED BY <1>2 DEF Book

\* The step of a, for all disputes: what has to be shown is the dispute it is about.
LEMMA BooksBy ==
  ASSUME DisputeTypes, Books, NEW a \in Actors, NEW d \in Disputes, ActorOnly(a),
         actor[a].d \in {d, "none"}, actor'[a].d \in {d, "none"},
         \A e \in Disputes : e # d =>
           /\ status'[e] = status[e] /\ charge'[e] = charge[e] /\ drawn'[e] = drawn[e]
           /\ \A kind \in Kinds : <<kind, e>> \in jobs' <=> <<kind, e>> \in jobs,
         disturbed \subseteq disturbed',
         d \notin disturbed' => Book(d)'
  PROVE  Books'
  <1>1. ASSUME NEW e \in Disputes, e \notin disturbed', e # d PROVE Book(e)'
    <2>1. Book(e) /\ actor[a].d # e /\ actor'[a].d # e
      BY <1>1, DisputeAssumption DEF Books
    <2> QED BY <1>1, <2>1, BookElsewhere
  <1> QED BY <1>1 DEF Books

\* What is known of an undisturbed dispute that a is at work on.
LEMMA AtWorkFacts ==
  ASSUME DisputeTypes, NEW d \in Disputes, Book(d), NEW a \in Actors, actor[a].d = d
  PROVE  /\ AtWork(a) /\ actor[a].step # "idle"
         /\ \A b \in Actors : b # a => actor[b].d # d
         /\ \A kind \in Kinds : <<kind, d>> \notin jobs
  BY DisputeAssumption DEF Book, DisputeTypes, ActorRefs

\* A settlement goes on.
LEMMA BooksGoOn ==
  ASSUME DisputeTypes, Books, NEW a \in Actors, ActorOnly(a),
         actor[a].step \in {"settle", "capture", "card", "fund", "refer"},
         UNCHANGED <<status, charge, jobs>>, disturbed \subseteq disturbed',
         actor'[a].d = actor[a].d, actor'[a].job = actor[a].job,
         actor'[a].route = actor[a].route, actor'[a].sent = actor[a].sent,
         \A e \in Disputes : e # actor[a].d => drawn'[e] = drawn[e],
         actor'[a].step \in {"capture", "card", "fund", "refer", "mark"},
         actor[a].d \notin disturbed' /\ AtWork(a) =>
           /\ actor'[a].step = "capture" =>
                drawn'[actor[a].d] = 0 /\ actor'[a].amount + actor'[a].over = Target(a)
           /\ actor'[a].step \in {"card", "fund", "refer"} =>
                drawn'[actor[a].d] + actor'[a].over = Target(a)
           /\ actor'[a].step = "mark" => drawn'[actor[a].d] = Target(a)
  PROVE  Books'
  <1>1. PICK d \in Disputes : d = actor[a].d
    BY DEF DisputeTypes, ActorRefs
  <1>2. ASSUME d \notin disturbed' PROVE Book(d)'
    <2>1. Book(d)
      BY <1>2 DEF Books
    <2>2. /\ AtWork(a) /\ \A b \in Actors : b # a => actor[b].d # d
          /\ \A kind \in Kinds : <<kind, d>> \notin jobs
      BY <1>1, <2>1, AtWorkFacts
    <2>3. Target(a)' = Target(a)
      BY DEF Target
    <2>4. StepStatus(actor'[a]) = StepStatus(actor[a])
      BY DEF StepStatus
    <2>5. AtWork(a)'
      BY <1>1, <1>2, <2>2, <2>3, <2>4 DEF AtWork
    <2> QED BY <1>1, <2>2, <2>5, BookGoesOn
  <1> QED BY <1>1, <1>2, BooksBy

\* The dispute of a is left, with a status and a charge that agree with what was drawn.
LEMMA BooksStop ==
  ASSUME DisputeTypes, Books, NEW a \in Actors, ActorOnly(a), NEW d \in Disputes, actor[a].d = d,
         actor'[a] = Idle, drawn' = drawn, disturbed \subseteq disturbed',
         \A e \in Disputes : e # d => status'[e] = status[e] /\ charge'[e] = charge[e],
         jobs' = jobs \/ \E kind \in Kinds : jobs' = jobs \cup {<<kind, d>>},
         d \notin disturbed' /\ AtWork(a) /\ (\A kind \in Kinds : <<kind, d>> \notin jobs) => AtRest(d)'
  PROVE  Books'
  <1>1. ASSUME d \notin disturbed' PROVE Book(d)'
    <2>1. Book(d)
      BY <1>1 DEF Books
    <2>2. AtRest(d)'
      BY <1>1, <2>1, AtWorkFacts
    <2> QED BY <2>1, <2>2, BookStops
  <1>2. actor'[a].d = "none"
    BY IdleFacts
  <1>3. \A e \in Disputes : e # d => \A kind \in Kinds : <<kind, e>> \in jobs' <=> <<kind, e>> \in jobs
    OBVIOUS
  <1> QED BY <1>1, <1>2, <1>3, BooksBy

LEMMA BooksSettle ==
  ASSUME DisputeTypes, DisputeTypes', Books, NEW a \in Actors,
         Settle(a) \/ CardFails(a) \/ Crash(a)
  PROVE  Books'
  <1>0. /\ ActorRefs(a) /\ actor[a].amount \in Nat /\ actor[a].over \in Nat
        /\ actor'[a].over \in Nat
        /\ drawn \in [Disputes -> Nat] /\ charge \in [Disputes -> Nat]
        /\ status \in [Disputes -> Status \cup {"none", "filing"}]
    BY DEF DisputeTypes, ActorState
  <1>d. actor[a].step # "idle" => actor[a].d \in Disputes
    BY <1>0 DEF ActorRefs
  <1>1. ASSUME SettleNothing(a) PROVE Books'
    <2>1. /\ actor[a].step = "settle" /\ actor[a].amount = 0 /\ actor'[a].step = "mark"
          /\ UNCHANGED <<status, charge, jobs, drawn, disturbed>> /\ ActorOnly(a)
          /\ actor'[a].d = actor[a].d /\ actor'[a].job = actor[a].job
          /\ actor'[a].route = actor[a].route /\ actor'[a].sent = actor[a].sent
      BY <1>1, SettleNothingFacts
    <2>2. AtWork(a) => drawn'[actor[a].d] = Target(a)
      BY <2>1 DEF AtWork
    <2> QED BY <2>1, <2>2, BooksGoOn
  <1>2. ASSUME SettleReads(a) PROVE Books'
    <2>1. /\ actor[a].step = "settle" /\ actor'[a].step \in {"capture", "card"}
          /\ UNCHANGED <<status, charge, jobs, drawn, disturbed>> /\ ActorOnly(a)
          /\ actor'[a].d = actor[a].d /\ actor'[a].job = actor[a].job
          /\ actor'[a].route = actor[a].route /\ actor'[a].sent = actor[a].sent
          /\ actor'[a].amount + actor'[a].over = actor[a].amount
          /\ actor'[a].step = "card" => actor'[a].amount = 0
      BY <1>2, SettleReadsFacts
    <2>2. AtWork(a) => drawn'[actor[a].d] = 0 /\ Target(a) = actor[a].amount
      BY <2>1 DEF AtWork
    <2>3. AtWork(a) /\ actor'[a].step = "card" => drawn'[actor[a].d] + actor'[a].over = Target(a)
      BY <1>0, <2>1, <2>2
    <2> QED BY <2>1, <2>2, <2>3, BooksGoOn
  <1>3. ASSUME Capture(a) PROVE Books'
    <2>1. /\ actor[a].step = "capture" /\ actor'[a].step = (IF actor[a].over > 0 THEN "card" ELSE "mark")
          /\ UNCHANGED <<status, charge, jobs, disturbed>> /\ ActorOnly(a)
          /\ actor'[a].d = actor[a].d /\ actor'[a].job = actor[a].job
          /\ actor'[a].route = actor[a].route /\ actor'[a].sent = actor[a].sent
          /\ actor'[a].over = actor[a].over /\ Draw(a, actor[a].amount)
      BY <1>3, CaptureFacts
    <2>2. AtWork(a) => drawn[actor[a].d] = 0 /\ actor[a].amount + actor[a].over = Target(a)
      BY <2>1 DEF AtWork
    <2>3. /\ drawn'[actor[a].d] = drawn[actor[a].d] + actor[a].amount
          /\ \A e \in Disputes : e # actor[a].d => drawn'[e] = drawn[e]
      BY <1>0, <1>d, <2>1, DrawFacts
    <2>4. AtWork(a) => /\ drawn'[actor[a].d] + actor'[a].over = Target(a)
                       /\ actor'[a].step = "mark" => drawn'[actor[a].d] = Target(a)
      BY <1>0, <2>1, <2>2, <2>3
    <2> QED BY <2>1, <2>3, <2>4, BooksGoOn
  <1>4. ASSUME ChargeCard(a) \/ Refer(a) PROVE Books'
    <2>1. /\ actor[a].step \in {"card", "refer"} /\ actor'[a].step = "mark"
          /\ UNCHANGED <<status, charge, jobs, disturbed>> /\ ActorOnly(a)
          /\ actor'[a].d = actor[a].d /\ actor'[a].job = actor[a].job
          /\ actor'[a].route = actor[a].route /\ actor'[a].sent = actor[a].sent
          /\ Draw(a, actor[a].over)
      BY <1>4, ChargeCardFacts, ReferFacts
    <2>2. AtWork(a) => drawn[actor[a].d] + actor[a].over = Target(a)
      BY <2>1 DEF AtWork
    <2>3. /\ drawn'[actor[a].d] = drawn[actor[a].d] + actor[a].over
          /\ \A e \in Disputes : e # actor[a].d => drawn'[e] = drawn[e]
      BY <1>0, <1>d, <2>1, DrawFacts
    <2> QED BY <2>1, <2>2, <2>3, BooksGoOn
  <1>5. ASSUME CardFails(a) PROVE Books'
    <2>1. /\ actor[a].step = "card" /\ actor'[a].step = "fund"
          /\ UNCHANGED <<status, charge, jobs>> /\ ActorOnly(a)
          /\ actor'[a].d = actor[a].d /\ actor'[a].job = actor[a].job
          /\ actor'[a].route = actor[a].route /\ actor'[a].sent = actor[a].sent
          /\ actor'[a].over = actor[a].over
      BY <1>5, CardFailsFacts
    <2>2. PICK made \in Nat : Draw(a, made) /\ Disturb(actor[a].d, made > 0)
      BY <1>5, CardFailsFacts
    <2>3. /\ drawn'[actor[a].d] = drawn[actor[a].d] + made /\ drawn[actor[a].d] \in Nat
          /\ \A e \in Disputes : e # actor[a].d => drawn'[e] = drawn[e]
      BY <1>0, <1>d, <2>1, <2>2, DrawFacts
    <2>4. /\ disturbed \subseteq disturbed'
          /\ actor[a].d \notin disturbed' => made = 0
      BY <2>2 DEF Disturb
    <2>5. actor[a].d \notin disturbed' /\ AtWork(a) => drawn'[actor[a].d] + actor'[a].over = Target(a)
      BY <2>1, <2>3, <2>4 DEF AtWork
    <2> QED BY <2>1, <2>3, <2>4, <2>5, BooksGoOn
  <1>6. ASSUME ClaimFund(a) PROVE Books'
    <2>1. /\ actor[a].step = "fund" /\ actor'[a].step \in {"refer", "mark"}
          /\ UNCHANGED <<status, charge, jobs, disturbed>> /\ ActorOnly(a)
          /\ actor'[a].d = actor[a].d /\ actor'[a].job = actor[a].job
          /\ actor'[a].route = actor[a].route /\ actor'[a].sent = actor[a].sent
          /\ actor'[a].step = "mark" => actor'[a].over = 0
      BY <1>6, ClaimFundFacts
    <2>2. PICK n \in Nat : Draw(a, n) /\ n + actor'[a].over = actor[a].over
      BY <1>6, ClaimFundFacts
    <2>3. /\ drawn'[actor[a].d] = drawn[actor[a].d] + n /\ drawn[actor[a].d] \in Nat
          /\ \A e \in Disputes : e # actor[a].d => drawn'[e] = drawn[e]
      BY <1>0, <1>d, <2>1, <2>2, DrawFacts
    <2>4. AtWork(a) => drawn[actor[a].d] + actor[a].over = Target(a)
      BY <2>1 DEF AtWork
    <2>5. AtWork(a) => drawn'[actor[a].d] + actor'[a].over = Target(a)
      BY <1>0, <2>2, <2>3, <2>4
    <2>6. AtWork(a) /\ actor'[a].step = "mark" => drawn'[actor[a].d] = Target(a)
      BY <1>0, <2>1, <2>2, <2>3, <2>4
    <2> QED BY <2>1, <2>3, <2>5, <2>6, BooksGoOn
  <1>7. ASSUME MarkSettled(a) PROVE Books'
    <2>1. /\ actor[a].step = "mark" /\ ActorOnly(a) /\ UNCHANGED <<jobs, drawn, disturbed>>
          /\ Mark(actor[a].d, IF ByAgent(a) THEN "AUTO_RESOLVED" ELSE "RESOLVED")
          /\ charge' = [charge EXCEPT ![actor[a].d] = Target(a)]
          /\ \/ actor'[a] = Idle
             \/ /\ actor'[a].step = "audit" /\ actor'[a].d = actor[a].d /\ actor'[a].job = actor[a].job
                /\ actor'[a].sent = actor[a].sent /\ actor'[a].route = "AUTO_RESOLVE_AUDIT"
                /\ actor[a].route = "AUTO_RESOLVE_AUDIT"
      BY <1>7, MarkSettledFacts DEF Target
    <2>2. PICK d \in Disputes : d = actor[a].d
      BY <1>d, <2>1
    <2>3. /\ status'[d] = (IF ByAgent(a) THEN "AUTO_RESOLVED" ELSE "RESOLVED") /\ charge'[d] = Target(a)
          /\ \A e \in Disputes : e # d => status'[e] = status[e] /\ charge'[e] = charge[e]
      BY <1>0, <2>1, <2>2 DEF Mark
    <2>4. CASE actor'[a] = Idle
      <3>1. ASSUME AtWork(a), \A kind \in Kinds : <<kind, d>> \notin jobs PROVE AtRest(d)'
        <4>1. drawn'[d] = charge'[d]
          BY <2>1, <2>2, <2>3, <3>1 DEF AtWork
        <4>2. <<"resolution", d>> \notin jobs' /\ <<"reprompt", d>> \notin jobs'
          BY <2>1, <3>1 DEF Kinds
        <4> QED BY <2>3, <4>1, <4>2 DEF AtRest, Settled, Closed
      <3> QED BY <2>1, <2>2, <2>3, <2>4, <3>1, BooksStop
    <2>5. CASE /\ actor'[a].step = "audit" /\ actor'[a].d = actor[a].d /\ actor'[a].job = actor[a].job
               /\ actor'[a].sent = actor[a].sent /\ actor'[a].route = "AUTO_RESOLVE_AUDIT"
               /\ actor[a].route = "AUTO_RESOLVE_AUDIT"
      <3>1. ASSUME d \notin disturbed' PROVE Book(d)'
        <4>1. Book(d)
          BY <2>1, <3>1 DEF Books
        <4>2. /\ AtWork(a) /\ \A b \in Actors : b # a => actor[b].d # d
              /\ \A kind \in Kinds : <<kind, d>> \notin jobs
          BY <2>2, <4>1, AtWorkFacts
        <4>3. actor[a].job # "none" /\ actor[a].sent = {} /\ drawn[d] = Target(a) /\ charge[d] > 0
          BY <2>1, <2>2, <2>5, <4>2 DEF AtWork
        <4>4. Target(a) = charge[d] /\ Target(a)' = charge'[d]
          BY <2>2, <2>5, <4>3 DEF Target
        <4>5. status'[d] = StepStatus(actor'[a])
          BY <2>3, <2>5, <4>3 DEF StepStatus, ByAgent
        <4>6. AtWork(a)'
          BY <2>1, <2>2, <2>3, <2>5, <4>3, <4>4, <4>5 DEF AtWork
        <4> QED BY <2>1, <2>2, <2>5, <4>2, <4>6, BookGoesOn
      <3> QED BY <2>1, <2>2, <2>3, <2>5, <3>1, BooksBy
    <2> QED BY <2>1, <2>4, <2>5
  <1>8. ASSUME MarkAudited(a) PROVE Books'
    <2>1. /\ actor[a].step = "audit" /\ ActorOnly(a) /\ UNCHANGED <<charge, jobs, drawn, disturbed>>
          /\ actor'[a] = Idle /\ Mark(actor[a].d, "AUDIT_QUEUED")
      BY <1>8, MarkAuditedFacts
    <2>2. PICK d \in Disputes : d = actor[a].d
      BY <1>d, <2>1
    <2>3. status'[d] = "AUDIT_QUEUED" /\ \A e \in Disputes : e # d => status'[e] = status[e]
      BY <1>0, <2>1, <2>2 DEF Mark
    <2>4. ASSUME AtWork(a), \A kind \in Kinds : <<kind, d>> \notin jobs PROVE AtRest(d)'
      <3>1. drawn'[d] = charge'[d]
        BY <2>1, <2>2, <2>4 DEF AtWork, Target
      <3>2. <<"resolution", d>> \notin jobs' /\ <<"reprompt", d>> \notin jobs'
        BY <2>1, <2>4 DEF Kinds
      <3> QED BY <2>3, <3>1, <3>2 DEF AtRest, Settled, Closed
    <2> QED BY <2>1, <2>2, <2>3, <2>4, BooksStop
  <1>9. ASSUME Refused(a) \/ Crash(a) PROVE Books'
    <2>1. /\ ActorOnly(a) /\ actor'[a] = Idle /\ UNCHANGED <<status, charge, drawn>>
          /\ actor[a].step # "idle"
          /\ jobs' = IF ByAgent(a) THEN jobs \cup {<<actor[a].job, actor[a].d>>} ELSE jobs
          /\ Disturb(actor[a].d, drawn[actor[a].d] > 0)
      BY <1>9, GiveUpFacts
    <2>2. PICK d \in Disputes : d = actor[a].d
      BY <1>d, <2>1
    <2>3. /\ disturbed \subseteq disturbed' /\ drawn[d] \in Nat
          /\ d \notin disturbed' => drawn[d] = 0
      BY <1>0, <2>1, <2>2 DEF Disturb
    <2>4. actor[a].job \in Kinds \cup {"none"}
      BY DEF DisputeTypes, ActorState
    <2>5. ASSUME AtWork(a), d \notin disturbed', \A kind \in Kinds : <<kind, d>> \notin jobs
          PROVE  AtRest(d)'
      <3>1. actor[a].step # "audit"
        <4>1. CASE actor[a].step = "audit"
          <5>1. /\ status[d] = StepStatus(actor[a]) /\ drawn[d] = charge[d]
                /\ actor[a].job # "none"
            BY <2>2, <2>5, <4>1 DEF AtWork, Target
          <5>2. drawn[d] = 0
            BY <2>3, <2>5
          <5> QED BY <1>0, <2>2, <2>5, <4>1, <5>1, <5>2 DEF AtWork
        <4> QED BY <4>1
      <3>2. /\ status'[d] = StepStatus(actor[a])
            /\ StepStatus(actor[a]) \in {"HUMAN_REVIEW", "INCONCLUSIVE", "GATHERING", "ANALYZING"}
            /\ actor[a].job = "none" => StepStatus(actor[a]) = "HUMAN_REVIEW"
            /\ actor[a].job = "resolution" => StepStatus(actor[a]) \in {"GATHERING", "ANALYZING"}
            /\ actor[a].job = "reprompt" => StepStatus(actor[a]) = "INCONCLUSIVE"
        BY <1>0, <2>1, <2>2, <2>5, <3>1 DEF AtWork, StepStatus, ActorRefs, DisputeTypes, ActorState,
          Steps, SettlementSteps
      <3>3. drawn'[d] = 0 /\ ~ Settled(d)'
        BY <2>1, <2>3, <2>5, <3>2 DEF Settled, Closed
      <3>4. \A kind \in Kinds : <<kind, d>> \in jobs' => actor[a].job = kind
        BY <2>1, <2>2, <2>5
      <3> QED BY <3>2, <3>3, <3>4 DEF AtRest, Kinds
    <2>6. jobs' = jobs \/ \E kind \in Kinds : jobs' = jobs \cup {<<kind, d>>}
      BY <2>1, <2>2, <2>4 DEF ByAgent
    <2> QED BY <2>1, <2>2, <2>3, <2>5, <2>6, BooksStop
  <1> QED BY Zenon, <1>1, <1>2, <1>3, <1>4, <1>5, <1>6, <1>7, <1>8, <1>9 DEF Settle

LEMMA BooksWork ==
  ASSUME DisputeTypes, DisputeTypes', Books, NEW a \in Actors,
         \/ \E d \in Disputes : TakeResolution(a, d) \/ TakeReprompt(a, d)
         \/ RepromptEscalates(a) \/ Analyze(a) \/ AgentFails(a)
         \/ \E amount \in Charges, route \in Route : Decide(a, amount, route)
         \/ \E d \in Disputes, action \in Actions, sent \in {{}} \cup {{c} : c \in Charges} :
              Resolve(a, d, action, sent)
  PROVE  Books'
  <1>0. /\ ActorRefs(a) /\ drawn \in [Disputes -> Nat] /\ charge \in [Disputes -> Nat]
        /\ status \in [Disputes -> Status \cup {"none", "filing"}] /\ "none" \notin Disputes
    BY DisputeAssumption DEF DisputeTypes
  <1>1. ASSUME NEW d \in Disputes, TakeResolution(a, d) PROVE Books'
    <2>1. /\ actor[a].step = "idle" /\ <<"resolution", d>> \in jobs
          /\ jobs' = jobs \ {<<"resolution", d>>} /\ UNCHANGED <<charge, drawn, disturbed>>
          /\ ActorOnly(a) /\ actor'[a].step = "gathering" /\ actor'[a].d = d
          /\ actor'[a].job = "resolution" /\ actor'[a].route = "none"
          /\ actor'[a].sent = {} /\ Mark(d, "GATHERING")
      BY <1>1, TakeResolutionFacts
    <2>2. status'[d] = "GATHERING" /\ \A e \in Disputes : e # d => status'[e] = status[e]
      BY <1>0, <2>1 DEF Mark
    <2>3. ASSUME d \notin disturbed' PROVE Book(d)'
      <3>1. \A b \in Actors : actor[b].d # d
        BY <2>1, <2>3 DEF Books, Book, Kinds
      <3>2. AtRest(d)
        BY <2>1, <2>3, <3>1 DEF Books, Book
      <3>3. drawn[d] = 0 /\ \A kind \in Kinds : <<kind, d>> \notin jobs'
        BY <2>1, <3>2 DEF AtRest, Settled, Closed, Kinds
      <3>4. AtWork(a)'
        BY <2>1, <2>2, <3>3 DEF AtWork, StepStatus
      <3> QED BY <2>1, <3>1, <3>3, <3>4, BookGoesOn
    <2>4. actor[a].d = "none"
      BY <1>0, <2>1 DEF ActorRefs
    <2> QED BY <2>1, <2>2, <2>3, <2>4, BooksBy
  <1>2. ASSUME NEW d \in Disputes, TakeReprompt(a, d) PROVE Books'
    <2>1. /\ actor[a].step = "idle" /\ <<"reprompt", d>> \in jobs
          /\ jobs' = jobs \ {<<"reprompt", d>>} /\ UNCHANGED <<status, charge, drawn, disturbed>>
          /\ ActorOnly(a)
          /\ \/ actor' = actor
             \/ /\ actor'[a].step = "reprompted" /\ actor'[a].d = d
                /\ actor'[a].job = "reprompt" /\ actor'[a].sent = {} /\ actor'[a].route = "none"
      BY <1>2, TakeRepromptFacts
    <2>2. actor[a].d = "none"
      BY <1>0, <2>1 DEF ActorRefs
    <2>3. ASSUME d \notin disturbed' PROVE Book(d)'
      <3>1. \A b \in Actors : actor[b].d # d
        BY <2>1, <2>3 DEF Books, Book, Kinds
      <3>2. AtRest(d)
        BY <2>1, <2>3, <3>1 DEF Books, Book
      <3>3. /\ drawn[d] = 0 /\ status[d] = "INCONCLUSIVE"
            /\ \A kind \in Kinds : <<kind, d>> \notin jobs'
        BY <2>1, <3>2 DEF AtRest, Settled, Closed, Kinds
      <3>4. CASE actor' = actor
        <4>1. AtRest(d)'
          BY <2>1, <3>2, <3>3 DEF AtRest, Settled, Kinds
        <4> QED BY <3>1, <3>4, <4>1 DEF Book
      <3>5. CASE /\ actor'[a].step = "reprompted" /\ actor'[a].d = d
                 /\ actor'[a].job = "reprompt" /\ actor'[a].sent = {} /\ actor'[a].route = "none"
        <4>1. AtWork(a)'
          BY <2>1, <3>3, <3>5 DEF AtWork, StepStatus
        <4> QED BY <2>1, <3>1, <3>3, <3>5, <4>1, BookGoesOn
      <3> QED BY <2>1, <3>4, <3>5
    <2>4. actor'[a].d \in {d, "none"}
      BY <2>1, <2>2
    <2> QED BY <2>1, <2>2, <2>3, <2>4, BooksBy
  <1>3. ASSUME RepromptEscalates(a) \/ AgentFails(a) PROVE Books'
    <2>1. /\ actor[a].step \in {"reprompted", "analyzing"} /\ UNCHANGED <<charge, jobs, drawn, disturbed>>
          /\ ActorOnly(a) /\ actor'[a] = Idle /\ Mark(actor[a].d, "HUMAN_REVIEW")
      BY <1>3, EscalateFacts
    <2>2. PICK d \in Disputes : d = actor[a].d
      BY <1>0, <2>1 DEF ActorRefs
    <2>3. status'[d] = "HUMAN_REVIEW" /\ \A e \in Disputes : e # d => status'[e] = status[e]
      BY <1>0, <2>1, <2>2 DEF Mark
    <2>4. ASSUME AtWork(a), \A kind \in Kinds : <<kind, d>> \notin jobs PROVE AtRest(d)'
      <3>1. drawn'[d] = 0 /\ \A kind \in Kinds : <<kind, d>> \notin jobs'
        BY <2>1, <2>2, <2>4 DEF AtWork
      <3> QED BY <2>3, <3>1 DEF AtRest, Settled, Closed, Kinds
    <2> QED BY <2>1, <2>2, <2>3, <2>4, BooksStop
  <1>4. ASSUME Analyze(a) PROVE Books'
    <2>1. /\ actor[a].step = "gathering" /\ UNCHANGED <<charge, jobs, drawn, disturbed>> /\ ActorOnly(a)
          /\ actor'[a].step = "analyzing" /\ actor'[a].d = actor[a].d /\ actor'[a].job = actor[a].job
          /\ actor'[a].sent = actor[a].sent /\ actor'[a].route = actor[a].route
          /\ Mark(actor[a].d, "ANALYZING")
      BY <1>4, AnalyzeFacts
    <2>2. PICK d \in Disputes : d = actor[a].d
      BY <1>0, <2>1 DEF ActorRefs
    <2>3. status'[d] = "ANALYZING" /\ \A e \in Disputes : e # d => status'[e] = status[e]
      BY <1>0, <2>1, <2>2 DEF Mark
    <2>4. ASSUME d \notin disturbed' PROVE Book(d)'
      <3>1. Book(d)
        BY <2>1, <2>4 DEF Books
      <3>2. /\ AtWork(a) /\ \A b \in Actors : b # a => actor[b].d # d
            /\ \A kind \in Kinds : <<kind, d>> \notin jobs
        BY <2>2, <3>1, AtWorkFacts
      <3>3. actor[a].job = "resolution"
        BY <1>0, <2>1 DEF ActorRefs
      <3>4. AtWork(a)'
        BY <2>1, <2>2, <2>3, <3>2, <3>3 DEF AtWork, StepStatus
      <3> QED BY <2>1, <2>2, <3>2, <3>4, BookGoesOn
    <2> QED BY <2>1, <2>2, <2>3, <2>4, BooksBy
  <1>5. ASSUME NEW amount \in Charges, NEW route \in Route, Decide(a, amount, route) PROVE Books'
    <2>1. /\ actor[a].step = "analyzing" /\ UNCHANGED <<jobs, drawn, disturbed>> /\ ActorOnly(a)
          /\ charge' = [charge EXCEPT ![actor[a].d] = amount]
          /\ \/ Mark(actor[a].d, "HUMAN_REVIEW") /\ actor'[a] = Idle
             \/ /\ UNCHANGED status /\ actor'[a].step = "settle" /\ actor'[a].d = actor[a].d
                /\ actor'[a].amount = amount /\ actor'[a].sent = actor[a].sent
                /\ actor'[a].job = actor[a].job /\ actor'[a].route = route
          /\ route = "AUTO_RESOLVE_AUDIT" => amount > 0
      BY <1>5, DecideFacts, DisputeAssumption
    <2>2. PICK d \in Disputes : d = actor[a].d
      BY <1>0, <2>1 DEF ActorRefs
    <2>3. charge'[d] = amount /\ \A e \in Disputes : e # d => charge'[e] = charge[e]
      BY <1>0, <2>1, <2>2
    <2>4. actor[a].job = "resolution"
      BY <1>0, <2>1 DEF ActorRefs
    <2>5. CASE Mark(actor[a].d, "HUMAN_REVIEW") /\ actor'[a] = Idle
      <3>1. status'[d] = "HUMAN_REVIEW" /\ \A e \in Disputes : e # d => status'[e] = status[e]
        BY <1>0, <2>2, <2>5 DEF Mark
      <3>2. ASSUME AtWork(a), \A kind \in Kinds : <<kind, d>> \notin jobs PROVE AtRest(d)'
        <4>1. drawn'[d] = 0 /\ \A kind \in Kinds : <<kind, d>> \notin jobs'
          BY <2>1, <2>2, <3>2 DEF AtWork
        <4> QED BY <3>1, <4>1 DEF AtRest, Settled, Closed, Kinds
      <3> QED BY <2>1, <2>2, <2>3, <2>5, <3>1, <3>2, BooksStop
    <2>6. CASE /\ UNCHANGED status /\ actor'[a].step = "settle" /\ actor'[a].d = actor[a].d
               /\ actor'[a].amount = amount /\ actor'[a].sent = actor[a].sent
               /\ actor'[a].job = actor[a].job /\ actor'[a].route = route
      <3>1. ASSUME d \notin disturbed' PROVE Book(d)'
        <4>1. Book(d)
          BY <2>1, <3>1 DEF Books
        <4>2. /\ AtWork(a) /\ \A b \in Actors : b # a => actor[b].d # d
              /\ \A kind \in Kinds : <<kind, d>> \notin jobs
          BY <2>2, <4>1, AtWorkFacts
        <4>3. /\ drawn[d] = 0 /\ actor[a].sent = {} /\ status[d] = StepStatus(actor[a])
          BY <2>1, <2>2, <2>4, <4>2 DEF AtWork
        <4>4. Target(a)' = amount
          BY <2>2, <2>3, <2>6, <4>3 DEF Target
        <4>5. status'[d] = StepStatus(actor'[a])
          BY <2>1, <2>4, <2>6, <4>3 DEF StepStatus
        <4>6. AtWork(a)'
          BY <2>1, <2>2, <2>3, <2>4, <2>6, <4>3, <4>4, <4>5 DEF AtWork
        <4> QED BY <2>1, <2>2, <2>6, <4>2, <4>6, BookGoesOn
      <3> QED BY <2>1, <2>2, <2>3, <2>6, <3>1, BooksBy
    <2> QED BY <2>1, <2>5, <2>6
  <1>6. ASSUME NEW d \in Disputes, NEW action \in Actions,
               NEW sent \in {{}} \cup {{c} : c \in Charges}, Resolve(a, d, action, sent)
        PROVE  Books'
    <2>0. sent \in SUBSET Charges
      OBVIOUS
    <2>1. /\ actor[a].step = "idle" /\ status[d] = "HUMAN_REVIEW"
          /\ UNCHANGED <<status, charge, jobs, drawn>> /\ ActorOnly(a)
          /\ actor'[a].step = "settle" /\ actor'[a].d = d /\ actor'[a].job = "none"
          /\ actor'[a].route = "none" /\ actor'[a].sent = sent
          /\ IF action = "OVERRIDE" /\ sent # {} THEN actor'[a].amount \in sent
             ELSE actor'[a].amount = charge[d]
          /\ disturbed \subseteq disturbed'
          /\ d \notin disturbed' =>
               Busy(d) = {} /\ (action = "APPROVE" => sent \in {{}, {charge[d]}})
      BY <1>6, <2>0, ResolveFacts, DisputeAssumption
    <2>2. actor[a].d = "none"
      BY <1>0, <2>1 DEF ActorRefs
    <2>3. ASSUME d \notin disturbed' PROVE Book(d)'
      <3>1. \A b \in Actors : actor[b].d # d
        BY <2>1, <2>3 DEF Busy
      <3>2. AtRest(d)
        BY <2>1, <2>3, <3>1 DEF Books, Book
      <3>3. drawn[d] = 0 /\ \A kind \in Kinds : <<kind, d>> \notin jobs'
        BY <2>1, <3>2 DEF AtRest, Settled, Closed, Kinds
      <3>4. actor'[a].amount = Target(a)'
        <4>1. CASE sent = {}
          BY <2>1, <4>1 DEF Target
        <4>2. CASE sent # {}
          <5>1. PICK c : sent = {c}
            BY <4>2
          <5>2. actor'[a].amount = c
            BY <2>1, <2>3, <4>2, <5>1 DEF Actions
          <5>3. (CHOOSE n \in sent : TRUE) = c
            BY <5>1
          <5> QED BY <2>1, <4>2, <5>2, <5>3 DEF Target
        <4> QED BY <4>1, <4>2
      <3>5. AtWork(a)'
        BY <2>1, <3>3, <3>4 DEF AtWork, StepStatus
      <3> QED BY <2>1, <3>1, <3>3, <3>5, BookGoesOn
    <2> QED BY <2>1, <2>2, <2>3, BooksBy
  <1> QED BY Zenon, <1>1, <1>2, <1>3, <1>4, <1>5, <1>6

LEMMA BooksFile ==
  ASSUME DisputeTypes, Books, NEW d \in Disputes,
         FileReads(d) \/ FileInserts(d) \/ RequestEvidence(d)
  PROVE  Books'
  <1>1. /\ UNCHANGED <<charge, drawn, actor>> /\ disturbed \subseteq disturbed'
        /\ \/ status[d] = "none" /\ Mark(d, "filing") /\ jobs' = jobs
           \/ /\ status[d] = "filing" /\ Mark(d, "PENDING")
              /\ jobs' = jobs \/ jobs' = jobs \cup {<<"resolution", d>>}
           \/ /\ Mark(d, "INCONCLUSIVE")
              /\ jobs' = jobs \/ jobs' = jobs \cup {<<"reprompt", d>>}
              /\ d \notin disturbed' =>
                   Busy(d) = {} /\ <<"resolution", d>> \notin jobs /\ ~ drawn[d] > 0
    BY FileFacts
  <1>2. /\ \A e \in Disputes : e # d =>
             status'[e] = status[e] /\ \A kind \in Kinds : <<kind, e>> \in jobs' <=> <<kind, e>> \in jobs
        /\ drawn[d] \in Nat
    BY <1>1 DEF Mark, DisputeTypes
  <1>3. ASSUME NEW e \in Disputes, e \notin disturbed', e # d PROVE Book(e)'
    <2>1. Book(e)
      BY <1>1, <1>3 DEF Books
    <2>2. ASSUME NEW a \in Actors, actor'[a].d = e
          PROVE  /\ AtWork(a)' /\ \A b \in Actors : actor'[b].d = e => b = a
                 /\ \A kind \in Kinds : <<kind, e>> \notin jobs'
      <3>1. /\ AtWork(a) /\ \A b \in Actors : actor[b].d = e => b = a
            /\ \A kind \in Kinds : <<kind, e>> \notin jobs
        BY <1>1, <2>1, <2>2 DEF Book
      <3> QED BY <1>1, <1>2, <1>3, <2>2, <3>1 DEF AtWork, Target
    <2>3. ASSUME \A a \in Actors : actor'[a].d # e PROVE AtRest(e)'
      BY <1>1, <1>2, <1>3, <2>1, <2>3 DEF Book, AtRest, Settled, Kinds
    <2> QED BY <2>2, <2>3 DEF Book
  <1>4. ASSUME d \notin disturbed' PROVE Book(d)'
    <2>1. Book(d)
      BY <1>1, <1>4 DEF Books
    <2>2. \A a \in Actors : actor[a].d # d
      <3>1. CASE status[d] \in {"none", "filing"}
        BY <2>1, <3>1 DEF Book, AtWork, StepStatus
      <3>2. CASE Busy(d) = {}
        BY <3>2 DEF Busy
      <3> QED BY <1>1, <1>4, <3>1, <3>2
    <2>3. AtRest(d)
      BY <2>1, <2>2 DEF Book
    <2>4. AtRest(d)'
      <3>1. CASE status[d] \in {"none", "filing"} /\ status'[d] \in {"filing", "PENDING"}
                 /\ (jobs' = jobs \/ (status'[d] = "PENDING" /\ jobs' = jobs \cup {<<"resolution", d>>}))
        BY <1>1, <2>3, <3>1 DEF AtRest, Settled, Closed
      <3>2. CASE /\ status'[d] = "INCONCLUSIVE" /\ <<"resolution", d>> \notin jobs
                 /\ drawn[d] = 0 /\ (jobs' = jobs \/ jobs' = jobs \cup {<<"reprompt", d>>})
        BY <1>1, <3>2 DEF AtRest, Settled, Closed
      <3> QED BY <1>1, <1>2, <1>4, <3>1, <3>2 DEF Mark, DisputeTypes
    <2> QED BY <1>1, <2>2, <2>4 DEF Book
  <1> QED BY <1>3, <1>4 DEF Books

LEMMA BooksStep ==
  ASSUME DisputeTypes, DisputeTypes', Books, [Next]_vars
  PROVE  Books'
  <1>1. ASSUME NEW a \in Actors, Work(a) \/ AgentFails(a) PROVE Books'
    BY Zenon, <1>1, BooksWork DEF Work
  <1>2. ASSUME NEW a \in Actors, NEW d \in Disputes, NEW action \in Actions,
               NEW sent \in {{}} \cup {{c} : c \in Charges}, Resolve(a, d, action, sent)
        PROVE  Books'
    BY Zenon, <1>2, BooksWork
  <1>3. CASE UNCHANGED vars
    <2>0. UNCHANGED <<status, charge, jobs, drawn, actor, disturbed>>
      BY <1>3 DEF vars, money
    <2>1. ASSUME NEW a \in Actors, AtWork(a) PROVE AtWork(a)'
      BY <2>0, <2>1 DEF AtWork, Target
    <2>2. ASSUME NEW d \in Disputes, AtRest(d) PROVE AtRest(d)'
      BY <2>0, <2>2 DEF AtRest, Settled
    <2> QED BY <2>0, <2>1, <2>2 DEF Books, Book
  <1> QED BY Zenon, <1>1, <1>2, <1>3, BooksFile, BooksSettle DEF Next, Actions

LEMMA BooksInit == Init => Books
  <1> SUFFICES ASSUME Init PROVE Books
    OBVIOUS
  <1>1. \A a \in Actors, d \in Disputes : actor[a].d # d
    BY IdleFacts, DisputeAssumption DEF Init
  <1> QED BY <1>1 DEF Init, Books, Book, AtRest, Settled, Closed

LEMMA BooksAlways == Spec => [](DisputeTypes /\ Books)
  <1>1. Init => DisputeTypes /\ Books
    BY DisputeAssumption, DisputeTypesInit, BooksInit
  <1>2. DisputeTypes /\ Books /\ [Next]_vars => (DisputeTypes /\ Books)'
    BY DisputeTypesStep, BooksStep
  <1> QED BY <1>1, <1>2, PTL DEF Spec

\* For any number of workers, reviewers and disputes: no agent moves money for a dispute that
\* waits for a human, unless something crossed the work on that dispute.
THEOREM HumanGoesFirst == Spec => HumanDecidesFirst
  <1>1. Books =>
          [\A a \in Actors, d \in Disputes \ disturbed :
             status[d] = "HUMAN_REVIEW" /\ actor[a].d = d /\ ByAgent(a) => UNCHANGED money]_vars
    <2> SUFFICES ASSUME Books, NEW a \in Actors, NEW d \in Disputes \ disturbed,
                        status[d] = "HUMAN_REVIEW", actor[a].d = d, ByAgent(a)
                 PROVE  FALSE
      OBVIOUS
    <2> QED BY DEF Books, Book, AtWork, StepStatus, ByAgent
  <1> QED BY <1>1, BooksAlways, PTL DEF Spec, HumanDecidesFirst

\* For any number of workers, reviewers and disputes, any amounts and any balance of the fund,
\* the empty one included: when nobody is at work on a dispute that nothing has crossed, what
\* was drawn for it is what was decided if it is settled, and nothing if it is not.
THEOREM ChargesAreExact == Spec => []ChargedAsDecided
  <1>1. Books => ChargedAsDecided
    BY DEF Books, Book, AtRest, ChargedAsDecided, Busy
  <1> QED BY <1>1, BooksAlways, PTL

=============================================================================
