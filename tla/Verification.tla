---------------------------- MODULE Verification ----------------------------
(***************************************************************************)
(* Package agent/verification for one user: StartVerification, the three   *)
(* Stripe Identity webhooks with the language model's interpretation of    *)
(* unclear cases, and the timeout job that replaces a stalled session.     *)
(*                                                                         *)
(* Nothing is locked and no two statements share a transaction.  Stripe    *)
(* delivers an event until it is answered with success, so an event may    *)
(* be handled again, late, or by two handlers at once.                     *)
(***************************************************************************)
EXTENDS Naturals, Sequences, FiniteSets

CONSTANTS
  Handlers,     \* webhook requests in flight at once
  Starters,     \* StartVerification requests in flight at once
  MaxRetries,   \* maxVerificationRetries: new sessions before a human looks
  MaxStarts,    \* bound on the sessions the user starts
  MaxEvents,    \* bound on what Stripe has to say
  MaxDeliveries, \* bound on how often it says it
  Faults,       \* which failures may happen
  MaxFaults     \* how many of them in all

VerificationAssumption ==
  /\ IsFiniteSet(Starters)
  /\ MaxRetries \in Nat /\ MaxStarts \in Nat /\ MaxDeliveries \in Nat /\ MaxFaults \in Nat

VARIABLES
  attempts,  \* verification_attempts by created_at; the n-th has Stripe session n
  identity,  \* users.identity_status
  bonus,     \* how often the KYC bonus of 50 points was added
  events,    \* <<session, kind>>: what Stripe keeps delivering
  deliveries, \* webhook requests so far
  jobs,      \* sessions with a queued timeout job
  handler,   \* handler[h]: a webhook request under way
  starter,   \* starter[s]: a StartVerification request under way
  timeout,   \* the timeout job under way
  faults,    \* failures so far
  upgrades,  \* history: how often identity changed to VERIFIED
  overlapped \* history: two webhooks were handled at once, or one was cut short

actors == <<handler, starter, timeout>>
history == <<upgrades, overlapped>>
vars == <<attempts, identity, bonus, events, deliveries, jobs, actors, faults, history>>

VerificationStatus == {"PENDING", "VERIFIED", "REJECTED", "ESCALATED", "CANCELED"}
IdentityStatus == {"PENDING", "VERIFIED", "REJECTED"}
EventKind == {"verified", "fraudulent", "unclear", "canceled"}
\* Every session the user starts has room for all its retries.
MaxAttempts == MaxStarts * (MaxRetries + 1)
Sessions == 1 .. MaxAttempts

IdleHandler == [step |-> "idle", session |-> 0, status |-> "PENDING", prev |-> "PENDING"]
IdleJob == [step |-> "idle", session |-> 0, next |-> 0]

TypeOK ==
  /\ attempts \in Seq([status : VerificationStatus, retries : 0 .. MaxRetries])
  /\ Len(attempts) <= MaxAttempts
  /\ identity \in IdentityStatus
  /\ bonus \in Nat /\ upgrades \in Nat /\ overlapped \in BOOLEAN
  /\ events \subseteq Sessions \X EventKind
  /\ deliveries \in 0 .. MaxDeliveries
  /\ jobs \subseteq Sessions
  /\ handler \in [Handlers -> [step : {"idle", "attempt", "profile", "identity", "bonus"},
                               session : 0 .. MaxAttempts, status : VerificationStatus,
                               prev : IdentityStatus]]
  /\ starter \in [Starters -> {"idle", "session", "queue"} \X (0 .. MaxAttempts)]
  /\ timeout \in [step : {"idle", "escalate", "cancel", "insert", "queue"},
                session : 0 .. MaxAttempts, next : 0 .. MaxAttempts]
  /\ faults \in 0 .. MaxFaults

Init ==
  /\ attempts = << >> /\ identity = "PENDING" /\ bonus = 0
  /\ events = {} /\ deliveries = 0 /\ jobs = {}
  /\ handler = [h \in Handlers |-> IdleHandler]
  /\ starter = [s \in Starters |-> <<"idle", 0>>]
  /\ timeout = IdleJob
  /\ faults = 0 /\ upgrades = 0 /\ overlapped = FALSE

Fault(kind) ==
  /\ kind \in Faults /\ faults < MaxFaults
  /\ faults' = faults + 1

-----------------------------------------------------------------------------
(* Repository.                                                             *)

\* The new row has the session Stripe has just created.
Insert(retries) ==
  attempts' = Append(attempts, [status |-> "PENDING", retries |-> retries])

\* The outcome columns are overwritten, whatever the row says by now.
UpdateStatus(n, status) == attempts' = [attempts EXCEPT ![n].status = status]

\* The most recent attempt of the user is pending.
PendingAttempt == attempts # << >> /\ attempts[Len(attempts)].status = "PENDING"

-----------------------------------------------------------------------------
(* StartVerification.                                                      *)

Started == Cardinality({n \in DOMAIN attempts : attempts[n].retries = 0})
             + Cardinality({s \in Starters : starter[s][1] = "session"})

\* Not for a verified user; a pending attempt is returned instead of a new one.
StartReads(s) ==
  /\ starter[s][1] = "idle"
  /\ identity # "VERIFIED"
  /\ ~ PendingAttempt
  /\ Started < MaxStarts
  /\ starter' = [starter EXCEPT ![s] = <<"session", 0>>]
  /\ UNCHANGED <<attempts, identity, bonus, events, deliveries, jobs, handler, timeout, faults, history>>

StartInserts(s) ==
  /\ starter[s][1] = "session"
  /\ Insert(0)
  /\ starter' = [starter EXCEPT ![s] = <<"queue", Len(attempts) + 1>>]
  /\ UNCHANGED <<identity, bonus, events, deliveries, jobs, handler, timeout, faults, history>>

StartQueues(s) ==
  /\ starter[s][1] = "queue"
  /\ jobs' = jobs \cup {starter[s][2]}
  /\ starter' = [starter EXCEPT ![s] = <<"idle", 0>>]
  /\ UNCHANGED <<attempts, identity, bonus, events, deliveries, handler, timeout, faults, history>>

\* The session or its row cannot be created, the job cannot be queued ("non-fatal"), or
\* the process dies.
StartStops(s) ==
  /\ \/ starter[s][1] = "session" /\ Fault("stop")
     \/ starter[s][1] = "queue" /\ Fault("queue")
  /\ starter' = [starter EXCEPT ![s] = <<"idle", 0>>]
  /\ UNCHANGED <<attempts, identity, bonus, events, deliveries, jobs, handler, timeout, history>>

-----------------------------------------------------------------------------
(* Stripe Identity.                                                        *)

\* A session ends verified or canceled, once; until then it may ask for input.
StripeReports(n, kind) ==
  /\ n \in DOMAIN attempts /\ <<n, kind>> \notin events
  /\ Cardinality(events) < MaxEvents
  /\ events \cap {<<n, "verified">>, <<n, "canceled">>} = {}
  /\ events' = events \cup {<<n, kind>>}
  /\ UNCHANGED <<attempts, identity, bonus, deliveries, jobs, actors, faults, history>>

-----------------------------------------------------------------------------
(* HandleWebhook.                                                          *)

\* What the language model makes of an unclear case: no model, a failed call or an answer
\* that cannot be read go to a human.
Interpretation == {"VERIFIED", "REJECTED", "ESCALATED"}

\* What an event makes of the attempt.
Outcomes(kind) ==
  CASE kind = "verified"   -> {"VERIFIED"}
    [] kind = "fraudulent" -> {"REJECTED"}
    [] kind = "unclear"    -> Interpretation
    [] kind = "canceled"   -> {"CANCELED"}

Busy(h) == \E o \in Handlers \ {h} : handler[o].step # "idle"

WebhookReads(h, n, kind) ==
  /\ handler[h].step = "idle"
  /\ <<n, kind>> \in events /\ deliveries < MaxDeliveries
  /\ deliveries' = deliveries + 1
  /\ \E status \in Outcomes(kind) :
       handler' = [handler EXCEPT ![h] = [step |-> "attempt", session |-> n, status |-> status,
                                          prev |-> "PENDING"]]
  /\ overlapped' = (overlapped \/ Busy(h))
  /\ UNCHANGED <<attempts, identity, bonus, events, jobs, starter, timeout, faults, upgrades>>

\* The attempt is marked; what follows depends on the outcome.
Mark(h, status, next) ==
  /\ handler[h].step = "attempt" /\ handler[h].status = status
  /\ UpdateStatus(handler[h].session, status)
  /\ handler' = [handler EXCEPT ![h] = next]
  /\ UNCHANGED <<identity, bonus, events, deliveries, jobs, starter, timeout, faults, history>>

Verify(h) == Mark(h, "VERIFIED", [handler[h] EXCEPT !.step = "profile"])
Reject(h) == Mark(h, "REJECTED", [handler[h] EXCEPT !.step = "identity"])
Escalate(h) == Mark(h, "ESCALATED", IdleHandler)
Cancel(h) == Mark(h, "CANCELED", IdleHandler)

\* Who was verified before gets no second bonus.
ReadProfile(h) ==
  /\ handler[h].step = "profile"
  /\ handler' = [handler EXCEPT ![h].step = "identity", ![h].prev = identity]
  /\ UNCHANGED <<attempts, identity, bonus, events, deliveries, jobs, starter, timeout, faults, history>>

\* The profile cannot be read, which is ignored, and the bonus is not given.
ProfileUnread(h) ==
  /\ handler[h].step = "profile" /\ Fault("stop")
  /\ handler' = [handler EXCEPT ![h].step = "identity", ![h].prev = "VERIFIED"]
  /\ overlapped' = TRUE
  /\ UNCHANGED <<attempts, identity, bonus, events, deliveries, jobs, starter, timeout, upgrades>>

\* Slip: the bonus does not depend on who was verified before.
UpdateIdentityAlwaysBonus(h) ==
  /\ handler[h].step = "identity"
  /\ identity' = handler[h].status
  /\ upgrades' = IF identity # "VERIFIED" /\ identity' = "VERIFIED" THEN upgrades + 1 ELSE upgrades
  /\ handler' = [handler EXCEPT ![h] =
                   IF @.status = "VERIFIED" THEN [@ EXCEPT !.step = "bonus"] ELSE IdleHandler]
  /\ UNCHANGED <<attempts, bonus, events, deliveries, jobs, starter, timeout, faults, overlapped>>

UpdateIdentityStatus(h) ==
  /\ handler[h].step = "identity"
  /\ identity' = handler[h].status
  /\ upgrades' = IF identity # "VERIFIED" /\ identity' = "VERIFIED" THEN upgrades + 1 ELSE upgrades
  /\ handler' = [handler EXCEPT ![h] =
                   IF @.status = "VERIFIED" /\ @.prev # "VERIFIED"
                   THEN [@ EXCEPT !.step = "bonus"] ELSE IdleHandler]
  /\ UNCHANGED <<attempts, bonus, events, deliveries, jobs, starter, timeout, faults, overlapped>>

AddReputationScore(h) ==
  /\ handler[h].step = "bonus"
  /\ bonus' = bonus + 1
  /\ handler' = [handler EXCEPT ![h] = IdleHandler]
  /\ UNCHANGED <<attempts, identity, events, deliveries, jobs, starter, timeout, faults, history>>

\* A statement fails or the process dies: Stripe delivers the event again.
WebhookStops(h) ==
  /\ handler[h].step # "idle"
  /\ Fault("stop")
  /\ handler' = [handler EXCEPT ![h] = IdleHandler]
  /\ overlapped' = TRUE
  /\ UNCHANGED <<attempts, identity, bonus, events, deliveries, jobs, starter, timeout, upgrades>>

-----------------------------------------------------------------------------
(* VerificationTimeoutWorker.                                              *)

TimeoutReads(n) ==
  /\ timeout.step = "idle" /\ n \in jobs
  /\ IF attempts[n].status # "PENDING"
     THEN jobs' = jobs \ {n} /\ UNCHANGED timeout
     ELSE /\ timeout' = [IdleJob EXCEPT !.session = n,
                        !.step = IF attempts[n].retries >= MaxRetries THEN "escalate" ELSE "cancel"]
          /\ UNCHANGED jobs
  /\ UNCHANGED <<attempts, identity, bonus, events, deliveries, handler, starter, faults, history>>

\* After too many retries a human is asked.  Else the attempt is written off, even if a
\* webhook has resolved it since it was read; the new session exists at Stripe already.
TimeoutMarks ==
  /\ timeout.step \in {"escalate", "cancel"}
  /\ LET human == timeout.step = "escalate" IN
     /\ UpdateStatus(timeout.session, IF human THEN "ESCALATED" ELSE "CANCELED")
     /\ timeout' = IF human THEN IdleJob ELSE [timeout EXCEPT !.step = "insert"]
     /\ jobs' = IF human THEN jobs \ {timeout.session} ELSE jobs
  /\ UNCHANGED <<identity, bonus, events, deliveries, handler, starter, faults, history>>

TimeoutInserts ==
  /\ timeout.step = "insert"
  /\ Insert(attempts[timeout.session].retries + 1)
  /\ timeout' = [timeout EXCEPT !.step = "queue", !.next = Len(attempts) + 1]
  /\ UNCHANGED <<identity, bonus, events, deliveries, jobs, handler, starter, faults, history>>

\* No check is queued for the attempt just inserted: the service that the worker has is built
\* without a River client (server.go), which the code takes for "skip".  So no attempt has
\* more than one retry, and the branch that asks a human is never reached.
TimeoutSkipsNext ==
  /\ timeout.step = "queue"
  /\ timeout' = IdleJob /\ jobs' = jobs \ {timeout.session}
  /\ UNCHANGED <<attempts, identity, bonus, events, deliveries, handler, starter, faults, history>>

\* Slip: a check that failed is not repeated.
TimeoutStopsForGood ==
  /\ timeout.step # "idle"
  /\ Fault("stop")
  /\ timeout' = IdleJob /\ jobs' = jobs \ {timeout.session}
  /\ UNCHANGED <<attempts, identity, bonus, events, deliveries, handler, starter, history>>

\* An error or a crash: River runs the job again from the start.
TimeoutStops ==
  /\ timeout.step # "idle"
  /\ Fault("stop")
  /\ timeout' = IdleJob
  /\ UNCHANGED <<attempts, identity, bonus, events, deliveries, jobs, handler, starter, history>>

-----------------------------------------------------------------------------

Starting(s) == StartReads(s) \/ StartInserts(s) \/ StartQueues(s) \/ StartStops(s)

Handling(h) ==
  \/ Verify(h) \/ Reject(h) \/ Escalate(h) \/ Cancel(h)
  \/ ReadProfile(h) \/ UpdateIdentityStatus(h) \/ AddReputationScore(h)

TimingOut ==
  \/ \E n \in Sessions : TimeoutReads(n)
  \/ TimeoutMarks \/ TimeoutInserts \/ TimeoutSkipsNext

Next ==
  \/ \E s \in Starters : Starting(s)
  \/ \E n \in Sessions, kind \in EventKind : StripeReports(n, kind)
  \/ \E h \in Handlers :
        \/ \E n \in Sessions, kind \in EventKind : WebhookReads(h, n, kind)
        \/ Handling(h) \/ ProfileUnread(h) \/ WebhookStops(h)
  \/ TimingOut \/ TimeoutStops

Spec == Init /\ [][Next]_vars

\* Requests that were started and the timeout jobs go on; neither the user nor Stripe is
\* obliged to do anything.
Fairness ==
  /\ WF_vars(TimingOut)
  /\ \A s \in Starters : WF_vars(StartInserts(s) \/ StartQueues(s))
  /\ \A h \in Handlers : WF_vars(Handling(h))

FairSpec == Spec /\ Fairness

-----------------------------------------------------------------------------
(* Properties.                                                             *)

\* While webhooks are handled one at a time and to the end, however often, late and in
\* whatever order they come, each bonus belongs to a change of the user to VERIFIED.
BonusPerUpgrade ==
  ~ overlapped => /\ bonus <= upgrades
                  /\ (\A h \in Handlers : handler[h].step = "idle") => bonus = upgrades

\* The attempt of a queued check does not stay open, whichever failures the check meets and
\* however often River repeats it, beside webhooks and further requests of the user.
StalledIsClosed ==
  \A n \in Sessions : n \in jobs ~> n \in DOMAIN attempts /\ attempts[n].status # "PENDING"

\* What the worker's comment promises: a session that nobody finishes is replaced a few times
\* and then reaches a human.  It does not, although nothing fails: see TimeoutSkipsNext.
StalledIsEscalated ==
  \A n \in Sessions :
    (n \in jobs /\ attempts[n].status = "PENDING") ~>
      \/ \E a \in DOMAIN attempts : attempts[a].status \in {"VERIFIED", "REJECTED", "ESCALATED"}
      \/ \E a \in Sessions : <<a, "canceled">> \in events
      \/ faults > 0

=============================================================================
