---------------------------- MODULE Notification ----------------------------
(***************************************************************************)
(* The notifications of one user: package notification.                    *)
(*                                                                         *)
(* Notify stores a record and pushes to the user's devices, or, in the     *)
(* user's quiet hours, leaves the push to a River job.  Whether a record   *)
(* is read, which nothing else looks at, is left out.  Time is the hour   *)
(* on the user's clock; minutes matter only in that the hour may change    *)
(* between two calls of time.Now.                                          *)
(***************************************************************************)
EXTENDS QuietHours, RowOrder, Sequences

CONSTANTS
  QuietStarts, QuietEnds,  \* hours that windows may start and end at
  Notices,    \* what the user is notified of
  Devices,    \* Expo tokens that the user's devices may register
  Malformed,  \* those that are not well-formed Expo tokens
  MaxChanges, \* bound on changes of the preferences
  MaxLosses   \* bound on failed calls and crashes

NotificationAssumption ==
  /\ QuietHoursAssumption /\ QuietStarts \subseteq Hours /\ QuietEnds \subseteq Hours
  /\ MaxChanges \in Nat /\ MaxLosses \in Nat

VARIABLES
  hour,     \* the hour on the user's clock
  prefs,    \* users.notification_preferences
  tokens,   \* the rows of push_tokens, in the order the database returns them
  gone,     \* devices that are no longer registered with Expo
  notice,   \* notice[n]: how far its delivery is, and what that has read
  records,  \* records[n]: rows of notifications
  pushes,   \* pushes[n]: times it was published to some device
  changes, losses

vars == <<hour, prefs, tokens, gone, notice, records, pushes, changes, losses>>

Windows == [start : QuietStarts, end : QuietEnds]
Preferences == [quiet : Windows, disabled : BOOLEAN, push : BOOLEAN]
DefaultPreferences == [quiet |-> NoWindow, disabled |-> FALSE, push |-> TRUE]

\* The types whose notifications no preference turns off.
IsMandatory(type) == type = "mandatory"
IsTypeDisabled(p, type) == p.disabled /\ ~ IsMandatory(type)

\* "from": the service that the handlers use, or the one that the workers were given
\* before there was a River client, and keep.  "steady": nothing has happened that may put an undelayed push into
\* quiet hours.
Nothing == [at |-> "new", from |-> "server", type |-> "mandatory", prefs |-> DefaultPreferences,
            deferred |-> FALSE, wait |-> 0, stale |-> {}, steady |-> FALSE]

TypeOK ==
  /\ hour \in Hours
  /\ prefs \in Preferences
  /\ tokens \in Seq(Devices) /\ \A i, j \in DOMAIN tokens : tokens[i] = tokens[j] => i = j
  /\ gone \subseteq Devices
  /\ notice \in [Notices -> [at : {"new", "loaded", "stored", "deferring", "waiting", "sending",
                                   "pruning", "done"},
                             from : {"server", "worker"}, type : {"mandatory", "optional"},
                             prefs : Preferences \cup {DefaultPreferences}, deferred : BOOLEAN,
                             wait : 0 .. DayLength, stale : SUBSET Devices, steady : BOOLEAN]]
  /\ records \in [Notices -> Nat] /\ pushes \in [Notices -> Nat]
  /\ changes \in 0 .. MaxChanges /\ losses \in 0 .. MaxLosses

Init ==
  /\ hour \in Hours /\ prefs \in {p \in Preferences : p.push}
  /\ tokens = << >> /\ gone = {}
  /\ notice = [n \in Notices |-> Nothing]
  /\ records = [n \in Notices |-> 0] /\ pushes = [n \in Notices |-> 0]
  /\ changes = 0 /\ losses = 0

delivery == <<notice, records, pushes>>
world == <<hour, prefs, tokens, gone, changes>>

Fails == losses < MaxLosses /\ losses' = losses + 1
Works == UNCHANGED losses

-----------------------------------------------------------------------------
(* The user, the devices and the clock.                                    *)

\* A job that is due and has not run by the next hour is late.
Tick ==
  /\ hour' = (hour + 1) % DayLength
  /\ notice' = [n \in Notices |->
                  [notice[n] EXCEPT !.wait = IF @ > 0 THEN @ - 1 ELSE 0,
                                    !.steady = @ /\ notice[n].wait > 0]]
  /\ UNCHANGED <<prefs, tokens, gone, records, pushes, changes, losses>>

UpdatePreferences ==
  /\ changes < MaxChanges
  /\ prefs' \in Preferences \ {prefs}
  /\ changes' = changes + 1
  /\ notice' = [n \in Notices |-> [notice[n] EXCEPT !.steady = FALSE]]
  /\ UNCHANGED <<hour, tokens, gone, records, pushes, losses>>

\* Slip: whether the token is there is not looked at.
RegisterPushTokenAgain(d) ==
  /\ d \notin gone
  /\ tokens' = Append(tokens, d)
  /\ UNCHANGED <<delivery, hour, prefs, gone, changes, losses>>

\* A token that is there stays with the user who registered it first.
RegisterPushToken(d) ==
  /\ d \notin gone /\ \A i \in DOMAIN tokens : tokens[i] # d
  /\ tokens' = Append(tokens, d)
  /\ UNCHANGED <<delivery, hour, prefs, gone, changes, losses>>

Uninstall(d) ==
  /\ d \notin gone /\ \E i \in DOMAIN tokens : tokens[i] = d
  /\ gone' = gone \cup {d}
  /\ UNCHANGED <<delivery, hour, prefs, tokens, changes, losses>>

-----------------------------------------------------------------------------
(* Notify, and notifyDirect for the deferred job.                          *)

Goto(n, at) == notice' = [notice EXCEPT ![n].at = at]

\* Preferences that cannot be read count as the defaults: no quiet hours.
GetUserPreferences(read, ok) ==
  \/ ok /\ read = prefs /\ Works
  \/ ~ ok /\ read = DefaultPreferences /\ Fails

Notify(n, from, type) ==
  /\ notice[n].at = "new"
  /\ \E read \in {prefs, DefaultPreferences}, ok \in BOOLEAN :
       /\ GetUserPreferences(read, ok)
       /\ notice' = [notice EXCEPT ![n] =
             [Nothing EXCEPT !.from = from, !.type = type, !.prefs = read, !.steady = ok,
                             !.at = IF IsTypeDisabled(read, type) THEN "done" ELSE "loaded"]]
  /\ UNCHANGED <<world, records, pushes>>

\* The job of deferPush, once it is due: a second record, whatever hour it is.
NotifyDirect(n) ==
  /\ notice[n].at = "waiting" /\ notice[n].wait = 0
  /\ \E read \in {prefs, DefaultPreferences}, ok \in BOOLEAN :
       /\ GetUserPreferences(read, ok)
       /\ notice' = [notice EXCEPT ![n] =
             [@ EXCEPT !.prefs = read,
                       !.at = IF IsTypeDisabled(read, notice[n].type) THEN "done" ELSE "loaded"]]
  /\ UNCHANGED <<world, records, pushes>>

\* A job that cannot store its record is run again.
StoreNotification(n) ==
  /\ notice[n].at = "loaded"
  /\ \/ /\ Works
        /\ records' = [records EXCEPT ![n] = @ + 1]
        /\ Goto(n, IF ~ notice[n].prefs.push THEN "done"
                   ELSE IF notice[n].deferred THEN "sending" ELSE "stored")
     \/ /\ Fails
        /\ Goto(n, IF notice[n].deferred THEN "waiting" ELSE "done")
        /\ UNCHANGED records
  /\ UNCHANGED <<world, pushes>>

Decide(n) ==
  /\ notice[n].at = "stored"
  /\ LET quiet == IsQuietHours(notice[n].prefs.quiet, hour)
     IN notice' = [notice EXCEPT ![n] =
                     [@ EXCEPT !.at = IF quiet THEN "deferring" ELSE "sending",
                               !.steady = notice[n].prefs = prefs]]
  /\ UNCHANGED <<world, records, pushes, losses>>

\* The clock is read again: a call that is deferred as quiet hours end waits for a day.
\* Without a River client, or when it refuses the job, there is no push.
DeferPush(n) ==
  /\ notice[n].at = "deferring"
  /\ \/ /\ notice[n].from = "server" /\ Works
        /\ notice' = [notice EXCEPT ![n] =
                         [@ EXCEPT !.at = "waiting", !.deferred = TRUE,
                                   !.wait = UntilQuietHoursEnd(notice[n].prefs.quiet, hour),
                                   !.steady = notice[n].prefs = prefs]]
     \/ /\ IF notice[n].from = "server" THEN Fails ELSE Works
        /\ Goto(n, "done")
  /\ UNCHANGED <<world, records, pushes>>

\* The response at position i is about message i.
Stale(sent) == {sent[i] : i \in {j \in DOMAIN sent : sent[j] \in gone}}

\* Malformed tokens are skipped.
Sendable == Keep(tokens, Devices \ Malformed)

SendPush(n) ==
  /\ notice[n].at = "sending"
  /\ \/ /\ Works
        /\ pushes' = [pushes EXCEPT ![n] = IF Sendable = << >> THEN @ ELSE @ + 1]
        /\ notice' = [notice EXCEPT ![n] = [@ EXCEPT !.at = "pruning", !.stale = Stale(Sendable)]]
     \/ /\ Fails
        /\ Goto(n, "done")
        /\ UNCHANGED pushes
  /\ UNCHANGED <<world, records>>

\* Each deletion is best-effort.
DeletePushTokens(n) ==
  /\ notice[n].at = "pruning"
  /\ \E kept \in SUBSET notice[n].stale :
       /\ IF kept = {} THEN Works ELSE Fails
       /\ tokens' = Keep(tokens, Devices \ (notice[n].stale \ kept))
  /\ notice' = [notice EXCEPT ![n] = [@ EXCEPT !.at = "done", !.stale = {}]]
  /\ UNCHANGED <<hour, prefs, gone, changes, records, pushes>>

\* The process stops.  River runs a job again from the start; a call of a handler is lost.
Crash(n) ==
  /\ notice[n].at \notin {"new", "waiting", "done"}
  /\ Fails
  /\ notice' = [notice EXCEPT ![n] =
                [@ EXCEPT !.at = IF notice[n].deferred THEN "waiting" ELSE "done", !.stale = {}]]
  /\ UNCHANGED <<world, records, pushes>>

-----------------------------------------------------------------------------

Delivering(n) ==
  \/ \E from \in {"server", "worker"}, type \in {"mandatory", "optional"} : Notify(n, from, type)
  \/ NotifyDirect(n) \/ StoreNotification(n) \/ Decide(n) \/ DeferPush(n)
  \/ SendPush(n) \/ DeletePushTokens(n) \/ Crash(n)

Next ==
  \/ Tick \/ UpdatePreferences
  \/ \E d \in Devices : RegisterPushToken(d) \/ Uninstall(d)
  \/ \E n \in Notices : Delivering(n)

Spec == Init /\ [][Next]_vars

-----------------------------------------------------------------------------
(* Properties.                                                             *)

\* A push that is neither late nor raced by a change of the preferences never comes in the
\* user's quiet hours, wherever the window lies in the day, and although the hour that
\* decides to defer and the hour that the delay is counted from are read separately.
QuietIsKept ==
  [][\A n \in Notices :
        pushes'[n] # pushes[n] /\ notice[n].steady => ~ IsQuietHours(prefs.quiet, hour)]_vars

=============================================================================
