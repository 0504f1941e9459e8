------------------------------ MODULE Sessions ------------------------------
(***************************************************************************)
(* The session of one user: Register, Login and Refresh of package user,   *)
(* with the refresh token that Redis keeps for the user.                   *)
(*                                                                         *)
(* There is one refresh token per user, whatever the number of devices,    *)
(* and every statement on Redis stands alone.  The app starts one refresh  *)
(* for every request that is answered 401, so a device may have several    *)
(* under way, and logs out when one is refused.  Tokens are numbers: each  *)
(* has an id of its own.                                                   *)
(***************************************************************************)
EXTENDS Naturals

CONSTANTS
  Devices,    \* devices of the user
  Slots,      \* a device has as many calls in flight
  MaxTokens,  \* bound on the tokens issued
  MaxFaults   \* bound on failed calls and lost answers

SessionAssumption == MaxTokens \in Nat /\ MaxFaults \in Nat

VARIABLES
  exists,   \* whether the user has an account
  stored,   \* refresh:<user> in Redis, 0 when there is none
  issued,   \* tokens issued so far
  held,     \* held[d]: the token that device d has
  call,     \* call[c]: how far the call is, and the token it sent or is issued
  faults,
  crowded   \* history: a device had two calls under way

vars == <<exists, stored, issued, held, call, faults, crowded>>

\* A call belongs to the device c[1].
Calls == Devices \X Slots
Idle == [at |-> "idle", token |-> 0]

TypeOK ==
  /\ exists \in BOOLEAN /\ crowded \in BOOLEAN
  /\ stored \in 0 .. MaxTokens /\ issued \in 0 .. MaxTokens
  /\ held \in [Devices -> 0 .. MaxTokens]
  /\ call \in [Calls -> [at : {"idle", "sent", "refused", "known", "checked", "issued", "answered"},
                         token : 0 .. MaxTokens]]
  /\ faults \in 0 .. MaxFaults

Init ==
  /\ exists = FALSE /\ stored = 0 /\ issued = 0 /\ faults = 0 /\ crowded = FALSE
  /\ held = [d \in Devices |-> 0]
  /\ call = [c \in Calls |-> Idle]

Goto(c, at) == call' = [call EXCEPT ![c].at = at]

\* The device sends a request, whatever else it is waiting for.
Begin(c, at, token) ==
  /\ call[c] = Idle
  /\ call' = [call EXCEPT ![c] = [at |-> at, token |-> token]]
  /\ crowded' = (crowded \/ \E s \in Slots : call[<<c[1], s>>] # Idle)

Issue(c) ==
  /\ issued < MaxTokens
  /\ issued' = issued + 1
  /\ call' = [call EXCEPT ![c] = [at |-> "issued", token |-> issued']]

-----------------------------------------------------------------------------

\* The unique e-mail address refuses a second account.
Register(c) ==
  /\ ~ exists
  /\ exists' = TRUE
  /\ Begin(c, "known", 0)
  /\ UNCHANGED <<stored, issued, held, faults>>

\* The password is right.
Login(c) ==
  /\ exists
  /\ Begin(c, "known", 0)
  /\ UNCHANGED <<exists, stored, issued, held, faults>>

\* The app refreshes with the token it has.
RefreshSends(c) ==
  /\ held[c[1]] # 0
  /\ Begin(c, "sent", held[c[1]])
  /\ UNCHANGED <<exists, stored, issued, held, faults>>

\* The token is the one that is stored.
RefreshChecks(c) ==
  /\ call[c].at = "sent"
  /\ Goto(c, IF stored = call[c].token THEN "checked" ELSE "refused")
  /\ UNCHANGED <<exists, stored, issued, held, faults, crowded>>

\* The app forgets the token it has by now.
Logout(c) ==
  /\ call[c].at = "refused"
  /\ held' = [held EXCEPT ![c[1]] = 0]
  /\ call' = [call EXCEPT ![c] = Idle]
  /\ UNCHANGED <<exists, stored, issued, faults, crowded>>

\* Best-effort, and it deletes whatever is stored by now.
RefreshDeletes(c) ==
  /\ call[c].at = "checked"
  /\ \/ stored' = 0 /\ UNCHANGED faults
     \/ faults < MaxFaults /\ faults' = faults + 1 /\ UNCHANGED stored
  /\ Goto(c, "known")
  /\ UNCHANGED <<exists, issued, held, crowded>>

IssueTokens(c) ==
  /\ call[c].at = "known"
  /\ Issue(c)
  /\ UNCHANGED <<exists, stored, held, faults, crowded>>

\* Slip: stored only if there is none.
StoreIfAbsent(c) ==
  /\ call[c].at = "issued"
  /\ stored' = IF stored = 0 THEN call[c].token ELSE stored
  /\ Goto(c, "answered")
  /\ UNCHANGED <<exists, issued, held, faults, crowded>>

\* Replaces the token of any other device.
StoreRefresh(c) ==
  /\ call[c].at = "issued"
  /\ stored' = call[c].token
  /\ Goto(c, "answered")
  /\ UNCHANGED <<exists, issued, held, faults, crowded>>

Answer(c) ==
  /\ call[c].at = "answered"
  /\ held' = [held EXCEPT ![c[1]] = call[c].token]
  /\ call' = [call EXCEPT ![c] = Idle]
  /\ UNCHANGED <<exists, stored, issued, faults, crowded>>

\* A call fails, or its answer is lost: the device keeps what it has, or logs out.
Fail(c) ==
  /\ call[c] # Idle /\ faults < MaxFaults
  /\ faults' = faults + 1
  /\ call' = [call EXCEPT ![c] = Idle]
  /\ held' \in {held, [held EXCEPT ![c[1]] = 0]}
  /\ UNCHANGED <<exists, stored, issued, crowded>>

\* eight days later
Expire ==
  /\ stored # 0 /\ faults < MaxFaults
  /\ stored' = 0
  /\ faults' = faults + 1
  /\ UNCHANGED <<exists, issued, held, call, crowded>>

-----------------------------------------------------------------------------

Calling(c) ==
  \/ Register(c) \/ Login(c) \/ RefreshSends(c) \/ RefreshChecks(c) \/ Logout(c)
  \/ RefreshDeletes(c) \/ IssueTokens(c) \/ StoreRefresh(c) \/ Answer(c) \/ Fail(c)

Next == Expire \/ \E c \in Calls : Calling(c)

Spec == Init /\ [][Next]_vars

-----------------------------------------------------------------------------
(* Properties.                                                             *)

\* However the logins and refreshes of several devices overlap: when they are over and none
\* of them failed, one device holds the token that is stored, so nobody has to log in again
\* because two devices refreshed at once.  This takes devices that wait for one call before
\* they start the next: two refreshes of one device, which the app does not prevent, may be
\* answered in another order than they were stored, or the second refused and the device
\* logged out, and then nobody is in.
OneDeviceIsIn ==
  exists /\ faults = 0 /\ ~ crowded /\ (\A c \in Calls : call[c] = Idle) =>
    stored # 0 /\ \E d \in Devices : held[d] = stored

=============================================================================
