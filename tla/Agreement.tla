----------------------------- MODULE Agreement -----------------------------
(***************************************************************************)
(* Package agent/agreement for one booking: the rental agreement that      *)
(* Accept has drafted, and its acceptance by the two parties.              *)
(*                                                                         *)
(* The text is the base template with the item-specific clauses of the     *)
(* language model; a text is modelled by the set of these clauses.         *)
(***************************************************************************)
EXTENDS FiniteSets

CONSTANTS
  Clauses,  \* what the language model may propose
  Banned    \* the proposals that match one of bannedPatterns

AgreementAssumption == Banned \subseteq Clauses /\ "no text" \notin Clauses

VARIABLES
  agreement,  \* the row of agreements, unique per transaction
  snapshot,   \* transactions.agreement_snapshot, which an arbiter reads
  accepted,   \* users with a row in agreement_acceptances
  drafting    \* TriggerAgreement, called by Accept after its commit

NoText == {"no text"}
Party == {"host", "renter"}
Users == Party \cup {"stranger"}

Texts == (SUBSET Clauses) \cup {NoText}

TypeOK ==
  /\ agreement \in Texts /\ snapshot \in Texts
  /\ accepted \subseteq Party
  /\ drafting \in {"none", "draft", "snapshot", "done"}

Init ==
  /\ agreement = NoText /\ snapshot = NoText
  /\ accepted = {}
  /\ drafting = "none"

-----------------------------------------------------------------------------

\* The host has accepted the booking.
TriggerAgreement ==
  /\ drafting = "none"
  /\ drafting' = "draft"
  /\ UNCHANGED <<agreement, snapshot, accepted>>

\* Slip: no clause is stripped.
guardrailCheckNothing(clauses) == clauses

guardrailCheck(clauses) == clauses \ Banned

\* What generateClauses may return: without a router, or after an error, nothing.
generateClauses == {guardrailCheck(c) : c \in SUBSET Clauses} \cup {{}}

Insert(text) == agreement = NoText /\ agreement' = text

\* Merges the clauses into the template, unless there is an agreement already.
GenerateAgreement ==
  /\ drafting = "draft"
  /\ \E clauses \in generateClauses : Insert(clauses)
  /\ drafting' = "snapshot"
  /\ UNCHANGED <<snapshot, accepted>>

\* The parties may have accepted in the meantime.
UpdateAgreementSnapshot ==
  /\ drafting = "snapshot"
  /\ snapshot' = agreement
  /\ drafting' = "done"
  /\ UNCHANGED <<agreement, accepted>>

\* Best-effort: no template, no listing, a failed statement, or the end of the process.
\* Nothing drafts the agreement, or completes its snapshot, later.
DraftingFails ==
  /\ drafting \in {"draft", "snapshot"}
  /\ drafting' = "done"
  /\ UNCHANGED <<agreement, snapshot, accepted>>

-----------------------------------------------------------------------------

GetTransactionParties == Party

\* A second acceptance is refused by the unique key.
InsertAcceptance(user) ==
  /\ user \notin accepted
  /\ accepted' = accepted \cup {user}

ValidateAcceptance(user) ==
  /\ agreement # NoText
  /\ user \in GetTransactionParties
  /\ InsertAcceptance(user)
  /\ UNCHANGED <<agreement, snapshot, drafting>>

BothPartiesAccepted == accepted = Party

-----------------------------------------------------------------------------

Drafts == GenerateAgreement \/ UpdateAgreementSnapshot \/ DraftingFails
Accepting == \E user \in Users : ValidateAcceptance(user)

Next == TriggerAgreement \/ Drafts \/ Accepting

Spec == Init /\ [][Next]_<<agreement, snapshot, accepted, drafting>>

-----------------------------------------------------------------------------
(* A property.                                                             *)

\* The text an arbiter is given is the one the parties were asked to accept, nobody has
\* accepted without one, and no banned clause is in it, whatever the model proposed and
\* wherever drafting stopped.
ArbiterReadsWhatWasAccepted ==
  /\ snapshot # NoText => snapshot = agreement
  /\ accepted # {} => agreement # NoText
  /\ agreement \cap Banned = {}

=============================================================================
