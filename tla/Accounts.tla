------------------------------ MODULE Accounts ------------------------------
(***************************************************************************)
(* One user's customer and account with Stripe: SetupRenterPayment,        *)
(* OnboardHost and ChargeForDamageOverflow of package payment.             *)
(*                                                                         *)
(* The calls to Stripe carry no idempotency key, and the columns are read  *)
(* and written in statements of their own.                                 *)
(***************************************************************************)
EXTENDS Naturals

CONSTANTS
  Setups,      \* requests that may be in flight at once
  MaxObjects,  \* bound on the customers and on the accounts made
  MaxErrors    \* bound on calls that fail

AccountAssumption == MaxObjects \in Nat /\ MaxErrors \in Nat

VARIABLES
  customer,    \* users.stripe_customer_id, 0 for NULL
  account,     \* users.stripe_account_id, 0 for NULL
  made,        \* customers and connected accounts at Stripe
  setup,       \* setup[s]: how far a request is, and the object it is about
  cards,       \* customers that the user has saved a card for
  charged,     \* customers that damage was charged to
  undisturbed, \* history: no two setups have overlapped, and no call has failed
  errors

vars == <<customer, account, made, setup, cards, charged, undisturbed, errors>>

Ready == [at |-> "idle", object |-> 0]
Objects == 0 .. MaxObjects

TypeOK ==
  /\ customer \in Objects /\ account \in Objects
  /\ made \in [customer : Objects, account : Objects]
  /\ setup \in [Setups -> [at : {"idle", "create", "store", "intent", "card", "account"}, object : Objects]]
  /\ cards \subseteq Objects /\ charged \subseteq Objects
  /\ undisturbed \in BOOLEAN /\ errors \in 0 .. MaxErrors

Init ==
  /\ customer = 0 /\ account = 0
  /\ made = [customer |-> 0, account |-> 0]
  /\ setup = [s \in Setups |-> Ready]
  /\ cards = {} /\ charged = {} /\ undisturbed = TRUE /\ errors = 0

Goto(s, at) == setup' = [setup EXCEPT ![s].at = at]

\* Slip: whether there is a customer is not looked at.
SetupAnew(s) ==
  /\ setup[s] = Ready
  /\ setup' = [setup EXCEPT ![s] = [at |-> "create", object |-> 0]]
  /\ undisturbed' = (undisturbed /\ \A t \in Setups : setup[t] = Ready)
  /\ UNCHANGED <<customer, account, made, cards, charged, errors>>

SetupRenterPayment(s) ==
  /\ setup[s] = Ready
  /\ setup' = [setup EXCEPT ![s] = [at |-> IF customer = 0 THEN "create" ELSE "intent",
                                    object |-> customer]]
  /\ undisturbed' = (undisturbed /\ \A t \in Setups : setup[t] = Ready)
  /\ UNCHANGED <<customer, account, made, cards, charged, errors>>

CreateCustomer(s) ==
  /\ setup[s].at = "create" /\ made.customer < MaxObjects
  /\ made' = [made EXCEPT !.customer = @ + 1]
  /\ setup' = [setup EXCEPT ![s] = [at |-> "store", object |-> made.customer + 1]]
  /\ UNCHANGED <<customer, account, cards, charged, undisturbed, errors>>

StoreStripeCustomerID(s) ==
  /\ setup[s].at = "store"
  /\ customer' = setup[s].object
  /\ Goto(s, "intent")
  /\ UNCHANGED <<account, made, cards, charged, undisturbed, errors>>

\* The app is given the intent, for the customer that this request knows.
CreateSetupIntent(s) ==
  /\ setup[s].at = "intent"
  /\ Goto(s, "card")
  /\ UNCHANGED <<customer, account, made, cards, charged, undisturbed, errors>>

\* The user enters a card, or none.
SaveCard(s) ==
  /\ setup[s].at = "card"
  /\ cards' = cards \cup {setup[s].object} \/ cards' = cards
  /\ setup' = [setup EXCEPT ![s] = Ready]
  /\ UNCHANGED <<customer, account, made, charged, undisturbed, errors>>

\* Every call makes an account, whether there is one or not.
CreateConnectedAccount(s) ==
  /\ setup[s] = Ready /\ made.account < MaxObjects
  /\ made' = [made EXCEPT !.account = @ + 1]
  /\ setup' = [setup EXCEPT ![s] = [at |-> "account", object |-> made.account + 1]]
  /\ UNCHANGED <<customer, account, cards, charged, undisturbed, errors>>

StoreStripeAccountID(s) ==
  /\ setup[s].at = "account"
  /\ account' = setup[s].object
  /\ setup' = [setup EXCEPT ![s] = Ready]
  /\ UNCHANGED <<customer, made, cards, charged, undisturbed, errors>>

\* What was made stays at Stripe, and nobody knows of it.
Fail(s) ==
  /\ setup[s] # Ready /\ errors < MaxErrors
  /\ errors' = errors + 1
  /\ setup' = [setup EXCEPT ![s] = Ready]
  /\ undisturbed' = FALSE
  /\ UNCHANGED <<customer, account, made, cards, charged>>

\* The stored customer is charged; without one it is ErrNoPaymentMethod.
ChargeForDamageOverflow ==
  /\ customer # 0
  /\ charged' = charged \cup {customer}
  /\ UNCHANGED <<customer, account, made, setup, cards, undisturbed, errors>>

Setting(s) ==
  \/ SetupRenterPayment(s) \/ CreateCustomer(s) \/ StoreStripeCustomerID(s)
  \/ CreateSetupIntent(s) \/ SaveCard(s)
  \/ CreateConnectedAccount(s) \/ StoreStripeAccountID(s) \/ Fail(s)

Next == ChargeForDamageOverflow \/ \E s \in Setups : Setting(s)

Spec == Init /\ [][Next]_vars

-----------------------------------------------------------------------------
(* Properties.                                                             *)

\* As long as no two setups overlap and none fails, the cards that a user saves, over any
\* number of setups, are those of the customer who is charged.
CardIsTheChargedOnes ==
  undisturbed => cards \cup charged \subseteq {customer}

=============================================================================
