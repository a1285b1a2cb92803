------------------------------ MODULE Donations ------------------------------
(***************************************************************************)
(* Donations of legacy_app.py and stripe_router.py: a store purchase that  *)
(* is verified and recorded once, the storage that the first donors of a   *)
(* month get for it, and the Stripe webhook, which is called again until   *)
(* it answers.                                                             *)
(*                                                                         *)
(* The verification is a blocking call inside the handler, so recording a  *)
(* purchase is one step of the event loop.                                 *)
(***************************************************************************)
EXTENDS Naturals, Sequences, FiniteSets

CONSTANTS
  Donors,     \* user ids, with one session each
  Purchases,  \* purchase ids of the stores
  Intents,    \* Stripe payment intents that succeed
  Slots,      \* DONATION_MONTHLY_PRIORITY_USERS
  Months      \* bound: calendar months

ASSUME SlotsAssumption == Slots \in Nat /\ Months \in Nat \ {0}

VARIABLES
  donations,  \* iap_donations in the order of id: user, purchase and month
  month,      \* the calendar month, UTC
  stripe,     \* stripe_donations, in the order of insertion: intents
  due         \* webhook calls Stripe still has to make, or to make again

money == <<donations, month, stripe, due>>

DonationsInit ==
  /\ donations = <<>> /\ month = 1
  /\ stripe = <<>>
  /\ due = {}

ThisMonth == {n \in DOMAIN donations : donations[n].month = month}
DonorsOf(S) == {donations[n].user : n \in S}

\* mutant: the donors of the month by their last donation
LastOf(u) == CHOOSE n \in ThisMonth : donations[n].user = u /\ \A k \in ThisMonth : donations[k].user = u => k <= n

\* MIN(created_at), MIN(id): the clock orders donations like their ids.
FirstOf(u) == CHOOSE n \in ThisMonth : donations[n].user = u /\ \A k \in ThisMonth : donations[k].user = u => n <= k

\* ORDER BY first_donation_at ASC, first_donation_id ASC
Before(n, k) == n < k

\* _list_monthly_priority_donor_user_ids
Priority ==
  {u \in DonorsOf(ThisMonth) :
     Cardinality({v \in DonorsOf(ThisMonth) : Before(FirstOf(v), FirstOf(u))}) < Slots}

\* purchase_id is UNIQUE.
IsRecorded(p) == \E n \in DOMAIN donations : donations[n].purchase = p

\* POST /chat/donation/record_iap of a purchase the store confirms (else nothing
\* changes).  One that is recorded is answered like a new one, for any user.
RecordIap(u, p) ==
  /\ ~ IsRecorded(p)
  /\ donations' = Append(donations, [user |-> u, purchase |-> p, month |-> month])
  /\ UNCHANGED <<month, stripe, due>>

\* External: Stripe takes the money.
Succeeds(i) ==
  /\ i \notin due /\ \A n \in DOMAIN stripe : stripe[n] # i
  /\ due' = due \cup {i}
  /\ UNCHANGED <<donations, month, stripe>>

\* INSERT OR IGNORE on the UNIQUE payment_intent_id
InsertedInto(q, i) == IF \E n \in DOMAIN q : q[n] = i THEN q ELSE Append(q, i)

\* POST /stripe/webhook, payment_intent.succeeded: the row is committed, and
\* the call is over when Stripe has the answer; else it comes again.
Webhook(i) ==
  /\ i \in due
  /\ \/ stripe' = InsertedInto(stripe, i) /\ due' \in {due, due \ {i}}
     \/ UNCHANGED <<stripe, due>>
  /\ UNCHANGED <<donations, month>>

MonthEnds ==
  /\ month < Months
  /\ month' = month + 1
  /\ UNCHANGED <<donations, stripe, due>>

DonationsNext ==
  \/ \E u \in Donors, p \in Purchases : RecordIap(u, p)
  \/ \E i \in Intents : Succeeds(i) \/ Webhook(i)
  \/ MonthEnds

DonationsSpec == DonationsInit /\ [][DonationsNext]_money

-----------------------------------------------------------------------------
(* Properties *)

DonationsTypeOK ==
  /\ \A n \in DOMAIN donations :
       donations[n] \in [user : Donors, purchase : Purchases, month : 1 .. Months]
  /\ month \in 1 .. Months
  /\ due \subseteq Intents

\* However often and by whomever it is sent, a purchase counts for one donation
\* of one user; and a payment the webhook is called about again and again is
\* one row.
PurchaseCountsOnce ==
  /\ \A n, k \in DOMAIN donations : donations[n].purchase = donations[k].purchase => n = k
  /\ \A n, k \in DOMAIN stripe : stripe[n] = stripe[k] => n = k

\* The extra storage of a month is first come, first served: nobody who has it
\* loses it to a later donor before the month is over.
SlotIsKept == [][month' = month => Priority \subseteq Priority']_money

\* Donations count once, and for as long as they are said to.
DonationsCount == []PurchaseCountsOnce /\ SlotIsKept
=============================================================================
