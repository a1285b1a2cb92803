------------------------------- MODULE Handover -------------------------------
(***************************************************************************)
(* What the server promises of the messages it accepts, with nothing of    *)
(* sockets, devices, processes and workers:                                *)
(*   - it accepts a message only once the message is held: the recipient   *)
(*     has it, it is in the mailbox or an acknowledgement is awaited;      *)
(*   - it stops waiting for an acknowledgement only of a message that the  *)
(*     recipient has, or that goes to the mailbox instead;                 *)
(*   - a mailbox gives a message up only to the recipient;                 *)
(*   - what is lost otherwise is no longer counted as accepted, and known  *)
(*     to be lost.                                                         *)
(* MessageDelivery implements it, whose clients reconnect and acknowledge  *)
(* while handlers send, and so does Outreach, whose processes stop.        *)
(***************************************************************************)
CONSTANT Msgs

VARIABLES
  accepted,   \* what its sender, or the unread count, was told of, less what is lost
  awaiting,   \* what an acknowledgement is awaited of
  stored,     \* what is in the mailbox
  reached     \* what the recipient has

vars == <<accepted, awaiting, stored, reached>>

Held == awaiting \cup stored \cup reached

Init == accepted = {} /\ awaiting = {} /\ stored = {} /\ reached = {}

\* A message is sent to the recipient, stored, received or accepted.
Handle(m) ==
  /\ awaiting' \in {awaiting, awaiting \cup {m}}
  /\ stored' \in {stored, stored \cup {m}}
  /\ reached' \in {reached, reached \cup {m}}
  /\ \/ accepted' = accepted
     \/ accepted' = accepted \cup {m} /\ m \in Held'

\* An acknowledgement comes.
Confirm(m) ==
  /\ m \in awaiting \cap reached
  /\ awaiting' = awaiting \ {m}
  /\ UNCHANGED <<accepted, stored, reached>>

\* It does not: messages M go to the mailbox, and of some of them, A, nothing
\* more is awaited.
FallBack(M, A) ==
  /\ M \subseteq awaiting /\ A \subseteq M
  /\ stored' = stored \cup M
  /\ awaiting' = awaiting \ A
  /\ UNCHANGED <<accepted, reached>>

\* The recipient fetches its mailbox.
Fetch ==
  /\ reached' = reached \cup stored
  /\ stored' = {}
  /\ UNCHANGED <<accepted, awaiting>>

\* M is lost from where it was held: of A nothing more is awaited, and S is no
\* longer in the mailbox.
Lose(M, A, S) ==
  /\ M \subseteq awaiting \cup stored /\ A \cup S \subseteq M
  /\ awaiting' = awaiting \ A
  /\ stored' = stored \ S
  /\ accepted' = accepted \ M
  /\ UNCHANGED reached

Next ==
  \/ \E m \in Msgs : Handle(m) \/ Confirm(m)
  \/ \E M \in SUBSET Msgs : \E A \in SUBSET M : FallBack(M, A) \/ \E S \in SUBSET M : Lose(M, A, S)
  \/ Fetch

Spec == Init /\ [][Next]_vars

\* What was accepted is held.
AcceptedIsHeld == accepted \subseteq Held
===============================================================================
