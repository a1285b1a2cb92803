------------------------------- MODULE Mailbox -------------------------------
(***************************************************************************)
(* What a user's offline mailbox promises, with nothing of how the leases  *)
(* or the two fetch endpoints keep the promise:                            *)
(*   - a message waits until it is settled or discarded;                   *)
(*   - it is settled only after the server has offered it in a response;   *)
(*   - messages of one receiver are offered for the first time in the      *)
(*     order they were queued.                                             *)
(* An offer may be lost on the way and may be repeated, so this is         *)
(* at-least-once delivery.  PendingMailbox implements it.                  *)
(***************************************************************************)
EXTENDS Naturals

CONSTANTS
  Users,      \* receivers
  MaxMsg,     \* messages are the row ids 1 .. MaxMsg
  None        \* the receiver of a message not yet sent

Ids == 1 .. MaxMsg

VARIABLES
  state,      \* "unsent", "waiting", "settled" or "discarded", per message
  to,         \* the receiver of each message once sent
  offered     \* the messages put in at least one response

vars == <<state, to, offered>>

Waiting == {m \in Ids : state[m] = "waiting"}

\* M may be offered when it overtakes no message of the same receiver that
\* stays waiting and was never offered; D is thrown away in the same step.
NextInLine(M, D) ==
  \A m \in M, k \in Waiting \ D :
    k < m /\ to[k] = to[m] => k \in offered \cup M

Moved(M, s) == [m \in Ids |-> IF m \in M THEN s ELSE state[m]]

Init ==
  /\ state = [m \in Ids |-> "unsent"]
  /\ to = [m \in Ids |-> None]
  /\ offered = {}

Send(m, u) ==
  /\ state[m] = "unsent"
  /\ \A k \in Ids : k < m => state[k] # "unsent"
  /\ state' = [state EXCEPT ![m] = "waiting"]
  /\ to' = [to EXCEPT ![m] = u]
  /\ UNCHANGED offered

\* One response: M goes out, S of it is settled at once (delete-on-fetch) and
\* D, which is not in the response, is thrown away while it is put together.
Respond(M, S, D) ==
  /\ \A m \in M : state[m] # "unsent"
  /\ NextInLine(M, D)
  /\ S \subseteq M \cap Waiting
  /\ D \subseteq Waiting \ M
  /\ offered' = offered \cup M
  /\ state' = [m \in Ids |-> IF m \in S THEN "settled"
                             ELSE IF m \in D THEN "discarded" ELSE state[m]]
  /\ UNCHANGED to

Settle(M) ==
  /\ M \subseteq Waiting \cap offered
  /\ state' = Moved(M, "settled")
  /\ UNCHANGED <<to, offered>>

Discard(M) ==
  /\ M \subseteq Waiting
  /\ state' = Moved(M, "discarded")
  /\ UNCHANGED <<to, offered>>

Next ==
  \/ \E m \in Ids, u \in Users : Send(m, u)
  \/ \E M, S, D \in SUBSET Ids : Respond(M, S, D)
  \/ \E M \in SUBSET Ids : Settle(M) \/ Discard(M)

Spec == Init /\ [][Next]_vars
=============================================================================
