---------------------------- MODULE PendingMailbox ----------------------------
(***************************************************************************)
(* The offline mailbox of legacy_app.py: the tables offline_messages and   *)
(* pending_message_leases, and every operation on them that the fetch, the *)
(* acknowledgement, the heal, the cleanup and the account endpoints make.  *)
(*                                                                         *)
(* Several server processes may share the SQLite file, so a handler that   *)
(* reads before its first write is two steps here (the version 1 fetch and *)
(* the acknowledgement); one whose first statement is a write holds the    *)
(* write lock to its commit and is one step (the version 2 fetch).         *)
(*                                                                         *)
(* Time is abstracted to its effects: a lease token passes its             *)
(* lease_expires_at (LeaseLapses), a payload its expires_at_ms             *)
(* (PayloadExpires), a row its retention age (the n of Cleanup).           *)
(***************************************************************************)
EXTENDS Naturals, FiniteSets

CONSTANTS
  Users,      \* user ids
  Sessions,   \* logged-in devices: each has one client and one request at a time
  Owner,      \* the user of each session
  Tokens,     \* lease tokens: uuids, one used again only when nobody knows it
  MaxMsg,     \* bound: rows ever inserted
  Limit,      \* safe_limit of a version 2 fetch
  None        \* no lease row, no token held, no user yet

ASSUME OwnerAssumption == Owner \in [Sessions -> Users]
ASSUME BoundsAssumption == MaxMsg \in Nat /\ Limit \in Nat \ {0}
ASSUME NoneAssumption == None \notin Tokens /\ None \notin Users

Ids == 1 .. MaxMsg

VARIABLES
  nextId,     \* the AUTOINCREMENT sequence of offline_messages
  to, from,   \* receiver_id of a row, and the sender its payload names
  status,     \* "queued" while the row exists, then why it was deleted
  lease,      \* pending_message_leases: the token of a row's lease, or None
  live,       \* tokens whose lease_expires_at is still ahead
  expired,    \* rows whose payload is past expires_at_ms or does not parse
  req,        \* what each session's handler keeps between two statements
  held,       \* the last version 2 response each client got: token and rows
  offered,    \* history: rows put in some response
  received    \* history: rows in a response that reached a client

table == <<nextId, to, from, status>>
leases == <<lease, live>>
vars == <<nextId, to, from, status, lease, live, expired, req, held,
          offered, received>>

Idle == [op |-> "idle"]
Nothing == [token |-> None, ids |-> {}]

Gone == {"drained", "acked", "stale", "retired", "purged"}

Queued == {m \in Ids : status[m] = "queued"}
Rows(u) == {m \in Queued : to[m] = u}

\* DELETE of the rows in S that still exist, for the reason why.
Deleted(S, why) ==
  [m \in Ids |-> IF m \in S \cap Queued THEN why ELSE status[m]]

\* mutant: the page takes the newest rows first
NewestPage(S) == {m \in S : Cardinality({k \in S : k > m}) < Limit}

\* ORDER BY id ASC LIMIT safe_limit
Page(S) == {m \in S : Cardinality({k \in S : k < m}) < Limit}

\* mutants: the stale-lease DELETE takes every lease, or none
NoLeases == [m \in Ids |-> None]
EveryLease == lease

\* pending_message_leases without the rows that are past their time
Unlapsed == [m \in Ids |-> IF lease[m] \in live THEN lease[m] ELSE None]

Init ==
  /\ nextId = 1
  /\ to = [m \in Ids |-> None]
  /\ from = [m \in Ids |-> None]
  /\ status = [m \in Ids |-> "unsent"]
  /\ lease = [m \in Ids |-> None]
  /\ live = {}
  /\ expired = {}
  /\ req = [s \in Sessions |-> Idle]
  /\ held = [s \in Sessions |-> Nothing]
  /\ offered = {}
  /\ received = {}

-----------------------------------------------------------------------------
(* Senders *)

\* INSERT INTO offline_messages: the router, the ack-timeout worker, the
\* self-sync, the broadcast and the welcome message all end here.
Queue(u, v) ==
  /\ nextId \in Ids
  /\ nextId' = nextId + 1
  /\ to' = [to EXCEPT ![nextId] = u]
  /\ from' = [from EXCEPT ![nextId] = v]
  /\ status' = [status EXCEPT ![nextId] = "queued"]
  /\ UNCHANGED <<leases, expired, req, held, offered, received>>

-----------------------------------------------------------------------------
(* GET /chat/get_pending_messages: select, then delete what was selected. *)

FetchV1Select(s) ==
  /\ req[s] = Idle
  /\ req' = [req EXCEPT ![s] =
               [op |-> "v1", ids |-> Rows(Owner[s]),
                good |-> Rows(Owner[s]) \ expired]]
  /\ UNCHANGED <<table, leases, expired, held, offered, received>>

\* mutant: DELETE ... WHERE receiver_id=? takes rows queued since the select
WholeMailbox(s) == Rows(Owner[s])

\* DELETE ... WHERE id IN (message_ids)
Fetched(s) == req[s].ids

\* Leases are neither looked at nor removed.  The rows are gone whether or not
\* the response arrives.
FetchV1Delete(s, arrives) ==
  LET unread == req[s].ids \ req[s].good
  IN
  /\ req[s].op = "v1"
  /\ status' = [m \in Ids |-> Deleted(Fetched(s), IF m \in unread THEN "stale"
                                                  ELSE "drained")[m]]
  /\ offered' = offered \cup req[s].good
  /\ received' = IF arrives THEN received \cup req[s].good ELSE received
  /\ req' = [req EXCEPT ![s] = Idle]
  /\ UNCHANGED <<nextId, to, from, leases, expired, held>>

-----------------------------------------------------------------------------
(* GET /chat/get_pending_messages_v2: one transaction. *)

\* uuid4: a token that is in no row, no client and no request.
FreshToken(t) ==
  /\ \A m \in Ids : Unlapsed[m] # t
  /\ \A s \in Sessions : held[s].token # t
  /\ \A s \in Sessions : req[s].op = "ack" => req[s].token # t

FetchV2(s, t, arrives) ==
  LET page == Page({m \in Rows(Owner[s]) : Unlapsed[m] = None})
      good == page \ expired
  IN
  /\ req[s] = Idle
  /\ FreshToken(t)
  /\ status' = Deleted(page \cap expired, "stale")
  /\ lease' = [m \in Ids |-> IF m \in good THEN t ELSE Unlapsed[m]]
  /\ live' = IF good = {} THEN live ELSE live \cup {t}
  /\ offered' = offered \cup good
  /\ IF arrives /\ good # {}
       THEN /\ held' = [held EXCEPT ![s] = [token |-> t, ids |-> good]]
            /\ received' = received \cup good
       ELSE UNCHANGED <<held, received>>
  /\ UNCHANGED <<nextId, to, from, expired, req>>

-----------------------------------------------------------------------------
(* POST /chat/ack_pending_messages: select the token's rows, then delete.   *)
(* The client may repeat a request and may send it late.                    *)

\* mutant: the ack takes every running lease of the user
LeasedToUser(s) == {m \in Ids : lease[m] \in live /\ to[m] = Owner[s]}

\* The rows leased with the token the client holds, while it is running.
LeasedTo(s) ==
  {m \in Ids : lease[m] = held[s].token /\ lease[m] \in live /\ to[m] = Owner[s]}

TokenGiven(s) == held[s].token # None

\* named: the ids of message_ids and those whose ack_results entry has ok=true.
\* A request that names none acknowledges every row of the token.
AckSelect(s, named) ==
  /\ req[s] = Idle
  /\ TokenGiven(s)
  /\ named \subseteq held[s].ids
  /\ req' = [req EXCEPT ![s] =
               [op |-> "ack", token |-> held[s].token,
                ids |-> IF named = {} THEN LeasedTo(s) ELSE LeasedTo(s) \cap named]]
  /\ UNCHANGED <<table, leases, expired, held, offered, received>>

\* The acknowledged rows and every lease of the token go in one transaction.
AckDelete(s) ==
  /\ req[s].op = "ack"
  /\ status' = Deleted({m \in req[s].ids : to[m] = Owner[s]}, "acked")
  /\ lease' = [m \in Ids |->
                 IF /\ to[m] = Owner[s]
                    /\ m \in req[s].ids \/ lease[m] = req[s].token
                 THEN None ELSE lease[m]]
  /\ req' = [req EXCEPT ![s] = Idle]
  /\ UNCHANGED <<nextId, to, from, live, expired, held, offered, received>>

-----------------------------------------------------------------------------
(* Clients, crashes and time *)

\* The app restarts and forgets the batch it was working on.
ClientRestarts(s) ==
  /\ held[s] # Nothing
  /\ held' = [held EXCEPT ![s] = Nothing]
  /\ UNCHANGED <<table, leases, expired, req, offered, received>>

\* The process dies between the two statements of a handler.
HandlerDies(s) ==
  /\ req[s] # Idle
  /\ req' = [req EXCEPT ![s] = Idle]
  /\ UNCHANGED <<table, leases, expired, held, offered, received>>

LeaseLapses(t) ==
  /\ t \in live
  /\ live' = live \ {t}
  /\ UNCHANGED <<table, lease, expired, req, held, offered, received>>

PayloadExpires(m) ==
  /\ m \in Queued \ expired
  /\ expired' = expired \cup {m}
  /\ UNCHANGED <<table, leases, req, held, offered, received>>

-----------------------------------------------------------------------------
(* Maintenance *)

\* storm_guard.maybe_heal_global, run before a version 2 fetch.
HealGlobal ==
  /\ lease # Unlapsed
  /\ lease' = Unlapsed
  /\ UNCHANGED <<table, live, expired, req, held, offered, received>>

\* The retention part of cleanup_system, when the rows up to n are older than
\* OFFLINE_MSG_RETENTION_DAYS: leases stay behind.
Cleanup(n) ==
  /\ n \in Queued
  /\ status' = Deleted(1 .. n, "retired")
  /\ UNCHANGED <<nextId, to, from, leases, expired, req, held, offered, received>>

\* _collect_user_offline_message_ids: the rows the user owns or is named in,
\* read before the first write; rows inserted after row n are not seen.
Collected(u, n) == {m \in Queued : m <= n /\ u \in {to[m], from[m]}}

Purged(u, S) ==
  /\ S # {}
  /\ status' = Deleted(S, "purged")
  /\ lease' = [m \in Ids |-> IF m \in S \/ to[m] = u THEN None ELSE lease[m]]
  /\ UNCHANGED <<nextId, to, from, live, expired, req, held, offered, received>>

\* POST /chat/deregister ends with a DELETE of every row the user owns.
Deregister(u, n) == Purged(u, Collected(u, n) \cup Rows(u))

\* POST /chat/account_reset deletes what it collected, and all the user's leases.
AccountReset(u, n) == Purged(u, Collected(u, n))

-----------------------------------------------------------------------------
Request(s) ==
  \/ FetchV1Select(s)
  \/ \E arrives \in BOOLEAN : FetchV1Delete(s, arrives)
  \/ \E t \in Tokens, arrives \in BOOLEAN : FetchV2(s, t, arrives)
  \/ \E named \in SUBSET Ids : AckSelect(s, named)
  \/ AckDelete(s)

Client(s) == ClientRestarts(s) \/ HandlerDies(s)

Time ==
  \/ \E t \in Tokens : LeaseLapses(t)
  \/ \E m \in Ids : PayloadExpires(m)

Maintenance ==
  \/ HealGlobal
  \/ \E n \in Ids : Cleanup(n)
  \/ \E u \in Users, n \in Ids : Deregister(u, n) \/ AccountReset(u, n)

Next ==
  \/ \E u, v \in Users : Queue(u, v)
  \/ \E s \in Sessions : Request(s) \/ Client(s)
  \/ Time
  \/ Maintenance

Spec == Init /\ [][Next]_vars

\* A fetch that finds rows and whose response arrives, and an ack sent while
\* the lease is running.
FetchArrives(s) ==
  \E t \in Tokens :
    FetchV2(s, t, TRUE) /\ <<held, status>>' # <<held, status>>
Finish(s) ==
  AckDelete(s) \/ HandlerDies(s) \/ \E arrives \in BOOLEAN : FetchV1Delete(s, arrives)
TimelyAck(s) == held[s].token \in live /\ AckSelect(s, {})

\* Leases run out (the clock) and no handler stops between its statements for
\* ever: there is no await between them.  The rest is assumed of clients and network: a
\* client keeps fetching and acknowledging, and the network and the process do
\* not fail it every time.  A client that never acknowledges in time is given
\* the same oldest page again and again and never sees what is behind it.
FairSpec ==
  /\ Spec
  /\ \A t \in Tokens : WF_vars(LeaseLapses(t))
  /\ \A s \in Sessions :
       /\ WF_vars(Finish(s))
       /\ SF_vars(FetchArrives(s))
       /\ SF_vars(TimelyAck(s))
       /\ SF_vars(AckDelete(s) /\ status' # status)

-----------------------------------------------------------------------------
(* Properties *)

TypeOK ==
  /\ nextId \in 1 .. MaxMsg + 1
  /\ to \in [Ids -> Users \cup {None}]
  /\ from \in [Ids -> Users \cup {None}]
  /\ status \in [Ids -> {"unsent", "queued"} \cup Gone]
  /\ lease \in [Ids -> Tokens \cup {None}]
  /\ live \subseteq Tokens
  /\ expired \subseteq Ids
  /\ req \in [Sessions -> {Idle}
                 \cup [op : {"v1"}, ids : SUBSET Ids, good : SUBSET Ids]
                 \cup [op : {"ack"}, token : Tokens, ids : SUBSET Ids]]
  /\ held \in [Sessions -> [token : Tokens \cup {None}, ids : SUBSET Ids]]
  /\ offered \subseteq Ids
  /\ received \subseteq offered

\* An acknowledgement only ever deletes a message that some client really got:
\* a late, repeated or blanket ack, a token whose response was lost and a row
\* leased again meanwhile never cost a message (ack_pending_messages).
AckedWasReceived ==
  \A m \in Ids : status[m] = "acked" => m \in received

\* No message overtakes an older one of its receiver that is still waiting and
\* was never handed out, whichever endpoints, limits and lapses are involved.
InOrder ==
  \A m, k \in Ids :
    m < k /\ to[m] = to[k] /\ k \in offered /\ status[m] = "queued"
      => m \in offered

\* A version 2 fetch never takes over a lease that is still running
\* (the join on lease_expires_at and the stale-lease DELETE together).
NoDoubleLease ==
  [][\A m \in Ids : lease'[m] \notin {None, lease[m]} => lease[m] \notin live]_vars

\* A message waiting in the mailbox reaches a client or is deleted: neither a
\* lease whose response was lost nor the page limit can hide it for ever from
\* a client that acknowledges what it gets.
QueuedReachesClient ==
  \A m \in Ids : status[m] = "queued" ~> (m \in received \/ status[m] # "queued")

\* The mailbox implements the at-least-once promise of module Mailbox.
AbsState ==
  [m \in Ids |-> CASE status[m] = "unsent" -> "unsent"
                   [] status[m] = "queued" -> "waiting"
                   [] status[m] \in {"drained", "acked"} -> "settled"
                   [] OTHER -> "discarded"]

Promise == INSTANCE Mailbox WITH state <- AbsState

AtLeastOnce == Promise!Spec
=============================================================================
