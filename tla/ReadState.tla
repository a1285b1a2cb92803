------------------------------ MODULE ReadState ------------------------------
(***************************************************************************)
(* Read cursors and unread rows of chat_backend, and the notices that tell *)
(* the other devices of a conversation how far its reader has read.        *)
(*                                                                         *)
(* Every socket has a handler coroutine on the one event loop; a step ends *)
(* where the handler awaits a send.  Routing a message writes its unread   *)
(* row first and commits after the sends to the recipient, so the SQLite   *)
(* write lock is held over awaits.  A second writer on the loop cannot wait *)
(* for it: busy_timeout blocks the loop, the owner with it, and the write  *)
(* fails.                                                                  *)
(***************************************************************************)
EXTENDS Naturals, FiniteSets

CONSTANTS
  Users, Devices,
  Owner,      \* the user of each device
  Msgs,       \* chat messages, each with a msg_id
  From, To,   \* sender (the peer of the conversation) and recipient of each
  Rank,       \* msg_rank of each, from the client's clock: any order, ties too
  Removable,  \* bound: users whose account may be removed or reset, each once
  MaxRoutes,  \* bound: how often a message is sent, resends included
  None

ASSUME OwnerAssumption == Owner \in [Devices -> Users]
ASSUME MsgAssumption ==
  /\ From \in [Msgs -> Users] /\ To \in [Msgs -> Users]
  /\ Rank \in [Msgs -> Nat \ {0}]
  /\ \A m \in Msgs : From[m] # To[m]
ASSUME NoneAssumption == None \notin Devices \cup Msgs /\ MaxRoutes \in Nat

Conversations == {<<To[m], From[m]>> : m \in Msgs}
Conv(m) == <<To[m], From[m]>>

VARIABLES
  cursor,    \* conversation_read_state: the message and rank of each conversation
  unread,    \* rows of unread_messages, committed
  writer,    \* the device whose handler has an open transaction
  open,      \* devices with a socket that a handler serves
  online,    \* devices with a registered socket
  task,      \* what each device's handler does
  routed,    \* how often each message was sent
  seen,      \* messages that reached a device of the recipient
  asked,     \* the message each device wants marked read, until it is acked
  told,      \* what each device was told: conversations with a rank
  late,      \* history: unread rows committed behind the cursor
  gone       \* history: users whose account was removed or reset

database == <<cursor, unread>>
clients == <<seen, asked, told>>
vars == <<database, writer, open, online, task, routed, clients, late, gone>>

Unset == [msg |-> None, rank |-> 0]
Idle == [pc |-> "idle", msg |-> None, conv |-> None, rank |-> 0, todo |-> {}]

DevicesOf(u) == {d \in Devices : Owner[d] = u}

\* Unread rows at or before rank r of conversation c.
UpTo(c, r) == {m \in unread : Conv(m) = c /\ Rank[m] <= r}

Init ==
  /\ cursor = [c \in Conversations |-> Unset]
  /\ unread = {} /\ writer = None /\ open = {} /\ online = {}
  /\ task = [d \in Devices |-> Idle]
  /\ routed = [m \in Msgs |-> 0]
  /\ seen = {} /\ asked = [d \in Devices |-> None] /\ told = [d \in Devices |-> {}]
  /\ late = {} /\ gone = {}

-----------------------------------------------------------------------------
(* Sockets *)

Connect(d) ==
  /\ d \notin open
  /\ open' = open \cup {d} /\ online' = online \cup {d}
  /\ UNCHANGED <<database, writer, task, routed, clients, late, gone>>

Disconnect(d) ==
  /\ d \in open /\ task[d] = Idle
  /\ open' = open \ {d} /\ online' = online \ {d}
  /\ UNCHANGED <<database, writer, task, routed, clients, late, gone>>

\* mutant: the connection of the handler stays open
StillHeld(d) == writer

\* conn.close in the finally of the handler ends its transaction.
Released(d) == IF writer = d THEN None ELSE writer

\* An exception leaves the loop of the handler.
Fails(d) ==
  /\ open' = open \ {d} /\ online' = online \ {d}
  /\ task' = [task EXCEPT ![d] = Idle]
  /\ writer' = Released(d)
  /\ UNCHANGED <<database, routed, clients, late, gone>>

-----------------------------------------------------------------------------
(* Routing a chat message *)

\* A row is there, or is put there and then late if the cursor passed it.
Committed(m) ==
  /\ unread' = unread \cup {m}
  /\ late' = IF m \notin unread /\ Rank[m] <= cursor[Conv(m)].rank
               THEN late \cup {m} ELSE late

\* The unread row is inserted.  With devices of the recipient online, sends
\* follow; otherwise the message is queued and all is committed at once.
Route(d, m) ==
  /\ d \in open /\ task[d] = Idle /\ From[m] = Owner[d] /\ routed[m] < MaxRoutes
  /\ writer = None
  /\ routed' = [routed EXCEPT ![m] = @ + 1]
  /\ IF DevicesOf(To[m]) \cap online # {}
       THEN /\ writer' = d
            /\ task' = [task EXCEPT ![d] = [Idle EXCEPT !.pc = "routing", !.msg = m]]
            /\ UNCHANGED <<unread, late>>
       ELSE Committed(m) /\ UNCHANGED <<writer, task>>
  /\ UNCHANGED <<cursor, open, online, clients, gone>>

\* The insert meets the lock of another handler.
RouteLocked(d, m) ==
  /\ d \in open /\ task[d] = Idle /\ From[m] = Owner[d] /\ routed[m] < MaxRoutes
  /\ writer # None
  /\ Fails(d)

\* A device of the recipient has the message, still not committed.
RouteSend(d) ==
  /\ task[d].pc = "routing" /\ task[d].msg \notin seen
  /\ seen' = seen \cup {task[d].msg}
  /\ UNCHANGED <<database, writer, open, online, task, routed, asked, told, late, gone>>

\* The sends are over, and so is the transaction.
RouteEnds(d) ==
  /\ task[d].pc = "routing"
  /\ Committed(task[d].msg)
  /\ writer' = None
  /\ task' = [task EXCEPT ![d] = Idle]
  /\ UNCHANGED <<cursor, open, online, routed, clients, gone>>

\* The recipient fetches its mailbox, written with the row.
Fetch(m) ==
  /\ m \in unread /\ m \notin seen
  /\ seen' = seen \cup {m}
  /\ UNCHANGED <<database, writer, open, online, task, routed, asked, told, late, gone>>

\* The database fails the router; the row is rolled back.
RouteFails(d) == task[d].pc = "routing" /\ Fails(d)

-----------------------------------------------------------------------------
(* Reading *)

\* The client shows m, maybe again; it asks until it has an ack for m or later.
WantsRead(d, m) ==
  /\ asked[d] = None /\ m \in seen /\ To[m] = Owner[d]
  /\ asked' = [asked EXCEPT ![d] = m]
  /\ UNCHANGED <<database, writer, open, online, task, routed, seen, told, late, gone>>

\* mutant: last writer wins
Latest(c, m) == [msg |-> m, rank |-> Rank[m]]

\* mutant: a read behind the cursor still sets the message
NameOnly(c, m) ==
  [msg |-> m, rank |-> IF Rank[m] < cursor[c].rank THEN cursor[c].rank ELSE Rank[m]]

\* _upsert_read_cursor: a read behind the cursor changes nothing.
Upserted(c, m) ==
  IF Rank[m] < cursor[c].rank THEN cursor[c] ELSE [msg |-> m, rank |-> Rank[m]]

\* mutant: the rows before the rank go, not the one at it
BeforeOnly(c, r) == {m \in UpTo(c, r) : Rank[m] < r}

\* mark_read_up_to
Cleared(c, r) == UpTo(c, r)

\* The cursor and the rows, one transaction.
MarkRead(m) ==
  LET c == Conv(m)
      new == Upserted(c, m)
  IN
  /\ cursor' = [cursor EXCEPT ![c] = new]
  /\ unread' = unread \ Cleared(c, new.rank)
  /\ late' = late \ Cleared(c, new.rank)

\* mutant: the reader's devices are listed twice, the peer's never
ReaderSockets(c) == DevicesOf(c[1]) \cap online

\* The registered sockets of the other side.
PeerSockets(c) == DevicesOf(c[2]) \cap online

\* What the handler does next: an ack, the peer's devices, its user's others.
Announce(pc, m, r, todo) == [pc |-> pc, msg |-> None, conv |-> Conv(m), rank |-> r, todo |-> todo]

\* read_up_to: committed, then the ack is sent.
Read(d) ==
  LET m == asked[d]
  IN
  /\ d \in open /\ task[d] = Idle /\ m # None /\ writer = None
  /\ MarkRead(m)
  /\ task' = [task EXCEPT ![d] = Announce("ack", m, cursor'[Conv(m)].rank, {})]
  /\ UNCHANGED <<writer, open, online, routed, clients, gone>>

\* read_up_to under the lock of another handler: a warning, and nothing else.
\* The legacy receipt has no handler for it.
ReceiptLocked(d) ==
  /\ d \in open /\ task[d] = Idle /\ asked[d] # None /\ writer # None
  /\ Fails(d)

\* delivery_receipt of an old client: the same write, no ack, the peer is told.
Receipt(d) ==
  LET m == asked[d]
  IN
  /\ d \in open /\ task[d] = Idle /\ m # None /\ writer = None
  /\ MarkRead(m)
  /\ task' = [task EXCEPT ![d] = Announce("legacy", m, cursor'[Conv(m)].rank,
                                          PeerSockets(Conv(m)))]
  /\ asked' = [asked EXCEPT ![d] = None]
  /\ UNCHANGED <<writer, open, online, routed, seen, told, gone>>

Tell(e, c, r) == [told EXCEPT ![e] = @ \cup {<<c, r>>}]

\* The ack arrives, or the send raises and is passed over; then the sockets of
\* the peer are listed.
AckSent(d, arrives) ==
  LET t == task[d]
  IN
  /\ t.pc = "ack"
  /\ told' = IF arrives THEN Tell(d, t.conv, t.rank) ELSE told
  /\ asked' = IF arrives /\ asked[d] # None /\ Conv(asked[d]) = t.conv
                 /\ t.rank >= Rank[asked[d]]
                THEN [asked EXCEPT ![d] = None] ELSE asked
  /\ task' = [task EXCEPT ![d] = [t EXCEPT !.pc = "peer",
                                           !.todo = PeerSockets(t.conv)]]
  /\ UNCHANGED <<database, writer, open, online, routed, seen, late, gone>>

\* One send of the list; a socket that has closed is passed over.
NoticeSent(d, e) ==
  LET t == task[d]
  IN
  /\ t.pc \in {"peer", "own", "legacy"} /\ e \in t.todo
  /\ told' = IF e \in online THEN Tell(e, t.conv, t.rank) ELSE told
  /\ task' = [task EXCEPT ![d] = [t EXCEPT !.todo = t.todo \ {e}]]
  /\ UNCHANGED <<database, writer, open, online, routed, seen, asked, late, gone>>

\* The list is done: the sockets of the reader are listed, but for this one.
OwnNext(d) ==
  LET t == task[d]
  IN
  /\ t.pc = "peer" /\ t.todo = {}
  /\ task' = [task EXCEPT ![d] = [t EXCEPT !.pc = "own",
                                           !.todo = (DevicesOf(t.conv[1]) \cap online) \ {d}]]
  /\ UNCHANGED <<database, writer, open, online, routed, clients, late, gone>>

Announced(d) ==
  /\ task[d].pc \in {"own", "legacy"} /\ task[d].todo = {}
  /\ task' = [task EXCEPT ![d] = Idle]
  /\ UNCHANGED <<database, writer, open, online, routed, clients, late, gone>>

-----------------------------------------------------------------------------
(* Removal and restart *)

\* deregister and account_reset run in the thread pool and can wait for the lock.
\* The sockets leave the registry; their handlers go on.
Purge(u) ==
  /\ writer = None /\ u \in Removable \ gone
  /\ cursor' = [c \in Conversations |-> IF u \in {c[1], c[2]} THEN Unset ELSE cursor[c]]
  /\ unread' = {m \in unread : u \notin {To[m], From[m]}}
  /\ late' = {m \in late : u \notin {To[m], From[m]}}
  /\ online' = online \ DevicesOf(u)
  /\ gone' = gone \cup {u}
  /\ UNCHANGED <<writer, open, task, routed, clients>>

Crash ==
  /\ open # {}
  /\ open' = {} /\ online' = {} /\ writer' = None
  /\ task' = [d \in Devices |-> Idle]
  /\ UNCHANGED <<database, routed, clients, late, gone>>

-----------------------------------------------------------------------------
Next ==
  \/ \E d \in Devices :
       \/ Connect(d) \/ Disconnect(d)
       \/ \E m \in Msgs : Route(d, m) \/ RouteLocked(d, m) \/ WantsRead(d, m)
       \/ RouteSend(d) \/ RouteEnds(d) \/ RouteFails(d)
       \/ Read(d) \/ Receipt(d) \/ ReceiptLocked(d)
       \/ \E arrives \in BOOLEAN : AckSent(d, arrives)
       \/ \E e \in Devices : NoticeSent(d, e)
       \/ OwnNext(d) \/ Announced(d)
  \/ \E m \in Msgs : Fetch(m)
  \/ \E u \in Users : Purge(u)
  \/ Crash

Spec == Init /\ [][Next]_vars

\* Every awaited send returns.  A client comes back after its socket is gone, and
\* gets its read through when it has the chance again and again.
Fairness ==
  \A d \in Devices :
    /\ WF_vars(RouteEnds(d)) /\ WF_vars(\E arrives \in BOOLEAN : AckSent(d, arrives))
    /\ WF_vars(\E e \in Devices : NoticeSent(d, e)) /\ WF_vars(OwnNext(d))
    /\ WF_vars(Announced(d))
    /\ WF_vars(Connect(d)) /\ SF_vars(Read(d))

FairSpec == Spec /\ Fairness
-----------------------------------------------------------------------------
(* Properties *)

RoutingTask ==
  [pc : {"routing"}, msg : Msgs, conv : {None}, rank : {0}, todo : {{}}]
AnnouncingTask ==
  [pc : {"ack", "peer", "own", "legacy"}, msg : {None}, conv : Conversations,
   rank : Nat \ {0}, todo : SUBSET Devices]

TypeOK ==
  /\ cursor \in [Conversations -> [msg : Msgs, rank : Nat \ {0}] \cup {Unset}]
  /\ unread \subseteq Msgs
  /\ writer # None => writer \in Devices /\ task[writer].pc = "routing"
  /\ open \subseteq Devices /\ online \subseteq open
  /\ task \in [Devices -> {Idle} \cup RoutingTask \cup AnnouncingTask]
  /\ routed \in [Msgs -> 0 .. MaxRoutes]
  /\ seen \subseteq Msgs
  /\ asked \in [Devices -> Msgs \cup {None}]
  /\ \A d \in Devices : asked[d] # None => To[asked[d]] = Owner[d]
  /\ told \in [Devices -> SUBSET (Conversations \X (Nat \ {0}))]
  /\ late \subseteq unread
  /\ gone \subseteq Users

\* The id of a cursor is that of a message with its rank, whichever devices of
\* the reader raced and with old clients among them.
CursorIsAMessage ==
  \A c \in Conversations :
    cursor[c].msg # None => cursor[c].rank = Rank[cursor[c].msg] /\ Conv(cursor[c].msg) = c

\* What a device was told of a conversation is never ahead of the cursor in the
\* database: no rollback or crash takes back what was announced.
NoticeIsBacked ==
  \A e \in Devices : \A n \in told[e] :
    n[1][1] \notin gone /\ n[1][2] \notin gone => cursor[n[1]].rank >= n[2]

\* What was read stays read: an unread row at or before the cursor is there
\* because its message was routed after the cursor had passed its rank.
UnreadIsNew ==
  \A m \in unread : Rank[m] <= cursor[Conv(m)].rank => m \in late

\* A message a client keeps marking as read ends as read, its row gone but for a
\* resend, though the lock of a router makes the server pass over a read without
\* an answer.
ReadIsSettled ==
  \A m \in Msgs :
    (\E d \in Devices : asked[d] = m) ~>
      \/ cursor[Conv(m)].rank >= Rank[m] /\ (m \in unread => m \in late)
      \/ {To[m], From[m]} \cap gone # {}

\* Once a cursor is committed, the devices of both users that stay connected
\* hear of it.
ReadIsAnnounced ==
  \A m \in Msgs : \A e \in Devices :
    (/\ e \in online /\ Owner[e] \in {To[m], From[m]}
     /\ \E d \in Devices \ {e} :
          task[d].pc = "ack" /\ task[d].conv = Conv(m) /\ task[d].rank = Rank[m])
    ~> (<<Conv(m), Rank[m]>> \in told[e] \/ e \notin online)
=============================================================================
