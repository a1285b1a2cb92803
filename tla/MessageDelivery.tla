--------------------------- MODULE MessageDelivery ---------------------------
(***************************************************************************)
(* The WebSocket handler of legacy_app.py on one server process: sockets   *)
(* registered by session secret, the routing of a message to the           *)
(* recipient's sockets and to the sender's other devices, the delivery     *)
(* acknowledgements kept in memory and the worker that stores what was not *)
(* acknowledged in time.                                                   *)
(*                                                                         *)
(* The event loop runs one handler until its next await, and the awaits    *)
(* are the sends: no action is longer than that, and where one is shorter  *)
(* the model has interleavings the code has not.  The handler's own SQLite *)
(* connection opens a write transaction at the unread row and keeps it     *)
(* over the sends that follow: any other writer of the loop then waits out *)
(* the busy timeout and fails.                                             *)
(*                                                                         *)
(* A row stored in the mailbox stays in stored: PendingMailbox takes over. *)
(***************************************************************************)
EXTENDS Naturals, FiniteSets

CONSTANTS
  Users,
  Devices,       \* devices with a row in sessions
  Owner,         \* the user of each device
  Msgs,          \* messages, each sent by its author at most once
  Author,        \* the device that sends a message
  Dest,          \* to_id: the user it is for
  Tracked,       \* messages that get a delivery id (no receipts, no reactions)
  Unread,        \* messages that get an unread row (should_track_unread)
  Sealed,        \* sealed-sender messages
  Incarnations,  \* bound: connections a device opens
  None

ASSUME OwnerAssumption == Owner \in [Devices -> Users]
ASSUME MessageAssumption ==
  /\ Author \in [Msgs -> Devices]
  /\ Dest \in [Msgs -> Users]
  /\ Tracked \subseteq Msgs /\ Unread \subseteq Msgs /\ Sealed \subseteq Msgs
ASSUME BoundAssumption == Incarnations \in Nat

Conns == Devices \X (1 .. Incarnations)
Dev(c) == c[1]
Deliveries == Msgs \X Conns      \* a delivery id: one per message and socket

ASSUME NoneAssumption == None \notin Conns \cup Msgs \cup Devices

VARIABLES
  link,       \* the client's side of a connection: "new", "up" or "down"
  registry,   \* connection_registry: the socket registered for a device
  task,       \* the handler of each connection
  writer,     \* the handler whose write transaction is open, or None
  wire,       \* frames on the way to the client of a connection
  acks,       \* delivery acks on the way back on a connection
  pending,    \* _pending_deliveries
  worker,     \* _pending_delivery_timeout_worker: "running", "dead" or "off"
  unread,     \* committed rows of unread_messages
  stored,     \* rows ever put in offline_messages: message, receiver, lost acks
  sent,       \* messages their author has sent
  echoed,     \* messages the server echoed to their author: accepted
  got,        \* messages that reached the client of each device
  confirmed,  \* history: delivery ids whose ack was consumed
  dropped     \* history: messages lost with the memory of the process

net == <<link, wire, acks>>
db == <<writer, unread, stored>>
history == <<sent, echoed, got, confirmed, dropped>>
vars == <<link, registry, task, writer, wire, acks, pending, worker, unread,
          stored, sent, echoed, got, confirmed, dropped>>

\* msg: the message being routed; todo: sockets, later devices, still to serve;
\* now: the socket a send awaits; reached: delivered_to_online_session, later
\* self_sync_delivered_online; missed: has_offline_self_session.
Off == [pc |-> "off", msg |-> None, todo |-> {}, now |-> None,
        reached |-> FALSE, missed |-> FALSE]
Ready == [Off EXCEPT !.pc = "ready"]

OfUser(u) == {d \in Devices : Owner[d] = u}
Sockets(u) == {registry[d] : d \in OfUser(u)} \ {None}

Frame(m, c) == [msg |-> m, id |-> IF m \in Tracked THEN <<m, c>> ELSE None]
PlainFrame(m) == [msg |-> m, id |-> None]

\* A write waits for an open transaction of another handler, which cannot go
\* on meanwhile, until "database is locked" is raised.
LockFree(c) == writer \in {None, c}

\* mutant: the commit is forgotten
HoldsLock(c) == writer

\* Commit, rollback and closing the connection end a transaction of c.
Released(c) == IF writer = c THEN None ELSE writer

\* mutant: nobody is taken out
LeftBehind(d) == registry

\* connection_registry.remove: by secret, whatever socket the entry holds
Removed(d) == [registry EXCEPT ![d] = None]

\* The connections that can still be opened, the messages sent before, and
\* whether the timeout worker was started: it is by the startup handler of the
\* application that uvicorn serves, which is this one (legacy_app:app) or the
\* one that mounts it (new_main:app), and the handlers of a mounted application
\* are not called.
InitWith(links, gone, start) ==
  /\ link = links
  /\ registry = [d \in Devices |-> None]
  /\ task = [c \in Conns |-> Off]
  /\ writer = None
  /\ wire = [c \in Conns |-> {}]
  /\ acks = [c \in Conns |-> {}]
  /\ pending = {}
  /\ worker = start
  /\ unread = {}
  /\ stored = {}
  /\ sent = gone
  /\ echoed = {}
  /\ got = [d \in Devices |-> {}]
  /\ confirmed = {}
  /\ dropped = {}

Init ==
  \E start \in {"running", "off"} : InitWith([c \in Conns |-> "new"], {}, start)

-----------------------------------------------------------------------------
(* Connections *)

\* What a client has sent may still be read by the server.
Dropped(cs) == /\ link' = [c \in Conns |-> IF c \in cs THEN "down" ELSE link[c]]
               /\ wire' = [c \in Conns |-> IF c \in cs THEN {} ELSE wire[c]]

Closed(cs) == Dropped(cs) /\ acks' = [c \in Conns |-> IF c \in cs THEN {} ELSE acks[c]]

\* A device gives up its connection, if it had one, and opens the next one with
\* a good ticket.  Marking the ticket used is a write: if it fails the socket is
\* rejected, else it is registered under the device's secret.  The handler of
\* the old connection has not noticed yet.
Connect(d, i) ==
  LET c == <<d, i>>
      old == {<<d, j>> : j \in 1 .. i - 1}
  IN
  /\ link[c] = "new"
  /\ \A o \in old : link[o] # "new"
  /\ wire' = [o \in Conns |-> IF o \in old THEN {} ELSE wire[o]]
  /\ LET opened == IF writer = None THEN "up" ELSE "down"
     IN link' = [o \in Conns |-> IF o = c THEN opened ELSE IF o \in old THEN "down" ELSE link[o]]
  /\ IF writer = None
       THEN registry' = [registry EXCEPT ![d] = c] /\ task' = [task EXCEPT ![c] = Ready]
       ELSE UNCHANGED <<registry, task>>
  /\ UNCHANGED acks
  /\ UNCHANGED <<db, pending, worker, history>>

\* The network or the app goes away; the server is not told.
LinkDrops(c) ==
  /\ link[c] = "up"
  /\ Dropped({c})
  /\ UNCHANGED <<acks, registry, task, db, pending, worker, history>>

\* The finally block: the device's entry is removed, and closing the SQLite
\* connection rolls its transaction back.
HandlerExit(c) ==
  /\ registry' = Removed(Dev(c))
  /\ task' = [task EXCEPT ![c] = Off]
  /\ writer' = Released(c)
  /\ Closed({c})

\* receive_text raises WebSocketDisconnect.
Disconnect(c) ==
  /\ task[c].pc = "ready"
  /\ link[c] = "down"
  /\ HandlerExit(c)
  /\ UNCHANGED <<pending, worker, unread, stored, history>>

\* The client reads a frame and acknowledges it when it carries a delivery id.
ClientReceives(c) ==
  \E f \in wire[c] :
    /\ wire' = [wire EXCEPT ![c] = @ \ {f}]
    /\ acks' = [acks EXCEPT ![c] = IF f.id = None THEN @ ELSE @ \cup {f.id}]
    /\ got' = [got EXCEPT ![Dev(c)] = @ \cup {f.msg}]
    /\ UNCHANGED <<link, registry, task, db, pending, worker, sent, echoed,
                   confirmed, dropped>>

\* delivery_ack: _consume_pending_delivery_ack pops the entry if it is there.
ConsumeAck(c) ==
  \E a \in acks[c] :
    /\ task[c].pc = "ready"
    /\ acks' = [acks EXCEPT ![c] = @ \ {a}]
    /\ pending' = pending \ {a}
    /\ confirmed' = confirmed \cup ({a} \cap pending)
    /\ UNCHANGED <<link, wire, registry, task, db, worker, sent, echoed, got, dropped>>

-----------------------------------------------------------------------------
(* Routing to the recipient *)

\* The frame is read, the unread row is inserted and the recipient's sockets
\* are listed.  A failed insert ends the handler: the message is not routed.
Route(c, m) ==
  LET marks == m \in Unread /\ Dest[m] # Owner[Dev(c)]
  IN
  /\ task[c].pc = "ready"
  /\ Author[m] = Dev(c) /\ m \notin sent
  /\ sent' = sent \cup {m}
  /\ IF marks /\ ~ LockFree(c)
       THEN HandlerExit(c)
       ELSE /\ writer' = IF marks THEN c ELSE writer
            /\ task' = [task EXCEPT ![c] =
                          [Ready EXCEPT !.pc = "send", !.msg = m, !.todo = Sockets(Dest[m])]]
            /\ UNCHANGED <<net, registry>>
  /\ UNCHANGED <<pending, worker, unread, stored, echoed, got, confirmed, dropped>>

\* mutant: the flag is set before the send is awaited
ReachedEarly(t) == TRUE

\* delivered_to_online_session when the send to t raised
ReachedOnError(t) == FALSE

\* The exception handler of a send: ghost socket cleanup, again by secret.
SendRaises(c, t) ==
  /\ link[t] = "down"
  /\ registry' = Removed(Dev(t))
  /\ task' = [task EXCEPT ![c] = [task[c] EXCEPT !.pc = "send", !.now = None, !.todo = task[c].todo \ {t},
                                  !.reached = task[c].reached \/ ReachedOnError(t)]]
  /\ UNCHANGED <<net, writer>>

\* await socket.send_text: to a client that is there, or into the buffers of a
\* connection nobody has noticed to be dead.
Send(c) ==
  \E t \in task[c].todo :
    /\ task[c].pc = "send"
    /\ \/ SendRaises(c, t)
       \/ /\ task[t].pc # "off"
          /\ wire' = [wire EXCEPT ![t] = IF link[t] = "up"
                                           THEN @ \cup {Frame(task[c].msg, t)} ELSE @]
          /\ task' = [task EXCEPT ![c] = [task[c] EXCEPT !.pc = "sending", !.now = t]]
          /\ UNCHANGED <<link, acks, registry, writer>>
    /\ UNCHANGED <<unread, stored, pending, worker, history>>

\* mutant: only sealed messages are entered
EnteredIfSealed(m, t) == {<<m, t>>} \cap (Sealed \X Conns)

\* _register_pending_delivery_ack, after the send
Entered(m, t) == {<<m, t>>} \cap (Tracked \X Conns)

\* The await returns, or raises because the connection died under it.
SendEnds(c) ==
  LET t == task[c].now
  IN
  /\ task[c].pc = "sending"
  /\ \/ /\ task' = [task EXCEPT ![c] = [task[c] EXCEPT !.pc = "send", !.now = None, !.todo = task[c].todo \ {t},
                                        !.reached = TRUE]]
        /\ pending' = pending \cup Entered(task[c].msg, t)
        /\ UNCHANGED <<registry, net, writer>>
     \/ SendRaises(c, t) /\ UNCHANGED pending
  /\ UNCHANGED <<unread, stored, worker, history>>

\* Nobody reached: the message goes to the mailbox.  Either way the commit
\* makes the unread row visible and ends the transaction.
Commit(c) ==
  LET m == task[c].msg
      row == IF task[c].reached THEN {} ELSE {<<m, Dest[m], {}>>}
  IN
  /\ task[c].pc = "send" /\ task[c].todo = {}
  /\ IF row # {} /\ ~ LockFree(c)
       THEN HandlerExit(c) /\ UNCHANGED <<unread, stored>>
       ELSE /\ stored' = stored \cup row
            /\ unread' = IF writer = c THEN unread \cup {m} ELSE unread
            /\ writer' = Released(c)
            /\ task' = [task EXCEPT ![c] =
                          [Ready EXCEPT !.pc = "sync", !.msg = m,
                                        !.todo = OfUser(Owner[Dev(c)]) \ {Dev(c)}]]
            /\ UNCHANGED <<net, registry>>
  /\ UNCHANGED <<pending, worker, history>>

-----------------------------------------------------------------------------
(* Self-sync: the sender's other devices, then the echo. *)

\* A device without a socket, or a sealed message, needs no send.
SyncSkips(c) ==
  \E d \in task[c].todo :
    /\ task[c].pc = "sync"
    /\ \/ /\ registry[d] = None
          /\ task' = [task EXCEPT ![c] = [task[c] EXCEPT !.todo = task[c].todo \ {d}, !.missed = TRUE]]
       \/ /\ registry[d] # None /\ task[c].msg \in Sealed
          /\ task' = [task EXCEPT ![c] = [task[c] EXCEPT !.todo = task[c].todo \ {d}, !.reached = TRUE]]
    /\ UNCHANGED <<net, registry, db, pending, worker, history>>

SyncRaises(c, t) ==
  /\ link[t] = "down"
  /\ registry' = Removed(Dev(t))
  /\ task' = [task EXCEPT ![c] = [task[c] EXCEPT !.pc = "sync", !.now = None,
                                  !.todo = task[c].todo \ {Dev(t)}, !.missed = TRUE]]
  /\ UNCHANGED net

SyncSends(c) ==
  \E d \in task[c].todo :
    /\ task[c].pc = "sync" /\ task[c].msg \notin Sealed /\ registry[d] # None
    /\ \/ SyncRaises(c, registry[d])
       \/ /\ task[registry[d]].pc # "off"
          /\ wire' = [wire EXCEPT ![registry[d]] =
                        IF link[registry[d]] = "up" THEN @ \cup {PlainFrame(task[c].msg)} ELSE @]
          /\ task' = [task EXCEPT ![c] = [task[c] EXCEPT !.pc = "syncing", !.now = registry[d]]]
          /\ UNCHANGED <<link, acks, registry>>
    /\ UNCHANGED <<db, pending, worker, history>>

SyncEnds(c) ==
  LET t == task[c].now
  IN
  /\ task[c].pc = "syncing"
  /\ \/ /\ task' = [task EXCEPT ![c] = [task[c] EXCEPT !.pc = "sync", !.now = None,
                                        !.todo = task[c].todo \ {Dev(t)}, !.reached = TRUE]]
        /\ UNCHANGED <<net, registry>>
     \/ SyncRaises(c, t)
  /\ UNCHANGED <<db, pending, worker, history>>

\* One mailbox row for the user when some other device is offline and none was
\* reached.
SyncStores(c) ==
  LET m == task[c].msg
      row == IF task[c].missed /\ ~ task[c].reached
               THEN {<<m, Owner[Dev(c)], {}>>} ELSE {}
  IN
  /\ task[c].pc = "sync" /\ task[c].todo = {}
  /\ IF row # {} /\ ~ LockFree(c)
       THEN HandlerExit(c) /\ UNCHANGED stored
       ELSE /\ stored' = stored \cup row
            /\ task' = [task EXCEPT ![c] = [Ready EXCEPT !.pc = "echo", !.msg = m]]
            /\ UNCHANGED <<net, registry, writer>>
  /\ UNCHANGED <<unread, pending, worker, history>>

\* The echo tells the sender that the message was accepted; a socket that
\* cannot take it ends the handler.
Echo(c) ==
  /\ task[c].pc = "echo"
  /\ \/ /\ echoed' = echoed \cup {task[c].msg}
        /\ task' = [task EXCEPT ![c] = Ready]
        /\ UNCHANGED <<net, registry, writer>>
     \/ /\ link[c] = "down"
        /\ HandlerExit(c)
        /\ UNCHANGED echoed
  /\ UNCHANGED <<unread, stored, pending, worker, sent, got, confirmed, dropped>>

-----------------------------------------------------------------------------
(* The ack-timeout worker and the process *)

\* mutant: entries are looked at, stored, and left to their ack
LeftIn(expired) == {}

\* The entries past their deadline leave the table before they are stored.
Popped(expired) == expired

\* mutant: the worker forgets to commit
Uncommitted(expired) == {}

\* _queue_offline_with_push for each expired entry
FallbackRows(expired) == {<<e[1], Dest[e[1]], {e}>> : e \in expired}

\* The worker takes what is past its 8 seconds and stores it, without an await
\* in between.  A locked database raises through its loop: it never runs again
\* and what it had taken is lost.
TimeoutWorker(expired) ==
  /\ worker = "running"
  /\ expired # {} /\ expired \subseteq pending
  /\ pending' = pending \ Popped(expired)
  /\ IF writer = None
       THEN /\ stored' = stored \cup FallbackRows(expired)
            /\ UNCHANGED <<worker, dropped>>
       ELSE /\ worker' = "dead"
            /\ dropped' = dropped \cup {e[1] : e \in expired}
            /\ UNCHANGED stored
  /\ UNCHANGED <<net, registry, task, writer, unread, sent, echoed, got, confirmed>>

\* The process dies and is started again: everything in memory is gone.
Crash ==
  /\ \E c \in Conns : task[c].pc # "off"
  /\ registry' = [d \in Devices |-> None]
  /\ task' = [c \in Conns |-> Off]
  /\ writer' = None
  /\ Closed({c \in Conns : link[c] = "up"})
  /\ pending' = {}
  /\ worker' = IF worker = "off" THEN "off" ELSE "running"
  /\ dropped' = dropped \cup {e[1] : e \in pending}
  /\ UNCHANGED <<unread, stored, sent, echoed, got, confirmed>>

-----------------------------------------------------------------------------
Handler(c) ==
  \/ Disconnect(c) \/ ConsumeAck(c)
  \/ \E m \in Msgs : Route(c, m)
  \/ Send(c) \/ SendEnds(c) \/ Commit(c)
  \/ SyncSkips(c) \/ SyncSends(c) \/ SyncEnds(c) \/ SyncStores(c)
  \/ Echo(c)

Next ==
  \/ \E d \in Devices, i \in 1 .. Incarnations : Connect(d, i)
  \/ \E c \in Conns : LinkDrops(c) \/ ClientReceives(c) \/ Handler(c)
  \/ \E expired \in SUBSET pending : TimeoutWorker(expired)
  \/ Crash

Spec == Init /\ [][Next]_vars

\* A send returns or raises (the keep-alive ping bounds it), a handler that can
\* run does run, and the worker wakes up every second.
Fairness ==
  /\ \A c \in Conns :
       WF_vars(SendEnds(c) \/ Send(c) \/ Commit(c) \/ SyncSkips(c) \/ SyncSends(c)
               \/ SyncEnds(c) \/ SyncStores(c) \/ Echo(c))
  /\ WF_vars(TimeoutWorker(pending))

FairSpec == Spec /\ Fairness

-----------------------------------------------------------------------------
(* Properties *)

Tasks ==
  [pc : {"off", "ready", "send", "sending", "sync", "syncing", "echo"},
   msg : Msgs \cup {None}, todo : SUBSET (Conns \cup Devices),
   now : Conns \cup {None}, reached : BOOLEAN, missed : BOOLEAN]

Frames == [msg : Msgs, id : Deliveries \cup {None}]

TypeOK ==
  /\ link \in [Conns -> {"new", "up", "down"}]
  /\ registry \in [Devices -> Conns \cup {None}]
  /\ task \in [Conns -> Tasks]
  /\ writer \in Conns \cup {None}
  /\ wire \in [Conns -> SUBSET Frames]
  /\ acks \in [Conns -> SUBSET Deliveries]
  /\ pending \subseteq Deliveries
  /\ worker \in {"running", "dead", "off"}
  /\ unread \subseteq Msgs
  /\ stored \subseteq Msgs \X Users \X SUBSET Deliveries
  /\ sent \subseteq Msgs /\ echoed \subseteq Msgs
  /\ got \in [Devices -> SUBSET Msgs]
  /\ confirmed \subseteq Deliveries
  /\ dropped \subseteq Msgs

Reached(m) == \E d \in OfUser(Dest[m]) : m \in got[d]
Stored(m) == \E r \in stored : r[1] = m /\ r[2] = Dest[m]
AwaitsAck(m) == \E e \in pending : e[1] = m
Kept(m) == Reached(m) \/ Stored(m) \/ AwaitsAck(m) \/ m \in dropped

\* A message the sender saw accepted, and one that raised the recipient's unread
\* count, reached the recipient, is in the mailbox or waits for its ack: dead
\* sockets, reconnects, failed writes and rollbacks lose nothing.  What a crash
\* or a locked database takes from memory is in dropped and nowhere else.
AcceptedIsKept == \A m \in (echoed \cup unread) \cap Tracked : Kept(m)

\* The handler, its clients and the worker keep the promise of module Handover:
\* at each step, what an ack or the worker takes out of the table has arrived or
\* is in the mailbox, and nothing is accepted that is nowhere.
Promise == INSTANCE Handover WITH
  accepted <- ((echoed \cup unread) \cap Tracked) \ dropped,
  awaiting <- {m \in Msgs : AwaitsAck(m)},
  stored <- {m \in Msgs : Stored(m)},
  reached <- {m \in Msgs : Reached(m)}

AcceptedIsHandedOver == Promise!Spec

\* A delivery whose ack was consumed is never stored by the worker as well.
ConfirmedIsNotStored ==
  \A e \in confirmed : <<e[1], Dest[e[1]], {e}>> \notin stored

\* An open write transaction belongs to a handler that is still routing the
\* message of the unread row: no way out of the handler leaves it open.
LockHasOwner ==
  writer # None => task[writer].pc \in {"send", "sending"} /\ task[writer].msg \in Unread

\* Whatever is registered is served: removal by secret may take a good socket
\* out of the registry, but never leaves one in whose handler has ended.
RegisteredIsServed ==
  \A d \in Devices : registry[d] # None => task[registry[d]].pc # "off"

\* The transaction a handler holds over its sends is always ended.
LockIsReleased == writer # None ~> writer = None

\* Everything accepted ends with the recipient or in the mailbox where the worker
\* was started and lives.
AcceptedIsSettled ==
  \A m \in Tracked :
    m \in echoed ~> (Reached(m) \/ Stored(m) \/ m \in dropped \/ worker # "running")

\* legacy_app.py:4294: the fallback covers offline sessions in both cases,
\* ensuring no other session of the sender is silently dropped.
NoOtherSessionDropped ==
  \A m \in echoed, d \in Devices :
    d \in OfUser(Owner[Author[m]]) \ {Author[m]} =>
      \/ m \in got[d]
      \/ \E c \in Conns : Dev(c) = d /\ \E f \in wire[c] : f.msg = m
      \/ \E c \in Conns : Dev(c) = d /\ link[c] = "down"
      \/ \E r \in stored : r[1] = m /\ r[2] = Owner[d]
=============================================================================
