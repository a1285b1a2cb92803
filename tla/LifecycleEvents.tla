--------------------------- MODULE LifecycleEvents ---------------------------
(***************************************************************************)
(* Attachment lifecycle events of legacy_app.py.  Unlike other messages an *)
(* event is written to the recipient's mailbox before it is sent live, and *)
(* to attachment_lifecycle_events, which knows a resent event by sender,   *)
(* recipient and event id for two days.  A live acknowledgement takes the  *)
(* row out of the mailbox again, so one row is shared by three ways out:   *)
(* the acknowledgement, the fetch, and the expiry of the event.            *)
(*                                                                         *)
(* One sender connection and the sockets of one recipient.  The handler of *)
(* the sender is a task that other handlers interleave with at its awaits. *)
(* The insertion of the unread row opens a write transaction that it keeps *)
(* over the live sends: the write of any other handler then fails.         *)
(***************************************************************************)
EXTENDS Naturals, FiniteSets

CONSTANTS
  Events,     \* event ids of one sender and one recipient
  Visible,    \* those with protocol_event_type "pending": they are unread
  Sockets,    \* devices of the recipient
  MaxRows,    \* bound: mailbox rows ever inserted
  NULL,       \* offline_message_id IS NULL
  Absent      \* no row in attachment_lifecycle_events

ASSUME EventsAssumption == Visible \subseteq Events
ASSUME RowsAssumption ==
  /\ MaxRows \in Nat
  /\ {NULL, Absent} \cap (1 .. MaxRows) = {} /\ NULL # Absent
  /\ NULL \notin Events \cup Sockets

RowIds == 1 .. MaxRows

VARIABLES
  entry,      \* attachment_lifecycle_events: the offline_message_id of an
              \* event, NULL, or Absent
  nextRow,    \* the AUTOINCREMENT sequence of offline_messages
  mailbox,    \* rows of the recipient: id and event
  old,        \* events whose expires_at is past
  sender,     \* the handler of the sender's socket
  online,     \* sockets of the recipient in the registry
  replies,    \* delivery acks on the way back: event and socket
  awaited,    \* _pending_deliveries, by event and socket
  fetched,    \* rows a device holds the lease of
  pledged,       \* history: events the sender was told are persisted, until
  settled     \* history: the recipient has got them, they have expired, or
              \* an account purge has deleted their row

rows == <<entry, nextRow, mailbox, old>>
live == <<online, replies, awaited>>
seen == <<pledged, settled>>
lifecycle == <<rows, sender, live, fetched, seen>>

Resting == [pc |-> "idle", ev |-> NULL, new |-> FALSE, todo |-> {}, now |-> NULL]

LifecycleInit ==
  /\ entry = [e \in Events |-> Absent]
  /\ nextRow = 1
  /\ mailbox = {}
  /\ old = {}
  /\ sender = Resting
  /\ online = {}
  /\ replies = {} /\ awaited = {}
  /\ fetched = {}
  /\ pledged = {} /\ settled = {}

Known(e) == entry[e] # Absent

\* The write transaction of the sender's handler, from the unread row to the
\* commit that follows the sends.
Writing == sender.pc \in {"send", "sending"} /\ sender.new /\ sender.ev \in Visible

\* The mailbox rows that are deleted with the events es.
RowsOf(es) == {r \in mailbox : \E e \in es : entry[e] = r.id}

\* Nothing is pledged any more of the events es.
Settles(es) == pledged' = pledged \ es /\ settled' = settled \cup es

\* Both sweeps, at a persist and in cleanup_system, in one transaction.
Swept == /\ mailbox' = mailbox \ RowsOf(old)
         /\ entry' = [e \in Events |-> IF e \in old THEN Absent ELSE entry[e]]
         /\ old' = {}

-----------------------------------------------------------------------------
(* The sender *)

\* No row of the event is left after the sweep.
IsNew(e) == ~ Known(e) \/ e \in old

\* A frame with event e, for the first time or again:
\* _persist_attachment_lifecycle_message and its commit.
Persist(e) ==
  LET new == IsNew(e)
      kept == mailbox \ RowsOf(old)
  IN
  /\ sender.pc = "idle"
  /\ new => nextRow \in RowIds
  /\ entry' = [x \in Events |-> IF x = e /\ new THEN nextRow
                                ELSE IF x \in old THEN Absent ELSE entry[x]]
  /\ mailbox' = IF new THEN kept \cup {[id |-> nextRow, ev |-> e]} ELSE kept
  /\ nextRow' = IF new THEN nextRow + 1 ELSE nextRow
  /\ old' = {}
  /\ settled' = IF new THEN settled \ {e} ELSE settled
  /\ sender' = [Resting EXCEPT !.pc = "tell", !.ev = e, !.new = new]
  /\ UNCHANGED <<live, fetched, pledged>>

\* attachment_lifecycle_persisted is sent.  When the send raises nothing is
\* routed: no unread row, no live copy, no push.
Tell ==
  /\ sender.pc = "tell"
  /\ \/ /\ pledged' = pledged \cup ({sender.ev} \ settled)
        /\ sender' = [sender EXCEPT !.pc = "send", !.todo = online]
     \/ UNCHANGED pledged /\ sender' = Resting
  /\ UNCHANGED <<rows, live, fetched, settled>>

\* A live copy to the next socket, which gets it and answers, or loses it; a
\* socket that raises leaves the registry.
SendLive ==
  \E d \in sender.todo :
    /\ sender.pc = "send"
    /\ \/ /\ d \in online
          /\ sender' = [sender EXCEPT !.pc = "sending", !.now = d]
          /\ \/ replies' = replies \cup {<<sender.ev, d>>} /\ Settles({sender.ev})
             \/ UNCHANGED <<replies, seen>>
          /\ UNCHANGED online
       \/ /\ online' = online \ {d}
          /\ sender' = [sender EXCEPT !.todo = sender.todo \ {d}]
          /\ UNCHANGED <<replies, seen>>
    /\ UNCHANGED <<rows, awaited, fetched>>

\* The send has returned: only now the delivery is registered.
SentLive ==
  /\ sender.pc = "sending"
  /\ awaited' = awaited \cup {<<sender.ev, sender.now>>}
  /\ sender' = [sender EXCEPT !.pc = "send", !.todo = sender.todo \ {sender.now}, !.now = NULL]
  /\ UNCHANGED <<rows, online, replies, fetched, seen>>

\* Routing ends with the commit of the unread row.
Routed ==
  /\ sender.pc = "send" /\ sender.todo = {}
  /\ sender' = Resting
  /\ UNCHANGED <<rows, live, fetched, seen>>

-----------------------------------------------------------------------------
(* The recipient *)

SocketOpens(d) ==
  /\ d \notin online
  /\ online' = online \cup {d}
  /\ UNCHANGED <<rows, sender, replies, awaited, fetched, seen>>

\* What is on the way back is lost with the socket.
SocketCloses(d) ==
  /\ d \in online
  /\ online' = online \ {d}
  /\ replies' = {f \in replies : f[2] # d}
  /\ UNCHANGED <<rows, sender, awaited, fetched, seen>>

\* mutant: DELETE ... WHERE receiver_id=?
WholeMailbox(e) == mailbox

AckedRow(e) == {r \in mailbox : r.id = entry[e]}

\* _consume_pending_delivery_ack: an ack that comes before its delivery is
\* registered is not known.  The entry is popped before the row is deleted, so
\* when the write fails the row stays and no later ack can take it.
ConsumeAck(f) ==
  /\ f \in replies
  /\ replies' = replies \ {f}
  /\ awaited' = awaited \ {f}
  /\ IF f \in awaited /\ Known(f[1]) /\ ~ Writing
       THEN /\ mailbox' = mailbox \ AckedRow(f[1])
            /\ entry' = [entry EXCEPT ![f[1]] = NULL]
       ELSE UNCHANGED <<mailbox, entry>>
  /\ UNCHANGED <<nextRow, old, sender, online, fetched, seen>>

\* _pending_delivery_timeout_worker skips lifecycle events: their row is there.
AckTimesOut(f) ==
  /\ f \in awaited
  /\ awaited' = awaited \ {f}
  /\ UNCHANGED <<rows, sender, online, replies, fetched, seen>>

\* The version 2 fetch and its acknowledgement, by whichever device has the
\* lease: PendingMailbox has the leases.  The response is lost or read.
Fetch ==
  /\ ~ Writing
  /\ \/ fetched' = mailbox /\ Settles({r.ev : r \in mailbox})
     \/ UNCHANGED <<fetched, seen>>
  /\ UNCHANGED <<rows, sender, live>>

AckFetched ==
  /\ fetched # {} /\ ~ Writing
  /\ mailbox' = mailbox \ fetched
  /\ fetched' = {}
  /\ UNCHANGED <<entry, nextRow, old, sender, live, seen>>

-----------------------------------------------------------------------------
(* Time, cleanup, accounts, crashes *)

\* The two days of an event are over: longer than a copy is on the way.
EventExpires(e) ==
  /\ Known(e) /\ e \notin old
  /\ sender.ev # e /\ \A f \in replies \cup awaited : f[1] # e
  /\ old' = old \cup {e}
  /\ Settles({e})
  /\ UNCHANGED <<entry, nextRow, mailbox, sender, live, fetched>>

CleanupEvents ==
  /\ ~ Writing
  /\ Swept
  /\ UNCHANGED <<nextRow, sender, live, fetched, seen>>

\* Deleting the account of the recipient, or resetting it, deletes its mailbox
\* and no event, and a reset of the sender deletes the rows that name it.
PurgeMailbox ==
  /\ ~ Writing
  /\ mailbox' = {}
  /\ Settles({r.ev : r \in mailbox})
  /\ UNCHANGED <<entry, nextRow, old, sender, live, fetched>>

LifecycleCrash ==
  /\ sender' = Resting
  /\ online' = {} /\ replies' = {} /\ awaited' = {}
  /\ UNCHANGED <<rows, fetched, seen>>

LifecycleNext ==
  \/ \E e \in Events : Persist(e) \/ EventExpires(e)
  \/ Tell \/ SendLive \/ SentLive \/ Routed
  \/ \E d \in Sockets : SocketOpens(d) \/ SocketCloses(d)
  \/ \E f \in Events \X Sockets : ConsumeAck(f) \/ AckTimesOut(f)
  \/ Fetch \/ AckFetched
  \/ CleanupEvents

LifecycleSpec ==
  LifecycleInit /\ [][LifecycleNext \/ PurgeMailbox \/ LifecycleCrash]_lifecycle

-----------------------------------------------------------------------------
(* Properties *)

LifecycleTypeOK ==
  /\ entry \in [Events -> RowIds \cup {NULL, Absent}]
  /\ nextRow \in 1 .. MaxRows + 1
  /\ mailbox \subseteq [id : RowIds, ev : Events]
  /\ old \subseteq Events
  /\ sender \in [pc : {"idle", "tell", "send", "sending"}, ev : Events \cup {NULL},
                 new : BOOLEAN, todo : SUBSET Sockets, now : Sockets \cup {NULL}]
  /\ online \subseteq Sockets
  /\ replies \subseteq Events \X Sockets
  /\ awaited \subseteq Events \X Sockets
  /\ fetched \subseteq [id : RowIds, ev : Events]
  /\ pledged \subseteq Events /\ settled \subseteq Events

\* An event its sender was told is persisted has reached the recipient or lies
\* in the mailbox, until it expires or an account is purged: whatever is lost
\* of the live copies, their acknowledgements and the process.
EventIsHeld == \A e \in pledged : \E r \in mailbox : r.ev = e

\* The mailbox has no row of an event but the one the events table names: an
\* event that is resent is not stored twice, one whose acknowledgement was
\* consumed not at all, and an expired one leaves no row behind.
StoredOnce == \A r \in mailbox : entry[r.ev] = r.id

\* An event is held until it arrives and is not stored twice, through resends,
\* the socket, the mailbox, expiry and crashes.
EventIsHeldOnce == EventIsHeld /\ StoredOnce
=============================================================================
