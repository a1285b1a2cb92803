------------------------------ MODULE Outreach ------------------------------
(***************************************************************************)
(* How a routed message reaches sessions that are not connected to the     *)
(* server process that routes it: the presence set and the channel in      *)
(* Redis (connection_registry.py, fanout_bridge.py), and the wake that     *)
(* push_queue.py and push.py ask the central hub for.  Several processes   *)
(* share the database and Redis; each has its own registry of sockets, its *)
(* own unacknowledged deliveries and its own queue of wakes.               *)
(*                                                                         *)
(* Messages to one user.  Routing is one step here: MessageDelivery has    *)
(* what happens between its sends.                                         *)
(***************************************************************************)
EXTENDS Naturals, Sequences, FiniteSets

CONSTANTS
  Nodes,      \* server processes
  Peers,      \* sessions of the recipient
  Msgs,       \* chat messages to it, of a type that is pushed
  QueueSize,  \* _PUSH_QUEUE_MAX_SIZE (20000)
  NoNode      \* not connected

ASSUME NodesAssumption == QueueSize \in Nat \ {0} /\ NoNode \notin Nodes

VARIABLES
  link,       \* the process a session's live socket belongs to
  handlers,   \* websocket handlers of broken links, still to end
  registry,   \* _connections of each process
  shown,      \* _session_state: sessions that have the chat on the screen
  redis,      \* whether Redis answers
  presence,   \* presence:user:..., a set in Redis
  channel,    \* what a process' subscriber has still to read
  inbox,      \* offline_messages
  unacked,    \* _pending_deliveries: process and message
  jobs,       \* _push_queue
  sent,       \* history: what was posted to the hub, which takes it or not:
              \* the message and a session to wake
  waked,      \* history: the same of the wakes that were asked for
  routed,     \* history: messages routed, but for those that were awaiting an
              \* acknowledgement in a process that stopped
  arrived     \* history: copies that reached a session

reach == <<link, handlers, registry, shown, redis, presence, channel, inbox,
           unacked, jobs, sent, waked, routed, arrived>>

OutreachInit ==
  /\ link = [s \in Peers |-> NoNode] /\ handlers = {}
  /\ registry = [n \in Nodes |-> {}] /\ shown = registry
  /\ redis = TRUE /\ presence = {}
  /\ channel = [n \in Nodes |-> {}]
  /\ inbox = {} /\ unacked = {}
  /\ jobs = [n \in Nodes |-> <<>>]
  /\ sent = {} /\ waked = {} /\ routed = {} /\ arrived = {}

LinkedTo(n) == {s \in Peers : link[s] = n}

-----------------------------------------------------------------------------
(* Connections *)

\* ConnectionRegistry.register: the socket is entered first, then Redis is told.
Registered(s, n) ==
  /\ registry' = [registry EXCEPT ![n] = @ \cup {s}]
  /\ presence' = IF redis THEN presence \cup {s} ELSE presence

\* ws_auth is over and the session is registered.  With Redis away marking it
\* online raises: the handler is gone, the entry stays.
Connects(s, n) ==
  /\ link[s] = NoNode
  /\ Registered(s, n)
  /\ link' = IF redis THEN [link EXCEPT ![s] = n] ELSE link
  /\ UNCHANGED <<handlers, shown, redis, channel, inbox, unacked, jobs, sent, waked, routed, arrived>>

\* The session states that a process keeps of a user, also of a session that has
\* left its registry.
StateSet(n, S) == shown' = [shown EXCEPT ![n] = S]

\* client_presence
Reports(s) ==
  /\ link[s] # NoNode
  /\ \/ StateSet(link[s], shown[link[s]] \cup {s})
     \/ StateSet(link[s], shown[link[s]] \ {s})
  /\ UNCHANGED <<link, handlers, registry, redis, presence, channel, inbox, unacked, jobs,
                 sent, waked, routed, arrived>>

\* The process will notice later.
LinkBreaks(s) ==
  /\ link[s] # NoNode
  /\ handlers' = handlers \cup {<<s, link[s]>>}
  /\ link' = [link EXCEPT ![s] = NoNode]
  /\ UNCHANGED <<registry, shown, redis, presence, channel, inbox, unacked, jobs, sent,
                 waked, routed, arrived>>

\* ConnectionRegistry.remove: sessions S leave process n, and Redis if it
\* answers, whatever process they are connected to by now.
Removed(n, S) ==
  /\ registry' = [registry EXCEPT ![n] = @ \ S]
  /\ shown' = [shown EXCEPT ![n] = @ \ S]
  /\ presence' = IF redis THEN presence \ S ELSE presence

HandlerEnds(s, n) ==
  /\ <<s, n>> \in handlers
  /\ handlers' = handlers \ {<<s, n>>}
  /\ Removed(n, {s})
  /\ UNCHANGED <<link, redis, channel, inbox, unacked, jobs, sent, waked, routed, arrived>>

-----------------------------------------------------------------------------
(* Wakes *)

\* The sessions a wake is for
Wakes(job) == {job.msg} \X (Peers \ job.except)

\* enqueue_push: a full queue, and the loop posts the wake itself.
Enqueued(n, job) ==
  IF Len(jobs[n]) < QueueSize
    THEN jobs' = [jobs EXCEPT ![n] = Append(@, job)] /\ UNCHANGED sent
    ELSE sent' = sent \cup Wakes(job) /\ UNCHANGED jobs

Wake(n, m, except) ==
  LET job == [msg |-> m, except |-> except]
  IN Enqueued(n, job) /\ waked' = waked \cup Wakes(job)

\* _worker_loop: the hub may refuse, or be away for its five seconds; the wake
\* is not repeated.
WorkerPosts(n) ==
  /\ jobs[n] # <<>>
  /\ sent' = sent \cup Wakes(Head(jobs[n]))
  /\ jobs' = [jobs EXCEPT ![n] = Tail(@)]
  /\ UNCHANGED <<link, handlers, registry, shown, redis, presence, channel, inbox,
                 unacked, waked, routed, arrived>>

-----------------------------------------------------------------------------
(* Messages *)

\* A send to a socket that is gone raises, or it returns and nothing arrives.
Deliverable(n) == {D \in SUBSET registry[n] : registry[n] \cap LinkedTo(n) \subseteq D}

\* The sends of process n: D of them return, those to live sockets arrive, and
\* the sessions S leave the registry.  Acknowledgements come in time or not.
SentLocally(n, m, D, S) ==
  /\ Removed(n, S)
  /\ arrived' = arrived \cup ({m} \X (D \cap LinkedTo(n)))
  /\ \/ D # {} /\ unacked' = unacked \cup {<<n, m>>}
     \/ D \subseteq LinkedTo(n) /\ UNCHANGED unacked

\* _build_online_push_exclusions
Excluded(n, D) == shown[n] \cap D

\* mutant: what was published counts as delivered
AnyCopy(D, published) == D \cup published

\* delivered_online_session_secrets: "publish is best-effort"
Delivered(D, published) == D

\* FanoutBridge.publish: copies of m for the sessions P, which only the other
\* processes take from the channel.
Published(n, m, P) ==
  channel' = [k \in Nodes |-> IF k = n THEN channel[k] ELSE channel[k] \cup ({m} \X P)]

\* The routing block of websocket_endpoint in process n.  Sessions that are
\* present elsewhere get a copy on the channel, or the publish raises and that
\* is passed over; with no copy delivered here the message is stored.
Route(n, m) ==
  \E D \in Deliverable(n) :
    LET remote == presence \ registry[n]
    IN
    /\ redis /\ m \notin routed
    /\ SentLocally(n, m, D, registry[n] \ D)
    /\ \E P \in {{}, remote} :
         /\ Published(n, m, P)
         /\ IF Delivered(D, P) = {}
              THEN inbox' = inbox \cup {m} /\ Wake(n, m, {})
              ELSE UNCHANGED inbox /\ Wake(n, m, Excluded(n, D))
    /\ routed' = routed \cup {m}
    /\ UNCHANGED <<link, handlers, redis>>

\* With Redis away reading the presence set raises after the sends, or the
\* first removal of a socket that is gone does: nothing is committed and the
\* sender's socket is closed without an echo.
RouteRaises(n, m) ==
  /\ ~ redis /\ m \notin routed
  /\ \/ SentLocally(n, m, registry[n], {})
     \/ \E D \in SUBSET registry[n], s \in registry[n] \ LinkedTo(n) :
          s \notin D /\ SentLocally(n, m, D, {s})
  /\ UNCHANGED <<link, handlers, redis, channel, inbox, jobs, sent, waked, routed>>

\* _deliver_fanout_to_local_session: a send to a socket that is gone raises, or it
\* returns and nothing arrives.
RelayedTo(n, f) ==
  \/ f[2] \in registry[n] /\ link[f[2]] = n
     /\ arrived' = arrived \cup {f}
     /\ UNCHANGED <<registry, shown, presence>>
  \/ f[2] \in registry[n] /\ link[f[2]] # n /\ UNCHANGED arrived
     /\ (Removed(n, {f[2]}) \/ UNCHANGED <<registry, shown, presence>>)
  \/ f[2] \notin registry[n] /\ UNCHANGED <<registry, shown, presence, arrived>>

\* _listen_loop: the listener gives up after two seconds on a send that may still
\* arrive: the same copy.
Listens(n, f) ==
  /\ f \in channel[n]
  /\ channel' = [channel EXCEPT ![n] = @ \ {f}]
  /\ RelayedTo(n, f)
  /\ UNCHANGED <<link, handlers, redis, inbox, unacked, jobs, sent, waked, routed>>

\* _pending_delivery_timeout_worker of process n
AckMissing(n, m) ==
  /\ <<n, m>> \in unacked
  /\ unacked' = unacked \ {<<n, m>>}
  /\ inbox' = inbox \cup {m}
  /\ Wake(n, m, {})
  /\ UNCHANGED <<link, handlers, registry, shown, redis, presence, channel, routed, arrived>>

\* A fetch and its acknowledgement: PendingMailbox.
FetchesInbox(s) ==
  /\ inbox # {}
  /\ arrived' = arrived \cup (inbox \X {s})
  /\ inbox' = {}
  /\ UNCHANGED <<link, handlers, registry, shown, redis, presence, channel, unacked, jobs,
                 sent, waked, routed>>

\* Deleting or resetting the account deletes its mailbox and closes no socket.
PurgeInbox ==
  /\ inbox' = {}
  /\ routed' = routed \ inbox
  /\ UNCHANGED <<link, handlers, registry, shown, redis, presence, channel, unacked, jobs,
                 sent, waked, arrived>>

-----------------------------------------------------------------------------
(* Faults *)

\* presence:user:... was not touched for PRESENCE_TTL_SECONDS; a connection
\* does not touch it while it is open.
PresenceExpires ==
  /\ redis /\ presence # {}
  /\ presence' = {}
  /\ UNCHANGED <<link, handlers, registry, shown, redis, channel, inbox, unacked, jobs,
                 sent, waked, routed, arrived>>

RedisGoesOrComes ==
  /\ redis' = ~ redis
  /\ UNCHANGED <<link, handlers, registry, shown, presence, channel, inbox, unacked, jobs,
                 sent, waked, routed, arrived>>

\* A process stops with what it has in memory; Redis keeps its sessions, and
\* what is published meanwhile does not wait for it.
NodeStops(n) ==
  /\ link' = [s \in Peers |-> IF link[s] = n THEN NoNode ELSE link[s]]
  /\ handlers' = {h \in handlers : h[2] # n}
  /\ registry' = [registry EXCEPT ![n] = {}] /\ shown' = [shown EXCEPT ![n] = {}]
  /\ channel' = [channel EXCEPT ![n] = {}]
  /\ unacked' = {a \in unacked : a[1] # n}
  /\ jobs' = [jobs EXCEPT ![n] = <<>>]
  /\ routed' = {m \in routed : <<n, m>> \notin unacked}
  /\ UNCHANGED <<redis, presence, inbox, sent, waked, arrived>>

OutreachNext ==
  \/ \E s \in Peers : Reports(s) \/ LinkBreaks(s) \/ FetchesInbox(s)
  \/ \E s \in Peers, n \in Nodes : Connects(s, n) \/ HandlerEnds(s, n)
  \/ \E n \in Nodes : WorkerPosts(n)
  \/ \E n \in Nodes, m \in Msgs : Route(n, m) \/ RouteRaises(n, m) \/ AckMissing(n, m)
  \/ \E n \in Nodes : \E f \in channel[n] : Listens(n, f)
  \/ PresenceExpires \/ RedisGoesOrComes

OutreachSpec ==
  OutreachInit /\ [][OutreachNext \/ PurgeInbox \/ \E n \in Nodes : NodeStops(n)]_reach

-----------------------------------------------------------------------------
(* Properties *)

OutreachTypeOK ==
  /\ link \in [Peers -> Nodes \cup {NoNode}]
  /\ handlers \subseteq Peers \X Nodes
  /\ registry \in [Nodes -> SUBSET Peers]
  /\ shown \in [Nodes -> SUBSET Peers]
  /\ redis \in BOOLEAN
  /\ presence \subseteq Peers
  /\ channel \in [Nodes -> SUBSET (Msgs \X Peers)]
  /\ inbox \subseteq Msgs
  /\ unacked \subseteq Nodes \X Msgs
  /\ jobs \in [Nodes -> Seq([msg : Msgs, except : SUBSET Peers])]
  /\ sent \subseteq waked /\ waked \subseteq Msgs \X Peers
  /\ routed \subseteq Msgs
  /\ arrived \subseteq Msgs \X Peers

\* A message that was routed has reached a session of its recipient, lies in
\* its mailbox, or a process still waits for its acknowledgement: what becomes
\* of the copies that were published, and of Redis, changes nothing.
RoutedIsKept ==
  \A m \in routed :
    m \in inbox \/ (\E s \in Peers : <<m, s>> \in arrived) \/ (\E n \in Nodes : <<n, m>> \in unacked)

\* Several processes and Redis keep the promise of module Handover: at each step,
\* what leaves the mailbox or is no longer awaited has arrived or is elsewhere.
Promise == INSTANCE Handover WITH
  accepted <- routed,
  awaiting <- {m \in Msgs : \E n \in Nodes : <<n, m>> \in unacked},
  stored <- inbox,
  reached <- {m \in Msgs : \E s \in Peers : <<m, s>> \in arrived}

RoutedIsHandedOver == Promise!Spec

\* No session is left asleep: one that every wake of a message leaves out has
\* got it, or its acknowledgement is still missing and another wake will come,
\* however old its report that the chat is on the screen is.
NobodyIsLeftAsleep ==
  \A m \in routed, s \in Peers :
    \/ <<m, s>> \in waked \cup arrived
    \/ \E n \in Nodes : <<n, m>> \in unacked

\* A routed message is kept until it arrives, and every session gets it, is woken
\* for it, or will be.
MessageReaches == RoutedIsKept /\ NobodyIsLeftAsleep

\* A wake that is asked for is queued or posted, also when the queue is full.
Queued == UNION {UNION {Wakes(jobs[n][i]) : i \in DOMAIN jobs[n]} : n \in Nodes}
WakeIsNotDropped == [][waked' \subseteq waked \cup sent' \cup Queued']_reach
=============================================================================
