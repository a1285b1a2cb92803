--------------------------- MODULE ReadStateProofs ---------------------------
(***************************************************************************)
(* Proofs that a notice of a read is never ahead of the stored cursor, that *)
(* cursor and message id belong together, and that unread rows behind the   *)
(* cursor are those of messages routed later, for any users, devices,       *)
(* messages and number of resends.                                          *)
(***************************************************************************)
EXTENDS ReadState, TLAPS

\* A notice that a handler is still sending is backed by the database.
TaskIsBacked ==
  \A d \in Devices : task[d] \in AnnouncingTask =>
    LET c == task[d].conv
    IN  c[1] \notin gone /\ c[2] \notin gone => cursor[c].rank >= task[d].rank

IInv ==
  /\ TypeOK
  /\ CursorIsAMessage
  /\ UnreadIsNew
  /\ TaskIsBacked
  /\ NoticeIsBacked

USE OwnerAssumption, MsgAssumption, NoneAssumption

-----------------------------------------------------------------------------
(* The task of a handler *)

LEMMA ConvType == \A m \in Msgs : Conv(m) \in Conversations
  BY DEF Conv, Conversations

LEMMA ConvPair == \A c \in Conversations : c[1] \in Users /\ c[2] \in Users
  BY DEF Conversations

LEMMA RoutingOnly ==
  ASSUME TypeOK, NEW d \in Devices, task[d].pc = "routing"
  PROVE  task[d] \in RoutingTask
  BY DEF TypeOK, Idle, AnnouncingTask

LEMMA AnnouncingOnly ==
  ASSUME TypeOK, NEW d \in Devices, task[d].pc \in {"ack", "peer", "own", "legacy"}
  PROVE  task[d] \in AnnouncingTask
  BY DEF TypeOK, Idle, RoutingTask

LEMMA IdleIsNeither == Idle \notin RoutingTask /\ Idle \notin AnnouncingTask
  BY DEF Idle, RoutingTask, AnnouncingTask

-----------------------------------------------------------------------------
(* Writing the cursor *)

LEMMA UpsertType ==
  ASSUME TypeOK, NEW m \in Msgs
  PROVE  /\ Upserted(Conv(m), m) \in [msg : Msgs, rank : Nat \ {0}]
         /\ Upserted(Conv(m), m).rank >= cursor[Conv(m)].rank
         /\ Upserted(Conv(m), m).rank >= Rank[m]
<1>1. cursor[Conv(m)] \in [msg : Msgs, rank : Nat \ {0}] \cup {Unset}
  BY ConvType DEF TypeOK
<1>2. Rank[m] \in Nat \ {0}
  OBVIOUS
<1>3. CASE Rank[m] < cursor[Conv(m)].rank
  <2>1. cursor[Conv(m)] # Unset
    BY <1>2, <1>3 DEF Unset
  <2>2. Upserted(Conv(m), m) = cursor[Conv(m)]
    BY <1>3 DEF Upserted
  <2> QED BY <1>1, <1>2, <1>3, <2>1, <2>2
<1>4. CASE ~ (Rank[m] < cursor[Conv(m)].rank)
  <2>1. Upserted(Conv(m), m) = [msg |-> m, rank |-> Rank[m]]
    BY <1>4 DEF Upserted
  <2>2. cursor[Conv(m)].rank \in Nat
    BY <1>1 DEF Unset
  <2> QED BY <1>2, <1>4, <2>1, <2>2
<1> QED
  BY <1>3, <1>4

\* A read moves the cursor on or leaves it, and clears the rows up to it.
LEMMA MarkReadKeeps ==
  ASSUME IInv, NEW m \in Msgs, MarkRead(m)
  PROVE  /\ cursor' \in [Conversations -> [msg : Msgs, rank : Nat \ {0}] \cup {Unset}]
         /\ cursor'[Conv(m)].rank \in Nat \ {0}
         /\ \A c \in Conversations : cursor'[c].rank >= cursor[c].rank
         /\ unread' \subseteq Msgs /\ late' \subseteq unread'
         /\ CursorIsAMessage' /\ UnreadIsNew'
<1> DEFINE c0 == Conv(m)
           new == Upserted(c0, m)
<1>1. /\ cursor' = [cursor EXCEPT ![c0] = new]
      /\ unread' = unread \ UpTo(c0, new.rank)
      /\ late' = late \ UpTo(c0, new.rank)
  BY DEF MarkRead, Cleared
<1>2. c0 \in Conversations
  BY ConvType
<1>3. new \in [msg : Msgs, rank : Nat \ {0}] /\ new.rank >= cursor[c0].rank
  BY UpsertType DEF IInv
<1>4. new.rank = Rank[new.msg] /\ Conv(new.msg) = c0
  <2>1. CASE Rank[m] < cursor[c0].rank
    <3>1. new = cursor[c0]
      BY <2>1 DEF Upserted
    <3>2. new.msg # None
      BY <1>3
    <3> QED BY <1>2, <3>1, <3>2 DEF IInv, CursorIsAMessage
  <2>2. CASE ~ (Rank[m] < cursor[c0].rank)
    BY <2>2 DEF Upserted
  <2> QED BY <2>1, <2>2
<1> HIDE DEF c0, new
<1>5. cursor \in [Conversations -> [msg : Msgs, rank : Nat \ {0}] \cup {Unset}]
      /\ unread \subseteq Msgs /\ late \subseteq unread
  BY DEF IInv, TypeOK
<1>6. cursor' \in [Conversations -> [msg : Msgs, rank : Nat \ {0}] \cup {Unset}]
      /\ cursor'[c0] = new
      /\ \A c \in Conversations : c # c0 => cursor'[c] = cursor[c]
  BY <1>1, <1>2, <1>3, <1>5
<1>7. \A c \in Conversations : cursor[c].rank \in Nat
  BY <1>5 DEF Unset
<1>8. \A c \in Conversations : cursor'[c].rank >= cursor[c].rank
  BY <1>3, <1>6, <1>7
<1>9. CursorIsAMessage'
  BY <1>4, <1>6 DEF IInv, CursorIsAMessage
<1>10. ASSUME NEW n \in unread', Rank[n] <= cursor'[Conv(n)].rank PROVE n \in late'
  <2>1. n \in unread /\ n \in Msgs
    BY <1>1, <1>5, <1>10
  <2>2. CASE Conv(n) = c0
    BY <1>1, <1>6, <1>10, <2>1, <2>2 DEF UpTo
  <2>3. CASE Conv(n) # c0
    <3>1. n \in late
      BY <1>6, <1>10, <2>1, <2>3, ConvType DEF IInv, UnreadIsNew
    <3> QED BY <1>1, <2>3, <3>1 DEF UpTo
  <2> QED BY <2>2, <2>3
<1> QED
  BY <1>1, <1>3, <1>5, <1>6, <1>8, <1>9, <1>10 DEF UnreadIsNew, c0

\* A committed row is late when the cursor has passed it.
LEMMA CommittedKeeps ==
  ASSUME IInv, NEW m \in Msgs, Committed(m), cursor' = cursor
  PROVE  unread' \subseteq Msgs /\ late' \subseteq unread' /\ UnreadIsNew'
<1>1. unread' = unread \cup {m} /\ late \subseteq late' /\ late' \subseteq late \cup {m}
      /\ (m \notin unread /\ Rank[m] <= cursor[Conv(m)].rank => m \in late')
  BY DEF Committed
<1> QED
  BY <1>1 DEF IInv, TypeOK, UnreadIsNew

-----------------------------------------------------------------------------
(* Steps that leave the tables alone *)

\* What such a step may do: tasks end or announce what they did before, and
\* devices are told what tasks announce.
Passes ==
  /\ UNCHANGED <<cursor, unread, late, gone>>
  /\ \A d \in Devices : task'[d] \in AnnouncingTask =>
       task[d] \in AnnouncingTask /\ task'[d].conv = task[d].conv /\ task'[d].rank = task[d].rank
  /\ \A e \in Devices : \A n \in told'[e] :
       \/ n \in told[e]
       \/ \E d \in Devices : task[d] \in AnnouncingTask /\ n = <<task[d].conv, task[d].rank>>

LEMMA PassesKeeps == IInv /\ TypeOK' /\ Passes => IInv'
<1> SUFFICES ASSUME IInv, TypeOK', Passes PROVE IInv'
  OBVIOUS
<1>1. CursorIsAMessage' /\ UnreadIsNew'
  BY DEF IInv, Passes, CursorIsAMessage, UnreadIsNew
<1>2. TaskIsBacked'
  BY DEF IInv, Passes, TaskIsBacked
<1>3. ASSUME NEW e \in Devices, NEW n \in told'[e],
             n[1][1] \notin gone' /\ n[1][2] \notin gone'
      PROVE  cursor'[n[1]].rank >= n[2]
  <2>1. CASE n \in told[e]
    BY <1>3, <2>1 DEF IInv, Passes, NoticeIsBacked
  <2>2. ASSUME NEW d \in Devices, task[d] \in AnnouncingTask, n = <<task[d].conv, task[d].rank>>
        PROVE  cursor'[n[1]].rank >= n[2]
    BY <1>3, <2>2 DEF IInv, Passes, TaskIsBacked
  <2> QED BY <2>1, <2>2 DEF Passes
<1> QED
  BY <1>1, <1>2, <1>3 DEF IInv, NoticeIsBacked

\* A step that writes the tables, sends nothing and sets at most one task.
LEMMA WriteKeeps ==
  ASSUME IInv, TypeOK', CursorIsAMessage', UnreadIsNew', UNCHANGED <<told, gone>>,
         \A c \in Conversations : cursor'[c].rank >= cursor[c].rank,
         \A d \in Devices : task'[d] \in AnnouncingTask =>
           \/ task'[d] = task[d]
           \/ cursor'[task'[d].conv].rank >= task'[d].rank
  PROVE  IInv'
<1>1. \A c \in Conversations : cursor[c].rank \in Nat /\ cursor'[c].rank \in Nat
  BY DEF IInv, TypeOK, Unset
<1>2. TaskIsBacked'
  <2> SUFFICES ASSUME NEW d \in Devices, task'[d] \in AnnouncingTask,
                      task'[d].conv[1] \notin gone /\ task'[d].conv[2] \notin gone
               PROVE  cursor'[task'[d].conv].rank >= task'[d].rank
    BY DEF TaskIsBacked
  <2>1. CASE task'[d] = task[d]
    <3>1. task[d].conv \in Conversations /\ task[d].rank \in Nat
      BY <2>1 DEF AnnouncingTask
    <3>2. cursor[task[d].conv].rank >= task[d].rank
      BY <2>1 DEF IInv, TaskIsBacked
    <3> QED BY <1>1, <2>1, <3>1, <3>2
  <2> QED BY <2>1
<1>3. ASSUME NEW e \in Devices, NEW n \in told[e], n[1][1] \notin gone /\ n[1][2] \notin gone
      PROVE  cursor'[n[1]].rank >= n[2]
  <2>1. n[1] \in Conversations /\ n[2] \in Nat
    BY DEF IInv, TypeOK
  <2>2. cursor[n[1]].rank >= n[2]
    BY <1>3 DEF IInv, NoticeIsBacked
  <2> QED BY <1>1, <2>1, <2>2
<1> QED
  BY <1>2, <1>3 DEF IInv, NoticeIsBacked

-----------------------------------------------------------------------------
(* One lemma for each action *)

LEMMA SocketStep ==
  ASSUME IInv, NEW d \in Devices, Connect(d) \/ Disconnect(d)
  PROVE  IInv'
<1>1. TypeOK'
  BY DEF IInv, TypeOK, Connect, Disconnect, database, clients
<1>2. Passes
  BY DEF Passes, Connect, Disconnect, database, clients
<1> QED
  BY <1>1, <1>2, PassesKeeps

LEMMA FailsStep ==
  ASSUME IInv, NEW d \in Devices, Fails(d)
  PROVE  IInv'
<1>1. task' = [task EXCEPT ![d] = Idle] /\ writer' = IF writer = d THEN None ELSE writer
  BY DEF Fails, Released
<1>2. TypeOK'
  BY <1>1 DEF IInv, TypeOK, Fails, database, clients
<1>3. Passes
  BY <1>1, IdleIsNeither DEF IInv, TypeOK, Passes, Fails, database, clients
<1> QED
  BY <1>2, <1>3, PassesKeeps

LEMMA RouteStep ==
  ASSUME IInv, NEW d \in Devices, NEW m \in Msgs, Route(d, m)
  PROVE  IInv'
<1>1. routed' \in [Msgs -> 0 .. MaxRoutes]
  <2>1. routed' = [routed EXCEPT ![m] = routed[m] + 1]
    BY DEF Route
  <2>2. routed[m] \in Nat /\ routed[m] < MaxRoutes /\ MaxRoutes \in Nat
    BY DEF Route, IInv, TypeOK
  <2>3. routed[m] + 1 \in 0 .. MaxRoutes
    BY <2>2
  <2> QED BY <2>1, <2>3 DEF IInv, TypeOK
<1>2. CASE DevicesOf(To[m]) \cap online # {}
  <2> DEFINE t == [Idle EXCEPT !.pc = "routing", !.msg = m]
  <2>1. t \in RoutingTask /\ t.pc = "routing" /\ t \notin AnnouncingTask
    BY DEF Idle, RoutingTask, AnnouncingTask
  <2>2. writer' = d /\ task' = [task EXCEPT ![d] = t] /\ UNCHANGED <<unread, late>>
    BY <1>2 DEF Route
  <2> HIDE DEF t
  <2>3. TypeOK'
    BY <1>1, <2>1, <2>2 DEF IInv, TypeOK, Route, clients
  <2>4. Passes
    BY <2>1, <2>2 DEF IInv, TypeOK, Passes, Route, clients
  <2> QED BY <2>3, <2>4, PassesKeeps
<1>3. CASE ~ (DevicesOf(To[m]) \cap online # {})
  <2>1. Committed(m) /\ UNCHANGED <<writer, task, cursor, open, online, gone, seen, asked, told>>
    BY <1>3 DEF Route, clients
  <2>2. unread' \subseteq Msgs /\ late' \subseteq unread' /\ UnreadIsNew'
    BY <2>1, CommittedKeeps
  <2>3. TypeOK'
    BY <1>1, <2>1, <2>2 DEF IInv, TypeOK
  <2>4. CursorIsAMessage'
    BY <2>1 DEF IInv, CursorIsAMessage
  <2>5. \A c \in Conversations : cursor'[c].rank >= cursor[c].rank
    BY <2>1 DEF IInv, TypeOK, Unset
  <2> QED BY <2>1, <2>2, <2>3, <2>4, <2>5, WriteKeeps
<1> QED
  BY <1>2, <1>3

LEMMA SeenStep ==
  ASSUME IInv, \/ \E d \in Devices : RouteSend(d)
               \/ \E m \in Msgs : Fetch(m)
               \/ \E d \in Devices, m \in Msgs : WantsRead(d, m)
  PROVE  IInv'
<1>1. TypeOK'
  <2>1. ASSUME NEW d \in Devices, RouteSend(d) PROVE TypeOK'
    <3>1. task[d].msg \in Msgs
      BY <2>1, RoutingOnly DEF RouteSend, IInv, RoutingTask
    <3> QED BY <2>1, <3>1 DEF RouteSend, IInv, TypeOK, database
  <2>2. ASSUME NEW m \in Msgs, Fetch(m) PROVE TypeOK'
    BY <2>2 DEF Fetch, IInv, TypeOK, database
  <2>3. ASSUME NEW d \in Devices, NEW m \in Msgs, WantsRead(d, m) PROVE TypeOK'
    BY <2>3 DEF WantsRead, IInv, TypeOK, database
  <2> QED BY <2>1, <2>2, <2>3
<1>2. Passes
  BY DEF Passes, RouteSend, Fetch, WantsRead, database
<1> QED
  BY <1>1, <1>2, PassesKeeps

LEMMA RouteEndsStep ==
  ASSUME IInv, NEW d \in Devices, RouteEnds(d)
  PROVE  IInv'
<1>1. task[d].msg \in Msgs
  BY RoutingOnly DEF RouteEnds, IInv, RoutingTask
<1>2. /\ Committed(task[d].msg) /\ writer' = None /\ task' = [task EXCEPT ![d] = Idle]
      /\ UNCHANGED <<cursor, open, online, routed, seen, asked, told, gone>>
  BY DEF RouteEnds, clients
<1>3. unread' \subseteq Msgs /\ late' \subseteq unread' /\ UnreadIsNew'
  BY <1>1, <1>2, CommittedKeeps
<1>4. TypeOK'
  BY <1>2, <1>3 DEF IInv, TypeOK
<1>5. CursorIsAMessage' /\ \A c \in Conversations : cursor'[c].rank >= cursor[c].rank
  BY <1>2 DEF IInv, TypeOK, CursorIsAMessage, Unset
<1>6. \A e \in Devices : task'[e] \in AnnouncingTask => task'[e] = task[e]
  BY <1>2, IdleIsNeither DEF IInv, TypeOK
<1> QED
  BY <1>2, <1>3, <1>4, <1>5, <1>6, WriteKeeps

LEMMA ReadStep ==
  ASSUME IInv, NEW d \in Devices, Read(d) \/ Receipt(d)
  PROVE  IInv'
<1> DEFINE m == asked[d]
           pc == IF Read(d) THEN "ack" ELSE "legacy"
           todo == IF Read(d) THEN {} ELSE PeerSockets(Conv(m))
           t == Announce(pc, m, cursor'[Conv(m)].rank, todo)
<1>1. m \in Msgs
  BY DEF Read, Receipt, IInv, TypeOK
<1>2. /\ MarkRead(m) /\ task' = [task EXCEPT ![d] = t] /\ writer = None
      /\ UNCHANGED <<writer, open, online, routed, seen, told, gone>>
      /\ asked' \in {asked, [asked EXCEPT ![d] = None]}
  BY DEF Read, Receipt, clients
<1>3. pc \in {"ack", "legacy"} /\ todo \subseteq Devices
  BY DEF PeerSockets, DevicesOf
<1> HIDE DEF pc, todo
<1>4. /\ cursor' \in [Conversations -> [msg : Msgs, rank : Nat \ {0}] \cup {Unset}]
      /\ cursor'[Conv(m)].rank \in Nat \ {0}
      /\ \A c \in Conversations : cursor'[c].rank >= cursor[c].rank
      /\ unread' \subseteq Msgs /\ late' \subseteq unread'
      /\ CursorIsAMessage' /\ UnreadIsNew'
  BY <1>1, <1>2, MarkReadKeeps
<1>5. t \in AnnouncingTask /\ t.conv = Conv(m) /\ t.rank = cursor'[Conv(m)].rank
  BY <1>1, <1>3, <1>4, ConvType DEF Announce, AnnouncingTask
<1> HIDE DEF t, m
<1>6. TypeOK'
  <2>1. task' \in [Devices -> {Idle} \cup RoutingTask \cup AnnouncingTask]
    BY <1>2, <1>5 DEF IInv, TypeOK
  <2>2. /\ asked' \in [Devices -> Msgs \cup {None}]
        /\ \A e \in Devices : asked'[e] # None => To[asked'[e]] = Owner[e]
    BY <1>2 DEF IInv, TypeOK
  <2> QED BY <1>2, <1>4, <2>1, <2>2 DEF IInv, TypeOK
<1>7. \A e \in Devices : task'[e] \in AnnouncingTask =>
        task'[e] = task[e] \/ cursor'[task'[e].conv].rank >= task'[e].rank
  BY <1>2, <1>4, <1>5 DEF IInv, TypeOK
<1> QED
  BY <1>2, <1>4, <1>6, <1>7, WriteKeeps

LEMMA TellType ==
  ASSUME TypeOK, NEW e \in Devices, NEW c \in Conversations, NEW r \in Nat \ {0}
  PROVE  /\ Tell(e, c, r) \in [Devices -> SUBSET (Conversations \X (Nat \ {0}))]
         /\ \A f \in Devices : \A n \in Tell(e, c, r)[f] : n \in told[f] \/ n = <<c, r>>
<1>1. Tell(e, c, r) = [told EXCEPT ![e] = told[e] \cup {<<c, r>>}]
  BY DEF Tell
<1> QED
  BY <1>1 DEF TypeOK

LEMMA AckStep ==
  ASSUME IInv, NEW d \in Devices, NEW arrives \in BOOLEAN, AckSent(d, arrives)
  PROVE  IInv'
<1> DEFINE t == task[d]
           n == [t EXCEPT !.pc = "peer", !.todo = PeerSockets(t.conv)]
<1>1. t \in AnnouncingTask /\ t.pc = "ack"
  BY AnnouncingOnly DEF AckSent, IInv
<1>2. n \in AnnouncingTask /\ n.conv = t.conv /\ n.rank = t.rank
  BY <1>1 DEF AnnouncingTask, PeerSockets, DevicesOf
<1>3. task' = [task EXCEPT ![d] = n]
      /\ UNCHANGED <<cursor, unread, writer, open, online, routed, seen, late, gone>>
      /\ told' \in {told, Tell(d, t.conv, t.rank)}
      /\ asked' \in {asked, [asked EXCEPT ![d] = None]}
  BY DEF AckSent, database
<1>t. t = task[d]
  OBVIOUS
<1> HIDE DEF n, t
<1>4. t.conv \in Conversations /\ t.rank \in Nat \ {0}
  BY <1>1 DEF AnnouncingTask
<1>5. /\ told' \in [Devices -> SUBSET (Conversations \X (Nat \ {0}))]
      /\ \A e \in Devices : \A x \in told'[e] : x \in told[e] \/ x = <<t.conv, t.rank>>
  BY <1>3, <1>4, TellType DEF IInv, TypeOK
<1>6. TypeOK'
  <2>1. task' \in [Devices -> {Idle} \cup RoutingTask \cup AnnouncingTask]
    BY <1>2, <1>3 DEF IInv, TypeOK
  <2>2. writer' # None => writer' \in Devices /\ task'[writer'].pc = "routing"
    BY <1>1, <1>3, <1>t DEF IInv, TypeOK
  <2>3. /\ asked' \in [Devices -> Msgs \cup {None}]
        /\ \A e \in Devices : asked'[e] # None => To[asked'[e]] = Owner[e]
    BY <1>3 DEF IInv, TypeOK
  <2> QED BY <1>3, <1>5, <2>1, <2>2, <2>3 DEF IInv, TypeOK
<1>7. Passes
  <2>1. \A e \in Devices : task'[e] \in AnnouncingTask =>
          task[e] \in AnnouncingTask /\ task'[e].conv = task[e].conv /\ task'[e].rank = task[e].rank
    BY <1>1, <1>2, <1>3, <1>t DEF IInv, TypeOK
  <2> QED BY <1>1, <1>3, <1>5, <1>t, <2>1 DEF Passes
<1> QED
  BY <1>6, <1>7, PassesKeeps

\* The other steps of an announcement change its pc or shorten its list.
LEMMA AnnounceStep ==
  ASSUME IInv, NEW d \in Devices,
         OwnNext(d) \/ Announced(d) \/ \E e \in Devices : NoticeSent(d, e)
  PROVE  IInv'
<1> DEFINE t == task[d]
<1>1. t \in AnnouncingTask /\ t.pc # "routing"
  BY AnnouncingOnly DEF OwnNext, Announced, NoticeSent, IInv
<1>2. PICK n \in {Idle} \cup AnnouncingTask :
        task' = [task EXCEPT ![d] = n] /\ (n # Idle => n.conv = t.conv /\ n.rank = t.rank)
  <2>1. CASE OwnNext(d)
    <3> DEFINE k == [t EXCEPT !.pc = "own", !.todo = (DevicesOf(t.conv[1]) \cap online) \ {d}]
    <3>1. k \in AnnouncingTask /\ k.conv = t.conv /\ k.rank = t.rank
      BY <1>1 DEF AnnouncingTask, DevicesOf
    <3>2. task' = [task EXCEPT ![d] = k]
      BY <2>1 DEF OwnNext
    <3> QED BY <3>1, <3>2
  <2>2. CASE Announced(d)
    BY <2>2 DEF Announced
  <2>3. ASSUME NEW e \in Devices, NoticeSent(d, e)
        PROVE  \E k \in AnnouncingTask :
                 task' = [task EXCEPT ![d] = k] /\ k.conv = t.conv /\ k.rank = t.rank
    <3> DEFINE k == [t EXCEPT !.todo = t.todo \ {e}]
    <3>1. k \in AnnouncingTask /\ k.conv = t.conv /\ k.rank = t.rank
      BY <1>1 DEF AnnouncingTask
    <3>2. task' = [task EXCEPT ![d] = k]
      BY <2>3 DEF NoticeSent
    <3> QED BY <3>1, <3>2
  <2> QED BY <2>1, <2>2, <2>3
<1>3. UNCHANGED <<cursor, unread, writer, open, online, routed, seen, asked, late, gone>>
  BY DEF OwnNext, Announced, NoticeSent, database, clients
<1>t. t = task[d]
  OBVIOUS
<1> HIDE DEF t
<1>4. t.conv \in Conversations /\ t.rank \in Nat \ {0}
  BY <1>1 DEF AnnouncingTask
<1>5. /\ told' \in [Devices -> SUBSET (Conversations \X (Nat \ {0}))]
      /\ \A e \in Devices : \A x \in told'[e] : x \in told[e] \/ x = <<t.conv, t.rank>>
  <2>1. told' = told \/ \E e \in Devices : told' = Tell(e, t.conv, t.rank)
    BY <1>t DEF OwnNext, Announced, NoticeSent, clients
  <2> QED BY <1>4, <2>1, TellType DEF IInv, TypeOK
<1>6. TypeOK'
  <2>1. task' \in [Devices -> {Idle} \cup RoutingTask \cup AnnouncingTask]
    BY <1>2 DEF IInv, TypeOK
  <2>2. writer' # None => writer' \in Devices /\ task'[writer'].pc = "routing"
    BY <1>1, <1>2, <1>3, <1>t DEF IInv, TypeOK
  <2> QED BY <1>3, <1>5, <2>1, <2>2 DEF IInv, TypeOK
<1>7. Passes
  <2>1. \A e \in Devices : task'[e] \in AnnouncingTask =>
          task[e] \in AnnouncingTask /\ task'[e].conv = task[e].conv /\ task'[e].rank = task[e].rank
    BY <1>1, <1>2, <1>t, IdleIsNeither DEF IInv, TypeOK
  <2> QED BY <1>1, <1>3, <1>5, <1>t, <2>1 DEF Passes
<1> QED
  BY <1>6, <1>7, PassesKeeps

LEMMA PurgeStep ==
  ASSUME IInv, NEW u \in Users, Purge(u)
  PROVE  IInv'
<1>1. /\ cursor' = [c \in Conversations |-> IF u \in {c[1], c[2]} THEN Unset ELSE cursor[c]]
      /\ unread' = {m \in unread : u \notin {To[m], From[m]}}
      /\ late' = {m \in late : u \notin {To[m], From[m]}}
      /\ gone' = gone \cup {u} /\ online' \subseteq online
      /\ UNCHANGED <<writer, open, task, routed, seen, asked, told>>
  BY DEF Purge, clients
<1>2. TypeOK'
  BY <1>1 DEF IInv, TypeOK
<1>3. CursorIsAMessage'
  BY <1>1 DEF IInv, TypeOK, CursorIsAMessage, Unset
<1>4. UnreadIsNew'
  <2> SUFFICES ASSUME NEW m \in unread', Rank[m] <= cursor'[Conv(m)].rank PROVE m \in late'
    BY DEF UnreadIsNew
  <2>1. m \in unread /\ m \in Msgs /\ u # To[m] /\ u # From[m]
    BY <1>1 DEF IInv, TypeOK
  <2>2. cursor'[Conv(m)] = cursor[Conv(m)]
    BY <1>1, <2>1, ConvType DEF Conv
  <2> QED BY <1>1, <2>1, <2>2 DEF IInv, UnreadIsNew
<1>5. \A c \in Conversations : c[1] \notin gone' /\ c[2] \notin gone' =>
        cursor'[c] = cursor[c] /\ c[1] \notin gone /\ c[2] \notin gone
  BY <1>1
<1>6. TaskIsBacked'
  BY <1>1, <1>5 DEF IInv, TaskIsBacked, AnnouncingTask
<1>7. NoticeIsBacked'
  <2> SUFFICES ASSUME NEW e \in Devices, NEW n \in told[e],
                      n[1][1] \notin gone' /\ n[1][2] \notin gone'
               PROVE  cursor'[n[1]].rank >= n[2]
    BY <1>1 DEF NoticeIsBacked
  <2>1. n[1] \in Conversations
    BY DEF IInv, TypeOK
  <2> QED BY <1>5, <2>1 DEF IInv, NoticeIsBacked
<1> QED
  BY <1>2, <1>3, <1>4, <1>6, <1>7 DEF IInv

LEMMA CrashStep ==
  ASSUME IInv, Crash
  PROVE  IInv'
<1>1. TypeOK'
  BY DEF IInv, TypeOK, Crash, database, clients
<1>2. Passes
  BY IdleIsNeither DEF Passes, Crash, database, clients
<1> QED
  BY <1>1, <1>2, PassesKeeps

-----------------------------------------------------------------------------
LEMMA Start == Init => IInv
  BY IdleIsNeither DEF Init, IInv, TypeOK, CursorIsAMessage, UnreadIsNew, TaskIsBacked,
     NoticeIsBacked, Unset

LEMMA Step == IInv /\ [Next]_vars => IInv'
<1> SUFFICES ASSUME IInv, [Next]_vars PROVE IInv'
  OBVIOUS
<1>d. ASSUME NEW d \in Devices,
             \/ Connect(d) \/ Disconnect(d) \/ RouteEnds(d) \/ RouteFails(d)
             \/ Read(d) \/ Receipt(d) \/ ReceiptLocked(d) \/ OwnNext(d) \/ Announced(d)
             \/ \E e \in Devices : NoticeSent(d, e)
      PROVE  IInv'
  BY <1>d, SocketStep, RouteEndsStep, FailsStep, ReadStep, AnnounceStep
     DEF RouteFails, ReceiptLocked
<1>r. ASSUME NEW d \in Devices, NEW m \in Msgs, Route(d, m) \/ RouteLocked(d, m)
      PROVE  IInv'
  BY <1>r, RouteStep, FailsStep DEF RouteLocked
<1>s. ASSUME \/ \E d \in Devices : RouteSend(d)
             \/ \E m \in Msgs : Fetch(m)
             \/ \E d \in Devices, m \in Msgs : WantsRead(d, m)
      PROVE  IInv'
  BY <1>s, SeenStep
<1>a. ASSUME NEW d \in Devices, NEW arrives \in BOOLEAN, AckSent(d, arrives) PROVE IInv'
  BY <1>a, AckStep
<1>p. ASSUME NEW u \in Users, Purge(u) PROVE IInv'
  BY <1>p, PurgeStep
<1>c. ASSUME Crash PROVE IInv'
  BY <1>c, CrashStep
<1>z. ASSUME UNCHANGED vars PROVE IInv'
  <2>1. TypeOK' /\ Passes
    BY <1>z DEF IInv, TypeOK, Passes, vars, database, clients
  <2> QED BY <2>1, PassesKeeps
<1> QED
  BY <1>d, <1>r, <1>s, <1>a, <1>p, <1>c, <1>z DEF Next

\* The strengthened invariant holds in every behaviour.
THEOREM Invariance == Spec => []IInv
  BY Start, Step, PTL DEF Spec

\* Every reachable state of cursors, rows and handlers is well formed.
THEOREM TypeCorrect == Spec => []TypeOK
<1>1. IInv => TypeOK
  BY DEF IInv
<1> QED BY <1>1, Invariance, PTL

\* No device is told of a read that the database does not keep.
THEOREM NoticesAreBacked == Spec => []NoticeIsBacked
<1>1. IInv => NoticeIsBacked
  BY DEF IInv
<1> QED BY <1>1, Invariance, PTL

\* A cursor names a message of its conversation, of its rank.
THEOREM CursorsAreMessages == Spec => []CursorIsAMessage
<1>1. IInv => CursorIsAMessage
  BY DEF IInv
<1> QED BY <1>1, Invariance, PTL

\* An unread row behind the cursor was put there after the cursor.
THEOREM ReadStaysRead == Spec => []UnreadIsNew
<1>1. IInv => UnreadIsNew
  BY DEF IInv
<1> QED BY <1>1, Invariance, PTL
=============================================================================
