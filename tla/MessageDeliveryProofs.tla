------------------------ MODULE MessageDeliveryProofs ------------------------
(***************************************************************************)
(* Theorems about MessageDelivery for any users, devices, messages and     *)
(* number of connections; and that it implements module Handover.          *)
(***************************************************************************)
EXTENDS MessageDelivery, TLAPS

-----------------------------------------------------------------------------
(* The inductive invariant: who a socket, a frame and an ack belong to, and *)
(* what a handler has achieved by the time it moves on.                     *)

\* An entry of the registry is a connection of the device it is filed under.
RegistryByDevice ==
  \A d \in Devices : registry[d] # None => registry[d] \in Conns /\ Dev(registry[d]) = d

\* What a handler has yet to serve: sockets of the recipient, then devices.
Fits(k) ==
  /\ k.pc \in {"send", "sending", "sync", "syncing", "echo"} => k.msg \in Msgs
  /\ k.pc \in {"send", "sending"} =>
       \A t \in k.todo : t \in Conns /\ Owner[Dev(t)] = Dest[k.msg]
  /\ k.pc = "sending" => k.now \in k.todo
  /\ k.pc = "sync" => k.todo \subseteq Devices
  /\ k.pc = "syncing" => k.now \in Conns /\ k.todo \subseteq Devices

TodoFits == \A c \in Conns : Fits(task[c])

\* A frame with a delivery id was sent to the recipient, on that connection.
FramesAreFor ==
  \A c \in Conns : \A f \in wire[c] :
    f.id # None => f.id = <<f.msg, c>> /\ Owner[Dev(c)] = Dest[f.msg]

\* An ack on its way means that the recipient has the message.
AcksWereReceived ==
  \A c \in Conns : \A a \in acks[c] : a \in Deliveries /\ Reached(a[1])

\* Before a handler leaves a message, or counts it as delivered, it is kept.
Settled(k) ==
  /\ k.msg \in Tracked
  /\ \/ k.pc \in {"send", "sending"} /\ k.reached
     \/ k.pc \in {"sync", "syncing", "echo"}

KeptMsgs == {m \in Msgs : Kept(m)}

RoutedIsKept == \A c \in Conns : Settled(task[c]) => task[c].msg \in KeptMsgs

\* The delivery ids whose entry the worker has stored.
FellBack == {e \in Deliveries : <<e[1], Dest[e[1]], {e}>> \in stored}
Spent == pending \cup confirmed \cup FellBack
Serving(k) == k.pc \in {"send", "sending"}

\* A message is routed by one handler, which enters a socket it has yet to serve
\* for the first time; an entry then leaves the table by an ack or by the worker.
EnteredOnce ==
  /\ \A e \in Spent : e[1] \in sent
  /\ \A c \in Conns : Serving(task[c]) =>
       /\ task[c].msg \in sent
       /\ \A t \in task[c].todo : <<task[c].msg, t>> \notin Spent
  /\ \A c, x \in Conns :
       Serving(task[c]) /\ Serving(task[x]) /\ task[c].msg = task[x].msg => c = x
  /\ pending \cap confirmed = {} /\ FellBack \cap (pending \cup confirmed) = {}

IInv ==
  /\ TypeOK
  /\ RegistryByDevice
  /\ RegisteredIsServed
  /\ LockHasOwner
  /\ TodoFits
  /\ FramesAreFor
  /\ AcksWereReceived
  /\ RoutedIsKept
  /\ AcceptedIsKept
  /\ EnteredOnce
-----------------------------------------------------------------------------
(* What the steps of a handler's two loops do to its task *)

LEMMA SendTask ==
  ASSUME TypeOK, TodoFits, NEW c \in Conns, Send(c) \/ SendEnds(c)
  PROVE  /\ task[c].pc \in {"send", "sending"} /\ task'[c].pc \in {"send", "sending"}
         /\ task'[c].msg = task[c].msg /\ task'[c].todo \subseteq task[c].todo
         /\ task'[c].pc = "sending" => task'[c].now \in task'[c].todo
         /\ \/ task'[c].reached = task[c].reached
            \/ pending' = pending \cup Entered(task[c].msg, task[c].now) /\ task[c].now \in Conns
         /\ \A x \in Conns \ {c} : task'[x] = task[x]
         /\ task' \in [Conns -> Tasks]
<1> DEFINE raised(t) == [task[c] EXCEPT !.pc = "send", !.now = None, !.todo = task[c].todo \ {t},
                                        !.reached = task[c].reached \/ ReachedOnError(t)]
           sending(t) == [task[c] EXCEPT !.pc = "sending", !.now = t]
           served(t) == [task[c] EXCEPT !.pc = "send", !.now = None, !.todo = task[c].todo \ {t},
                                        !.reached = TRUE]
<1>1. \A t : /\ raised(t).pc = "send" /\ raised(t).msg = task[c].msg
             /\ raised(t).todo = task[c].todo \ {t}
             /\ sending(t).pc = "sending" /\ sending(t).msg = task[c].msg
             /\ sending(t).todo = task[c].todo /\ sending(t).now = t
             /\ raised(t).reached = task[c].reached /\ sending(t).reached = task[c].reached
             /\ served(t).pc = "send" /\ served(t).msg = task[c].msg
             /\ served(t).todo = task[c].todo \ {t}
  BY DEF TypeOK, Tasks, ReachedOnError
<1>0. \A t : /\ raised(t) \in Tasks /\ served(t) \in Tasks
             /\ t \in Conns => sending(t) \in Tasks
  BY DEF TypeOK, Tasks, ReachedOnError
<1>2. \E t : \/ task' = [task EXCEPT ![c] = raised(t)]
             \/ /\ task' = [task EXCEPT ![c] = served(t)]
                /\ pending' = pending \cup Entered(task[c].msg, task[c].now)
                /\ task[c].now \in Conns
             \/ task' = [task EXCEPT ![c] = sending(t)] /\ t \in task[c].todo /\ t \in Conns
  BY DEF Send, SendEnds, SendRaises, TodoFits, Fits
<1>3. task[c].pc \in {"send", "sending"}
  BY DEF Send, SendEnds
<1> HIDE DEF raised, sending, served
<1> QED
  BY <1>0, <1>1, <1>2, <1>3 DEF TypeOK

LEMMA SyncTask ==
  ASSUME TypeOK, TodoFits, NEW c \in Conns, SyncSkips(c) \/ SyncSends(c) \/ SyncEnds(c)
  PROVE  /\ task[c].pc \in {"sync", "syncing"} /\ task'[c].pc \in {"sync", "syncing"}
         /\ task'[c].msg = task[c].msg /\ task'[c].todo \subseteq task[c].todo
         /\ task'[c].pc = "syncing" => task'[c].now \in Conns
         /\ \A x \in Conns \ {c} : task'[x] = task[x]
         /\ task' \in [Conns -> Tasks]
<1> DEFINE missed(d) == [task[c] EXCEPT !.todo = task[c].todo \ {d}, !.missed = TRUE]
           left(d) == [task[c] EXCEPT !.todo = task[c].todo \ {d}, !.reached = TRUE]
           raised(d) == [task[c] EXCEPT !.pc = "sync", !.now = None, !.todo = task[c].todo \ {d},
                                        !.missed = TRUE]
           sending(t) == [task[c] EXCEPT !.pc = "syncing", !.now = t]
           served(d) == [task[c] EXCEPT !.pc = "sync", !.now = None, !.todo = task[c].todo \ {d},
                                        !.reached = TRUE]
<1>1. \A d : /\ missed(d).pc = task[c].pc /\ missed(d).msg = task[c].msg
             /\ missed(d).todo = task[c].todo \ {d}
             /\ left(d).pc = task[c].pc /\ left(d).msg = task[c].msg
             /\ left(d).todo = task[c].todo \ {d}
  BY DEF TypeOK, Tasks
<1>2. \A d : /\ raised(d).pc = "sync" /\ raised(d).msg = task[c].msg
             /\ raised(d).todo = task[c].todo \ {d}
             /\ served(d).pc = "sync" /\ served(d).msg = task[c].msg
             /\ served(d).todo = task[c].todo \ {d}
             /\ sending(d).pc = "syncing" /\ sending(d).msg = task[c].msg
             /\ sending(d).todo = task[c].todo /\ sending(d).now = d
  BY DEF TypeOK, Tasks
<1>0. \A d : /\ missed(d) \in Tasks /\ left(d) \in Tasks /\ raised(d) \in Tasks
             /\ served(d) \in Tasks
             /\ d \in Conns => sending(d) \in Tasks
  BY DEF TypeOK, Tasks
<1>3. \E d : \/ task[c].pc = "sync" /\ task' = [task EXCEPT ![c] = missed(d)]
             \/ task[c].pc = "sync" /\ task' = [task EXCEPT ![c] = left(d)]
             \/ task' = [task EXCEPT ![c] = raised(d)]
             \/ task' = [task EXCEPT ![c] = served(d)]
             \/ task' = [task EXCEPT ![c] = sending(d)] /\ d \in Conns
  <2>1. \A d \in Devices : registry[d] # None => registry[d] \in Conns
    BY DEF TypeOK
  <2>2. CASE SyncSkips(c)
    BY <2>2 DEF SyncSkips
  <2>3. CASE SyncSends(c)
    <3>1. PICK d \in task[c].todo :
            /\ task[c].pc = "sync" /\ registry[d] # None
            /\ \/ SyncRaises(c, registry[d])
               \/ task' = [task EXCEPT ![c] = sending(registry[d])]
      BY <2>3 DEF SyncSends
    <3>2. registry[d] \in Conns
      BY <2>1, <3>1 DEF TodoFits, Fits
    <3> QED
      BY <3>1, <3>2 DEF SyncRaises
  <2>4. CASE SyncEnds(c)
    BY <2>4 DEF SyncEnds, SyncRaises
  <2> QED
    BY <2>2, <2>3, <2>4
<1>4. task[c].pc \in {"sync", "syncing"}
  BY DEF SyncSkips, SyncSends, SyncEnds
<1> HIDE DEF missed, left, raised, sending, served
<1> QED
  BY <1>0, <1>1, <1>2, <1>3, <1>4, SMTT(30) DEF TypeOK

-----------------------------------------------------------------------------
(* Type correctness *)

LEMMA TypeInit == Init => TypeOK
BY DEF Init, InitWith, TypeOK, Tasks, Off

LEMMA ReadyIsTask == Ready \in Tasks /\ Off \in Tasks
BY DEF Ready, Off, Tasks

LEMMA SocketsAreConns ==
  ASSUME TypeOK, NEW u \in Users
  PROVE  Sockets(u) \subseteq Conns
BY DEF TypeOK, Sockets, OfUser

LEMMA ConnParts ==
  ASSUME NEW c \in Conns
  PROVE  Dev(c) \in Devices /\ Owner[Dev(c)] \in Users
BY OwnerAssumption DEF Conns, Dev

LEMMA ExitType ==
  ASSUME TypeOK, NEW c \in Conns, HandlerExit(c)
  PROVE  /\ link' \in [Conns -> {"new", "up", "down"}]
         /\ registry' \in [Devices -> Conns \cup {None}]
         /\ task' \in [Conns -> Tasks]
         /\ writer' \in Conns \cup {None}
         /\ wire' \in [Conns -> SUBSET Frames]
         /\ acks' \in [Conns -> SUBSET Deliveries]
<1>1. task' \in [Conns -> Tasks]
  BY ReadyIsTask DEF HandlerExit, TypeOK
<1> QED
  BY <1>1 DEF HandlerExit, TypeOK, Removed, Released, Closed, Dropped

\* A send that raises keeps the types.
LEMMA RaiseType ==
  ASSUME TypeOK, NEW c \in Conns, NEW t, SendRaises(c, t) \/ SyncRaises(c, t)
  PROVE  /\ registry' \in [Devices -> Conns \cup {None}]
         /\ UNCHANGED <<link, wire, acks>>
BY DEF SendRaises, SyncRaises, TypeOK, Removed, net

LEMMA TypeStep == TypeOK /\ TodoFits /\ [Next]_vars => TypeOK'
<1> SUFFICES ASSUME TypeOK, TodoFits, [Next]_vars PROVE TypeOK'
  OBVIOUS
<1> USE OwnerAssumption, MessageAssumption, BoundAssumption, NoneAssumption
<1>1. ASSUME NEW d \in Devices, NEW i \in 1 .. Incarnations, Connect(d, i) PROVE TypeOK'
  <2>1. <<d, i>> \in Conns
    BY DEF Conns
  <2>2. task' \in [Conns -> Tasks] /\ registry' \in [Devices -> Conns \cup {None}]
    <3>1. \/ task' = [task EXCEPT ![<<d, i>>] = Ready] /\ registry' = [registry EXCEPT ![d] = <<d, i>>]
          \/ UNCHANGED <<registry, task>>
      BY <1>1 DEF Connect
    <3> QED
      BY <2>1, <3>1, ReadyIsTask DEF TypeOK
  <2>3. link' \in [Conns -> {"new", "up", "down"}] /\ wire' \in [Conns -> SUBSET Frames]
    BY <1>1 DEF Connect, TypeOK
  <2>4. UNCHANGED <<acks, db, pending, worker, history>>
    BY <1>1 DEF Connect
  <2> QED
    BY <2>2, <2>3, <2>4 DEF TypeOK, db, history
<1>2. ASSUME NEW c \in Conns, LinkDrops(c) PROVE TypeOK'
  BY <1>2 DEF LinkDrops, Dropped, TypeOK, db, history
<1>3. ASSUME NEW c \in Conns, ClientReceives(c) PROVE TypeOK'
  <2> PICK f \in wire[c] :
        /\ wire' = [wire EXCEPT ![c] = @ \ {f}]
        /\ acks' = [acks EXCEPT ![c] = IF f.id = None THEN @ ELSE @ \cup {f.id}]
        /\ got' = [got EXCEPT ![Dev(c)] = @ \cup {f.msg}]
        /\ UNCHANGED <<link, registry, task, db, pending, worker, sent, echoed,
                       confirmed, dropped>>
    BY <1>3 DEF ClientReceives
  <2>1. f.msg \in Msgs /\ f.id \in Deliveries \cup {None}
    BY DEF TypeOK, Frames
  <2> QED
    BY <2>1 DEF TypeOK, db
<1>4. ASSUME NEW c \in Conns, Disconnect(c) PROVE TypeOK'
  BY <1>4, ExitType DEF Disconnect, TypeOK, history
<1>5. ASSUME NEW c \in Conns, ConsumeAck(c) PROVE TypeOK'
  BY <1>5 DEF ConsumeAck, TypeOK, db
<1>6. ASSUME NEW c \in Conns, NEW m \in Msgs, Route(c, m) PROVE TypeOK'
  <2>1. CASE HandlerExit(c)
    BY <1>6, <2>1, ExitType DEF Route, TypeOK
  <2>2. CASE task' = [task EXCEPT ![c] =
               [Ready EXCEPT !.pc = "send", !.msg = m, !.todo = Sockets(Dest[m])]]
    <3>1. [Ready EXCEPT !.pc = "send", !.msg = m, !.todo = Sockets(Dest[m])] \in Tasks
      BY SocketsAreConns DEF Ready, Off, Tasks
    <3>2. task' \in [Conns -> Tasks]
      BY <2>2, <3>1 DEF TypeOK
    <3>3. CASE HandlerExit(c)
      BY <2>1, <3>3
    <3>4. CASE ~ HandlerExit(c)
      BY <1>6, <3>2, <3>4 DEF Route, TypeOK, net
    <3> QED
      BY <3>3, <3>4
  <2> QED
    BY <1>6, <2>1, <2>2 DEF Route
<1>7. ASSUME NEW c \in Conns, Send(c) PROVE TypeOK'
  <2> PICK t \in task[c].todo :
        /\ task[c].pc = "send"
        /\ \/ SendRaises(c, t)
           \/ /\ task[t].pc # "off"
              /\ wire' = [wire EXCEPT ![t] = IF link[t] = "up"
                                               THEN @ \cup {Frame(task[c].msg, t)} ELSE @]
              /\ task' = [task EXCEPT ![c] = [task[c] EXCEPT !.pc = "sending", !.now = t]]
              /\ UNCHANGED <<link, acks, registry, writer>>
        /\ UNCHANGED <<unread, stored, pending, worker, history>>
    BY <1>7 DEF Send
  <2>1. CASE SendRaises(c, t)
    <3>1. task' \in [Conns -> Tasks]
      BY <1>7, SendTask
    <3> QED
      BY <2>1, <3>1, RaiseType DEF SendRaises, TypeOK, history
  <2>2. CASE ~ SendRaises(c, t)
    <3>1. t \in Conns /\ task[c].msg \in Msgs
      BY DEF TodoFits, Fits
    <3>2. Frame(task[c].msg, t) \in Frames
      BY <3>1 DEF Frame, Frames, Deliveries
    <3>3. wire' \in [Conns -> SUBSET Frames]
      BY <2>2, <3>2 DEF TypeOK
    <3> QED
      BY <1>7, <2>2, <3>3, SendTask DEF TypeOK, history
  <2> QED
    BY <2>1, <2>2
<1>8. ASSUME NEW c \in Conns, SendEnds(c) PROVE TypeOK'
  <2>1. task[c].now \in Conns /\ task[c].msg \in Msgs
    BY <1>8 DEF SendEnds, TodoFits, Fits
  <2>2. pending' \subseteq Deliveries
    BY <1>8, <2>1 DEF SendEnds, Entered, TypeOK, Deliveries
  <2>3. CASE SendRaises(c, task[c].now)
    BY <1>8, <2>2, <2>3, RaiseType, SendTask DEF SendEnds, SendRaises, TypeOK, history
  <2>4. CASE ~ SendRaises(c, task[c].now)
    BY <1>8, <2>2, <2>4, SendTask DEF SendEnds, TypeOK, net, history
  <2> QED
    BY <2>3, <2>4
<1>9. ASSUME NEW c \in Conns, Commit(c) PROVE TypeOK'
  <2> DEFINE m == task[c].msg
             row == IF task[c].reached THEN {} ELSE {<<m, Dest[m], {}>>}
             next == [Ready EXCEPT !.pc = "sync", !.msg = m,
                                   !.todo = OfUser(Owner[Dev(c)]) \ {Dev(c)}]
  <2>0. m \in Msgs
    BY <1>9 DEF Commit, TodoFits, Fits
  <2>1. CASE row # {} /\ ~ LockFree(c)
    BY <1>9, <2>1, ExitType DEF Commit, TypeOK, history
  <2>2. CASE ~ (row # {} /\ ~ LockFree(c))
    <3>1. next \in Tasks
      BY <2>0 DEF Ready, Off, Tasks, OfUser
    <3>2. task' = [task EXCEPT ![c] = next]
      BY <1>9, <2>2 DEF Commit
    <3>3. task' \in [Conns -> Tasks]
      <4> HIDE DEF next
      <4> QED
        BY <3>1, <3>2 DEF TypeOK
    <3>4. row \subseteq Msgs \X Users \X SUBSET Deliveries
      BY <2>0
    <3>5. stored' = stored \cup row /\ unread' \subseteq Msgs /\ writer' \in Conns \cup {None}
      BY <1>9, <2>0, <2>2 DEF Commit, Released, TypeOK
    <3>6. UNCHANGED <<net, registry, pending, worker, history>>
      BY <1>9, <2>2 DEF Commit
    <3> HIDE DEF row, next
    <3> QED
      BY <3>3, <3>4, <3>5, <3>6 DEF TypeOK, net, history
  <2> QED
    BY <2>1, <2>2
<1>10. ASSUME NEW c \in Conns, SyncSkips(c) PROVE TypeOK'
  BY <1>10, SyncTask DEF SyncSkips, TypeOK, net, db, history
<1>11. ASSUME NEW c \in Conns, SyncSends(c) PROVE TypeOK'
  <2> PICK d \in task[c].todo :
        /\ task[c].pc = "sync" /\ task[c].msg \notin Sealed /\ registry[d] # None
        /\ \/ SyncRaises(c, registry[d])
           \/ /\ task[registry[d]].pc # "off"
              /\ wire' = [wire EXCEPT ![registry[d]] =
                   IF link[registry[d]] = "up" THEN @ \cup {PlainFrame(task[c].msg)} ELSE @]
              /\ task' = [task EXCEPT ![c] = [task[c] EXCEPT !.pc = "syncing", !.now = registry[d]]]
              /\ UNCHANGED <<link, acks, registry>>
        /\ UNCHANGED <<db, pending, worker, history>>
    BY <1>11 DEF SyncSends
  <2>1. CASE SyncRaises(c, registry[d])
    BY <1>11, <2>1, RaiseType, SyncTask DEF TypeOK, db, history
  <2>2. CASE ~ SyncRaises(c, registry[d])
    <3>1. registry[d] \in Conns /\ task[c].msg \in Msgs
      BY DEF TodoFits, Fits, TypeOK
    <3>2. PlainFrame(task[c].msg) \in Frames
      BY <3>1 DEF PlainFrame, Frames
    <3>3. wire' \in [Conns -> SUBSET Frames]
      BY <2>2, <3>2 DEF TypeOK
    <3> QED
      BY <1>11, <2>2, <3>3, SyncTask DEF TypeOK, db, history
  <2> QED
    BY <2>1, <2>2
<1>12. ASSUME NEW c \in Conns, SyncEnds(c) PROVE TypeOK'
  <2>1. CASE SyncRaises(c, task[c].now)
    BY <1>12, <2>1, RaiseType, SyncTask DEF SyncEnds, TypeOK, db, history
  <2>2. CASE ~ SyncRaises(c, task[c].now)
    BY <1>12, <2>2, SyncTask DEF SyncEnds, TypeOK, net, db, history
  <2> QED
    BY <2>1, <2>2
<1>13. ASSUME NEW c \in Conns, SyncStores(c) PROVE TypeOK'
  <2> DEFINE m == task[c].msg
             row == IF task[c].missed /\ ~ task[c].reached
                      THEN {<<m, Owner[Dev(c)], {}>>} ELSE {}
             next == [Ready EXCEPT !.pc = "echo", !.msg = m]
  <2>0. m \in Msgs
    BY <1>13 DEF SyncStores, TodoFits, Fits
  <2>1. CASE row # {} /\ ~ LockFree(c)
    BY <1>13, <2>1, ExitType DEF SyncStores, TypeOK, history
  <2>2. CASE ~ (row # {} /\ ~ LockFree(c))
    <3>1. next \in Tasks
      BY <2>0 DEF Ready, Off, Tasks
    <3>2. task' = [task EXCEPT ![c] = next] /\ stored' = stored \cup row
      BY <1>13, <2>2 DEF SyncStores
    <3>3. row \subseteq Msgs \X Users \X SUBSET Deliveries
      BY <2>0, ConnParts
    <3>4. UNCHANGED <<net, registry, writer, unread, pending, worker, history>>
      BY <1>13, <2>2 DEF SyncStores
    <3> HIDE DEF row, next
    <3>5. task' \in [Conns -> Tasks]
      BY <3>1, <3>2 DEF TypeOK
    <3> QED
      BY <3>2, <3>3, <3>4, <3>5 DEF TypeOK, net, history
  <2> QED
    BY <2>1, <2>2
<1>14. ASSUME NEW c \in Conns, Echo(c) PROVE TypeOK'
  <2>1. CASE HandlerExit(c) /\ UNCHANGED echoed
    BY <1>14, <2>1, ExitType DEF Echo, TypeOK
  <2>2. CASE /\ echoed' = echoed \cup {task[c].msg}
             /\ task' = [task EXCEPT ![c] = Ready]
             /\ UNCHANGED <<net, registry, writer>>
    <3>1. task[c].msg \in Msgs
      BY <1>14 DEF Echo, TodoFits, Fits
    <3>2. task' \in [Conns -> Tasks]
      BY <2>2, ReadyIsTask DEF TypeOK
    <3> QED
      BY <1>14, <2>2, <3>1, <3>2 DEF Echo, TypeOK, net
  <2> QED
    BY <1>14, <2>1, <2>2 DEF Echo
<1>15. ASSUME NEW expired \in SUBSET pending, TimeoutWorker(expired) PROVE TypeOK'
  <2>1. \A e \in expired : e[1] \in Msgs /\ e \in Deliveries
    BY DEF TypeOK, Deliveries
  <2>2. FallbackRows(expired) \subseteq Msgs \X Users \X SUBSET Deliveries
    BY <2>1 DEF FallbackRows
  <2> QED
    BY <1>15, <2>1, <2>2 DEF TimeoutWorker, TypeOK, net, Popped
<1>16. CASE Crash
  <2>1. task' \in [Conns -> Tasks]
    BY <1>16, ReadyIsTask DEF Crash
  <2>2. {e[1] : e \in pending} \subseteq Msgs
    BY DEF TypeOK, Deliveries
  <2> QED
    BY <1>16, <2>1, <2>2 DEF Crash, TypeOK, Closed, Dropped
<1>17. CASE UNCHANGED vars
  BY <1>17 DEF vars, TypeOK
<1> QED
  BY <1>1, <1>2, <1>3, <1>4, <1>5, <1>6, <1>7, <1>8, <1>9, <1>10, <1>11, <1>12, <1>13,
     <1>14, <1>15, <1>16, <1>17 DEF Next, Handler

-----------------------------------------------------------------------------
(* No accepted message is lost *)

\* Clients forget nothing, the mailbox and the loss record only grow here.
LEMMA Grows ==
  ASSUME TypeOK, [Next]_vars
  PROVE  /\ \A d \in Devices : got[d] \subseteq got'[d]
         /\ stored \subseteq stored' /\ dropped \subseteq dropped'
<1>1. got' = got \/ \E c \in Conns, f \in Frames : got' = [got EXCEPT ![Dev(c)] = @ \cup {f.msg}]
  BY DEF Next, vars, Connect, LinkDrops, ClientReceives, Handler, Disconnect, ConsumeAck,
         Route, Send, SendEnds, Commit, SyncSkips, SyncSends, SyncEnds, SyncStores, Echo,
         TimeoutWorker, Crash, history, TypeOK
<1>2. stored \subseteq stored' /\ dropped \subseteq dropped'
  BY DEF Next, vars, Connect, LinkDrops, ClientReceives, Handler, Disconnect, ConsumeAck,
         Route, Send, SendEnds, Commit, SyncSkips, SyncSends, SyncEnds, SyncStores, Echo,
         TimeoutWorker, Crash, history, db
<1>3. \A d \in Devices : got[d] \subseteq got'[d]
  BY <1>1 DEF TypeOK
<1> QED
  BY <1>2, <1>3

\* Whatever happens, a message that is kept stays kept.
LEMMA StepKeeps ==
  ASSUME TypeOK, TypeOK', AcksWereReceived, [Next]_vars, NEW m \in Msgs, Kept(m)
  PROVE  Kept(m)'
<1>1. /\ \A d \in Devices : got[d] \subseteq got'[d]
      /\ stored \subseteq stored' /\ dropped \subseteq dropped'
  BY Grows
<1>2. CASE Reached(m)
  BY <1>1, <1>2 DEF Reached, Kept, OfUser
<1>3. CASE Stored(m) \/ m \in dropped
  BY <1>1, <1>3 DEF Stored, Kept
<1>4. CASE AwaitsAck(m)
  <2>1. PICK e \in pending : e[1] = m
    BY <1>4 DEF AwaitsAck
  <2>2. CASE e \in pending'
    BY <2>1, <2>2 DEF AwaitsAck, Kept
  <2>3. ASSUME NEW c \in Conns, ConsumeAck(c), e \notin pending' PROVE Kept(m)'
    <3>1. e \in acks[c]
      BY <2>1, <2>3 DEF ConsumeAck
    <3>2. Reached(m)
      BY <2>1, <3>1 DEF AcksWereReceived
    <3> QED
      BY <1>1, <3>2 DEF Reached, Kept, OfUser
  <2>4. ASSUME NEW expired \in SUBSET pending, TimeoutWorker(expired), e \notin pending'
        PROVE  Kept(m)'
    <3>1. e \in expired
      BY <2>1, <2>4 DEF TimeoutWorker, Popped
    <3>2. CASE stored' = stored \cup FallbackRows(expired)
      <4>1. <<m, Dest[m], {e}>> \in stored'
        BY <2>1, <3>1, <3>2 DEF FallbackRows
      <4> QED
        BY <4>1 DEF Stored, Kept
    <3>3. CASE dropped' = dropped \cup {x[1] : x \in expired}
      BY <2>1, <3>1, <3>3 DEF Kept
    <3> QED
      BY <2>4, <3>2, <3>3 DEF TimeoutWorker
  <2>5. CASE Crash
    BY <2>1, <2>5 DEF Crash, Kept
  <2>6. \/ e \in pending' \/ Crash
        \/ \E c \in Conns : ConsumeAck(c)
        \/ \E expired \in SUBSET pending : TimeoutWorker(expired)
    BY <2>1 DEF Next, vars, Connect, LinkDrops, ClientReceives, Handler, Disconnect, Route, Send,
           SendEnds, Commit, SyncSkips, SyncSends, SyncEnds, SyncStores, Echo
  <2> QED
    BY <2>2, <2>3, <2>4, <2>5, <2>6
<1> QED
  BY <1>2, <1>3, <1>4 DEF Kept

-----------------------------------------------------------------------------
(* The registry *)

\* A handler's exit leaves nothing of it in the registry.
LEMMA ExitRegistry ==
  ASSUME TypeOK, RegistryByDevice, RegisteredIsServed, NEW c \in Conns, HandlerExit(c)
  PROVE  RegistryByDevice' /\ RegisteredIsServed'
BY ConnParts, NoneAssumption DEF TypeOK, RegistryByDevice, RegisteredIsServed, HandlerExit, Removed, Off

\* A handler that goes on, whatever it takes out of the registry, is served.
LEMMA GoesOnRegistry ==
  ASSUME TypeOK, RegistryByDevice, RegisteredIsServed, NEW c \in Conns,
         task'[c].pc # "off", \A x \in Conns \ {c} : task'[x] = task[x],
         registry' = registry \/ \E d \in Devices : registry' = Removed(d)
  PROVE  RegistryByDevice' /\ RegisteredIsServed'
BY NoneAssumption DEF TypeOK, RegistryByDevice, RegisteredIsServed, Removed

LEMMA RegistryStep ==
  ASSUME TypeOK, TypeOK', TodoFits, RegistryByDevice, RegisteredIsServed, [Next]_vars
  PROVE  RegistryByDevice' /\ RegisteredIsServed'
<1> USE NoneAssumption
<1>1. ASSUME NEW d \in Devices, NEW i \in 1 .. Incarnations, Connect(d, i)
      PROVE  RegistryByDevice' /\ RegisteredIsServed'
  <2>1. <<d, i>> \in Conns /\ Dev(<<d, i>>) = d
    BY DEF Conns, Dev
  <2>2. \/ task' = [task EXCEPT ![<<d, i>>] = Ready] /\ registry' = [registry EXCEPT ![d] = <<d, i>>]
        \/ UNCHANGED <<registry, task>>
    BY <1>1 DEF Connect
  <2>3. Ready.pc = "ready"
    BY DEF Ready, Off
  <2> QED
    BY <2>1, <2>2, <2>3 DEF TypeOK, RegistryByDevice, RegisteredIsServed
<1>2. ASSUME NEW c \in Conns, Disconnect(c)
      PROVE  RegistryByDevice' /\ RegisteredIsServed'
  BY <1>2, ExitRegistry DEF Disconnect
<1>3. ASSUME NEW c \in Conns, HandlerExit(c)
      PROVE  RegistryByDevice' /\ RegisteredIsServed'
  BY <1>3, ExitRegistry
<1>4. ASSUME NEW c \in Conns, NEW m \in Msgs, Route(c, m), ~ HandlerExit(c)
      PROVE  RegistryByDevice' /\ RegisteredIsServed'
  <2> DEFINE t == [Ready EXCEPT !.pc = "send", !.msg = m, !.todo = Sockets(Dest[m])]
  <2>1. t.pc = "send"
    BY DEF Ready, Off
  <2>2. task' = [task EXCEPT ![c] = t] /\ registry' = registry
    BY <1>4 DEF Route, net
  <2> HIDE DEF t
  <2> QED
    BY <2>1, <2>2, GoesOnRegistry DEF TypeOK
<1>5. ASSUME NEW c \in Conns, Send(c) \/ SendEnds(c)
      PROVE  RegistryByDevice' /\ RegisteredIsServed'
  <2>1. task'[c].pc # "off"
    BY <1>5, SendTask
  <2>2. \A x \in Conns \ {c} : task'[x] = task[x]
    BY <1>5, SendTask
  <2>3. registry' = registry \/ \E d \in Devices : registry' = Removed(d)
    BY <1>5, ConnParts DEF Send, SendEnds, SendRaises, TodoFits, Fits
  <2> QED
    BY <2>1, <2>2, <2>3, GoesOnRegistry
<1>6. ASSUME NEW c \in Conns, SyncSkips(c) \/ SyncSends(c) \/ SyncEnds(c)
      PROVE  RegistryByDevice' /\ RegisteredIsServed'
  <2>1. task'[c].pc # "off"
    BY <1>6, SyncTask
  <2>2. \A x \in Conns \ {c} : task'[x] = task[x]
    BY <1>6, SyncTask
  <2>3. registry' = registry \/ \E d \in Devices : registry' = Removed(d)
    BY <1>6, ConnParts DEF SyncSkips, SyncSends, SyncEnds, SyncRaises, TodoFits, Fits, net, TypeOK
  <2> QED
    BY <2>1, <2>2, <2>3, GoesOnRegistry
<1>7. ASSUME NEW c \in Conns, Commit(c) \/ SyncStores(c) \/ Echo(c), ~ HandlerExit(c)
      PROVE  RegistryByDevice' /\ RegisteredIsServed'
  <2>1. \E k \in Tasks : k.pc # "off" /\ task' = [task EXCEPT ![c] = k]
    <3>1. \A m \in Msgs, S \in SUBSET Devices :
            /\ [Ready EXCEPT !.pc = "sync", !.msg = m, !.todo = S] \in Tasks
            /\ [Ready EXCEPT !.pc = "sync", !.msg = m, !.todo = S].pc = "sync"
            /\ [Ready EXCEPT !.pc = "echo", !.msg = m] \in Tasks
            /\ [Ready EXCEPT !.pc = "echo", !.msg = m].pc = "echo"
            /\ Ready \in Tasks /\ Ready.pc = "ready"
      BY DEF Ready, Off, Tasks
    <3>2. task[c].msg \in Msgs
      BY <1>7 DEF Commit, SyncStores, Echo, TodoFits, Fits
    <3>3. OfUser(Owner[Dev(c)]) \ {Dev(c)} \in SUBSET Devices
      BY DEF OfUser
    <3> QED
      BY <1>7, <3>1, <3>2, <3>3 DEF Commit, SyncStores, Echo
  <2>3. registry' = registry
    BY <1>7 DEF Commit, SyncStores, Echo, net
  <2> QED
    BY <2>1, <2>3, GoesOnRegistry DEF TypeOK
<1>8. CASE Crash
  BY <1>8 DEF Crash, RegistryByDevice, RegisteredIsServed
<1>9. CASE UNCHANGED <<registry, task>>
  BY <1>9 DEF RegistryByDevice, RegisteredIsServed
<1> QED
  BY <1>1, <1>2, <1>3, <1>4, <1>5, <1>6, <1>7, <1>8, <1>9
     DEF Next, Handler, LinkDrops, ClientReceives, ConsumeAck, TimeoutWorker, vars, net

-----------------------------------------------------------------------------
(* What a handler owns and owes *)

\* A step of one handler disturbs what is said of that handler's task only.
LEMMA OneTask ==
  ASSUME TypeOK, TodoFits, RoutedIsKept, LockHasOwner, NEW c \in Conns,
         \A x \in Conns \ {c} : task'[x] = task[x],
         KeptMsgs \subseteq KeptMsgs',
         Fits(task'[c]),
         Settled(task'[c]) => task'[c].msg \in KeptMsgs',
         writer' \in {writer, c, None},
         writer' = c => task'[c].pc \in {"send", "sending"} /\ task'[c].msg \in Unread
  PROVE  TodoFits' /\ RoutedIsKept' /\ LockHasOwner'
<1>1. \A x \in Conns \ {c} : Settled(task[x]) => task[x].msg \in KeptMsgs'
  BY DEF RoutedIsKept
<1>2. \A x \in Conns : Fits(task'[x]) /\ (Settled(task'[x]) => task'[x].msg \in KeptMsgs')
  BY <1>1 DEF TodoFits
<1>3. LockHasOwner'
  BY NoneAssumption DEF LockHasOwner, TypeOK
<1> QED
  BY <1>2, <1>3 DEF TodoFits, RoutedIsKept

\* Nothing is asked of a handler that has ended or waits for a frame.
LEMMA Idle ==
  ASSUME NEW k, k \in {Off, Ready}
  PROVE  /\ Fits(k) /\ ~ Settled(k)
         /\ k.pc \notin {"send", "sending", "sync", "syncing", "echo"}
BY DEF Off, Ready, Fits, Settled

LEMMA ExitTask ==
  ASSUME TypeOK, TodoFits, RoutedIsKept, LockHasOwner, NEW c \in Conns, HandlerExit(c),
         KeptMsgs \subseteq KeptMsgs'
  PROVE  TodoFits' /\ RoutedIsKept' /\ LockHasOwner'
<1>1. task'[c] = Off /\ \A x \in Conns \ {c} : task'[x] = task[x]
  BY DEF HandlerExit, TypeOK
<1>2. writer' \in {writer, None} /\ writer' # c
  BY NoneAssumption DEF HandlerExit, Released
<1> QED
  BY <1>1, <1>2, OneTask, Idle

\* A commit leaves the message with someone who was reached or in the mailbox.
LEMMA CommitKeeps ==
  ASSUME TypeOK, RoutedIsKept, NEW c \in Conns, Commit(c), task[c].reached \/ LockFree(c),
         KeptMsgs \subseteq KeptMsgs', NEW m \in Msgs, m = task[c].msg, m \in Tracked
  PROVE  m \in KeptMsgs'
<1>1. CASE task[c].reached
  BY <1>1 DEF RoutedIsKept, Settled, Commit
<1>2. CASE ~ task[c].reached
  <2>1. <<m, Dest[m], {}>> \in stored'
    BY <1>2 DEF Commit
  <2>2. Kept(m)'
    BY <2>1 DEF Kept, Stored
  <2> QED
    BY <2>2 DEF KeptMsgs
<1> QED
  BY <1>1, <1>2

LEMMA TaskStep ==
  ASSUME TypeOK, TypeOK', RegistryByDevice, AcksWereReceived, TodoFits, RoutedIsKept,
         LockHasOwner, [Next]_vars
  PROVE  TodoFits' /\ RoutedIsKept' /\ LockHasOwner'
<1> DEFINE Goal == TodoFits' /\ RoutedIsKept' /\ LockHasOwner'
<1> USE NoneAssumption
<1>0. KeptMsgs \subseteq KeptMsgs'
  BY StepKeeps DEF KeptMsgs
<1>1. ASSUME NEW d \in Devices, NEW i \in 1 .. Incarnations, Connect(d, i) PROVE Goal
  <2> DEFINE c == <<d, i>>
  <2>1. c \in Conns
    BY DEF Conns
  <2>2. CASE task' = [task EXCEPT ![c] = Ready] /\ writer = None
    <3>1. task'[c] = Ready /\ (\A x \in Conns \ {c} : task'[x] = task[x]) /\ writer' = None
      BY <1>1, <2>1, <2>2 DEF Connect, TypeOK, db
    <3> QED
      BY <1>0, <2>1, <3>1, OneTask, Idle
  <2>3. CASE UNCHANGED task
    <3>1. writer' = writer
      BY <1>1 DEF Connect, db
    <3> QED
      BY <1>0, <2>3, <3>1, MessageAssumption
         DEF TodoFits, RoutedIsKept, LockHasOwner, Fits, Settled
  <2> QED
    BY <1>1, <2>2, <2>3 DEF Connect
<1>2. ASSUME NEW c \in Conns, HandlerExit(c) PROVE Goal
  BY <1>0, <1>2, ExitTask
<1>3. ASSUME NEW c \in Conns, NEW m \in Msgs, Route(c, m), ~ HandlerExit(c) PROVE Goal
  <2> DEFINE k == [Ready EXCEPT !.pc = "send", !.msg = m, !.todo = Sockets(Dest[m])]
  <2>1. k.pc = "send" /\ k.msg = m /\ k.todo = Sockets(Dest[m]) /\ ~ k.reached
    BY DEF Ready, Off
  <2>2. task'[c] = k /\ \A x \in Conns \ {c} : task'[x] = task[x]
    BY <1>3 DEF Route, TypeOK
  <2>3. \A t \in Sockets(Dest[m]) : t \in Conns /\ Owner[Dev(t)] = Dest[m]
    BY DEF Sockets, OfUser, RegistryByDevice
  <2>4. Fits(task'[c]) /\ ~ Settled(task'[c])
    <3> HIDE DEF k
    <3> QED
      BY <2>1, <2>2, <2>3 DEF Fits, Settled
  <2>5. writer # c
    BY <1>3 DEF Route, LockHasOwner
  <2>6. writer' = writer \/ (writer' = c /\ m \in Unread)
    BY <1>3 DEF Route, LockFree
  <2> HIDE DEF k
  <2> QED
    BY <1>0, <2>1, <2>2, <2>4, <2>5, <2>6, OneTask
<1>4. ASSUME NEW c \in Conns, Send(c) \/ SendEnds(c) PROVE Goal
  <2>1. Fits(task'[c])
    BY <1>4, SendTask DEF TodoFits, Fits
  <2>2. writer' = writer /\ (writer = c => task[c].msg \in Unread)
    BY <1>4 DEF Send, SendEnds, SendRaises, LockHasOwner
  <2>3. Settled(task'[c]) => task'[c].msg \in KeptMsgs'
    <3> SUFFICES ASSUME Settled(task'[c]) PROVE task[c].msg \in KeptMsgs'
      BY <1>4, SendTask
    <3>1. task[c].msg \in Tracked /\ task'[c].reached
      BY <1>4, SendTask DEF Settled
    <3>2. CASE task'[c].reached = task[c].reached
      <4>1. Settled(task[c])
        BY <1>4, <3>1, <3>2, SendTask DEF Settled
      <4> QED
        BY <1>0, <4>1 DEF RoutedIsKept
    <3>3. CASE /\ pending' = pending \cup Entered(task[c].msg, task[c].now)
               /\ task[c].now \in Conns
      <4>1. PICK m \in Msgs : m = task[c].msg
        BY <3>1, MessageAssumption
      <4>2. <<m, task[c].now>> \in pending'
        BY <3>1, <3>3, <4>1 DEF Entered
      <4>3. Kept(m)'
        BY <4>2 DEF Kept, AwaitsAck
      <4> QED
        BY <4>1, <4>3 DEF KeptMsgs
    <3> QED
      BY <1>4, <3>2, <3>3, SendTask
  <2> QED
    BY <1>0, <1>4, <2>1, <2>2, <2>3, SendTask, OneTask
<1>5. ASSUME NEW c \in Conns, Commit(c), ~ HandlerExit(c) PROVE Goal
  <2> DEFINE m == task[c].msg
             k == [Ready EXCEPT !.pc = "sync", !.msg = m,
                                !.todo = OfUser(Owner[Dev(c)]) \ {Dev(c)}]
  <2>1. k.pc = "sync" /\ k.msg = m /\ k.todo \subseteq Devices
    BY DEF Ready, Off, OfUser
  <2>2. task'[c] = k /\ \A x \in Conns \ {c} : task'[x] = task[x]
    BY <1>5 DEF Commit, TypeOK
  <2>3. m \in Msgs
    BY <1>5 DEF Commit, TodoFits, Fits
  <2>4. Fits(k)
    <3> HIDE DEF k
    <3> QED
      BY <2>1, <2>3 DEF Fits
  <2>5. Settled(k) => m \in KeptMsgs'
    <3>1. task[c].reached \/ LockFree(c)
      BY <1>5 DEF Commit
    <3> QED
      BY <1>0, <1>5, <2>1, <2>3, <3>1, CommitKeeps DEF Settled
  <2>6. writer' \in {writer, None} /\ writer' # c
    BY <1>5 DEF Commit, Released
  <2> HIDE DEF k
  <2> QED
    BY <1>0, <2>1, <2>2, <2>4, <2>5, <2>6, OneTask
<1>6. ASSUME NEW c \in Conns, SyncSkips(c) \/ SyncSends(c) \/ SyncEnds(c) PROVE Goal
  <2>1. Fits(task'[c])
    BY <1>6, SyncTask DEF TodoFits, Fits
  <2>2. writer' = writer /\ writer # c
    BY <1>6, SyncTask DEF SyncSkips, SyncSends, SyncEnds, db, LockHasOwner
  <2>3. Settled(task'[c]) => task'[c].msg \in KeptMsgs'
    BY <1>0, <1>6, SyncTask DEF RoutedIsKept, Settled
  <2> QED
    BY <1>0, <1>6, <2>1, <2>2, <2>3, SyncTask, OneTask
<1>7. ASSUME NEW c \in Conns, SyncStores(c), ~ HandlerExit(c) PROVE Goal
  <2> DEFINE m == task[c].msg
             k == [Ready EXCEPT !.pc = "echo", !.msg = m]
  <2>1. k.pc = "echo" /\ k.msg = m
    BY DEF Ready, Off
  <2>2. task'[c] = k /\ \A x \in Conns \ {c} : task'[x] = task[x]
    BY <1>7 DEF SyncStores, TypeOK
  <2>3. m \in Msgs
    BY <1>7 DEF SyncStores, TodoFits, Fits
  <2>4. Settled(k) => m \in KeptMsgs'
    BY <1>0, <1>7, <2>1 DEF SyncStores, RoutedIsKept, Settled
  <2>5. writer' = writer /\ writer # c
    BY <1>7 DEF SyncStores, LockHasOwner
  <2> HIDE DEF k
  <2>6. Fits(k)
    BY <2>1, <2>3 DEF Fits
  <2> QED
    BY <1>0, <2>1, <2>2, <2>4, <2>5, <2>6, OneTask
<1>8. ASSUME NEW c \in Conns, Echo(c), ~ HandlerExit(c) PROVE Goal
  <2>1. task'[c] = Ready /\ (\A x \in Conns \ {c} : task'[x] = task[x])
    BY <1>8 DEF Echo, TypeOK
  <2>2. writer' = writer /\ writer # c
    BY <1>8 DEF Echo, LockHasOwner
  <2> QED
    BY <1>0, <2>1, <2>2, OneTask, Idle
<1>9. CASE Crash
  BY <1>9, Idle DEF Crash, TodoFits, RoutedIsKept, LockHasOwner
<1>10. CASE UNCHANGED <<task, writer>>
  BY <1>0, <1>10 DEF TodoFits, RoutedIsKept, LockHasOwner
<1> QED
  BY <1>1, <1>2, <1>3, <1>4, <1>5, <1>6, <1>7, <1>8, <1>9, <1>10
     DEF Next, Handler, Disconnect, LinkDrops, ClientReceives, ConsumeAck, TimeoutWorker,
         vars, db

-----------------------------------------------------------------------------
(* Frames, acks and what was accepted *)

LEMMA WireStep ==
  ASSUME TypeOK, TypeOK', TodoFits, FramesAreFor, [Next]_vars
  PROVE  FramesAreFor'
<1>1. CASE \A c \in Conns : wire'[c] \subseteq wire[c]
  BY <1>1 DEF FramesAreFor
<1>2. ASSUME NEW c \in Conns, NEW f, f.id # None => f.id = <<f.msg, c>> /\ Owner[Dev(c)] = Dest[f.msg],
             wire' \in {wire, [wire EXCEPT ![c] = @ \cup {f}]}
      PROVE  FramesAreFor'
  BY <1>2 DEF FramesAreFor, TypeOK
<1>3. ASSUME NEW c \in Conns, Send(c) PROVE FramesAreFor'
  <2>1. PICK t \in task[c].todo :
          /\ task[c].pc = "send"
          /\ wire' \in {wire, [wire EXCEPT ![t] = @ \cup {Frame(task[c].msg, t)}]}
    <3>1. CASE \E t \in task[c].todo : task[c].pc = "send" /\ SendRaises(c, t)
      BY <3>1 DEF SendRaises, net
    <3>2. CASE \E t \in task[c].todo :
                 /\ task[c].pc = "send"
                 /\ wire' = [wire EXCEPT ![t] = IF link[t] = "up"
                                                  THEN @ \cup {Frame(task[c].msg, t)} ELSE @]
      <4>1. PICK t \in task[c].todo :
                 /\ task[c].pc = "send"
                 /\ wire' = [wire EXCEPT ![t] = IF link[t] = "up"
                                                  THEN @ \cup {Frame(task[c].msg, t)} ELSE @]
        BY <3>2
      <4>2. CASE link[t] = "up"
        BY <4>1, <4>2
      <4>3. CASE link[t] # "up"
        <5>1. wire' = wire
          BY <4>1, <4>3 DEF TypeOK
        <5> QED
          BY <4>1, <5>1
      <4> QED
        BY <4>2, <4>3
    <3> QED
      BY <1>3, <3>1, <3>2 DEF Send
  <2>2. t \in Conns /\ Owner[Dev(t)] = Dest[task[c].msg]
    BY <2>1 DEF TodoFits, Fits
  <2>3. Frame(task[c].msg, t).msg = task[c].msg
        /\ Frame(task[c].msg, t).id \in {<<task[c].msg, t>>, None}
    BY DEF Frame
  <2> QED
    BY <1>2, <2>1, <2>2, <2>3
<1>4. ASSUME NEW c \in Conns, SyncSends(c) PROVE FramesAreFor'
  <2>1. PICK d \in task[c].todo :
          /\ task[c].pc = "sync" /\ registry[d] # None
          /\ \/ wire' = wire
             \/ wire' = [wire EXCEPT ![registry[d]] =
                  IF link[registry[d]] = "up" THEN @ \cup {PlainFrame(task[c].msg)} ELSE @]
    BY <1>4 DEF SyncSends, SyncRaises, net
  <2>2. registry[d] \in Conns
    BY <2>1 DEF TypeOK, TodoFits, Fits
  <2>3. wire' \in {wire, [wire EXCEPT ![registry[d]] = @ \cup {PlainFrame(task[c].msg)}]}
    BY <2>1, <2>2 DEF TypeOK
  <2>4. PlainFrame(task[c].msg).id = None
    BY DEF PlainFrame
  <2> QED
    BY <1>2, <2>2, <2>3, <2>4
<1>5. ASSUME NEW c \in Conns, ClientReceives(c) PROVE FramesAreFor'
  BY <1>1, <1>5 DEF ClientReceives, TypeOK
<1>6. ASSUME NEW c \in Conns, HandlerExit(c) PROVE FramesAreFor'
  BY <1>1, <1>6 DEF HandlerExit, Closed, Dropped
<1>7. CASE \/ \E d \in Devices, i \in 1 .. Incarnations : Connect(d, i)
           \/ \E c \in Conns : LinkDrops(c)
           \/ Crash
  BY <1>1, <1>7 DEF Connect, LinkDrops, Crash, Closed, Dropped
<1>8. CASE wire' = wire
  BY <1>1, <1>8
<1> QED
  BY <1>3, <1>4, <1>5, <1>6, <1>7, <1>8
     DEF Next, Handler, Disconnect, ConsumeAck, Route, SendEnds, SendRaises, Commit, SyncSkips,
         SyncEnds, SyncRaises, SyncStores, Echo, TimeoutWorker, vars, net

LEMMA AckStep ==
  ASSUME TypeOK, TypeOK', FramesAreFor, AcksWereReceived, [Next]_vars
  PROVE  AcksWereReceived'
<1>1. \A m : Reached(m) => Reached(m)'
  BY Grows DEF Reached, OfUser
<1>2. CASE \A c \in Conns : acks'[c] \subseteq acks[c]
  BY <1>1, <1>2 DEF AcksWereReceived
<1>3. ASSUME NEW c \in Conns, ClientReceives(c) PROVE AcksWereReceived'
  <2>1. PICK f \in wire[c] :
          /\ acks' = [acks EXCEPT ![c] = IF f.id = None THEN @ ELSE @ \cup {f.id}]
          /\ got' = [got EXCEPT ![Dev(c)] = @ \cup {f.msg}]
    BY <1>3 DEF ClientReceives
  <2>2. CASE f.id = None
    BY <1>2, <2>1, <2>2 DEF TypeOK
  <2>3. CASE f.id # None
    <3>1. f.id = <<f.msg, c>> /\ Owner[Dev(c)] = Dest[f.msg]
      BY <2>3 DEF FramesAreFor
    <3>2. f.msg \in got'[Dev(c)]
      BY <2>1, ConnParts DEF TypeOK
    <3>3. Reached(f.msg)'
      BY <3>1, <3>2, ConnParts DEF Reached, OfUser
    <3>4. f.id \in Deliveries
      BY <2>3 DEF TypeOK, Frames
    <3>5. \A x \in Conns : acks'[x] \subseteq acks[x] \cup {f.id}
      BY <2>1, <2>3 DEF TypeOK
    <3>6. f.id[1] = f.msg
      BY <3>1
    <3>7. \A a \in {f.id} : a \in Deliveries /\ Reached(a[1])'
      BY <3>3, <3>4, <3>6
    <3> QED
      BY <1>1, <3>5, <3>7 DEF AcksWereReceived
  <2> QED
    BY <2>2, <2>3
<1>4. ASSUME NEW c \in Conns, HandlerExit(c) PROVE AcksWereReceived'
  BY <1>2, <1>4 DEF HandlerExit, Closed, Dropped
<1>5. ASSUME NEW c \in Conns, ConsumeAck(c) PROVE AcksWereReceived'
  BY <1>2, <1>5 DEF ConsumeAck, TypeOK
<1>6. CASE Crash
  BY <1>2, <1>6 DEF Crash, Closed
<1>7. CASE acks' = acks
  BY <1>2, <1>7
<1> QED
  BY <1>3, <1>4, <1>5, <1>6, <1>7
     DEF Next, Handler, Connect, LinkDrops, Disconnect, Route, Send, SendEnds, SendRaises, Commit,
         SyncSkips, SyncSends, SyncEnds, SyncRaises, SyncStores, Echo, TimeoutWorker, vars, net

LEMMA AcceptedStep ==
  ASSUME TypeOK, TypeOK', AcksWereReceived, TodoFits, RoutedIsKept, AcceptedIsKept, [Next]_vars
  PROVE  AcceptedIsKept'
<1>1. KeptMsgs \subseteq KeptMsgs'
  BY StepKeeps DEF KeptMsgs
<1>2. (echoed \cup unread) \cap Tracked \subseteq KeptMsgs
  BY MessageAssumption DEF AcceptedIsKept, KeptMsgs
<1>3. (echoed' \cup unread') \cap Tracked \subseteq KeptMsgs'
  <2>1. CASE echoed' = echoed /\ unread' = unread
    BY <1>1, <1>2, <2>1
  <2>2. ASSUME NEW c \in Conns, Commit(c), task[c].reached \/ LockFree(c)
        PROVE  (echoed' \cup unread') \cap Tracked \subseteq KeptMsgs'
    <3>1. task[c].msg \in Msgs
      BY <2>2 DEF Commit, TodoFits, Fits
    <3>2. task[c].msg \in Tracked => task[c].msg \in KeptMsgs'
      BY <1>1, <2>2, <3>1, CommitKeeps
    <3>3. echoed' = echoed /\ unread' \subseteq unread \cup {task[c].msg}
      BY <2>2 DEF Commit, history
    <3> QED
      BY <1>1, <1>2, <3>2, <3>3
  <2>3. ASSUME NEW c \in Conns, Echo(c)
        PROVE  (echoed' \cup unread') \cap Tracked \subseteq KeptMsgs'
    <3>1. task[c].msg \in Tracked => task[c].msg \in KeptMsgs
      BY <2>3 DEF Echo, RoutedIsKept, Settled
    <3>2. echoed' \subseteq echoed \cup {task[c].msg} /\ unread' = unread
      BY <2>3 DEF Echo
    <3> QED
      BY <1>1, <1>2, <3>1, <3>2
  <2> QED
    BY <2>1, <2>2, <2>3
       DEF Next, Handler, Connect, LinkDrops, ClientReceives, Disconnect, ConsumeAck, Route, Send,
           SendEnds, Commit, SyncSkips, SyncSends, SyncEnds, SyncStores, TimeoutWorker, Crash,
           vars, db, history
<1> QED
  BY <1>3 DEF AcceptedIsKept, KeptMsgs

-----------------------------------------------------------------------------
(* A delivery ends once: by its ack or in the mailbox *)

\* A step that enters, confirms and stores no delivery, and starts no routing.
LEMMA QuietStep ==
  ASSUME EnteredOnce, pending' \subseteq pending, confirmed' = confirmed, FellBack' = FellBack,
         sent \subseteq sent',
         \A x \in Conns : Serving(task'[x]) =>
           Serving(task[x]) /\ task'[x].msg = task[x].msg /\ task'[x].todo \subseteq task[x].todo
  PROVE  EnteredOnce'
<1>1. Spent' \subseteq Spent
  BY DEF Spent
<1>2. \A c \in Conns : Serving(task'[c]) =>
        /\ task'[c].msg \in sent'
        /\ \A t \in task'[c].todo : <<task'[c].msg, t>> \notin Spent'
  BY <1>1 DEF EnteredOnce
<1>3. \A c, x \in Conns :
        Serving(task'[c]) /\ Serving(task'[x]) /\ task'[c].msg = task'[x].msg => c = x
  BY DEF EnteredOnce
<1> QED
  BY <1>1, <1>2, <1>3 DEF EnteredOnce

\* The rows stored for a recipient nobody reached, and for the sender's other
\* devices, stand for no delivery.
LEMMA PlainRow ==
  ASSUME \E m, u : stored' \in {stored, stored \cup {<<m, u, {}>>}}
  PROVE  FellBack' = FellBack
<1>1. PICK m, u : stored' \in {stored, stored \cup {<<m, u, {}>>}}
  OBVIOUS
<1>2. \A e : <<e[1], Dest[e[1]], {e}>> # <<m, u, {}>>
  OBVIOUS
<1> QED
  BY <1>1, <1>2 DEF FellBack

LEMMA EnteredStep ==
  ASSUME TypeOK, TypeOK', TodoFits, EnteredOnce, [Next]_vars
  PROVE  EnteredOnce'
<1> USE NoneAssumption
<1>0. ~ Serving(Off) /\ ~ Serving(Ready)
  BY DEF Serving, Off, Ready
<1>1. ASSUME NEW d \in Devices, NEW i \in 1 .. Incarnations, Connect(d, i) PROVE EnteredOnce'
  <2>1. task' \in {task, [task EXCEPT ![<<d, i>>] = Ready]}
    BY <1>1 DEF Connect
  <2>2. \A x \in Conns : Serving(task'[x]) => task'[x] = task[x]
    BY <1>0, <2>1 DEF TypeOK
  <2>3. UNCHANGED <<pending, confirmed, stored, sent>>
    BY <1>1 DEF Connect, db, history
  <2>4. FellBack' = FellBack
    BY <2>3 DEF FellBack
  <2> QED
    BY <2>2, <2>3, <2>4, QuietStep
<1>2. ASSUME NEW c \in Conns, HandlerExit(c), UNCHANGED <<pending, confirmed, stored>>,
             sent \subseteq sent'
      PROVE  EnteredOnce'
  <2>1. \A x \in Conns : Serving(task'[x]) => task'[x] = task[x]
    BY <1>0, <1>2 DEF HandlerExit, TypeOK
  <2>2. FellBack' = FellBack
    BY <1>2 DEF FellBack
  <2> QED
    BY <1>2, <2>1, <2>2, QuietStep
<1>3. ASSUME NEW c \in Conns, ConsumeAck(c) PROVE EnteredOnce'
  <2>1. PICK a \in acks[c] :
          /\ pending' = pending \ {a}
          /\ confirmed' = confirmed \cup ({a} \cap pending)
          /\ UNCHANGED <<task, stored, sent>>
    BY <1>3 DEF ConsumeAck, db
  <2>2. FellBack' = FellBack
    BY <2>1 DEF FellBack
  <2>3. Spent' = Spent
    BY <2>1, <2>2 DEF Spent
  <2>4. pending' \cap confirmed' = {} /\ FellBack' \cap (pending' \cup confirmed') = {}
    BY <2>1, <2>2 DEF EnteredOnce
  <2> QED
    BY <2>1, <2>3, <2>4 DEF EnteredOnce
<1>4. ASSUME NEW c \in Conns, NEW m \in Msgs, Route(c, m), ~ HandlerExit(c) PROVE EnteredOnce'
  <2> DEFINE k == [Ready EXCEPT !.pc = "send", !.msg = m, !.todo = Sockets(Dest[m])]
  <2>1. k.msg = m
    BY DEF Ready, Off
  <2>2. task'[c] = k /\ \A x \in Conns \ {c} : task'[x] = task[x]
    BY <1>4 DEF Route, TypeOK
  <2>3. m \notin sent /\ sent' = sent \cup {m} /\ UNCHANGED <<pending, confirmed, stored>>
    BY <1>4 DEF Route
  <2>4. FellBack' = FellBack
    BY <2>3 DEF FellBack
  <2>5. Spent' = Spent
    BY <2>3, <2>4 DEF Spent
  <2> HIDE DEF k
  <2>6. \A t : <<m, t>> \notin Spent
    <3>1. \A t : <<m, t>>[1] = m
      OBVIOUS
    <3> QED
      BY <2>3, <3>1 DEF EnteredOnce
  <2>7. \A x \in Conns : Serving(task'[x]) =>
          /\ task'[x].msg \in sent'
          /\ \A t \in task'[x].todo : <<task'[x].msg, t>> \notin Spent'
    BY <2>1, <2>2, <2>3, <2>5, <2>6 DEF EnteredOnce
  <2>8. \A x, y \in Conns :
          Serving(task'[x]) /\ Serving(task'[y]) /\ task'[x].msg = task'[y].msg => x = y
    <3>1. \A x \in Conns \ {c} : Serving(task'[x]) => task'[x].msg \in sent
      BY <2>2 DEF EnteredOnce
    <3> QED
      BY <2>1, <2>2, <2>3, <3>1 DEF EnteredOnce
  <2> QED
    BY <2>3, <2>4, <2>5, <2>7, <2>8 DEF EnteredOnce
<1>5. ASSUME NEW c \in Conns, Send(c) \/ (SendEnds(c) /\ pending' = pending) PROVE EnteredOnce'
  <2>1. \A x \in Conns : Serving(task'[x]) =>
          Serving(task[x]) /\ task'[x].msg = task[x].msg /\ task'[x].todo \subseteq task[x].todo
    BY <1>5, SendTask DEF Serving
  <2>2. UNCHANGED <<pending, confirmed, stored, sent>>
    BY <1>5 DEF Send, SendEnds, history
  <2>3. FellBack' = FellBack
    BY <2>2 DEF FellBack
  <2> QED
    BY <2>1, <2>2, <2>3, QuietStep
<1>6. ASSUME NEW c \in Conns, SendEnds(c), pending' # pending PROVE EnteredOnce'
  <2> DEFINE t == task[c].now
             m == task[c].msg
             k == [task[c] EXCEPT !.pc = "send", !.now = None, !.todo = task[c].todo \ {t},
                                  !.reached = TRUE]
  <2>1. k.msg = m /\ k.todo = task[c].todo \ {t}
    BY DEF TypeOK, Tasks
  <2>2. /\ Serving(task[c]) /\ t \in task[c].todo /\ t \in Conns
        /\ task' = [task EXCEPT ![c] = k]
        /\ pending' \subseteq pending \cup {<<m, t>>}
        /\ UNCHANGED <<confirmed, stored, sent>>
    BY <1>6 DEF SendEnds, Serving, Entered, TodoFits, Fits, history
  <2>3. task'[c] = k /\ \A x \in Conns \ {c} : task'[x] = task[x]
    BY <2>2 DEF TypeOK
  <2>4. FellBack' = FellBack
    BY <2>2 DEF FellBack
  <2>5. <<m, t>> \notin Spent /\ Spent' \subseteq Spent \cup {<<m, t>>} /\ m \in sent
    BY <2>2, <2>4 DEF EnteredOnce, Spent
  <2> HIDE DEF k
  <2>6. \A e \in Spent' : e[1] \in sent'
    BY <2>2, <2>5 DEF EnteredOnce
  <2>7. \A x \in Conns : Serving(task'[x]) =>
          /\ Serving(task[x]) /\ task'[x].msg = task[x].msg /\ task'[x].todo \subseteq task[x].todo
          /\ x # c => task'[x].msg # m
    BY <2>1, <2>2, <2>3 DEF EnteredOnce
  <2>8. \A x \in Conns : Serving(task'[x]) =>
          \A s \in task'[x].todo : <<task'[x].msg, s>> # <<m, t>>
    BY <2>1, <2>3, <2>7
  <2>9. \A x \in Conns : Serving(task'[x]) =>
          /\ task'[x].msg \in sent'
          /\ \A s \in task'[x].todo : <<task'[x].msg, s>> \notin Spent'
    BY <2>2, <2>5, <2>7, <2>8 DEF EnteredOnce
  <2>10. \A x, y \in Conns :
           Serving(task'[x]) /\ Serving(task'[y]) /\ task'[x].msg = task'[y].msg => x = y
    BY <2>7 DEF EnteredOnce
  <2>11. pending' \cap confirmed' = {} /\ FellBack' \cap (pending' \cup confirmed') = {}
    BY <2>2, <2>4, <2>5 DEF EnteredOnce, Spent
  <2> QED
    BY <2>6, <2>9, <2>10, <2>11 DEF EnteredOnce
<1>7. ASSUME NEW c \in Conns, Commit(c) \/ SyncStores(c) \/ Echo(c), ~ HandlerExit(c)
      PROVE  EnteredOnce'
  <2>1. \A m, S : /\ ~ Serving([Ready EXCEPT !.pc = "sync", !.msg = m, !.todo = S])
                  /\ ~ Serving([Ready EXCEPT !.pc = "echo", !.msg = m])
    BY DEF Serving, Ready, Off
  <2>2. \E k : ~ Serving(k) /\ task' = [task EXCEPT ![c] = k]
    BY <1>0, <1>7, <2>1 DEF Commit, SyncStores, Echo
  <2>3. \A x \in Conns : Serving(task'[x]) => task'[x] = task[x]
    BY <2>2 DEF TypeOK
  <2>4. UNCHANGED <<pending, confirmed, sent>>
    BY <1>7 DEF Commit, SyncStores, Echo, history
  <2>5. \E m, u : stored' \in {stored, stored \cup {<<m, u, {}>>}}
    BY <1>7 DEF Commit, SyncStores, Echo
  <2>6. FellBack' = FellBack
    BY <2>5, PlainRow
  <2> QED
    BY <2>3, <2>4, <2>6, QuietStep
<1>8. ASSUME NEW c \in Conns, SyncSkips(c) \/ SyncSends(c) \/ SyncEnds(c) PROVE EnteredOnce'
  <2>1. \A x \in Conns : Serving(task'[x]) => task'[x] = task[x]
    BY <1>8, SyncTask DEF Serving
  <2>2. UNCHANGED <<pending, confirmed, stored, sent>>
    BY <1>8 DEF SyncSkips, SyncSends, SyncEnds, db, history
  <2>3. FellBack' = FellBack
    BY <2>2 DEF FellBack
  <2> QED
    BY <2>1, <2>2, <2>3, QuietStep
<1>9. ASSUME NEW expired \in SUBSET pending, TimeoutWorker(expired) PROVE EnteredOnce'
  <2>1. pending' = pending \ expired /\ UNCHANGED <<task, confirmed, sent>>
    BY <1>9 DEF TimeoutWorker, Popped
  <2>2. FellBack' \subseteq FellBack \cup expired
    <3>1. stored' \subseteq stored \cup FallbackRows(expired)
      BY <1>9 DEF TimeoutWorker
    <3>2. \A e \in Deliveries :
            <<e[1], Dest[e[1]], {e}>> \in FallbackRows(expired) => e \in expired
      <4> TAKE e \in Deliveries
      <4> HAVE <<e[1], Dest[e[1]], {e}>> \in FallbackRows(expired)
      <4>1. PICK x \in expired : <<e[1], Dest[e[1]], {e}>> = <<x[1], Dest[x[1]], {x}>>
        BY DEF FallbackRows
      <4>2. {e} = {x}
        BY <4>1
      <4> QED
        BY <4>2
    <3> QED
      BY <3>1, <3>2 DEF FellBack
  <2>3. Spent' \subseteq Spent
    BY <2>1, <2>2 DEF Spent
  <2>4. pending' \cap confirmed' = {} /\ FellBack' \cap (pending' \cup confirmed') = {}
    BY <2>1, <2>2 DEF EnteredOnce
  <2> QED
    BY <2>1, <2>3, <2>4 DEF EnteredOnce
<1>10. CASE Crash
  <2>1. \A x \in Conns : ~ Serving(task'[x])
    BY <1>0, <1>10 DEF Crash
  <2>2. pending' \subseteq pending /\ UNCHANGED <<confirmed, stored, sent>>
    BY <1>10 DEF Crash
  <2>3. FellBack' = FellBack
    BY <2>2 DEF FellBack
  <2> QED
    BY <2>1, <2>2, <2>3, QuietStep
<1>11. CASE UNCHANGED <<task, pending, confirmed, stored, sent>>
  <2>1. FellBack' = FellBack
    BY <1>11 DEF FellBack
  <2> QED
    BY <1>11, <2>1, QuietStep
<1>12. ASSUME NEW c \in Conns, Handler(c) PROVE EnteredOnce'
  <2>1. CASE HandlerExit(c)
    <3>1. CASE UNCHANGED <<pending, confirmed, stored>> /\ sent \subseteq sent'
      BY <1>2, <2>1, <3>1
    <3>2. CASE ConsumeAck(c) \/ Send(c) \/ SendEnds(c) \/ SyncSkips(c) \/ SyncSends(c) \/ SyncEnds(c)
      BY <1>3, <1>5, <1>6, <1>8, <3>2
    <3>3. CASE Commit(c) \/ SyncStores(c) \/ Echo(c)
      <4>1. \E m, u : stored' \in {stored, stored \cup {<<m, u, {}>>}}
        BY <3>3 DEF Commit, SyncStores, Echo
      <4>2. UNCHANGED <<pending, confirmed, sent>>
        BY <3>3 DEF Commit, SyncStores, Echo, history
      <4>3. \A x \in Conns : Serving(task'[x]) => task'[x] = task[x]
        BY <1>0, <2>1 DEF HandlerExit, TypeOK
      <4>4. FellBack' = FellBack
        BY <4>1, PlainRow
      <4> QED
        BY <4>2, <4>3, <4>4, QuietStep
    <3>4. CASE Disconnect(c) \/ \E m \in Msgs : Route(c, m)
      BY <3>1, <3>4 DEF Disconnect, Route, history
    <3> QED
      BY <1>12, <3>2, <3>3, <3>4 DEF Handler
  <2>2. CASE ~ HandlerExit(c)
    BY <1>3, <1>4, <1>5, <1>6, <1>7, <1>8, <1>12, <2>2 DEF Handler, Disconnect
  <2> QED
    BY <2>1, <2>2
<1> QED
  BY <1>1, <1>9, <1>10, <1>11, <1>12
     DEF Next, LinkDrops, ClientReceives, vars, db, history

-----------------------------------------------------------------------------
LEMMA InvInit == Init => IInv
<1> SUFFICES ASSUME Init PROVE IInv
  OBVIOUS
<1>1. TypeOK
  BY TypeInit
<1>2. TodoFits /\ RoutedIsKept
  BY Idle DEF Init, InitWith, TodoFits, RoutedIsKept
<1> QED
  BY <1>1, <1>2 DEF Init, InitWith, IInv, RegistryByDevice, RegisteredIsServed, LockHasOwner,
                    FramesAreFor, AcksWereReceived, AcceptedIsKept,
                    EnteredOnce, Spent, FellBack, Serving, Off

LEMMA InvStep == IInv /\ [Next]_vars => IInv'
<1> SUFFICES ASSUME IInv, [Next]_vars PROVE IInv'
  OBVIOUS
<1>1. TypeOK'
  BY TypeStep DEF IInv
<1>2. RegistryByDevice' /\ RegisteredIsServed'
  BY <1>1, RegistryStep DEF IInv
<1>3. TodoFits' /\ RoutedIsKept' /\ LockHasOwner'
  BY <1>1, TaskStep DEF IInv
<1>4. FramesAreFor' /\ AcksWereReceived'
  BY <1>1, WireStep, AckStep DEF IInv
<1>5. AcceptedIsKept'
  BY <1>1, AcceptedStep DEF IInv
<1>6. EnteredOnce'
  BY <1>1, EnteredStep DEF IInv
<1> QED
  BY <1>1, <1>2, <1>3, <1>4, <1>5, <1>6 DEF IInv

\* The strengthened invariant holds in every reachable state.
THEOREM Invariance == Spec => []IInv
BY InvInit, InvStep, PTL DEF Spec

\* Every variable keeps its type, for any users, devices and messages.
THEOREM TypeCorrect == Spec => []TypeOK
<1>1. IInv => TypeOK
  BY DEF IInv
<1> QED
  BY <1>1, Invariance, PTL

\* A message accepted by the socket handler is never lost but with the memory
\* of the process, for any number of devices and connections.
THEOREM NothingAcceptedIsLost == Spec => []AcceptedIsKept
<1>1. IInv => AcceptedIsKept
  BY DEF IInv
<1> QED
  BY <1>1, Invariance, PTL

\* A delivery is settled once: an entry whose ack was consumed is never also
\* stored by the worker, whatever reconnects, retries and crashes come between.
THEOREM AckOrFallback == Spec => []ConfirmedIsNotStored
<1>1. IInv => ConfirmedIsNotStored
  BY DEF IInv, TypeOK, EnteredOnce, FellBack, ConfirmedIsNotStored
<1> QED
  BY <1>1, Invariance, PTL

\* An open write transaction always has a handler that is about to end it.
THEOREM LockIsOwned == Spec => []LockHasOwner
<1>1. IInv => LockHasOwner
  BY DEF IInv
<1> QED
  BY <1>1, Invariance, PTL

\* No handler leaves its socket in the registry when it ends.
THEOREM RegistryIsLive == Spec => []RegisteredIsServed
<1>1. IInv => RegisteredIsServed
  BY DEF IInv
<1> QED
  BY <1>1, Invariance, PTL
-----------------------------------------------------------------------------
(* What was accepted is handed over *)

\* What module Handover sees of the state
Accepted == ((echoed \cup unread) \cap Tracked) \ dropped
Awaiting == {m \in Msgs : AwaitsAck(m)}
InMailbox == {m \in Msgs : Stored(m)}
Arrived == {m \in Msgs : Reached(m)}

LEMMA HandOverStarts == Init => Promise!Init
BY DEF Init, InitWith, Promise!Init, AwaitsAck, Stored, Reached, OfUser

\* A step that touches no delivery, mailbox row or client is nothing to it.
LEMMA Unseen ==
  ASSUME UNCHANGED <<echoed, unread, dropped, pending, stored, got>>
  PROVE  UNCHANGED Promise!vars
BY DEF Promise!vars, AwaitsAck, Stored, Reached, OfUser

\* A step of a handler or of a client that concerns one message.
LEMMA Handled ==
  ASSUME NEW m \in Msgs,
         Awaiting' \in {Awaiting, Awaiting \cup {m}},
         InMailbox' \in {InMailbox, InMailbox \cup {m}},
         Arrived' \in {Arrived, Arrived \cup {m}},
         \/ Accepted' = Accepted
         \/ Accepted' = Accepted \cup {m} /\ m \in Awaiting' \cup InMailbox' \cup Arrived'
  PROVE  Promise!Next
<1>1. Promise!Handle(m)
  BY DEF Promise!Handle, Promise!Held, Accepted, Awaiting, InMailbox, Arrived
<1> QED BY <1>1 DEF Promise!Next

LEMMA NewRow ==
  ASSUME NEW m \in Msgs, NEW u, NEW D, stored' = stored \cup {<<m, u, D>>}
  PROVE  InMailbox' \in {InMailbox, InMailbox \cup {m}}
<1>1. \A x \in Msgs : Stored(x) => Stored(x)'
  BY DEF Stored
<1>2. \A x \in Msgs : Stored(x)' => Stored(x) \/ x = m
  BY DEF Stored
<1> QED BY <1>1, <1>2 DEF InMailbox

LEMMA HandsOn ==
  ASSUME IInv, NEW c \in Conns, SendEnds(c)
  PROVE  Promise!Next \/ UNCHANGED Promise!vars
<1> DEFINE t == task[c].now
<1>1. PICK m \in Msgs : m = task[c].msg
  BY DEF SendEnds, IInv, TodoFits, Fits
<1>2. UNCHANGED <<echoed, unread, dropped, stored, got>>
  BY DEF SendEnds, history
<1>3. CASE pending' = pending
  BY <1>2, <1>3, Unseen
<1>4. CASE pending' = pending \cup Entered(m, t)
  <2>1. pending' = pending \/ pending' = pending \cup {<<m, t>>}
    BY <1>4 DEF Entered
  <2>2. Awaiting' \in {Awaiting, Awaiting \cup {m}}
    <3>1. \A x \in Msgs : AwaitsAck(x) => AwaitsAck(x)'
      BY <2>1 DEF AwaitsAck
    <3>2. \A x \in Msgs : AwaitsAck(x)' => AwaitsAck(x) \/ x = m
      BY <2>1 DEF AwaitsAck
    <3> QED BY <3>1, <3>2 DEF Awaiting
  <2>3. InMailbox' = InMailbox /\ Arrived' = Arrived /\ Accepted' = Accepted
    BY <1>2 DEF InMailbox, Arrived, Accepted, Stored, Reached, OfUser
  <2> QED BY <1>1, <2>2, <2>3, Handled
<1> QED BY <1>1, <1>3, <1>4 DEF SendEnds

LEMMA Arrives ==
  ASSUME IInv, NEW c \in Conns, ClientReceives(c)
  PROVE  Promise!Next \/ UNCHANGED Promise!vars
<1>1. PICK f \in wire[c] : got' = [got EXCEPT ![Dev(c)] = @ \cup {f.msg}]
  BY DEF ClientReceives
<1>2. f.msg \in Msgs
  BY DEF IInv, TypeOK, Frames
<1>3. UNCHANGED <<echoed, unread, dropped, stored, pending>>
  BY DEF ClientReceives, db
<1>4. Arrived' \in {Arrived, Arrived \cup {f.msg}}
  <2>1. \A x \in Msgs : Reached(x) => Reached(x)'
    BY <1>1 DEF Reached, OfUser, IInv, TypeOK
  <2>2. \A x \in Msgs : Reached(x)' => Reached(x) \/ x = f.msg
    BY <1>1 DEF Reached, OfUser, IInv, TypeOK
  <2> QED BY <2>1, <2>2 DEF Arrived
<1>5. InMailbox' = InMailbox /\ Awaiting' = Awaiting /\ Accepted' = Accepted
  BY <1>3 DEF InMailbox, Awaiting, Accepted, Stored, AwaitsAck
<1> QED BY <1>2, <1>4, <1>5, Handled

\* What a message that is kept is held by, unless it was lost
LEMMA KeptIsHeld ==
  ASSUME NEW m \in Msgs, Kept(m)', m \notin dropped'
  PROVE  m \in Awaiting' \cup InMailbox' \cup Arrived'
BY DEF Kept, Awaiting, InMailbox, Arrived

\* A message is added to what was accepted, unless it was lost before.
LEMMA Accepts ==
  ASSUME NEW m \in Msgs, echoed' \in {echoed, echoed \cup {m}},
         unread' \in {unread, unread \cup {m}}, dropped' = dropped, m \in Tracked => Kept(m)'
  PROVE  \/ Accepted' = Accepted
         \/ Accepted' = Accepted \cup {m} /\ m \in Awaiting' \cup InMailbox' \cup Arrived'
<1>1. CASE m \in Tracked \ dropped
  BY <1>1, KeptIsHeld DEF Accepted
<1>2. CASE m \notin Tracked \ dropped
  BY <1>2 DEF Accepted
<1> QED BY <1>1, <1>2

LEMMA Commits ==
  ASSUME IInv, TypeOK', [Next]_vars, NEW c \in Conns, Commit(c)
  PROVE  Promise!Next \/ UNCHANGED Promise!vars
<1>1. PICK m \in Msgs : m = task[c].msg
  BY DEF Commit, IInv, TodoFits, Fits
<1> DEFINE row == IF task[c].reached THEN {} ELSE {<<m, Dest[m], {}>>}
<1>2. UNCHANGED <<echoed, dropped, pending, got>>
  BY DEF Commit, history
<1>3. CASE row # {} /\ ~ LockFree(c)
  <2>1. UNCHANGED <<unread, stored>>
    BY <1>1, <1>3 DEF Commit
  <2> QED BY <1>2, <2>1, Unseen
<1>4. CASE ~ (row # {} /\ ~ LockFree(c))
  <2>1. stored' = stored \cup row /\ unread' \in {unread, unread \cup {m}}
    BY <1>1, <1>4 DEF Commit
  <2>2. InMailbox' \in {InMailbox, InMailbox \cup {m}}
    <3>1. CASE row = {}
      BY <2>1, <3>1 DEF InMailbox, Stored
    <3>2. CASE row # {}
      BY <1>1, <2>1, <3>2, NewRow
    <3> QED BY <3>1, <3>2
  <2>3. m \in Tracked => Kept(m)'
    <3>1. KeptMsgs \subseteq KeptMsgs'
      BY StepKeeps DEF KeptMsgs, IInv
    <3>2. task[c].reached \/ LockFree(c)
      BY <1>4
    <3> QED BY <1>1, <3>1, <3>2, CommitKeeps DEF KeptMsgs, IInv
  <2>4. \/ Accepted' = Accepted
        \/ Accepted' = Accepted \cup {m} /\ m \in Awaiting' \cup InMailbox' \cup Arrived'
    <3> QED BY <1>1, <1>2, <2>1, <2>3, Accepts
  <2>5. Awaiting' = Awaiting /\ Arrived' = Arrived
    BY <1>2 DEF Awaiting, Arrived, AwaitsAck, Reached, OfUser
  <2> QED BY <1>1, <2>2, <2>4, <2>5, Handled
<1> QED BY <1>3, <1>4

LEMMA StoresCopy ==
  ASSUME IInv, NEW c \in Conns, SyncStores(c)
  PROVE  Promise!Next \/ UNCHANGED Promise!vars
<1>1. PICK m \in Msgs : m = task[c].msg
  BY DEF SyncStores, IInv, TodoFits, Fits
<1>2. UNCHANGED <<echoed, unread, dropped, pending, got>>
  BY DEF SyncStores, history
<1>3. stored' = stored \/ stored' = stored \cup {<<m, Owner[Dev(c)], {}>>}
  BY <1>1 DEF SyncStores
<1>4. CASE stored' = stored
  BY <1>2, <1>4, Unseen
<1>5. CASE stored' = stored \cup {<<m, Owner[Dev(c)], {}>>}
  <2>1. InMailbox' \in {InMailbox, InMailbox \cup {m}}
    BY <1>1, <1>5, NewRow
  <2>2. Awaiting' = Awaiting /\ Arrived' = Arrived /\ Accepted' = Accepted
    BY <1>2 DEF Awaiting, Arrived, Accepted, AwaitsAck, Reached, OfUser
  <2> QED BY <1>1, <2>1, <2>2, Handled
<1> QED BY <1>3, <1>4, <1>5

LEMMA Echoes ==
  ASSUME IInv, NEW c \in Conns, Echo(c)
  PROVE  Promise!Next \/ UNCHANGED Promise!vars
<1>1. PICK m \in Msgs : m = task[c].msg
  BY DEF Echo, IInv, TodoFits, Fits
<1>2. UNCHANGED <<unread, dropped, pending, stored, got>> /\ echoed' \in {echoed, echoed \cup {m}}
  BY <1>1 DEF Echo
<1>3. m \in Tracked => Kept(m)'
  <2>1. m \in Tracked => Kept(m)
    BY <1>1 DEF Echo, IInv, RoutedIsKept, Settled, KeptMsgs
  <2>2. Kept(m) => Kept(m)'
    BY <1>2 DEF Kept, Reached, OfUser, Stored, AwaitsAck
  <2> QED BY <2>1, <2>2
<1>4. \/ Accepted' = Accepted
      \/ Accepted' = Accepted \cup {m} /\ m \in Awaiting' \cup InMailbox' \cup Arrived'
  <2> QED BY <1>1, <1>2, <1>3, Accepts
<1>5. Awaiting' = Awaiting /\ InMailbox' = InMailbox /\ Arrived' = Arrived
  BY <1>2 DEF Awaiting, InMailbox, Arrived, AwaitsAck, Stored, Reached, OfUser
<1> QED BY <1>1, <1>4, <1>5, Handled

LEMMA Confirms ==
  ASSUME IInv, NEW c \in Conns, ConsumeAck(c)
  PROVE  Promise!Next \/ UNCHANGED Promise!vars
<1>1. PICK a \in acks[c] : pending' = pending \ {a}
  BY DEF ConsumeAck
<1>2. UNCHANGED <<echoed, unread, dropped, stored, got>>
  BY DEF ConsumeAck, db
<1>3. a[1] \in Msgs /\ Reached(a[1])
  BY DEF IInv, AcksWereReceived, Deliveries
<1>4. \A x \in Msgs : x # a[1] => (AwaitsAck(x)' <=> AwaitsAck(x))
  BY <1>1 DEF AwaitsAck
<1>5. CASE AwaitsAck(a[1])' <=> AwaitsAck(a[1])
  <2>1. Awaiting' = Awaiting
    BY <1>4, <1>5 DEF Awaiting
  <2> QED BY <1>2, <2>1 DEF Promise!vars, Awaiting, Stored, Reached, OfUser
<1>6. CASE ~ (AwaitsAck(a[1])' <=> AwaitsAck(a[1]))
  <2>1. AwaitsAck(a[1]) /\ ~ AwaitsAck(a[1])'
    BY <1>1, <1>6 DEF AwaitsAck
  <2>2. Awaiting' = Awaiting \ {a[1]}
    BY <1>4, <2>1 DEF Awaiting
  <2>3. InMailbox' = InMailbox /\ Arrived' = Arrived /\ Accepted' = Accepted
    BY <1>2 DEF InMailbox, Arrived, Accepted, Stored, Reached, OfUser
  <2>4. a[1] \in Awaiting \cap Arrived
    BY <1>3, <2>1 DEF Awaiting, Arrived
  <2>5. Promise!Confirm(a[1])
    BY <2>2, <2>3, <2>4 DEF Promise!Confirm, Awaiting, InMailbox, Arrived, Accepted
  <2> QED BY <1>3, <2>5 DEF Promise!Next
<1> QED BY <1>5, <1>6

Messages(D) == {e[1] : e \in D}

\* What the worker or a crash takes out of the table
LEMMA Leaves ==
  ASSUME IInv, NEW expired \in SUBSET pending, pending' = pending \ expired
  PROVE  \E M \in SUBSET Msgs :
           /\ M = Messages(expired) /\ M \subseteq Awaiting
           /\ \E A \in SUBSET M : Awaiting' = Awaiting \ A
<1>0. PICK M : M = Messages(expired)
  OBVIOUS
<1>1. M \in SUBSET Msgs /\ M \subseteq Awaiting
  BY <1>0 DEF IInv, TypeOK, Deliveries, Awaiting, AwaitsAck, Messages
<1>2. \A x \in Msgs : AwaitsAck(x)' => AwaitsAck(x)
  BY DEF AwaitsAck
<1>3. \A x \in Msgs : AwaitsAck(x) /\ x \notin M => AwaitsAck(x)'
  BY <1>0 DEF AwaitsAck, Messages
<1>4. Awaiting' = Awaiting \ {x \in M : ~ AwaitsAck(x)'}
  BY <1>1, <1>2, <1>3 DEF Awaiting
<1> QED BY <1>0, <1>1, <1>4

LEMMA Loses ==
  ASSUME IInv, NEW expired \in SUBSET pending, pending' = pending \ expired,
         dropped' = dropped \cup Messages(expired),
         UNCHANGED <<echoed, unread, stored, got>>
  PROVE  Promise!Next
<1>1. PICK M \in SUBSET Msgs :
        /\ M = Messages(expired) /\ M \subseteq Awaiting
        /\ \E A \in SUBSET M : Awaiting' = Awaiting \ A
  BY Leaves
<1>2. PICK A \in SUBSET M : Awaiting' = Awaiting \ A
  BY <1>1
<1>3. Accepted' = Accepted \ M
  BY <1>1 DEF Accepted
<1>4. InMailbox' = InMailbox \ {} /\ Arrived' = Arrived
  BY DEF InMailbox, Arrived, Stored, Reached, OfUser
<1>5. Promise!Lose(M, A, {})
  BY <1>1, <1>2, <1>3, <1>4 DEF Promise!Lose, Accepted, Awaiting, InMailbox, Arrived
<1> QED BY <1>1, <1>5 DEF Promise!Next

LEMMA WorkerHandsOver ==
  ASSUME IInv, NEW expired \in SUBSET pending, TimeoutWorker(expired)
  PROVE  Promise!Next
<1>1. pending' = pending \ expired /\ UNCHANGED <<echoed, unread, got>>
  BY DEF TimeoutWorker, Popped
<1>2. CASE writer = None
  <2>1. stored' = stored \cup FallbackRows(expired) /\ dropped' = dropped
    BY <1>2 DEF TimeoutWorker
  <2>2. PICK M \in SUBSET Msgs :
          /\ M = Messages(expired) /\ M \subseteq Awaiting
          /\ \E A \in SUBSET M : Awaiting' = Awaiting \ A
    BY <1>1, Leaves
  <2>3. PICK A \in SUBSET M : Awaiting' = Awaiting \ A
    BY <2>2
  <2>4. InMailbox' = InMailbox \cup M
    <3>1. \A x \in Msgs : Stored(x) => Stored(x)'
      BY <2>1 DEF Stored
    <3>2. \A e \in expired : <<e[1], Dest[e[1]], {e}>> \in stored'
      BY <2>1 DEF FallbackRows
    <3>3. \A x \in M : Stored(x)'
      BY <2>2, <3>2 DEF Stored, Messages
    <3>4. \A x \in Msgs : Stored(x)' => Stored(x) \/ x \in M
      BY <2>1, <2>2 DEF Stored, FallbackRows, Messages
    <3> QED BY <2>2, <3>1, <3>3, <3>4 DEF InMailbox
  <2>5. Arrived' = Arrived /\ Accepted' = Accepted
    BY <1>1, <2>1 DEF Arrived, Accepted, Reached, OfUser
  <2>6. Promise!FallBack(M, A)
    BY <2>2, <2>3, <2>4, <2>5 DEF Promise!FallBack, Accepted, Awaiting, InMailbox, Arrived
  <2> QED BY <2>2, <2>6 DEF Promise!Next
<1>3. CASE writer # None
  BY <1>1, <1>3, Loses DEF TimeoutWorker, Messages
<1> QED BY <1>2, <1>3

LEMMA HandOverStep ==
  ASSUME IInv, TypeOK', [Next]_vars
  PROVE  Promise!Next \/ UNCHANGED Promise!vars
<1>1. ASSUME NEW c \in Conns, Handler(c) PROVE Promise!Next \/ UNCHANGED Promise!vars
  <2>1. CASE SendEnds(c)
    BY <2>1, HandsOn
  <2>2. CASE Commit(c)
    BY <2>2, Commits
  <2>3. CASE SyncStores(c)
    BY <2>3, StoresCopy
  <2>4. CASE Echo(c)
    BY <2>4, Echoes
  <2>5. CASE ConsumeAck(c)
    BY <2>5, Confirms
  <2>6. CASE \/ Disconnect(c) \/ (\E m \in Msgs : Route(c, m)) \/ Send(c)
             \/ SyncSkips(c) \/ SyncSends(c) \/ SyncEnds(c)
    <3>1. UNCHANGED <<echoed, unread, dropped, pending, stored, got>>
      BY <2>6 DEF Disconnect, Route, Send, SyncSkips, SyncSends, SyncEnds, db, history
    <3> QED BY <3>1, Unseen
  <2> QED BY <1>1, <2>1, <2>2, <2>3, <2>4, <2>5, <2>6 DEF Handler
<1>2. ASSUME NEW c \in Conns, ClientReceives(c) PROVE Promise!Next \/ UNCHANGED Promise!vars
  BY <1>2, Arrives
<1>3. ASSUME NEW expired \in SUBSET pending, TimeoutWorker(expired) PROVE Promise!Next
  BY <1>3, WorkerHandsOver
<1>4. CASE Crash
  <2>1. pending' = pending \ pending
    BY <1>4 DEF Crash
  <2> QED BY <1>4, <2>1, Loses DEF Crash, Messages
<1>5. CASE \/ \E d \in Devices, i \in 1 .. Incarnations : Connect(d, i)
           \/ \E c \in Conns : LinkDrops(c)
           \/ UNCHANGED vars
  <2>1. UNCHANGED <<echoed, unread, dropped, pending, stored, got>>
    BY <1>5 DEF Connect, LinkDrops, vars, db, history
  <2> QED BY <2>1, Unseen
<1> QED BY <1>1, <1>2, <1>3, <1>4, <1>5 DEF Next

\* The socket handlers, the acknowledgements and their worker keep the promise of
\* Handover, for any devices, connections, reconnects and restarts: what is
\* acknowledged or taken over by _pending_delivery_timeout_worker has arrived or is
\* stored, at each step, and an echo confirms nothing that is not held.
THEOREM ImplementsHandover == Spec => AcceptedIsHandedOver
<1>1. IInv /\ IInv' /\ [Next]_vars => [Promise!Next]_(Promise!vars)
  BY HandOverStep DEF IInv
<1> QED
  BY <1>1, HandOverStarts, Invariance, PTL DEF Spec, AcceptedIsHandedOver, Promise!Spec

LEMMA HeldStep ==
  ASSUME Promise!AcceptedIsHeld, [Promise!Next]_(Promise!vars)
  PROVE  Promise!AcceptedIsHeld'
<1>0. /\ Promise!AcceptedIsHeld <=> Accepted \subseteq Awaiting \cup InMailbox \cup Arrived
      /\ Promise!AcceptedIsHeld' <=> Accepted' \subseteq Awaiting' \cup InMailbox' \cup Arrived'
  BY DEF Promise!AcceptedIsHeld, Promise!Held, Accepted, Awaiting, InMailbox, Arrived
<1>1. ASSUME NEW m \in Msgs, Promise!Handle(m) PROVE Promise!AcceptedIsHeld'
  <2>1. /\ Awaiting \subseteq Awaiting' /\ InMailbox \subseteq InMailbox' /\ Arrived \subseteq Arrived'
        /\ \/ Accepted' = Accepted
           \/ Accepted' = Accepted \cup {m} /\ m \in Awaiting' \cup InMailbox' \cup Arrived'
    BY <1>1 DEF Promise!Handle, Promise!Held, Accepted, Awaiting, InMailbox, Arrived
  <2> QED BY <1>0, <2>1
<1>2. ASSUME NEW m \in Msgs, Promise!Confirm(m) PROVE Promise!AcceptedIsHeld'
  <2>1. /\ m \in Arrived /\ Awaiting' = Awaiting \ {m}
        /\ Accepted' = Accepted /\ InMailbox' = InMailbox /\ Arrived' = Arrived
    BY <1>2 DEF Promise!Confirm, Accepted, Awaiting, InMailbox, Arrived
  <2> QED BY <1>0, <2>1
<1>3. ASSUME NEW M, NEW A, Promise!FallBack(M, A) PROVE Promise!AcceptedIsHeld'
  <2>1. /\ A \subseteq M /\ InMailbox' = InMailbox \cup M /\ Awaiting' = Awaiting \ A
        /\ Accepted' = Accepted /\ Arrived' = Arrived
    BY <1>3 DEF Promise!FallBack, Accepted, Awaiting, InMailbox, Arrived
  <2> QED BY <1>0, <2>1
<1>4. ASSUME NEW M, NEW A, NEW S, Promise!Lose(M, A, S) PROVE Promise!AcceptedIsHeld'
  <2>1. /\ A \cup S \subseteq M /\ Awaiting' = Awaiting \ A /\ InMailbox' = InMailbox \ S
        /\ Accepted' = Accepted \ M /\ Arrived' = Arrived
    BY <1>4 DEF Promise!Lose, Accepted, Awaiting, InMailbox, Arrived
  <2> QED BY <1>0, <2>1
<1>5. CASE Promise!Fetch
  <2>1. /\ Arrived' = Arrived \cup InMailbox /\ Accepted' = Accepted /\ Awaiting' = Awaiting
    BY <1>5 DEF Promise!Fetch, Accepted, Awaiting, InMailbox, Arrived
  <2> QED BY <1>0, <2>1
<1>6. CASE UNCHANGED Promise!vars
  <2>1. Accepted' = Accepted /\ Awaiting' = Awaiting /\ InMailbox' = InMailbox /\ Arrived' = Arrived
    BY <1>6 DEF Promise!vars, Accepted, Awaiting, InMailbox, Arrived
  <2> QED BY <1>0, <2>1
<1> QED BY <1>1, <1>2, <1>3, <1>4, <1>5, <1>6 DEF Promise!Next

\* What the promise of Handover is worth: a system that keeps it has accepted
\* nothing that is not held.
THEOREM PromiseHolds == AcceptedIsHandedOver => []Promise!AcceptedIsHeld
<1>1. Promise!Init => Promise!AcceptedIsHeld
  BY DEF Promise!Init, Promise!AcceptedIsHeld
<1> QED BY <1>1, HeldStep, PTL DEF AcceptedIsHandedOver, Promise!Spec
=============================================================================
