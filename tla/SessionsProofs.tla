--------------------------- MODULE SessionsProofs ---------------------------
(***************************************************************************)
(* Proofs that a user has at most one main device, that a main device keeps *)
(* its role through logouts and logins, and that the bootstrap of a new     *)
(* account is used once, for any users, devices and number of logins.       *)
(***************************************************************************)
EXTENDS Sessions, TLAPS

\* While a login has its row deleted, its device is not main; once it is settled
\* that it will be main, no other device of the user is.
LoginClears ==
  login.step # "none" =>
    /\ login.dev \notin main
    /\ login.main \/ (login.step = "demoted" /\ login.boot) =>
         \A e \in main : Owner[e] # Owner[login.dev]

\* An account that can still bootstrap has not done so.
BootstrapUnused == \A u \in bootstrap : u \notin booted

IInv ==
  /\ TypeOK
  /\ LoginClears
  /\ OneMain
  /\ BootstrapUnused
  /\ BootstrapIsOnce
  /\ MainSurvives

-----------------------------------------------------------------------------
(* Type correctness *)

USE OwnerAssumption, NoneAssumption

LEMMA DeletedType ==
  ASSUME TypeOK, NEW D \in SUBSET Devices, Deleted(D)
  PROVE  /\ secret' \in [Devices -> Secrets \cup {Blank, None}]
         /\ main' \subseteq Devices
         /\ \A u \in Users : marked'[u] \in DevicesOf(u) \cup {None}
         /\ DOMAIN marked' = Users
  BY DEF TypeOK, Deleted, DevicesOf

\* The state is of its type.
LEMMA TypeStep == TypeOK /\ [Next]_vars => TypeOK'
<1> SUFFICES ASSUME TypeOK, [Next]_vars PROVE TypeOK'
  OBVIOUS
<1>u. ASSUME NEW u \in Users, Register(u) \/ BootstrapLapses(u) PROVE TypeOK'
  BY <1>u DEF TypeOK, Register, BootstrapLapses, rows, sockets, requests, history, DevicesOf
<1>d. ASSUME NEW d \in Devices, NEW requested \in BOOLEAN, LoginDelete(d, requested)
      PROVE  TypeOK'
  BY <1>d DEF TypeOK, LoginDelete, sockets, history, DevicesOf
<1>m. ASSUME LoginDemote PROVE TypeOK'
  <2>1. login \in [dev : Devices, step : {"deleted", "demoted"}, main : BOOLEAN,
                   boot : BOOLEAN]
    BY <1>m DEF TypeOK, LoginDemote, NoLogin
  <2>2. /\ login' \in [dev : Devices, step : {"deleted", "demoted"}, main : BOOLEAN,
                       boot : BOOLEAN]
        /\ main' \subseteq Devices
    BY <1>m, <2>1 DEF LoginDemote, TypeOK, OtherMains
  <2>3. /\ \A u \in Users : marked'[u] \in DevicesOf(u) \cup {None}
        /\ DOMAIN marked' = Users
    BY <1>m, <2>1 DEF LoginDemote, TypeOK, DevicesOf
  <2> QED BY <1>m, <2>2, <2>3 DEF LoginDemote, TypeOK, sockets, DevicesOf
<1>i. ASSUME NEW s \in Secrets, NEW arrives \in BOOLEAN, LoginInsert(s, arrives)
      PROVE  TypeOK'
  <2>1. login \in [dev : Devices, step : {"deleted", "demoted"}, main : BOOLEAN,
                   boot : BOOLEAN]
    BY <1>i DEF TypeOK, LoginInsert, NoLogin
  <2>2. /\ used' = used \cup {s} /\ used' \subseteq Secrets
        /\ secret' \in [Devices -> Secrets \cup {Blank, None}]
        /\ main' \subseteq Devices
        /\ bootstrap' \subseteq Users /\ booted' \subseteq Users
        /\ login' = NoLogin
        /\ holds' \in [Devices -> used' \cup {None}]
    BY <1>i, <2>1 DEF TypeOK, LoginInsert, Popped
  <2>3. call' \in [Devices -> [op : {"token", "reset"}, secret : used', found : BOOLEAN]
                              \cup {NoCall}]
    BY <1>i, <2>2 DEF TypeOK, LoginInsert
  <2> QED BY <1>i, <2>2, <2>3 DEF TypeOK, LoginInsert, sockets, DevicesOf
<1>r. ASSUME NEW d \in Devices, Validate(d) \/ Logout(d) \/ Promote(d) \/ IssueTicket(d)
      PROVE  TypeOK'
  <2>1. CASE Validate(d) \/ IssueTicket(d)
    BY <2>1 DEF TypeOK, Validate, IssueTicket, Accepted, rows, sockets, requests, history, DevicesOf
  <2>2. CASE Logout(d)
    BY <2>2 DEF TypeOK, Logout, Accepted, sockets, requests, history, DevicesOf
  <2>3. CASE Promote(d)
    BY <2>3 DEF TypeOK, Promote, sockets, requests, DevicesOf
  <2> QED BY <1>r, <2>1, <2>2, <2>3
<1>e. ASSUME NEW d \in Devices, Expire(d) PROVE TypeOK'
  BY <1>e, DeletedType DEF TypeOK, Expire, sockets, requests, DevicesOf
<1>k. ASSUME NEW d \in Devices, NEW t \in Devices, KillStart(d, t) PROVE TypeOK'
  <2>1. CASE secret[t] \in online
    BY <1>k, <2>1 DEF TypeOK, KillStart, sockets, DevicesOf
  <2>2. CASE secret[t] \notin online
    <3>1. Deleted(RowOf(secret[t])) /\ cache' = cache \ {secret[t]} /\ UNCHANGED kill
      BY <1>k, <2>2 DEF KillStart, Killed
    <3> QED BY <1>k, <3>1, DeletedType DEF TypeOK, KillStart, RowOf, sockets, DevicesOf
  <2> QED BY <2>1, <2>2
<1>l. ASSUME NEW d \in Devices, KillEnd(d) PROVE TypeOK'
  <2>1. CASE Killed(kill[d])
    BY <1>l, <2>1, DeletedType DEF TypeOK, KillEnd, Killed, RowOf, sockets, DevicesOf
  <2>2. CASE UNCHANGED <<secret, main, marked, cache>>
    BY <1>l, <2>2 DEF TypeOK, KillEnd, sockets, DevicesOf
  <2> QED BY <1>l, <2>1, <2>2 DEF KillEnd
<1>c. ASSUME NEW d \in Devices, NEW op \in {"token", "reset"}, CallStart(d, op)
      PROVE  TypeOK'
  <2>1. holds[d] \in used
    BY <1>c DEF CallStart, Accepted, TypeOK
  <2>2. [op |-> op, secret |-> holds[d], found |-> FromTable(holds[d])]
          \in [op : {"token", "reset"}, secret : used, found : BOOLEAN]
    BY <2>1 DEF FromTable
  <2> QED BY <1>c, <2>2 DEF CallStart, TypeOK, rows, sockets, history, DevicesOf
<1>h. ASSUME NEW d \in Devices, CallCaches(d) PROVE TypeOK'
  <2>1. call[d] \in [op : {"token", "reset"}, secret : used, found : BOOLEAN]
    BY <1>h DEF CallCaches, TypeOK, NoCall
  <2>2. call' \in [Devices -> [op : {"token", "reset"}, secret : used, found : BOOLEAN]
                              \cup {NoCall}]
    BY <1>h, <2>1 DEF CallCaches, TypeOK
  <2> QED BY <1>h, <2>1, <2>2 DEF CallCaches, TypeOK, rows, sockets, history, DevicesOf
<1>n. ASSUME NEW d \in Devices, CallEnds(d) PROVE TypeOK'
  <2>1. CASE call[d].op = "reset" /\ Owner[d] \in accounts
    <3>1. Deleted(DevicesOf(Owner[d]))
      BY <1>n, <2>1 DEF CallEnds
    <3> QED BY <1>n, <2>1, <3>1, DeletedType DEF TypeOK, CallEnds, DevicesOf
  <2>2. CASE ~ (call[d].op = "reset" /\ Owner[d] \in accounts)
    BY <1>n, <2>2 DEF TypeOK, CallEnds, DevicesOf
  <2> QED BY <2>1, <2>2
<1>g. ASSUME NEW u \in Users, Deregister(u) PROVE TypeOK'
  <2>1. Deleted(DevicesOf(u))
    BY <1>g DEF Deregister
  <2> QED BY <1>g, <2>1, DeletedType DEF TypeOK, Deregister, requests, DevicesOf
<1>s. ASSUME NEW s \in Secrets,
             \/ CacheLapses(s) \/ TicketLapses(s)
             \/ OpenSocket(s) \/ RegisterSocket(s) \/ CloseSocket(s)
      PROVE  TypeOK'
  BY <1>s DEF TypeOK, CacheLapses, TicketLapses, OpenSocket, RegisterSocket, CloseSocket,
              rows, sockets, requests, history, DevicesOf
<1>x. ASSUME Crash PROVE TypeOK'
  BY <1>x DEF TypeOK, Crash, rows, DevicesOf
<1>z. ASSUME UNCHANGED vars PROVE TypeOK'
  BY <1>z DEF TypeOK, vars, rows, sockets, requests, history, DevicesOf
<1> QED
  BY <1>u, <1>d, <1>m, <1>i, <1>r, <1>e, <1>k, <1>l, <1>c, <1>h, <1>n, <1>g, <1>s, <1>x,
     <1>z DEF Next

-----------------------------------------------------------------------------
(* Main devices *)

\* What the invariant needs of a step that is not a login, a promotion or a
\* registration: main devices only go, and a mark goes with its device.
Shrinks ==
  /\ main' \subseteq main /\ bootstrap' \subseteq bootstrap
  /\ login' = login /\ booted' = booted
  /\ \A u \in Users : marked'[u] # None => marked'[u] = marked[u]
                                     /\ (marked[u] \in main => marked[u] \in main')

LEMMA ShrinksKeeps == IInv /\ TypeOK' /\ Shrinks => IInv'
  BY DEF IInv, Shrinks, LoginClears, OneMain, BootstrapUnused, BootstrapIsOnce,
         MainSurvives, BecomesMain

LEMMA DeletedShrinks ==
  ASSUME TypeOK, NEW D \in SUBSET Devices, Deleted(D), login' = login, booted' = booted,
         bootstrap' \subseteq bootstrap
  PROVE  Shrinks
  BY DEF Shrinks, Deleted, TypeOK

LEMMA QuietShrinks ==
  TypeOK /\ UNCHANGED <<main, marked, login, booted>> /\ bootstrap' \subseteq bootstrap
    => Shrinks
  BY DEF Shrinks, TypeOK

\* Without a login on the event loop, a marked device is main.
LEMMA IdleMarks ==
  ASSUME IInv, LoopFree, NEW u \in Users, marked[u] # None
  PROVE  marked[u] \in main
<1>1. login = NoLogin
  BY DEF IInv, TypeOK, LoopFree
<1>2. marked[u] \in Devices
  BY DEF IInv, TypeOK, DevicesOf
<1> QED
  BY <1>1, <1>2 DEF IInv, MainSurvives, NoLogin

LEMMA LoginType ==
  ASSUME TypeOK, ~ LoopFree
  PROVE  login \in [dev : Devices, step : {"deleted", "demoted"}, main : BOOLEAN,
                    boot : BOOLEAN]
  BY DEF TypeOK, LoopFree, NoLogin

LEMMA RegisterKeeps ==
  ASSUME IInv, TypeOK', NEW u \in Users, Register(u)
  PROVE  IInv'
<1>1. UNCHANGED <<main, marked, login>> /\ bootstrap' = bootstrap \cup {u}
      /\ booted' = booted \ {u}
  BY DEF Register, rows, requests
<1> QED
  BY <1>1 DEF IInv, LoginClears, OneMain, BootstrapUnused, BootstrapIsOnce, MainSurvives,
              BecomesMain

LEMMA LoginDeleteKeeps ==
  ASSUME IInv, TypeOK', NEW d \in Devices, NEW requested \in BOOLEAN,
         LoginDelete(d, requested)
  PROVE  IInv'
<1>1. /\ main' = main \ {d} /\ UNCHANGED <<marked, booted, bootstrap>>
      /\ LoopFree
      /\ login'.dev = d /\ login'.step = "deleted"
      /\ login'.main = (d \in main)
      /\ login'.boot = (requested /\ Owner[d] \in bootstrap)
  BY DEF LoginDelete, history
<1>2. LoginClears'
  BY <1>1 DEF LoginClears, IInv, OneMain
<1>3. OneMain' /\ BootstrapUnused' /\ BootstrapIsOnce'
  BY <1>1 DEF IInv, OneMain, BootstrapUnused, BootstrapIsOnce
<1>4. MainSurvives'
  BY <1>1, IdleMarks DEF MainSurvives, BecomesMain
<1> QED
  BY <1>2, <1>3, <1>4 DEF IInv

LEMMA LoginDemoteKeeps ==
  ASSUME IInv, TypeOK', LoginDemote
  PROVE  IInv'
<1>1. login \in [dev : Devices, step : {"deleted", "demoted"}, main : BOOLEAN,
                 boot : BOOLEAN]
  BY LoginType DEF IInv, LoginDemote, LoopFree
<1>2. /\ login'.dev = login.dev /\ login'.step = "demoted" /\ login.step = "deleted"
      /\ login'.main = login.main /\ login'.boot = login.boot
      /\ UNCHANGED <<bootstrap, booted>>
  BY <1>1 DEF LoginDemote
<1>3. BootstrapUnused' /\ BootstrapIsOnce'
  BY <1>2 DEF IInv, BootstrapUnused, BootstrapIsOnce
<1>4. CASE BecomesMain(login)
  <2>1. /\ main' = OtherMains(login)
        /\ marked' = [marked EXCEPT ![Owner[login.dev]] = login.dev]
    BY <1>4 DEF LoginDemote
  <2>2. LoginClears' /\ OneMain'
    BY <1>1, <1>2, <2>1 DEF IInv, TypeOK, LoginClears, OneMain, OtherMains, DevicesOf
  <2>3. ASSUME NEW u \in Users, marked'[u] # None
        PROVE  marked'[u] \in main' \/ (login'.dev = marked'[u] /\ BecomesMain(login'))
    <3>1. CASE u = Owner[login.dev]
      BY <1>1, <1>2, <1>4, <2>1, <3>1 DEF IInv, TypeOK, BecomesMain
    <3>2. CASE u # Owner[login.dev]
      <4>1. marked'[u] = marked[u] /\ marked[u] \in DevicesOf(u)
        BY <2>1, <2>3, <3>2 DEF IInv, TypeOK
      <4>2. marked[u] # login.dev
        BY <3>2, <4>1 DEF DevicesOf
      <4>3. marked[u] \in main
        BY <2>3, <4>1, <4>2 DEF IInv, MainSurvives
      <4> QED BY <2>1, <3>2, <4>1, <4>3 DEF OtherMains, DevicesOf
    <3> QED BY <3>1, <3>2
  <2> QED BY <1>3, <2>2, <2>3 DEF IInv, MainSurvives
<1>5. CASE ~ BecomesMain(login)
  <2>1. UNCHANGED <<main, marked>>
    BY <1>5 DEF LoginDemote
  <2> QED BY <1>2, <1>3, <1>5, <2>1 DEF IInv, LoginClears, OneMain, MainSurvives, BecomesMain
<1> QED
  BY <1>4, <1>5

LEMMA LoginInsertKeeps ==
  ASSUME IInv, TypeOK', NEW s \in Secrets, NEW arrives \in BOOLEAN, LoginInsert(s, arrives)
  PROVE  IInv'
<1>1. login \in [dev : Devices, step : {"deleted", "demoted"}, main : BOOLEAN,
                 boot : BOOLEAN]
  BY LoginType DEF IInv, LoginInsert, LoopFree
<1>2. /\ main' = IF BecomesMain(login) THEN main \cup {login.dev} ELSE main
      /\ UNCHANGED marked
      /\ bootstrap' = Popped(login)
      /\ booted' = IF login.boot THEN booted \cup {Owner[login.dev]} ELSE booted
      /\ login.step = "demoted" /\ login' = NoLogin
  BY DEF LoginInsert, InsertedMain, BecomesMain
<1>3. LoginClears' /\ BootstrapIsOnce'
  BY <1>2 DEF LoginClears, BootstrapIsOnce, NoLogin
<1>4. OneMain'
  BY <1>2 DEF IInv, OneMain, LoginClears, BecomesMain
<1>5. BootstrapUnused'
  BY <1>2 DEF IInv, BootstrapUnused, Popped
<1>6. MainSurvives'
  BY <1>2 DEF IInv, MainSurvives
<1> QED
  BY <1>3, <1>4, <1>5, <1>6 DEF IInv

LEMMA PromoteKeeps ==
  ASSUME IInv, TypeOK', NEW d \in Devices, Promote(d)
  PROVE  IInv'
<1>1. /\ LoopFree /\ main' = (main \ DevicesOf(Owner[d])) \cup {d}
      /\ marked' = [marked EXCEPT ![Owner[d]] = d]
      /\ UNCHANGED <<bootstrap, booted, login>>
  BY DEF Promote, requests
<1>2. LoginClears' /\ BootstrapUnused' /\ BootstrapIsOnce'
  BY <1>1 DEF IInv, LoginClears, BootstrapUnused, BootstrapIsOnce, LoopFree
<1>3. OneMain'
  BY <1>1 DEF IInv, TypeOK, OneMain, DevicesOf
<1>4. ASSUME NEW u \in Users, marked'[u] # None PROVE marked'[u] \in main'
  <2>1. CASE u = Owner[d]
    BY <1>1, <2>1 DEF IInv, TypeOK
  <2>2. CASE u # Owner[d]
    BY <1>1, <1>4, <2>2, IdleMarks DEF IInv, TypeOK, DevicesOf
  <2> QED BY <2>1, <2>2
<1> QED
  BY <1>2, <1>3, <1>4 DEF IInv, MainSurvives

LEMMA CrashKeeps ==
  ASSUME IInv, TypeOK', Crash
  PROVE  IInv'
<1>1. /\ bootstrap' = {} /\ login' = NoLogin /\ UNCHANGED <<main, booted>>
      /\ marked' = [u \in Users |-> IF marked[u] = login.dev THEN None ELSE marked[u]]
  BY DEF Crash, rows
<1>2. LoginClears' /\ OneMain' /\ BootstrapUnused' /\ BootstrapIsOnce'
  BY <1>1 DEF IInv, LoginClears, OneMain, BootstrapUnused, BootstrapIsOnce, NoLogin
<1>3. MainSurvives'
  BY <1>1 DEF IInv, MainSurvives
<1> QED
  BY <1>2, <1>3 DEF IInv

-----------------------------------------------------------------------------
LEMMA Step == IInv /\ [Next]_vars => IInv'
<1> SUFFICES ASSUME IInv, [Next]_vars PROVE IInv'
  OBVIOUS
<1>t. TypeOK /\ TypeOK'
  BY TypeStep DEF IInv
<1>u. ASSUME NEW u \in Users, Register(u) \/ BootstrapLapses(u) PROVE IInv'
  <2>1. CASE BootstrapLapses(u)
    BY <1>t, <2>1, QuietShrinks, ShrinksKeeps DEF BootstrapLapses, rows, requests, history
  <2> QED BY <1>t, <1>u, <2>1, RegisterKeeps
<1>d. ASSUME NEW d \in Devices, NEW requested \in BOOLEAN, LoginDelete(d, requested)
      PROVE  IInv'
  BY <1>t, <1>d, LoginDeleteKeeps
<1>m. ASSUME LoginDemote PROVE IInv'
  BY <1>t, <1>m, LoginDemoteKeeps
<1>i. ASSUME NEW s \in Secrets, NEW arrives \in BOOLEAN, LoginInsert(s, arrives)
      PROVE  IInv'
  BY <1>t, <1>i, LoginInsertKeeps
<1>p. ASSUME NEW d \in Devices, Promote(d) PROVE IInv'
  BY <1>t, <1>p, PromoteKeeps
<1>q. ASSUME NEW d \in Devices, Validate(d) \/ Logout(d) \/ IssueTicket(d) \/ CallCaches(d)
      PROVE  IInv'
  <2>1. UNCHANGED <<main, marked, login, booted, bootstrap>>
    BY <1>q DEF Validate, Logout, IssueTicket, CallCaches, rows, requests, history
  <2> QED BY <1>t, <2>1, QuietShrinks, ShrinksKeeps
<1>c. ASSUME NEW d \in Devices, NEW op \in {"token", "reset"}, CallStart(d, op)
      PROVE  IInv'
  <2>1. UNCHANGED <<main, marked, login, booted, bootstrap>>
    BY <1>c DEF CallStart, rows, history
  <2> QED BY <1>t, <2>1, QuietShrinks, ShrinksKeeps
<1>s. ASSUME NEW s \in Secrets,
             \/ CacheLapses(s) \/ TicketLapses(s)
             \/ OpenSocket(s) \/ RegisterSocket(s) \/ CloseSocket(s)
      PROVE  IInv'
  <2>1. UNCHANGED <<main, marked, login, booted, bootstrap>>
    BY <1>s DEF CacheLapses, TicketLapses, OpenSocket, RegisterSocket, CloseSocket,
                rows, requests, history
  <2> QED BY <1>t, <2>1, QuietShrinks, ShrinksKeeps
<1>e. ASSUME NEW d \in Devices, Expire(d) PROVE IInv'
  <2>1. Deleted({d}) /\ UNCHANGED <<login, booted, bootstrap>>
    BY <1>e DEF Expire, requests
  <2> QED BY <1>t, <2>1, DeletedShrinks, ShrinksKeeps
<1>k. ASSUME NEW d \in Devices, NEW t \in Devices, KillStart(d, t) PROVE IInv'
  <2>1. UNCHANGED <<login, booted, bootstrap>>
        /\ (Deleted(RowOf(secret[t])) \/ UNCHANGED <<main, marked>>)
    BY <1>k DEF KillStart, Killed
  <2>2. RowOf(secret[t]) \in SUBSET Devices
    BY DEF RowOf
  <2> QED BY <1>t, <2>1, <2>2, DeletedShrinks, QuietShrinks, ShrinksKeeps
<1>l. ASSUME NEW d \in Devices, KillEnd(d) PROVE IInv'
  <2>1. UNCHANGED <<login, booted, bootstrap>>
        /\ (Deleted(RowOf(kill[d])) \/ UNCHANGED <<main, marked>>)
    BY <1>l DEF KillEnd, Killed
  <2>2. RowOf(kill[d]) \in SUBSET Devices
    BY DEF RowOf
  <2> QED BY <1>t, <2>1, <2>2, DeletedShrinks, QuietShrinks, ShrinksKeeps
<1>n. ASSUME NEW d \in Devices, CallEnds(d) PROVE IInv'
  <2>1. UNCHANGED <<login, booted, bootstrap>>
        /\ (Deleted(DevicesOf(Owner[d])) \/ UNCHANGED <<main, marked>>)
    BY <1>n DEF CallEnds
  <2>2. DevicesOf(Owner[d]) \in SUBSET Devices
    BY DEF DevicesOf
  <2> QED BY <1>t, <2>1, <2>2, DeletedShrinks, QuietShrinks, ShrinksKeeps
<1>g. ASSUME NEW u \in Users, Deregister(u) PROVE IInv'
  <2>1. Deleted(DevicesOf(u)) /\ UNCHANGED <<login, booted, bootstrap>>
    BY <1>g DEF Deregister, requests
  <2>2. DevicesOf(u) \in SUBSET Devices
    BY DEF DevicesOf
  <2> QED BY <1>t, <2>1, <2>2, DeletedShrinks, ShrinksKeeps
<1>x. ASSUME Crash PROVE IInv'
  BY <1>t, <1>x, CrashKeeps
<1>z. ASSUME UNCHANGED vars PROVE IInv'
  <2>1. UNCHANGED <<main, marked, login, booted, bootstrap>>
    BY <1>z DEF vars, rows, requests, history
  <2> QED BY <1>t, <2>1, QuietShrinks, ShrinksKeeps
<1> QED
  BY <1>u, <1>d, <1>m, <1>i, <1>p, <1>q, <1>c, <1>s, <1>e, <1>k, <1>l, <1>n, <1>g, <1>x,
     <1>z DEF Next

LEMMA Start == Init => IInv
  BY DEF Init, IInv, TypeOK, LoginClears, OneMain, BootstrapUnused, BootstrapIsOnce,
         MainSurvives, NoLogin, NoCall, DevicesOf

\* The strengthened invariant holds in every behaviour.
THEOREM Invariance == Spec => []IInv
  BY Start, Step, PTL DEF Spec

\* Every reachable state of the session tables, caches and requests is well formed.
THEOREM TypeCorrect == Spec => []TypeOK
<1>1. IInv => TypeOK
  BY DEF IInv
<1> QED BY <1>1, Invariance, PTL

\* No order of logins, promotions, removals and crashes gives a user two main
\* devices.
THEOREM MainIsUnique == Spec => []OneMain
<1>1. IInv => OneMain
  BY DEF IInv
<1> QED BY <1>1, Invariance, PTL

\* The device made main last keeps its role through logouts and logins.
THEOREM MainIsKept == Spec => []MainSurvives
<1>1. IInv => MainSurvives
  BY DEF IInv
<1> QED BY <1>1, Invariance, PTL

\* A password alone makes a device main at most once per registration.
THEOREM BootstrapOnce == Spec => []BootstrapIsOnce
<1>1. IInv => BootstrapIsOnce
  BY DEF IInv
<1> QED BY <1>1, Invariance, PTL
=============================================================================
