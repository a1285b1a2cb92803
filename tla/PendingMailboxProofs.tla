------------------------- MODULE PendingMailboxProofs -------------------------
(***************************************************************************)
(* Theorems about PendingMailbox for any users, sessions, tokens, number   *)
(* of rows and page size.                                                  *)
(***************************************************************************)
EXTENDS PendingMailbox, FiniteSetTheorems, TLAPS

-----------------------------------------------------------------------------
(* The inductive invariant.  Acknowledgements are sound because a token's   *)
(* rows are known to whoever holds the token and were received by them;     *)
(* order is kept because a leased row was offered and a version 1 snapshot  *)
(* has no hole.                                                             *)

\* Rows are inserted in the order of their ids.
IdsInSequence == \A m \in Ids : status[m] = "unsent" <=> nextId <= m

\* Only rows that were handed out are leased, and only inserted rows are.
LeasedWasOffered ==
  /\ \A m \in Ids : lease[m] # None => m \in offered
  /\ \A m \in offered : m < nextId

\* A client that holds a token got every row the token still leases.
HolderGotLeased ==
  \A s \in Sessions :
    /\ held[s].ids \subseteq received
    /\ \A m \in Ids :
         held[s].token # None /\ lease[m] = held[s].token => m \in held[s].ids

\* The rows an acknowledgement is about to delete reached a client.
AckInFlight ==
  \A s \in Sessions : req[s].op = "ack" => req[s].ids \subseteq received

\* The rows a version 1 fetch is about to delete are its user's, and no older
\* row of that user is missing among them.
SnapshotHasNoHole ==
  \A s \in Sessions : req[s].op = "v1" =>
    /\ req[s].good \subseteq req[s].ids
    /\ \A k \in req[s].ids : to[k] = Owner[s] /\ k < nextId
    /\ \A k \in req[s].ids, m \in Queued :
         m < k /\ to[m] = Owner[s] => m \in req[s].ids

IInv ==
  /\ TypeOK
  /\ IdsInSequence
  /\ LeasedWasOffered
  /\ HolderGotLeased
  /\ AckInFlight
  /\ SnapshotHasNoHole
  /\ AckedWasReceived
  /\ InOrder
-----------------------------------------------------------------------------
(* Type correctness *)

LEMMA DeletedType ==
  ASSUME TypeOK, NEW S, NEW why \in Gone
  PROVE  Deleted(S, why) \in [Ids -> {"unsent", "queued"} \cup Gone]
BY DEF Deleted, TypeOK

LEMMA UnlapsedType ==
  ASSUME TypeOK
  PROVE  Unlapsed \in [Ids -> Tokens \cup {None}]
BY DEF Unlapsed, TypeOK

LEMMA TypeInit == Init => TypeOK
BY BoundsAssumption DEF Init, TypeOK, Ids, Idle, Nothing

LEMMA TypeStep == TypeOK /\ [Next]_vars => TypeOK'
<1> SUFFICES ASSUME TypeOK, [Next]_vars PROVE TypeOK'
  OBVIOUS
<1> USE OwnerAssumption, BoundsAssumption, NoneAssumption
<1>1. ASSUME NEW u \in Users, NEW v \in Users, Queue(u, v) PROVE TypeOK'
  BY <1>1 DEF Queue, TypeOK, leases, Ids
<1>2. ASSUME NEW s \in Sessions, FetchV1Select(s) PROVE TypeOK'
  BY <1>2 DEF FetchV1Select, TypeOK, table, leases, Rows, Queued
<1>3. ASSUME NEW s \in Sessions, NEW arrives \in BOOLEAN, FetchV1Delete(s, arrives)
      PROVE  TypeOK'
  <2>1. req[s].good \subseteq Ids
    BY <1>3 DEF FetchV1Delete, TypeOK, Idle
  <2>2. status' \in [Ids -> {"unsent", "queued"} \cup Gone]
    BY <1>3 DEF FetchV1Delete, TypeOK, Deleted, Gone
  <2> QED
    BY <1>3, <2>1, <2>2 DEF FetchV1Delete, TypeOK, leases
<1>4. ASSUME NEW s \in Sessions, NEW t \in Tokens, NEW arrives \in BOOLEAN,
             FetchV2(s, t, arrives)
      PROVE  TypeOK'
  <2> DEFINE page == Page({m \in Rows(Owner[s]) : Unlapsed[m] = None})
             good == page \ expired
  <2>1. good \subseteq Ids
    BY DEF Page, Rows, Queued
  <2>2. status' \in [Ids -> {"unsent", "queued"} \cup Gone]
    BY <1>4, DeletedType DEF FetchV2, Gone
  <2>3. lease' \in [Ids -> Tokens \cup {None}]
    BY <1>4, UnlapsedType DEF FetchV2
  <2>4. held' \in [Sessions -> [token : Tokens \cup {None}, ids : SUBSET Ids]]
    <3>1. held' \in {held, [held EXCEPT ![s] = [token |-> t, ids |-> good]]}
      BY <1>4 DEF FetchV2
    <3>2. [token |-> t, ids |-> good] \in [token : Tokens \cup {None}, ids : SUBSET Ids]
      BY <2>1
    <3> HIDE DEF good
    <3> QED
      BY <3>1, <3>2 DEF TypeOK
  <2> QED
    BY <1>4, <2>1, <2>2, <2>3, <2>4 DEF FetchV2, TypeOK
<1>5. ASSUME NEW s \in Sessions, NEW named \in SUBSET Ids, AckSelect(s, named)
      PROVE  TypeOK'
  BY <1>5 DEF AckSelect, TypeOK, TokenGiven, LeasedTo, table, leases
<1>6. ASSUME NEW s \in Sessions, AckDelete(s) PROVE TypeOK'
  BY <1>6, DeletedType DEF AckDelete, TypeOK, Gone
<1>7. ASSUME NEW s \in Sessions, Client(s) PROVE TypeOK'
  BY <1>7 DEF Client, ClientRestarts, HandlerDies, TypeOK, Nothing, table, leases
<1>8. CASE Time
  BY <1>8 DEF Time, LeaseLapses, PayloadExpires, TypeOK, table, leases, Queued
<1>9. CASE Maintenance
  <2>1. CASE HealGlobal
    BY <2>1, UnlapsedType DEF HealGlobal, TypeOK, table
  <2>2. ASSUME NEW n \in Ids, Cleanup(n) PROVE TypeOK'
    BY <2>2, DeletedType DEF Cleanup, TypeOK, Gone, leases
  <2>3. ASSUME NEW u \in Users, NEW S, Purged(u, S) PROVE TypeOK'
    BY <2>3, DeletedType DEF Purged, TypeOK, Gone
  <2> QED
    BY <1>9, <2>1, <2>2, <2>3 DEF Maintenance, Deregister, AccountReset
<1>10. CASE UNCHANGED vars
  BY <1>10 DEF vars, TypeOK
<1> QED
  BY <1>1, <1>2, <1>3, <1>4, <1>5, <1>6, <1>7, <1>8, <1>9, <1>10
     DEF Next, Request

\* Every variable keeps its type, for any users, devices, tokens and bounds.
THEOREM TypeCorrect == Spec => []TypeOK
BY TypeInit, TypeStep, PTL DEF Spec
-----------------------------------------------------------------------------
(* Safety *)

\* A page leaves out only rows that are younger than everything in it.
LEMMA PageIsPrefix ==
  ASSUME NEW S \in SUBSET Ids, NEW k \in Page(S), NEW m \in S, m < k
  PROVE  m \in Page(S)
<1> DEFINE Before(n) == {j \in S : j < n}
<1>1. IsFiniteSet(Before(k))
  <2>1. IsFiniteSet(Ids)
    BY FS_Interval, BoundsAssumption DEF Ids
  <2>2. Before(k) \subseteq Ids
    OBVIOUS
  <2> QED
    BY <2>1, <2>2, FS_Subset
<1>2. Before(m) \subseteq Before(k)
  <2>1. k \in Ids /\ m \in Ids /\ S \subseteq Ids
    BY DEF Page
  <2>2. \A j \in S : j \in Int /\ m \in Int /\ k \in Int
    BY <2>1, BoundsAssumption DEF Ids
  <2>3. \A j \in S : j < m => j < k
    BY <2>2
  <2> QED
    BY <2>3
<1>3. Cardinality(Before(m)) <= Cardinality(Before(k))
  BY <1>1, <1>2, FS_Subset
<1>4. Cardinality(Before(m)) \in Nat /\ Cardinality(Before(k)) \in Nat
  BY <1>1, <1>2, FS_Subset, FS_CardinalityType
<1> QED
  BY <1>3, <1>4, BoundsAssumption DEF Page

LEMMA InvInit == Init => IInv
<1> SUFFICES ASSUME Init PROVE IInv
  OBVIOUS
<1>1. TypeOK
  BY TypeInit
<1> QED
  BY <1>1, BoundsAssumption, NoneAssumption
     DEF Init, IInv, IdsInSequence, LeasedWasOffered, HolderGotLeased, AckInFlight,
         SnapshotHasNoHole, AckedWasReceived, InOrder, Ids, Idle, Nothing

LEMMA QueueStep ==
  ASSUME IInv, NEW u \in Users, NEW v \in Users, Queue(u, v)
  PROVE  IInv'
<1> USE DEF IInv, Queue, leases
<1>1. TypeOK'
  BY TypeStep DEF Next
<1>2. IdsInSequence'
  BY BoundsAssumption DEF IdsInSequence, TypeOK, Ids
<1>3. LeasedWasOffered'
  BY BoundsAssumption DEF LeasedWasOffered, TypeOK, Ids
<1>4. HolderGotLeased' /\ AckInFlight'
  BY DEF HolderGotLeased, AckInFlight
<1>5. SnapshotHasNoHole'
  <2> SUFFICES ASSUME NEW s \in Sessions, req[s].op = "v1"
               PROVE  /\ req[s].good \subseteq req[s].ids
                      /\ \A k \in req[s].ids : to'[k] = Owner[s] /\ k < nextId'
                      /\ \A k \in req[s].ids, m \in Queued' :
                           m < k /\ to'[m] = Owner[s] => m \in req[s].ids
    BY DEF SnapshotHasNoHole
  <2>1. \A k \in req[s].ids : k \in Ids /\ k < nextId
    BY DEF SnapshotHasNoHole, TypeOK, Idle
  <2>2. /\ nextId \in Nat /\ nextId' = nextId + 1
        /\ \A k \in Ids : k \in Nat
    BY BoundsAssumption DEF Ids, TypeOK
  <2> HIDE DEF Queue
  <2>3. \A k \in Ids : k # nextId => to'[k] = to[k] /\ status'[k] = status[k]
    BY DEF TypeOK, Queue
  <2>4. \A k \in req[s].ids : to'[k] = Owner[s] /\ k # nextId /\ k < nextId'
    BY <2>1, <2>2, <2>3 DEF SnapshotHasNoHole
  <2>5. ASSUME NEW k \in req[s].ids, NEW m \in Queued', m < k, to'[m] = Owner[s]
        PROVE  m \in req[s].ids
    <3>1. m \in Ids /\ k \in Ids /\ k < nextId
      BY <2>1, <2>5 DEF Queued
    <3>2. m # nextId
      BY <2>2, <2>5, <3>1
    <3> QED
      BY <2>3, <2>5, <3>1, <3>2 DEF SnapshotHasNoHole, Queued
  <2> QED
    BY <2>4, <2>5 DEF SnapshotHasNoHole, Queue
<1>6. AckedWasReceived'
  BY DEF AckedWasReceived, TypeOK
<1>7. InOrder'
  BY BoundsAssumption DEF InOrder, LeasedWasOffered, TypeOK, Ids
<1> QED
  BY <1>1, <1>2, <1>3, <1>4, <1>5, <1>6, <1>7

LEMMA FetchV1SelectStep ==
  ASSUME IInv, NEW s \in Sessions, FetchV1Select(s)
  PROVE  IInv'
<1> USE DEF IInv, FetchV1Select, table, leases
<1>1. TypeOK'
  BY TypeStep DEF Next, Request
<1>2. IdsInSequence' /\ LeasedWasOffered' /\ HolderGotLeased' /\ AckedWasReceived' /\ InOrder'
  BY DEF IdsInSequence, LeasedWasOffered, HolderGotLeased, AckedWasReceived, InOrder
<1>3. AckInFlight'
  BY DEF AckInFlight, TypeOK
<1>4. SnapshotHasNoHole'
  BY BoundsAssumption DEF SnapshotHasNoHole, IdsInSequence, TypeOK, Rows, Queued, Ids
<1> QED
  BY <1>1, <1>2, <1>3, <1>4

LEMMA FetchV1DeleteStep ==
  ASSUME IInv, NEW s \in Sessions, NEW arrives \in BOOLEAN, FetchV1Delete(s, arrives)
  PROVE  IInv'
<1> USE DEF IInv, FetchV1Delete, leases
<1>1. TypeOK'
  BY TypeStep DEF Next, Request
<1>2. /\ req[s].ids \subseteq Ids
      /\ req[s].good \subseteq req[s].ids
  BY DEF SnapshotHasNoHole, TypeOK, Idle
<1>3. \A m \in Ids : status'[m] # status[m] =>
        m \in req[s].ids /\ status[m] = "queued" /\ status'[m] \in {"drained", "stale"}
  BY DEF Deleted, Fetched, Queued
<1>4. \A m \in req[s].ids : status'[m] # "queued"
  BY <1>2 DEF Deleted, Fetched, Queued
<1> HIDE DEF FetchV1Delete
<1>5. IdsInSequence'
  BY <1>3 DEF IdsInSequence, FetchV1Delete
<1>6. LeasedWasOffered'
  BY <1>2 DEF LeasedWasOffered, SnapshotHasNoHole, FetchV1Delete
<1>7. HolderGotLeased' /\ AckInFlight'
  BY DEF HolderGotLeased, AckInFlight, FetchV1Delete, TypeOK, Idle
<1>8. SnapshotHasNoHole'
  BY <1>3 DEF SnapshotHasNoHole, FetchV1Delete, TypeOK, Idle, Queued
<1>9. AckedWasReceived'
  BY <1>3 DEF AckedWasReceived, FetchV1Delete
<1>10. InOrder'
  <2> SUFFICES ASSUME NEW m \in Ids, NEW k \in Ids, m < k, to'[m] = to'[k],
                      k \in offered', status'[m] = "queued"
               PROVE  m \in offered'
    BY DEF InOrder
  <2>1. status[m] = "queued" /\ to[m] = to[k]
    BY <1>3 DEF FetchV1Delete
  <2>2. CASE k \in offered
    BY <2>1, <2>2 DEF InOrder, FetchV1Delete
  <2>3. CASE k \in req[s].good
    BY <1>2, <1>4, <2>1, <2>3 DEF SnapshotHasNoHole, FetchV1Delete, Queued
  <2> QED
    BY <2>2, <2>3 DEF FetchV1Delete
<1> QED
  BY <1>1, <1>5, <1>6, <1>7, <1>8, <1>9, <1>10
LEMMA FetchV2Step ==
  ASSUME IInv, NEW s \in Sessions, NEW t \in Tokens, NEW arrives \in BOOLEAN,
         FetchV2(s, t, arrives)
  PROVE  IInv'
<1> DEFINE free == {m \in Rows(Owner[s]) : Unlapsed[m] = None}
           good == Page(free) \ expired
<1> USE DEF IInv
<1>1. TypeOK'
  BY TypeStep DEF Next, Request
<1>2. /\ free \in SUBSET Ids /\ Page(free) \subseteq free
      /\ \A m \in free : m < nextId /\ to[m] = Owner[s] /\ status[m] = "queued"
  BY BoundsAssumption DEF Page, Rows, Queued, IdsInSequence, TypeOK, Ids
<1>3. /\ \A m \in Ids : status'[m] # status[m] =>
              m \in Page(free) \cap expired /\ status[m] = "queued" /\ status'[m] = "stale"
      /\ \A m \in Page(free) \cap expired : status'[m] # "queued"
  BY <1>2 DEF FetchV2, Deleted, Queued
<1>4. /\ \A m \in Ids : lease'[m] = IF m \in good THEN t ELSE Unlapsed[m]
      /\ \A m \in Ids : Unlapsed[m] \in {lease[m], None}
      /\ offered' = offered \cup good
      /\ \A r \in Sessions : held[r].token # t
      /\ \A r \in Sessions : req[r].op = "ack" => req[r].token # t
      /\ \A m \in Ids : Unlapsed[m] # t
  BY DEF FetchV2, FreshToken, Unlapsed
<1>5. \/ UNCHANGED <<held, received>>
      \/ /\ held' = [held EXCEPT ![s] = [token |-> t, ids |-> good]]
         /\ received' = received \cup good
  BY DEF FetchV2
<1>6. UNCHANGED <<nextId, to, from, expired, req>>
  BY DEF FetchV2
<1> HIDE DEF free, good
<1>7. good \subseteq free
  BY <1>2 DEF good
<1>8. IdsInSequence'
  BY <1>3, <1>6 DEF IdsInSequence
<1>9. LeasedWasOffered'
  BY <1>2, <1>4, <1>6, <1>7 DEF LeasedWasOffered
<1>10. HolderGotLeased'
  <2> SUFFICES ASSUME NEW r \in Sessions
               PROVE  /\ held'[r].ids \subseteq received'
                      /\ \A m \in Ids : held'[r].token # None /\ lease'[m] = held'[r].token
                                          => m \in held'[r].ids
    BY DEF HolderGotLeased
  <2>1. CASE held'[r] = held[r] /\ received \subseteq received'
    BY <1>4, <2>1, NoneAssumption DEF HolderGotLeased
  <2>2. CASE held'[r] = [token |-> t, ids |-> good] /\ received' = received \cup good
    BY <1>4, <2>2
  <2> QED
    BY <1>5, <2>1, <2>2 DEF TypeOK
<1>11. AckInFlight' /\ AckedWasReceived'
  BY <1>3, <1>5, <1>6 DEF AckInFlight, AckedWasReceived
<1>12. SnapshotHasNoHole'
  BY <1>3, <1>6 DEF SnapshotHasNoHole, Queued
<1>13. InOrder'
  <2> SUFFICES ASSUME NEW m \in Ids, NEW k \in Ids, m < k, to[m] = to[k],
                      k \in offered', status'[m] = "queued"
               PROVE  m \in offered'
    BY <1>6 DEF InOrder
  <2>1. status[m] = "queued" /\ m \notin Page(free) \cap expired
    BY <1>3
  <2>2. CASE k \in offered
    BY <1>4, <2>1, <2>2 DEF InOrder
  <2>3. CASE k \in good /\ m \in free
    <3>1. m \in Page(free)
      BY <1>2, <2>3, PageIsPrefix DEF good
    <3> QED
      BY <1>4, <2>1, <3>1 DEF good
  <2>4. CASE k \in good /\ m \notin free
    <3>1. Unlapsed[m] # None
      BY <1>2, <1>7, <2>1, <2>4 DEF free, Rows, Queued
    <3> QED
      BY <1>4, <3>1 DEF LeasedWasOffered
  <2> QED
    BY <1>4, <2>2, <2>3, <2>4
<1> QED
  BY <1>1, <1>8, <1>9, <1>10, <1>11, <1>12, <1>13

LEMMA AckStep ==
  ASSUME IInv, NEW s \in Sessions,
         AckDelete(s) \/ \E named \in SUBSET Ids : AckSelect(s, named)
  PROVE  IInv'
<1> USE DEF IInv
<1>1. TypeOK'
  BY TypeStep DEF Next, Request
<1>2. ASSUME NEW named \in SUBSET Ids, AckSelect(s, named) PROVE IInv'
  <2> USE <1>2 DEF AckSelect, table, leases
  <2>1. /\ IdsInSequence' /\ LeasedWasOffered' /\ HolderGotLeased'
        /\ AckedWasReceived' /\ InOrder'
    BY DEF IdsInSequence, LeasedWasOffered, HolderGotLeased, AckedWasReceived, InOrder
  <2>2. LeasedTo(s) \subseteq received
    BY DEF LeasedTo, HolderGotLeased, TokenGiven
  <2>3. AckInFlight'
    BY <2>2 DEF AckInFlight, TypeOK
  <2>4. SnapshotHasNoHole'
    BY DEF SnapshotHasNoHole, TypeOK, Queued
  <2> QED
    BY <1>1, <2>1, <2>3, <2>4
<1>3. ASSUME AckDelete(s) PROVE IInv'
  <2>1. \A m \in Ids : status'[m] # status[m] =>
          m \in req[s].ids /\ status[m] = "queued" /\ status'[m] = "acked"
    BY <1>3 DEF AckDelete, Deleted, Queued
  <2>2. \A m \in Ids : lease'[m] \in {lease[m], None}
    BY <1>3 DEF AckDelete
  <2>3. /\ UNCHANGED <<nextId, to, held, offered, received>>
        /\ req[s].op = "ack" /\ req' = [req EXCEPT ![s] = Idle]
    BY <1>3 DEF AckDelete
  <2>4. IdsInSequence' /\ LeasedWasOffered' /\ InOrder'
    BY <2>1, <2>2, <2>3 DEF IdsInSequence, LeasedWasOffered, InOrder
  <2>5. HolderGotLeased'
    BY <2>2, <2>3 DEF HolderGotLeased
  <2>6. AckInFlight' /\ AckedWasReceived'
    BY <2>1, <2>3 DEF AckInFlight, AckedWasReceived, TypeOK, Idle
  <2>7. SnapshotHasNoHole'
    BY <2>1, <2>3 DEF SnapshotHasNoHole, TypeOK, Idle, Queued
  <2> QED
    BY <1>1, <2>4, <2>5, <2>6, <2>7
<1> QED
  BY <1>2, <1>3

LEMMA OtherStep ==
  ASSUME IInv, (\E s \in Sessions : Client(s)) \/ Time \/ Maintenance
  PROVE  IInv'
<1> USE DEF IInv
<1> DEFINE OnlyRemoves ==
      /\ \A m \in Ids : status'[m] # status[m] =>
             status[m] = "queued" /\ status'[m] \in {"retired", "purged"}
      /\ \A m \in Ids : lease'[m] \in {lease[m], None}
      /\ \A s \in Sessions : held'[s] \in {held[s], Nothing} /\ req'[s] \in {req[s], Idle}
      /\ UNCHANGED <<nextId, to, offered, received>>
<1>1. TypeOK'
  BY TypeStep DEF Next
<1>2. OnlyRemoves
  <2>1. ASSUME NEW s \in Sessions, Client(s) PROVE OnlyRemoves
    BY <2>1 DEF Client, ClientRestarts, HandlerDies, table, leases, TypeOK
  <2>2. CASE Time
    BY <2>2 DEF Time, LeaseLapses, PayloadExpires, table, leases
  <2>3. CASE HealGlobal
    BY <2>3 DEF HealGlobal, Unlapsed, table
  <2>4. ASSUME NEW n \in Ids, Cleanup(n) PROVE OnlyRemoves
    BY <2>4 DEF Cleanup, Deleted, Queued, leases
  <2>5. ASSUME NEW u \in Users, NEW S, Purged(u, S) PROVE OnlyRemoves
    BY <2>5 DEF Purged, Deleted, Queued
  <2> QED
    BY <2>1, <2>2, <2>3, <2>4, <2>5 DEF Maintenance, Deregister, AccountReset
<1>3. IdsInSequence' /\ LeasedWasOffered' /\ AckedWasReceived' /\ InOrder'
  BY <1>2 DEF IdsInSequence, LeasedWasOffered, AckedWasReceived, InOrder
<1>4. HolderGotLeased' /\ AckInFlight'
  BY <1>2 DEF HolderGotLeased, AckInFlight, Nothing, Idle
<1>5. SnapshotHasNoHole'
  BY <1>2 DEF SnapshotHasNoHole, Queued, Idle
<1> QED
  BY <1>1, <1>3, <1>4, <1>5

LEMMA InvStep == IInv /\ [Next]_vars => IInv'
<1> SUFFICES ASSUME IInv, [Next]_vars PROVE IInv'
  OBVIOUS
<1>1. CASE UNCHANGED vars
  BY <1>1 DEF vars, IInv, TypeOK, IdsInSequence, LeasedWasOffered, HolderGotLeased,
              AckInFlight, SnapshotHasNoHole, AckedWasReceived, InOrder, Queued
<1>2. CASE Next
  BY <1>2, QueueStep, FetchV1SelectStep, FetchV1DeleteStep, FetchV2Step, AckStep, OtherStep
     DEF Next, Request
<1> QED
  BY <1>1, <1>2

THEOREM Invariance == Spec => []IInv
BY InvInit, InvStep, PTL DEF Spec

\* An acknowledgement deletes only messages a client received, for any number of
\* users, devices, tokens and rows and any page size.
THEOREM AckIsSafe == Spec => []AckedWasReceived
<1>1. IInv => AckedWasReceived
  BY DEF IInv
<1> QED
  BY <1>1, Invariance, PTL

\* No message overtakes an older one of the same receiver that still waits.
THEOREM OrderIsKept == Spec => []InOrder
<1>1. IInv => InOrder
  BY DEF IInv
<1> QED
  BY <1>1, Invariance, PTL
-----------------------------------------------------------------------------
(* A running lease is never taken over. *)

LEMMA LeaseStep ==
  ASSUME TypeOK, [Next]_vars, NEW m \in Ids, lease'[m] \notin {None, lease[m]}
  PROVE  lease[m] \notin live
<1>1. ASSUME NEW s \in Sessions, Request(s) PROVE lease[m] \notin live
  <2>1. ASSUME NEW t \in Tokens, NEW arrives \in BOOLEAN, FetchV2(s, t, arrives)
        PROVE  lease[m] \notin live
    <3>1. CASE Unlapsed[m] = None
      BY <3>1, NoneAssumption DEF Unlapsed, TypeOK
    <3>2. CASE Unlapsed[m] # None
      <4>1. lease'[m] = Unlapsed[m]
        BY <2>1, <3>2 DEF FetchV2, Page
      <4> QED
        BY <4>1 DEF Unlapsed
    <3> QED
      BY <3>1, <3>2
  <2> QED
    BY <1>1, <2>1
       DEF Request, FetchV1Select, FetchV1Delete, AckSelect, AckDelete, leases
<1>2. CASE Time \/ \E s \in Sessions : Client(s)
  BY <1>2 DEF Time, LeaseLapses, PayloadExpires, Client, ClientRestarts, HandlerDies, leases
<1>3. CASE Maintenance
  BY <1>3 DEF Maintenance, HealGlobal, Unlapsed, Cleanup, Deregister, AccountReset,
              Purged, leases
<1> QED
  BY <1>1, <1>2, <1>3 DEF Next, Queue, leases, vars

\* A version 2 fetch leases a row again only when its last lease has lapsed.
THEOREM LeaseIsExclusive == Spec => NoDoubleLease
<1>1. TypeOK /\ [Next]_vars =>
        [\A m \in Ids : lease'[m] \notin {None, lease[m]} => lease[m] \notin live]_vars
  BY LeaseStep
<1> QED
  BY <1>1, TypeCorrect, PTL DEF Spec, NoDoubleLease

-----------------------------------------------------------------------------
(* PendingMailbox implements Mailbox. *)

LEMMA AbsRows ==
  ASSUME TypeOK
  PROVE  /\ Promise!Waiting = Queued
         /\ \A m \in Ids : AbsState[m] = "unsent" <=> status[m] = "unsent"
BY DEF TypeOK, Gone, Promise!Waiting, Promise!Ids, Ids, AbsState, Queued

\* Deleting queued rows for one reason is one abstract move.
LEMMA AbsDeleted ==
  ASSUME TypeOK, NEW S, NEW why \in Gone, status' = Deleted(S, why)
  PROVE  AbsState' = Promise!Moved(S \cap Queued,
                       IF why \in {"drained", "acked"} THEN "settled" ELSE "discarded")
BY DEF TypeOK, Gone, Promise!Moved, Promise!Ids, Ids, AbsState, Queued, Deleted

LEMMA FetchV1Abs ==
  ASSUME IInv, NEW s \in Sessions, NEW arrives \in BOOLEAN, FetchV1Delete(s, arrives)
  PROVE  Promise!Next
<1> DEFINE good == req[s].good
           unread == req[s].ids \ good
<1>1. /\ req[s].op = "v1" /\ good \subseteq req[s].ids /\ req[s].ids \subseteq Ids
      /\ \A k \in req[s].ids : to[k] = Owner[s] /\ k < nextId
      /\ \A k \in req[s].ids, m \in Queued : m < k /\ to[m] = Owner[s] => m \in req[s].ids
  BY DEF IInv, TypeOK, Idle, SnapshotHasNoHole, FetchV1Delete
<1>2. /\ Promise!Waiting = Queued
      /\ \A m \in Ids : AbsState[m] = "unsent" <=> status[m] = "unsent"
  BY AbsRows DEF IInv
<1>3. AbsState' = [m \in Ids |-> IF m \in good \cap Queued THEN "settled"
                                 ELSE IF m \in unread \cap Queued THEN "discarded"
                                 ELSE AbsState[m]]
  BY <1>1 DEF FetchV1Delete, AbsState, Deleted, Fetched, Queued, IInv, TypeOK, Gone
<1>4. \A m \in good : AbsState[m] # "unsent"
  BY <1>1, <1>2, BoundsAssumption DEF IInv, IdsInSequence, TypeOK, Ids
<1>5. Promise!NextInLine(good, unread \cap Queued)
  BY <1>1, <1>2 DEF Promise!NextInLine
<1>6. offered' = offered \cup good /\ to' = to
  BY DEF FetchV1Delete
<1>7. Promise!Respond(good, good \cap Queued, unread \cap Queued)
  BY <1>2, <1>3, <1>4, <1>5, <1>6 DEF Promise!Respond, Promise!Ids, Ids
<1>8. /\ good \in SUBSET Promise!Ids
      /\ good \cap Queued \in SUBSET Promise!Ids
      /\ unread \cap Queued \in SUBSET Promise!Ids
  BY <1>1 DEF Promise!Ids, Ids, Queued
<1> QED
  BY <1>7, <1>8 DEF Promise!Next

LEMMA FetchV2Abs ==
  ASSUME IInv, NEW s \in Sessions, NEW t \in Tokens, NEW arrives \in BOOLEAN,
         FetchV2(s, t, arrives)
  PROVE  Promise!Next
<1> DEFINE free == {m \in Rows(Owner[s]) : Unlapsed[m] = None}
           page == Page(free)
           good == page \ expired
           old == page \cap expired
<1>1. free \in SUBSET Ids /\ page \subseteq free /\ free \subseteq Queued
  BY DEF Page, Rows, Queued
<1>2. status' = Deleted(old, "stale") /\ offered' = offered \cup good /\ to' = to
  BY DEF FetchV2
<1>3. /\ Promise!Waiting = Queued
      /\ \A m \in Ids : AbsState[m] = "unsent" <=> status[m] = "unsent"
  BY AbsRows DEF IInv
<1>4. \A m \in good, k \in Queued \ old : k < m /\ to[k] = to[m] => k \in offered \cup good
  <2> SUFFICES ASSUME NEW m \in good, NEW k \in Queued \ old, k < m, to[k] = to[m]
               PROVE  k \in offered \cup good
    OBVIOUS
  <2>1. CASE k \in free
    BY <1>1, <2>1, PageIsPrefix
  <2>2. CASE k \notin free
    <3>1. k \in Ids /\ Unlapsed[k] # None
      BY <1>1, <2>2 DEF Rows, Queued
    <3> QED
      BY <3>1 DEF Unlapsed, IInv, LeasedWasOffered
  <2> QED
    BY <2>1, <2>2
<1> HIDE DEF free, page
<1>5. AbsState' = Promise!Moved(old \cap Queued, "discarded")
  BY <1>2, AbsDeleted DEF IInv, Gone
<1>6. old \cap Queued = old /\ old \subseteq Queued \ good /\ good \subseteq Queued
  BY <1>1
<1>7. Promise!Respond(good, {}, old)
  <2>1. \A m \in good : AbsState[m] # "unsent"
    BY <1>1, <1>3 DEF Queued
  <2>2. AbsState' = [m \in Ids |-> IF m \in {} THEN "settled"
                                   ELSE IF m \in old THEN "discarded" ELSE AbsState[m]]
    BY <1>5, <1>6 DEF Promise!Moved, Promise!Ids, Ids
  <2>3. Promise!NextInLine(good, old)
    BY <1>3, <1>4 DEF Promise!NextInLine
  <2> HIDE DEF good, old
  <2> QED
    BY <1>2, <1>3, <1>6, <2>1, <2>2, <2>3 DEF Promise!Respond, Promise!Ids, Ids
<1>8. good \in SUBSET Promise!Ids /\ {} \in SUBSET Promise!Ids /\ old \in SUBSET Promise!Ids
  BY <1>1 DEF Promise!Ids, Ids
<1> QED
  BY <1>7, <1>8 DEF Promise!Next

LEMMA AbsInit == Init => Promise!Init
BY DEF Init, Promise!Init, Promise!Ids, Ids, AbsState

LEMMA AbsStep == IInv /\ [Next]_vars => [Promise!Next]_(Promise!vars)
<1> SUFFICES ASSUME IInv, [Next]_vars
             PROVE  Promise!Next \/ UNCHANGED Promise!vars
  OBVIOUS
<1> USE DEF IInv
<1>1. ASSUME NEW u \in Users, NEW v \in Users, Queue(u, v) PROVE Promise!Next
  <2>1. nextId \in Ids /\ \A k \in Ids : k < nextId => AbsState[k] # "unsent"
    BY <1>1, AbsRows, BoundsAssumption DEF Queue, IdsInSequence, TypeOK, Ids
  <2>2. AbsState[nextId] = "unsent"
    BY <1>1, AbsRows, BoundsAssumption DEF Queue, IdsInSequence, TypeOK, Ids
  <2>3. AbsState' = [AbsState EXCEPT ![nextId] = "waiting"]
    BY <1>1 DEF Queue, AbsState, TypeOK, Gone
  <2>4. Promise!Send(nextId, u)
    BY <1>1, <2>1, <2>2, <2>3 DEF Queue, Promise!Send, Promise!Ids, Ids
  <2> QED
    BY <2>1, <2>4 DEF Promise!Next, Promise!Ids, Ids
<1>2. ASSUME NEW S, NEW why \in Gone, status' = Deleted(S, why), UNCHANGED <<to, offered>>,
             why \in {"drained", "acked"} => S \cap Queued \subseteq offered
      PROVE  Promise!Next
  <2>1. S \cap Queued \in SUBSET Promise!Ids /\ S \cap Queued \subseteq Promise!Waiting
    BY AbsRows DEF Queued, Promise!Ids, Ids
  <2>2. \/ AbsState' = Promise!Moved(S \cap Queued, "settled")
              /\ S \cap Queued \subseteq offered
        \/ AbsState' = Promise!Moved(S \cap Queued, "discarded")
    BY <1>2, AbsDeleted
  <2> QED
    BY <1>2, <2>1, <2>2 DEF Promise!Next, Promise!Settle, Promise!Discard
<1>3. ASSUME NEW s \in Sessions, AckDelete(s) PROVE Promise!Next
  <2> DEFINE S == {m \in req[s].ids : to[m] = Owner[s]}
  <2>1. S \subseteq offered
    BY <1>3 DEF AckDelete, AckInFlight, TypeOK
  <2>2. status' = Deleted(S, "acked") /\ UNCHANGED <<to, offered>>
    BY <1>3 DEF AckDelete
  <2> QED
    BY <1>2, <2>1, <2>2 DEF Gone
<1>4. ASSUME NEW n \in Ids, Cleanup(n) PROVE Promise!Next
  BY <1>2, <1>4 DEF Cleanup, Gone
<1>5. ASSUME NEW u \in Users, NEW S, Purged(u, S) PROVE Promise!Next
  BY <1>2, <1>5 DEF Purged, Gone
<1>6. CASE UNCHANGED <<status, to, offered>>
  BY <1>6 DEF Promise!vars, AbsState
<1>7. ASSUME NEW s \in Sessions,
             FetchV1Select(s) \/ Client(s) \/ \E named \in SUBSET Ids : AckSelect(s, named)
      PROVE  UNCHANGED <<status, to, offered>>
  BY <1>7 DEF FetchV1Select, Client, ClientRestarts, HandlerDies, AckSelect, table
<1>8. CASE Time \/ HealGlobal
  BY <1>8, <1>6 DEF Time, LeaseLapses, PayloadExpires, HealGlobal, table
<1> QED
  BY <1>1, <1>3, <1>4, <1>5, <1>6, <1>7, <1>8, FetchV1Abs, FetchV2Abs
     DEF Next, Request, Maintenance, Deregister, AccountReset, vars

\* The mailbox with its leases, two fetch endpoints, maintenance and crashes
\* delivers at least once and in order.
THEOREM Implements == Spec => AtLeastOnce
BY AbsInit, AbsStep, Invariance, PTL DEF Spec, AtLeastOnce, Promise!Spec
=============================================================================
