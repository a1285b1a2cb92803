-------------------------- MODULE AccountDataProofs --------------------------
(***************************************************************************)
(* What is proved of the data of an account, for every value of the        *)
(* constants: of lifecycle events, device envelopes, donations, presence   *)
(* and wakes here, of the guards of requests in GuardsProofs; and that the *)
(* composition keeps all of it.                                            *)
(*                                                                         *)
(* Lifecycle events.  A lifecycle event has one mailbox row at most, and   *)
(* its row stays until the event has reached the recipient, has expired or *)
(* was purged.  EventIsHeld needs to know of every event in the events     *)
(* table, pledged or not, that it is settled or has its row (Kept), and    *)
(* that the three deletions of rows only take rows of settled events: a    *)
(* sweep takes those of expired events (RowIsNamedOnce), an                *)
(* acknowledgement is on the way only of an event that has arrived         *)
(* (OnTheWay), and what a device has fetched it has read (Fetched).        *)
(*                                                                         *)
(* Device envelopes.  What was accepted is in the table because the five   *)
(* deletions take other rows or withdraw it: a sweep the expired ones, an  *)
(* acknowledgement those its own device has got (OwedRightly).  That an    *)
(* envelope which is opened settles the row that is owed, and no other     *)
(* with its id, is the table's UNIQUE constraint, kept by Submit (OneEach).*)
(*                                                                         *)
(* Donations.  Rows are appended, so the first donation of a donor does    *)
(* not change within a month, nor who comes before.                        *)
(*                                                                         *)
(* Presence and wakes.  For every number of server processes, sessions and *)
(* messages a routed message is kept, no session is left asleep, and a     *)
(* wake that is asked for is queued or posted; Outreach implements module  *)
(* Handover.                                                               *)
(***************************************************************************)
EXTENDS AccountData, GuardsProofs

(* Lifecycle events *)

\* Row ids grow, so that a new row is none of those fetched before.
RowsAreOlder ==
  /\ \A r \in mailbox \cup fetched : r.id < nextRow
  /\ \A e \in Events : entry[e] \in RowIds => entry[e] < nextRow

\* No two events name the same row.
RowIsNamedOnce ==
  \A e, x \in Events : entry[e] \in RowIds /\ entry[e] = entry[x] => e = x

Kept ==
  /\ pledged \cap settled = {} /\ old \subseteq settled
  /\ \A e \in pledged : Known(e)
  /\ \A e \in Events : Known(e) => e \in settled \/ \E r \in mailbox : r.ev = e

\* What is being sent or acknowledged is known and has not expired.
OnTheWay ==
  /\ sender.pc # "idle" => sender.ev \in Events
  /\ sender.pc = "sending" => sender.now \in Sockets
  /\ sender.ev \in Events => Known(sender.ev) /\ sender.ev \notin old
  /\ \A f \in replies \cup awaited : Known(f[1]) /\ f[1] \notin old
  /\ \A f \in replies : f[1] \in settled

Fetched == \A r \in mailbox \cap fetched : r.ev \in settled

LifecycleInv ==
  /\ LifecycleTypeOK /\ StoredOnce /\ RowsAreOlder /\ RowIsNamedOnce
  /\ Kept /\ OnTheWay /\ Fetched

-----------------------------------------------------------------------------
(* Lemmas about the rows *)

LEMMA IdsAreRows ==
  /\ NULL \notin RowIds /\ Absent \notin RowIds /\ NULL # Absent
  /\ NULL \notin Events /\ NULL \notin Sockets
BY RowsAssumption DEF RowIds

LEMMA RowTypes ==
  ASSUME LifecycleTypeOK, NEW r \in mailbox \cup fetched
  PROVE  r.id \in RowIds /\ r.ev \in Events
BY DEF LifecycleTypeOK

\* A sweep takes the rows of expired events and no others.
LEMMA SweptRows ==
  ASSUME LifecycleTypeOK, StoredOnce, RowIsNamedOnce, NEW r \in mailbox
  PROVE  r \in RowsOf(old) <=> r.ev \in old
BY RowTypes, IdsAreRows DEF LifecycleTypeOK, StoredOnce, RowIsNamedOnce, RowsOf

-----------------------------------------------------------------------------
(* The sender *)

LEMMA PersistKeeps ==
  ASSUME LifecycleInv, NEW e \in Events, Persist(e)
  PROVE  LifecycleInv'
<1> USE DEF LifecycleInv
<1> DEFINE kept == mailbox \ RowsOf(old)
           row == [id |-> nextRow, ev |-> e]
           new == IsNew(e)
<1>1. /\ new \in BOOLEAN /\ (new <=> (entry[e] = Absent \/ e \in old))
      /\ new => nextRow \in RowIds
  BY DEF IsNew, Known, Persist
<1>2. /\ entry' = [x \in Events |-> IF x = e /\ new THEN nextRow
                                    ELSE IF x \in old THEN Absent ELSE entry[x]]
      /\ mailbox' = IF new THEN kept \cup {row} ELSE kept
      /\ nextRow' = IF new THEN nextRow + 1 ELSE nextRow
      /\ old' = {}
      /\ settled' = IF new THEN settled \ {e} ELSE settled
      /\ sender.pc = "idle"
  BY DEF Persist
<1>3. sender' = [pc |-> "tell", ev |-> e, new |-> new, todo |-> {}, now |-> NULL]
  BY DEF Persist, Resting
<1>4. UNCHANGED <<online, replies, awaited, fetched, pledged>>
  BY DEF Persist, live
<1>5. row.id = nextRow /\ row.ev = e /\ (new => row \in [id : RowIds, ev : Events])
  BY <1>1
<1> HIDE DEF new, row
<1>6. \A r \in mailbox : r \in kept <=> r.ev \notin old
  BY SweptRows
<1>7. kept \subseteq mailbox
  OBVIOUS
<1> HIDE DEF kept
<1>8. \A r \in kept : new => r.ev # e
  BY <1>1, <1>6, <1>7, RowTypes, IdsAreRows DEF StoredOnce
<1>9. nextRow \in Nat /\ (new => nextRow + 1 \in 1 .. MaxRows + 1)
  BY <1>1, RowsAssumption DEF LifecycleTypeOK, RowIds
<1>10. LifecycleTypeOK'
  <2>1. entry' \in [Events -> RowIds \cup {NULL, Absent}]
    BY <1>1, <1>2 DEF LifecycleTypeOK
  <2>2. mailbox' \subseteq [id : RowIds, ev : Events]
    BY <1>2, <1>5, <1>7 DEF LifecycleTypeOK
  <2>3. nextRow' \in 1 .. MaxRows + 1
    BY <1>2, <1>9 DEF LifecycleTypeOK
  <2>4. sender' \in [pc : {"idle", "tell", "send", "sending"}, ev : Events \cup {NULL},
                     new : BOOLEAN, todo : SUBSET Sockets, now : Sockets \cup {NULL}]
    BY <1>1, <1>3
  <2> QED BY <1>2, <1>4, <2>1, <2>2, <2>3, <2>4 DEF LifecycleTypeOK
<1>11. StoredOnce'
  BY <1>2, <1>5, <1>6, <1>7, <1>8, RowTypes DEF StoredOnce
<1>12. RowsAreOlder'
  <2>1. \A r \in mailbox \cup fetched : r.id \in RowIds /\ r.id < nextRow
    BY RowTypes DEF RowsAreOlder
  <2>2. RowIds \subseteq Nat
    BY RowsAssumption DEF RowIds
  <2>3. /\ \A i \in RowIds : i < nextRow => i < nextRow'
        /\ new => nextRow < nextRow'
    BY <1>2, <1>9, <2>2
  <2>4. \A r \in mailbox' \cup fetched' : r \in mailbox \cup fetched \/ (new /\ r = row)
    BY <1>2, <1>4, <1>7
  <2>5. \A r \in mailbox' \cup fetched' : r.id < nextRow'
    BY <1>5, <2>1, <2>3, <2>4
  <2>6. \A x \in Events : entry'[x] \in RowIds => entry'[x] < nextRow'
    <3>1. \A x \in Events : entry'[x] \in {entry[x], Absent} \/ (new /\ entry'[x] = nextRow)
      BY <1>2
    <3> QED BY <2>3, <3>1, IdsAreRows DEF RowsAreOlder
  <2> QED BY <2>5, <2>6 DEF RowsAreOlder
<1>13. RowIsNamedOnce'
  <2>1. \A x \in Events : entry[x] \in RowIds => entry[x] # nextRow
    BY RowsAssumption DEF RowsAreOlder, LifecycleTypeOK, RowIds
  <2>2. ASSUME NEW x \in Events, NEW y \in Events, entry'[x] \in RowIds, entry'[x] = entry'[y]
        PROVE  x = y
    BY <1>1, <1>2, <2>1, <2>2, IdsAreRows DEF RowIsNamedOnce
  <2> QED BY <2>2 DEF RowIsNamedOnce
<1>14. Kept'
  <2>1. \A x \in Events : Known(x)' <=> (x = e /\ new) \/ (Known(x) /\ x \notin old)
    BY <1>1, <1>2, IdsAreRows DEF Known
  <2>2. ASSUME NEW x \in Events, Known(x)'
        PROVE  x \in settled' \/ \E r \in mailbox' : r.ev = x
    <3>1. CASE x = e /\ new
      BY <1>2, <1>5, <3>1
    <3>2. CASE ~ (x = e /\ new) /\ Known(x) /\ x \notin old
      BY <1>2, <1>6, <1>7, <3>2 DEF Kept
    <3> QED BY <2>1, <2>2, <3>1, <3>2
  <2>3. \A x \in pledged : Known(x)'
    BY <2>1 DEF Kept, LifecycleTypeOK
  <2> QED BY <1>2, <1>4, <2>2, <2>3 DEF Kept
<1>15. OnTheWay'
  <2>1. \A x \in Events : Known(x) /\ x \notin old => Known(x)'
    BY <1>1, <1>2, IdsAreRows DEF Known
  <2>2. Known(e)'
    BY <1>1, <1>2, IdsAreRows DEF Known
  <2>3. \A f \in replies \cup awaited : f[1] \in Events
    BY DEF LifecycleTypeOK
  <2>4. \A f \in replies : f[1] \in settled'
    BY <1>1, <1>2, <2>3 DEF OnTheWay, Known
  <2> QED BY <1>2, <1>3, <1>4, <2>1, <2>2, <2>3, <2>4 DEF OnTheWay
<1>16. Fetched'
  <2>1. \A r \in fetched : r.id # row.id
    BY <1>5, <1>9, RowsAssumption DEF RowsAreOlder, LifecycleTypeOK, RowIds
  <2> QED BY <1>2, <1>4, <1>5, <1>7, <1>8, <2>1 DEF Fetched
<1> QED BY <1>10, <1>11, <1>12, <1>13, <1>14, <1>15, <1>16

LEMMA TellKeeps ==
  ASSUME LifecycleInv, Tell
  PROVE  LifecycleInv'
<1> USE DEF LifecycleInv
<1>1. UNCHANGED <<entry, nextRow, mailbox, old, online, replies, awaited, fetched, settled>>
  BY DEF Tell, rows, live
<1>2. sender.ev \in Events /\ Known(sender.ev)
  BY DEF Tell, OnTheWay
<1>3. \/ sender' = [sender EXCEPT !.pc = "send", !.todo = online]
      \/ sender' = Resting
  BY DEF Tell
<1>4. /\ sender' \in [pc : {"idle", "tell", "send", "sending"}, ev : Events \cup {NULL},
                     new : BOOLEAN, todo : SUBSET Sockets, now : Sockets \cup {NULL}]
      /\ sender'.pc # "idle" => sender'.ev = sender.ev /\ sender'.pc = "send"
      /\ sender'.ev \in {sender.ev, NULL}
  <2>1. CASE sender' = Resting
    BY <2>1, IdsAreRows DEF Resting
  <2>2. CASE sender' = [sender EXCEPT !.pc = "send", !.todo = online]
    BY <2>2 DEF LifecycleTypeOK
  <2> QED BY <1>3, <2>1, <2>2
<1>5. pledged' \subseteq pledged \cup ({sender.ev} \ settled)
  BY DEF Tell
<1>6. LifecycleTypeOK'
  BY <1>1, <1>2, <1>4, <1>5 DEF LifecycleTypeOK
<1>7. Kept'
  BY <1>1, <1>2, <1>5 DEF Kept, Known
<1>8. OnTheWay'
  BY <1>1, <1>2, <1>4, IdsAreRows DEF OnTheWay, Known
<1> QED BY <1>1, <1>6, <1>7, <1>8 DEF StoredOnce, RowsAreOlder, RowIsNamedOnce, Fetched

\* The other steps of the sender write no row and pledge nothing: what is left
\* to show of them.
LEMMA RowsStay ==
  ASSUME LifecycleInv, UNCHANGED <<rows, fetched>>,
         pledged' \subseteq pledged, settled \subseteq settled',
         pledged' \cap settled' = {}
  PROVE  (StoredOnce /\ RowsAreOlder /\ RowIsNamedOnce /\ Kept /\ Fetched)'
BY DEF LifecycleInv, rows, StoredOnce, RowsAreOlder, RowIsNamedOnce, Kept, Known, Fetched

LEMMA SendLiveKeeps ==
  ASSUME LifecycleInv, SendLive
  PROVE  LifecycleInv'
<1> USE DEF LifecycleInv
<1>1. PICK d \in sender.todo :
        /\ sender.pc = "send"
        /\ \/ /\ d \in online
              /\ sender' = [sender EXCEPT !.pc = "sending", !.now = d]
              /\ \/ replies' = replies \cup {<<sender.ev, d>>} /\ Settles({sender.ev})
                 \/ UNCHANGED <<replies, seen>>
              /\ UNCHANGED online
           \/ /\ online' = online \ {d}
              /\ sender' = [sender EXCEPT !.todo = sender.todo \ {d}]
              /\ UNCHANGED <<replies, seen>>
        /\ UNCHANGED <<rows, awaited, fetched>>
  BY DEF SendLive
<1>2. sender.ev \in Events /\ Known(sender.ev) /\ sender.ev \notin old /\ d \in Sockets
  BY <1>1 DEF OnTheWay, LifecycleTypeOK
<1>3. UNCHANGED <<entry, nextRow, mailbox, old, awaited, fetched>>
  BY <1>1 DEF rows
<1>4. /\ sender' \in [pc : {"idle", "tell", "send", "sending"}, ev : Events \cup {NULL},
                     new : BOOLEAN, todo : SUBSET Sockets, now : Sockets \cup {NULL}]
      /\ sender'.ev = sender.ev
      /\ sender'.pc = "sending" => sender'.now \in Sockets
  <2>1. CASE sender' = [sender EXCEPT !.pc = "sending", !.now = d]
    BY <1>2, <2>1 DEF LifecycleTypeOK
  <2>2. CASE sender' = [sender EXCEPT !.todo = sender.todo \ {d}]
    BY <1>1, <2>2 DEF LifecycleTypeOK
  <2> QED BY <1>1, <2>1, <2>2
<1>5. /\ pledged' \subseteq pledged /\ settled \subseteq settled' /\ settled' \subseteq Events
      /\ pledged' \cap settled' = {}
      /\ replies' \subseteq replies \cup {<<sender.ev, d>>}
      /\ \A f \in replies' : f \in replies \/ (f[1] = sender.ev /\ sender.ev \in settled')
  BY <1>1, <1>2 DEF Settles, seen, Kept, LifecycleTypeOK
<1>6. LifecycleTypeOK'
  BY <1>1, <1>2, <1>3, <1>4, <1>5 DEF LifecycleTypeOK
<1>7. OnTheWay'
  BY <1>2, <1>3, <1>4, <1>5 DEF OnTheWay, Known
<1> QED BY <1>1, <1>5, <1>6, <1>7, RowsStay

LEMMA SentLiveKeeps ==
  ASSUME LifecycleInv, SentLive
  PROVE  LifecycleInv'
<1> USE DEF LifecycleInv
<1>1. /\ sender.pc = "sending"
      /\ awaited' = awaited \cup {<<sender.ev, sender.now>>}
      /\ sender' = [sender EXCEPT !.pc = "send", !.todo = sender.todo \ {sender.now}, !.now = NULL]
      /\ UNCHANGED <<entry, nextRow, mailbox, old, online, replies, fetched, pledged, settled>>
  BY DEF SentLive, rows, seen
<1>2. sender.ev \in Events /\ Known(sender.ev) /\ sender.ev \notin old /\ sender.now \in Sockets
  BY <1>1 DEF OnTheWay
<1>3. /\ sender' \in [pc : {"idle", "tell", "send", "sending"}, ev : Events \cup {NULL},
                     new : BOOLEAN, todo : SUBSET Sockets, now : Sockets \cup {NULL}]
      /\ sender'.ev = sender.ev /\ sender'.pc = "send"
  BY <1>1 DEF LifecycleTypeOK
<1>4. LifecycleTypeOK'
  BY <1>1, <1>2, <1>3 DEF LifecycleTypeOK
<1>5. OnTheWay'
  BY <1>1, <1>2, <1>3 DEF OnTheWay, Known
<1> QED BY <1>1, <1>4, <1>5, RowsStay DEF Kept, rows

\* Routing ends, or the process does.
LEMMA RestKeeps ==
  ASSUME LifecycleInv, Routed \/ LifecycleCrash
  PROVE  LifecycleInv'
<1> USE DEF LifecycleInv
<1>1. /\ sender' = Resting /\ online' \subseteq online
      /\ replies' \subseteq replies /\ awaited' \subseteq awaited
      /\ UNCHANGED <<entry, nextRow, mailbox, old, fetched, pledged, settled>>
  BY DEF Routed, LifecycleCrash, rows, live, seen
<1>2. LifecycleTypeOK'
  BY <1>1 DEF LifecycleTypeOK, Resting
<1>3. OnTheWay'
  BY <1>1, IdsAreRows DEF OnTheWay, Known, Resting
<1> QED BY <1>1, <1>2, <1>3, RowsStay DEF Kept, rows

-----------------------------------------------------------------------------
(* The recipient *)

LEMMA SocketsKeep ==
  ASSUME LifecycleInv, NEW d \in Sockets, SocketOpens(d) \/ SocketCloses(d)
  PROVE  LifecycleInv'
<1> USE DEF LifecycleInv
<1>1. /\ online' \subseteq Sockets /\ replies' \subseteq replies
      /\ UNCHANGED <<entry, nextRow, mailbox, old, sender, awaited, fetched, pledged, settled>>
  BY DEF SocketOpens, SocketCloses, rows, seen, LifecycleTypeOK
<1>2. LifecycleTypeOK'
  BY <1>1 DEF LifecycleTypeOK
<1>3. OnTheWay'
  BY <1>1 DEF OnTheWay, Known
<1> QED BY <1>1, <1>2, <1>3, RowsStay DEF Kept, rows

LEMMA AckTimesOutKeeps ==
  ASSUME LifecycleInv, NEW f \in Events \X Sockets, AckTimesOut(f)
  PROVE  LifecycleInv'
<1> USE DEF LifecycleInv
<1>1. /\ awaited' \subseteq awaited
      /\ UNCHANGED <<entry, nextRow, mailbox, old, sender, online, replies, fetched, pledged, settled>>
  BY DEF AckTimesOut, rows, seen
<1>2. LifecycleTypeOK'
  BY <1>1 DEF LifecycleTypeOK
<1>3. OnTheWay'
  BY <1>1 DEF OnTheWay, Known
<1> QED BY <1>1, <1>2, <1>3, RowsStay DEF Kept, rows

\* Only an event that has arrived is acknowledged, and only its row goes.
LEMMA ConsumeAckKeeps ==
  ASSUME LifecycleInv, NEW f \in Events \X Sockets, ConsumeAck(f)
  PROVE  LifecycleInv'
<1> USE DEF LifecycleInv
<1>1. /\ f \in replies /\ replies' \subseteq replies /\ awaited' \subseteq awaited
      /\ UNCHANGED <<nextRow, old, sender, online, fetched, pledged, settled>>
  BY DEF ConsumeAck, seen
<1> DEFINE e == f[1]
<1>2. e \in Events /\ e \in settled
  BY <1>1 DEF OnTheWay
<1>3. CASE mailbox' = mailbox \ AckedRow(e) /\ entry' = [entry EXCEPT ![e] = NULL] /\ Known(e)
  <2> HIDE DEF e
  <2>1. /\ entry' \in [Events -> RowIds \cup {NULL, Absent}] /\ mailbox' \subseteq mailbox
        /\ entry'[e] = NULL /\ \A x \in Events : x # e => entry'[x] = entry[x]
    BY <1>2, <1>3 DEF LifecycleTypeOK
  <2>2. \A x \in Events : Known(x)' <=> Known(x)
    BY <1>2, <1>3, <2>1, IdsAreRows DEF Known
  <2>3. \A r \in mailbox : r \in mailbox' <=> r.ev # e
    BY <1>2, <1>3, RowTypes DEF AckedRow, StoredOnce, RowIsNamedOnce
  <2>4. LifecycleTypeOK'
    BY <1>1, <2>1 DEF LifecycleTypeOK
  <2>5. (StoredOnce /\ RowsAreOlder /\ RowIsNamedOnce)'
    BY <1>1, <1>2, <2>1, <2>3, RowTypes, IdsAreRows DEF StoredOnce, RowsAreOlder, RowIsNamedOnce
  <2>6. Kept'
    BY <1>1, <1>2, <2>1, <2>2, <2>3 DEF Kept, LifecycleTypeOK
  <2>7. OnTheWay'
    BY <1>1, <2>2 DEF OnTheWay, LifecycleTypeOK
  <2>8. Fetched'
    BY <1>1, <2>1 DEF Fetched
  <2> QED BY <2>4, <2>5, <2>6, <2>7, <2>8
<1>4. CASE UNCHANGED <<mailbox, entry>>
  <2>1. LifecycleTypeOK'
    BY <1>1, <1>4 DEF LifecycleTypeOK
  <2>2. OnTheWay'
    BY <1>1, <1>4 DEF OnTheWay, Known
  <2> QED BY <1>1, <1>4, <2>1, <2>2, RowsStay DEF Kept, rows
<1> QED BY <1>3, <1>4 DEF ConsumeAck

LEMMA FetchKeeps ==
  ASSUME LifecycleInv, Fetch
  PROVE  LifecycleInv'
<1> USE DEF LifecycleInv
<1>1. UNCHANGED <<entry, nextRow, mailbox, old, sender, online, replies, awaited>>
  BY DEF Fetch, rows, live
<1>2. CASE fetched' = mailbox /\ Settles({r.ev : r \in mailbox})
  <2>1. \A r \in mailbox : r.ev \in settled'
    BY <1>2 DEF Settles
  <2>2. /\ pledged' \subseteq pledged /\ settled \subseteq settled' /\ settled' \subseteq Events
        /\ pledged' \cap settled' = {}
    BY <1>2, RowTypes DEF Settles, Kept, LifecycleTypeOK
  <2>3. LifecycleTypeOK'
    BY <1>1, <1>2, <2>2 DEF LifecycleTypeOK
  <2>4. Kept'
    BY <1>1, <2>2 DEF Kept, Known
  <2>5. OnTheWay'
    BY <1>1, <2>2 DEF OnTheWay, Known
  <2> QED BY <1>1, <1>2, <2>1, <2>3, <2>4, <2>5 DEF StoredOnce, RowsAreOlder, RowIsNamedOnce, Fetched
<1>3. CASE UNCHANGED <<fetched, seen>>
  BY <1>1, <1>3 DEF seen, LifecycleTypeOK, StoredOnce, RowsAreOlder, RowIsNamedOnce, Kept,
                    OnTheWay, Fetched, Known
<1> QED BY <1>2, <1>3 DEF Fetch

\* Rows R of settled events go.
LEMMA DeletionKeeps ==
  ASSUME LifecycleInv, NEW R \in SUBSET mailbox, mailbox' = mailbox \ R,
         UNCHANGED <<entry, nextRow, old>>,
         fetched' \subseteq fetched,
         pledged' \subseteq pledged, settled \subseteq settled', pledged' \cap settled' = {},
         \A r \in R : r.ev \in settled'
  PROVE  (StoredOnce /\ RowsAreOlder /\ RowIsNamedOnce /\ Kept /\ Fetched)'
<1> USE DEF LifecycleInv
<1>1. (StoredOnce /\ RowsAreOlder /\ RowIsNamedOnce /\ Fetched)'
  BY DEF StoredOnce, RowsAreOlder, RowIsNamedOnce, Fetched
<1>2. \A r \in mailbox : r \in mailbox' \/ r.ev \in settled'
  OBVIOUS
<1>3. Kept'
  BY <1>2 DEF Kept, Known
<1> QED BY <1>1, <1>3

LEMMA AckFetchedKeeps ==
  ASSUME LifecycleInv, AckFetched
  PROVE  LifecycleInv'
<1> USE DEF LifecycleInv
<1>1. /\ mailbox' = mailbox \ fetched /\ fetched' = {}
      /\ UNCHANGED <<entry, nextRow, old, sender, online, replies, awaited, pledged, settled>>
  BY DEF AckFetched, live, seen
<1>2. LifecycleTypeOK'
  BY <1>1 DEF LifecycleTypeOK
<1>3. OnTheWay'
  BY <1>1 DEF OnTheWay, Known
<1>4. /\ mailbox' = mailbox \ (mailbox \cap fetched)
      /\ \A r \in mailbox \cap fetched : r.ev \in settled'
  BY <1>1 DEF Fetched
<1> QED BY <1>1, <1>2, <1>3, <1>4, DeletionKeeps DEF Kept

LEMMA PurgeMailboxKeeps ==
  ASSUME LifecycleInv, PurgeMailbox
  PROVE  LifecycleInv'
<1> USE DEF LifecycleInv
<1>1. /\ mailbox' = mailbox \ mailbox
      /\ pledged' = pledged \ {r.ev : r \in mailbox}
      /\ settled' = settled \cup {r.ev : r \in mailbox}
      /\ UNCHANGED <<entry, nextRow, old, sender, online, replies, awaited, fetched>>
  BY DEF PurgeMailbox, live, Settles
<1>2. /\ pledged' \subseteq pledged /\ settled \subseteq settled' /\ settled' \subseteq Events
      /\ pledged' \cap settled' = {} /\ \A r \in mailbox : r.ev \in settled'
  BY <1>1, RowTypes DEF Kept, LifecycleTypeOK
<1>3. LifecycleTypeOK'
  BY <1>1, <1>2 DEF LifecycleTypeOK
<1>4. OnTheWay'
  BY <1>1, <1>2 DEF OnTheWay, Known
<1> QED BY <1>1, <1>2, <1>3, <1>4, DeletionKeeps

-----------------------------------------------------------------------------
(* Time *)

LEMMA EventExpiresKeeps ==
  ASSUME LifecycleInv, NEW e \in Events, EventExpires(e)
  PROVE  LifecycleInv'
<1> USE DEF LifecycleInv
<1>1. /\ Known(e) /\ sender.ev # e /\ \A f \in replies \cup awaited : f[1] # e
      /\ old' = old \cup {e}
      /\ pledged' = pledged \ {e} /\ settled' = settled \cup {e}
      /\ UNCHANGED <<entry, nextRow, mailbox, sender, online, replies, awaited, fetched>>
  BY DEF EventExpires, live, Settles
<1>2. LifecycleTypeOK'
  BY <1>1 DEF LifecycleTypeOK
<1>3. (StoredOnce /\ RowsAreOlder /\ RowIsNamedOnce /\ Fetched)'
  BY <1>1 DEF StoredOnce, RowsAreOlder, RowIsNamedOnce, Fetched
<1>4. Kept'
  BY <1>1 DEF Kept, Known
<1>5. OnTheWay'
  BY <1>1 DEF OnTheWay, Known
<1> QED BY <1>2, <1>3, <1>4, <1>5

\* The sweep takes the rows of expired events, and their entries with them.
LEMMA CleanupEventsKeeps ==
  ASSUME LifecycleInv, CleanupEvents
  PROVE  LifecycleInv'
<1> USE DEF LifecycleInv
<1>1. /\ mailbox' = mailbox \ RowsOf(old)
      /\ entry' = [x \in Events |-> IF x \in old THEN Absent ELSE entry[x]]
      /\ old' = {}
      /\ UNCHANGED <<nextRow, sender, online, replies, awaited, fetched, pledged, settled>>
  BY DEF CleanupEvents, Swept, live, seen
<1>2. \A r \in mailbox : r \in mailbox' <=> r.ev \notin old
  BY <1>1, SweptRows
<1>3. mailbox' \subseteq mailbox
  BY <1>1
<1>4. \A x \in Events : Known(x)' <=> (Known(x) /\ x \notin old)
  BY <1>1 DEF Known
<1>5. LifecycleTypeOK'
  BY <1>1, <1>3 DEF LifecycleTypeOK
<1>6. (StoredOnce /\ RowsAreOlder /\ RowIsNamedOnce /\ Fetched)'
  BY <1>1, <1>2, <1>3, RowTypes, IdsAreRows DEF StoredOnce, RowsAreOlder, RowIsNamedOnce, Fetched
<1>7. Kept'
  BY <1>1, <1>2, <1>3, <1>4 DEF Kept, LifecycleTypeOK
<1>8. OnTheWay'
  BY <1>1, <1>4 DEF OnTheWay, LifecycleTypeOK
<1> QED BY <1>5, <1>6, <1>7, <1>8

-----------------------------------------------------------------------------
(* The specification *)

LEMMA LifecycleStarts == LifecycleInit => LifecycleInv
BY IdsAreRows, RowsAssumption
   DEF LifecycleInit, LifecycleInv, LifecycleTypeOK, StoredOnce, RowsAreOlder, RowIsNamedOnce,
       Kept, OnTheWay, Fetched, Known, Resting

LEMMA LifecycleStep ==
  ASSUME LifecycleInv, [LifecycleNext \/ PurgeMailbox \/ LifecycleCrash]_lifecycle
  PROVE  LifecycleInv'
<1>1. CASE \E e \in Events : Persist(e) \/ EventExpires(e)
  BY <1>1, PersistKeeps, EventExpiresKeeps
<1>2. CASE Tell \/ SendLive \/ SentLive \/ Routed
  BY <1>2, TellKeeps, SendLiveKeeps, SentLiveKeeps, RestKeeps
<1>3. CASE \E d \in Sockets : SocketOpens(d) \/ SocketCloses(d)
  BY <1>3, SocketsKeep
<1>4. CASE \E f \in Events \X Sockets : ConsumeAck(f) \/ AckTimesOut(f)
  BY <1>4, ConsumeAckKeeps, AckTimesOutKeeps
<1>5. CASE Fetch \/ AckFetched \/ CleanupEvents \/ PurgeMailbox \/ LifecycleCrash
  BY <1>5, FetchKeeps, AckFetchedKeeps, CleanupEventsKeeps, PurgeMailboxKeeps, RestKeeps
<1>6. CASE UNCHANGED lifecycle
  BY <1>6 DEF lifecycle, rows, live, seen, LifecycleInv, LifecycleTypeOK, StoredOnce,
              RowsAreOlder, RowIsNamedOnce, Kept, OnTheWay, Fetched, Known
<1> QED BY <1>1, <1>2, <1>3, <1>4, <1>5, <1>6 DEF LifecycleNext

LEMMA LifecycleInvariant == LifecycleSpec => []LifecycleInv
<1>1. LifecycleInv /\ [LifecycleNext \/ PurgeMailbox \/ LifecycleCrash]_lifecycle => LifecycleInv'
  BY LifecycleStep
<1> QED BY <1>1, LifecycleStarts, PTL DEF LifecycleSpec

\* Every variable of the model of lifecycle events keeps its type.
THEOREM LifecycleTypeCorrect == LifecycleSpec => []LifecycleTypeOK
<1>1. LifecycleInv => LifecycleTypeOK
  BY DEF LifecycleInv
<1> QED BY <1>1, LifecycleInvariant, PTL

\* The mailbox has one row of an event at most, that of its entry, however
\* often the event is resent (_persist_attachment_lifecycle_message), and an
\* event whose sender was told that it is persisted stays there until it has
\* arrived, has expired or is purged with an account.
THEOREM EventsAreHeldOnce == LifecycleSpec => []EventIsHeldOnce
<1>1. LifecycleInv => StoredOnce
  BY DEF LifecycleInv
<1>2. LifecycleInv => EventIsHeld
  BY DEF LifecycleInv, Kept, EventIsHeld, LifecycleTypeOK
<1>3. LifecycleInv => EventIsHeldOnce
  BY <1>1, <1>2 DEF EventIsHeldOnce
<1> QED BY <1>3, LifecycleInvariant, PTL

-----------------------------------------------------------------------------
(* Device envelopes *)

EnvelopeRow == [source : Devices, target : Devices, id : Envelopes, key : Keys]

\* attachment_device_envelopes is UNIQUE(target_device_id, envelope_id).
OneEach == \A r, x \in RowSet : r.target = x.target /\ r.id = x.id => r = x

\* What is owed is in the table in its time, and its target has not got it.
OwedRightly ==
  /\ owed \subseteq RowSet /\ owed \cap lapsed = {}
  /\ \A r \in owed : r.id \notin opening[r.target]

SyncInv ==
  /\ profile \in [Devices -> Keys \cup {NoKey, NoSession}]
  /\ queue \in Seq(EnvelopeRow)
  /\ lapsed \subseteq RowSet
  /\ opening \in [Devices -> SUBSET Envelopes]
  /\ killing \in [Devices -> {"no", "yes", "late"}]
  /\ OneEach
  /\ OwedRightly

\* A deletion takes the rows it names from the table, and no other.
LEMMA DropRows ==
  ASSUME NEW T, NEW q \in Seq(T), NEW S
  PROVE  /\ Drop(q, S) \in Seq(T)
         /\ {Drop(q, S)[n] : n \in DOMAIN Drop(q, S)} = {q[n] : n \in DOMAIN q} \ S
<1> DEFINE K == {n \in DOMAIN q : q[n] \notin S}
           p == Pick(q, K)
<1>1. K \in SUBSET DOMAIN q /\ \A n \in DOMAIN q : n \in K <=> q[n] \notin S
  OBVIOUS
<1>2. Drop(q, S) = p
  BY DEF Drop
<1> HIDE DEF K
<1>3. /\ p \in Seq(T) /\ \A m \in DOMAIN p : From(K, m) \in K /\ p[m] = q[From(K, m)]
      /\ \A n \in K : \E m \in DOMAIN p : From(K, m) = n
  BY <1>1, Picked
<1> HIDE DEF p
<1>4. {p[n] : n \in DOMAIN p} = {q[n] : n \in DOMAIN q} \ S
  <2>1. ASSUME NEW m \in DOMAIN p
        PROVE  p[m] \in {q[n] : n \in DOMAIN q} \ S
    BY <1>1, <1>3
  <2>2. ASSUME NEW n \in DOMAIN q, q[n] \notin S
        PROVE  \E m \in DOMAIN p : p[m] = q[n]
    BY <1>1, <1>3, <2>2
  <2> QED BY <2>1, <2>2
<1> QED BY <1>2, <1>3, <1>4

LEMMA RowsAre ==
  ASSUME SyncInv
  PROVE  RowSet \subseteq EnvelopeRow
BY LenProperties DEF SyncInv, RowSet

LEMMA DeletedRows ==
  ASSUME SyncInv, NEW S, queue' = Drop(queue, S)
  PROVE  queue' \in Seq(EnvelopeRow) /\ RowSet' = RowSet \ S /\ OneEach'
<1>1. queue' \in Seq(EnvelopeRow) /\ RowSet' = RowSet \ S
  BY DropRows DEF SyncInv, RowSet
<1> QED BY <1>1 DEF SyncInv, OneEach

LEMMA FreshRowsAre ==
  ASSUME SyncInv
  PROVE  Fresh \in Seq(EnvelopeRow) /\ {Fresh[n] : n \in DOMAIN Fresh} = FreshRows
<1>1. queue \in Seq(EnvelopeRow)
  BY DEF SyncInv
<1>2. /\ Drop(queue, lapsed) \in Seq(EnvelopeRow)
      /\ {Drop(queue, lapsed)[n] : n \in DOMAIN Drop(queue, lapsed)}
           = {queue[n] : n \in DOMAIN queue} \ lapsed
  BY <1>1, DropRows
<1> QED BY <1>2, Zenon DEF RowSet, Fresh, FreshRows

LEMMA UpdateProfileKeeps ==
  ASSUME SyncInv, NEW d \in Devices, NEW k \in Keys, UpdateProfile(d, k)
  PROVE  SyncInv'
<1>1. RowSet' = RowSet /\ RowSet \subseteq EnvelopeRow
  BY RowsAre DEF UpdateProfile, RowSet
<1>2. OneEach'
  BY <1>1 DEF SyncInv, OneEach
<1>3. OwedRightly'
  BY <1>1 DEF UpdateProfile, SyncInv, OwedRightly, EnvelopeRow
<1> QED BY <1>1, <1>2, <1>3 DEF UpdateProfile, SyncInv

\* The rows of a device go, and what was owed of them.
LEMMA WithdrawalKeeps ==
  ASSUME SyncInv, NEW d \in Devices, Deleted(Touching(d)), owed' = Withdrawn(d),
         profile' \in [Devices -> Keys \cup {NoKey, NoSession}],
         opening' \in {opening, [opening EXCEPT ![d] = {}]},
         killing' \in [Devices -> {"no", "yes", "late"}]
  PROVE  SyncInv'
<1>1. /\ queue' \in Seq(EnvelopeRow) /\ RowSet' = RowSet \ Touching(d) /\ OneEach'
      /\ lapsed' = lapsed \ Touching(d) /\ RowSet \subseteq EnvelopeRow
  BY DeletedRows, RowsAre DEF Deleted
<1>2. owed' \subseteq owed /\ owed' \cap Touching(d) = {}
  BY DEF Withdrawn, Touching
<1>3. opening' \in [Devices -> SUBSET Envelopes] /\ \A x \in Devices : opening'[x] \subseteq opening[x]
  BY DEF SyncInv
<1>4. \A r \in owed : r.target \in Devices
  BY <1>1 DEF SyncInv, OwedRightly, EnvelopeRow
<1>5. OwedRightly'
  BY <1>1, <1>2, <1>3, <1>4 DEF SyncInv, OwedRightly
<1> QED BY <1>1, <1>3, <1>5 DEF SyncInv

\* What the device can open of the rows, which are its own, is no longer owed.
LEMMA OpensKeeps ==
  ASSUME SyncInv, NEW d \in Devices, NEW rs, NEW table, table \subseteq EnvelopeRow,
         \A r, x \in table : r.target = x.target /\ r.id = x.id => r = x,
         rs \subseteq table, \A r \in rs : r.target = d,
         owed \subseteq table, Opens(d, rs), owed' = owed \ ByKey(d, rs)
  PROVE  /\ opening' \in [Devices -> SUBSET Envelopes]
         /\ \A r \in owed' : r.id \notin opening'[r.target]
<1>1. /\ opening' = [opening EXCEPT ![d] = opening[d] \cup {r.id : r \in ByKey(d, rs)}]
      /\ ByKey(d, rs) \subseteq rs
  BY DEF Opens, ByKey
<1>2. {r.id : r \in ByKey(d, rs)} \subseteq Envelopes
  BY <1>1 DEF EnvelopeRow
<1>3. opening' \in [Devices -> SUBSET Envelopes]
  BY <1>1, <1>2 DEF SyncInv
<1>4. ASSUME NEW r \in owed', r.id \in opening'[r.target]
      PROVE  FALSE
  <2>1. /\ r \in owed /\ r \in table /\ r \notin ByKey(d, rs) /\ r.target \in Devices
        /\ r.id \notin opening[r.target]
    BY DEF EnvelopeRow, SyncInv, OwedRightly
  <2>2. r.target = d
    BY <1>1, <1>4, <2>1 DEF SyncInv
  <2>3. PICK x \in ByKey(d, rs) : x.id = r.id
    BY <1>1, <1>4, <2>1, <2>2 DEF SyncInv
  <2>4. x \in table /\ x.target = d
    BY <1>1
  <2> QED BY <2>1, <2>2, <2>3, <2>4
<1> QED BY <1>3, <1>4

LEMMA SubmitKeeps ==
  ASSUME SyncInv, NEW s \in Devices, NEW d \in Devices, NEW i \in Envelopes, Submit(s, d, i)
  PROVE  SyncInv'
<1> DEFINE had == {r \in FreshRows : Matches(r, d, i)}
           row == Row(s, d, i, profile[d])
           kept == IF had = {} THEN {row} ELSE had
           unopened == {r \in ByKey(d, kept) : i \notin opening[d]}
<1>1. row \in EnvelopeRow /\ row.target = d /\ row.id = i
  BY DEF Submit, HasProfile, Row, EnvelopeRow
<1>2. /\ Fresh \in Seq(EnvelopeRow) /\ {Fresh[n] : n \in DOMAIN Fresh} = FreshRows
      /\ FreshRows = RowSet \ lapsed /\ RowSet \subseteq EnvelopeRow
  BY FreshRowsAre, RowsAre DEF FreshRows
<1>3. /\ queue' = IF had = {} THEN Append(Fresh, row) ELSE Fresh
      /\ lapsed' = {} /\ UNCHANGED <<profile, killing>>
  BY DEF Submit
<1>4. \/ Opens(d, kept) /\ owed' = owed \ unopened
      \/ UNCHANGED opening /\ owed' = owed \cup unopened
  BY DEF Submit
<1>5. kept \subseteq EnvelopeRow /\ \A r \in kept : r.target = d /\ r.id = i
  BY <1>1, <1>2 DEF Matches
<1>6. had # {} => kept = had
  OBVIOUS
<1>7. had = {} => kept = {row}
  OBVIOUS
<1>8. \A r \in FreshRows : r.target = d /\ r.id = i => r \in had
  BY DEF Matches
<1>9. had \subseteq FreshRows
  OBVIOUS
<1>10. /\ unopened \subseteq kept /\ (i \notin opening[d] => unopened = ByKey(d, kept))
       /\ unopened # {} => i \notin opening[d]
  BY DEF ByKey
<1> HIDE DEF had, row, kept, unopened
<1>11. queue' \in Seq(EnvelopeRow) /\ RowSet' = FreshRows \cup kept
  <2>1. CASE had # {}
    BY <1>2, <1>3, <1>6, <1>9, <2>1 DEF RowSet
  <2>2. CASE had = {}
    <3>1. /\ queue' = Append(Fresh, row) /\ queue' \in Seq(EnvelopeRow)
          /\ Len(Fresh) \in Nat /\ DOMAIN Fresh = 1 .. Len(Fresh)
          /\ DOMAIN queue' = 1 .. Len(Fresh) + 1
          /\ \A n \in DOMAIN Fresh : queue'[n] = Fresh[n]
          /\ queue'[Len(Fresh) + 1] = row
      BY <1>1, <1>2, <1>3, <2>2, AppendProperties, LenProperties
    <3>2. DOMAIN queue' = DOMAIN Fresh \cup {Len(Fresh) + 1}
      BY <3>1
    <3>3. RowSet' = {Fresh[n] : n \in DOMAIN Fresh} \cup {row}
      BY <3>1, <3>2 DEF RowSet
    <3> QED BY <1>2, <1>7, <2>2, <3>1, <3>3
  <2> QED BY <2>1, <2>2
<1>12. OneEach'
  <2> SUFFICES ASSUME NEW r \in RowSet', NEW x \in RowSet', r.target = x.target, r.id = x.id
               PROVE  r = x
    BY DEF OneEach
  <2>1. r \in FreshRows /\ x \in FreshRows => r = x
    BY <1>2 DEF SyncInv, OneEach
  <2>2. CASE had # {}
    BY <1>6, <1>9, <1>11, <2>1, <2>2
  <2>3. CASE had = {}
    BY <1>5, <1>7, <1>8, <1>11, <2>1, <2>3
  <2> QED BY <2>2, <2>3
<1>13. owed \subseteq RowSet' /\ \A r \in owed : r \in FreshRows /\ r.target \in Devices
  BY <1>2, <1>11 DEF SyncInv, OwedRightly, EnvelopeRow
<1>14. owed' \subseteq RowSet'
  BY <1>4, <1>10, <1>11, <1>13
<1>15. RowSet' \subseteq EnvelopeRow /\ kept \subseteq RowSet'
  BY <1>2, <1>5, <1>11
<1>16. opening' \in [Devices -> SUBSET Envelopes] /\ \A r \in owed' : r.id \notin opening'[r.target]
  <2>1. CASE Opens(d, kept) /\ owed' = owed \ unopened /\ i \notin opening[d]
    <3>1. owed' = owed \ ByKey(d, kept)
      BY <1>10, <2>1
    <3> QED BY <1>5, <1>12, <1>13, <1>15, <2>1, <3>1, OpensKeeps DEF OneEach
  <2>2. CASE Opens(d, kept) /\ owed' = owed \ unopened /\ i \in opening[d]
    <3>1. \A r \in ByKey(d, kept) : r.id = i
      BY <1>5 DEF ByKey
    <3>2. opening' = opening
      BY <2>2, <3>1 DEF Opens, SyncInv
    <3> QED BY <2>2, <3>2 DEF SyncInv, OwedRightly
  <2>3. CASE UNCHANGED opening /\ owed' = owed \cup unopened
    BY <1>5, <1>10, <2>3 DEF SyncInv, OwedRightly
  <2> QED BY <1>4, <2>1, <2>2, <2>3
<1> QED BY <1>3, <1>11, <1>12, <1>14, <1>16 DEF SyncInv, OwedRightly

LEMMA PendingKeeps ==
  ASSUME SyncInv, NEW d \in Devices, Pending(d)
  PROVE  SyncInv'
<1>1. queue' \in Seq(EnvelopeRow) /\ RowSet' = RowSet \ lapsed /\ OneEach'
  BY DeletedRows DEF Pending, Fresh
<1>2. /\ RowSet' \subseteq EnvelopeRow /\ owed \subseteq RowSet' /\ lapsed' = {}
      /\ UNCHANGED <<profile, killing>>
  BY <1>1, RowsAre DEF Pending, SyncInv, OwedRightly
<1>3. FirstPage(d) \subseteq RowSet' /\ \A r \in FirstPage(d) : r.target = d /\ r.key = profile[d]
  BY <1>1 DEF FirstPage, Readable, FreshRows
<1>4. ByKey(d, FirstPage(d)) = FirstPage(d)
  BY <1>3 DEF ByKey
<1>5. /\ opening' \in [Devices -> SUBSET Envelopes]
      /\ owed' \subseteq owed /\ \A r \in owed' : r.id \notin opening'[r.target]
  <2>1. CASE Opens(d, FirstPage(d)) /\ owed' = owed \ FirstPage(d)
    BY <1>1, <1>2, <1>3, <1>4, <2>1, OpensKeeps DEF OneEach
  <2>2. CASE UNCHANGED <<opening, owed>>
    BY <2>2 DEF SyncInv, OwedRightly
  <2> QED BY <2>1, <2>2 DEF Pending
<1> QED BY <1>1, <1>2, <1>5 DEF SyncInv, OwedRightly

\* An acknowledgement names envelopes of its own device, which has got them.
LEMMA EnvelopeAckKeeps ==
  ASSUME SyncInv, NEW d \in Devices, Ack(d)
  PROVE  SyncInv'
<1>1. /\ queue' \in Seq(EnvelopeRow) /\ RowSet' = RowSet \ AckedRows(d) /\ OneEach'
      /\ lapsed' = lapsed \ AckedRows(d)
  BY DeletedRows DEF Ack, Deleted
<1>2. owed \cap AckedRows(d) = {}
  BY DEF AckedRows, SyncInv, OwedRightly
<1>3. /\ opening' \in [Devices -> SUBSET Envelopes] /\ \A x \in Devices : opening'[x] \subseteq opening[x]
      /\ owed' = owed /\ UNCHANGED <<profile, killing>>
  BY DEF Ack, SyncInv
<1>4. \A r \in owed : r.target \in Devices
  BY RowsAre DEF SyncInv, OwedRightly, EnvelopeRow
<1>5. OwedRightly'
  BY <1>1, <1>2, <1>3, <1>4 DEF SyncInv, OwedRightly
<1> QED BY <1>1, <1>3, <1>5 DEF SyncInv

LEMMA SyncStill ==
  ASSUME SyncInv, UNCHANGED <<profile, queue, opening>>,
         killing' \in [Devices -> {"no", "yes", "late"}], lapsed' \subseteq RowSet,
         owed' \subseteq owed, owed' \cap lapsed' = {}
  PROVE  SyncInv'
<1>1. RowSet' = RowSet
  BY DEF RowSet
<1> QED BY <1>1 DEF SyncInv, OneEach, OwedRightly

LEMMA PurgeDevicesKeeps ==
  ASSUME SyncInv, PurgeDevices
  PROVE  SyncInv'
<1>1. queue' \in Seq(EnvelopeRow) /\ RowSet' = {}
  BY DEF PurgeDevices, RowSet
<1> QED BY <1>1 DEF PurgeDevices, SyncInv, OneEach, OwedRightly

LEMMA SyncStep ==
  ASSUME SyncInv, [SyncNext \/ PurgeDevices \/ SyncCrash]_sync
  PROVE  SyncInv'
<1>1. ASSUME NEW d \in Devices, NEW k \in Keys, UpdateProfile(d, k)
      PROVE  SyncInv'
  BY <1>1, UpdateProfileKeeps
<1>2. ASSUME NEW d \in Devices, Pending(d) \/ Ack(d)
      PROVE  SyncInv'
  BY <1>2, PendingKeeps, EnvelopeAckKeeps
<1>3. ASSUME NEW s \in Devices, NEW d \in Devices, NEW i \in Envelopes, Submit(s, d, i)
      PROVE  SyncInv'
  BY <1>3, SubmitKeeps
<1>4. ASSUME NEW r \in RowSet \ lapsed, EnvelopeLapses(r)
      PROVE  SyncInv'
  <2>1. lapsed' \subseteq RowSet /\ owed' \subseteq owed /\ owed' \cap lapsed' = {}
    BY <1>4 DEF EnvelopeLapses, SyncInv, OwedRightly
  <2> QED BY <1>4, <2>1, SyncStill DEF EnvelopeLapses, SyncInv
<1>5. ASSUME NEW d \in Devices, Login(d)
      PROVE  SyncInv'
  <2>1. /\ profile' \in [Devices -> Keys \cup {NoKey, NoSession}]
        /\ killing' \in [Devices -> {"no", "yes", "late"}]
    BY <1>5 DEF Login, SyncInv
  <2> QED BY <1>5, <2>1, WithdrawalKeeps DEF Login
<1>6. ASSUME NEW d \in Devices, KillBegins(d)
      PROVE  SyncInv'
  <2>1. killing' \in [Devices -> {"no", "yes", "late"}]
    BY <1>6 DEF KillBegins, SyncInv
  <2> QED BY <1>6, <2>1, SyncStill DEF KillBegins, SyncInv, OwedRightly
<1>7. ASSUME NEW d \in Devices, KillEnds(d)
      PROVE  SyncInv'
  <2>1. killing' \in [Devices -> {"no", "yes", "late"}]
    BY <1>7 DEF KillEnds, SyncInv
  <2>2. CASE UNCHANGED <<profile, queue, lapsed, opening, owed>>
    BY <2>1, <2>2, SyncStill DEF SyncInv, OwedRightly
  <2>3. CASE Deleted(Touching(d)) /\ owed' = Withdrawn(d)
             /\ profile' \in {profile, [profile EXCEPT ![d] = NoSession]}
             /\ opening' \in {opening, [opening EXCEPT ![d] = {}]}
    <3>1. profile' \in [Devices -> Keys \cup {NoKey, NoSession}]
      BY <2>3 DEF SyncInv
    <3> QED BY <2>1, <2>3, <3>1, WithdrawalKeeps
  <2> QED BY <1>7, <2>2, <2>3 DEF KillEnds
<1>8. CASE PurgeDevices
  BY <1>8, PurgeDevicesKeeps
<1>9. CASE SyncCrash
  BY <1>9, SyncStill DEF SyncCrash, SyncInv, OwedRightly
<1>10. CASE UNCHANGED sync
  BY <1>10, SyncStill DEF sync, SyncInv, OwedRightly
<1> QED BY <1>1, <1>2, <1>3, <1>4, <1>5, <1>6, <1>7, <1>8, <1>9, <1>10 DEF SyncNext, EnvelopeNext

LEMMA SyncInvariant == SyncSpec => []SyncInv
<1>1. SyncInit => SyncInv
  <2> SUFFICES ASSUME SyncInit PROVE SyncInv
    OBVIOUS
  <2>1. queue \in Seq(EnvelopeRow) /\ RowSet = {}
    BY DEF SyncInit, RowSet
  <2> QED BY <2>1 DEF SyncInit, SyncInv, OneEach, OwedRightly
<1>2. SyncInv /\ [SyncNext \/ PurgeDevices \/ SyncCrash]_sync => SyncInv'
  BY SyncStep
<1> QED BY <1>1, <1>2, PTL DEF SyncSpec

\* What is in the envelope table and in the history of it.
THEOREM SyncTypeCorrect == SyncSpec => []SyncTypeOK
<1>1. SyncInv => SyncTypeOK
  BY RowsAre DEF SyncInv, SyncTypeOK, OwedRightly, EnvelopeRow
<1> QED BY <1>1, SyncInvariant, PTL

\* An accepted envelope stays in the table until its target has it, while nobody
\* withdraws it (submit_attachment_device_sync and its pending and ack).
THEOREM EnvelopesAreKept == SyncSpec => []EnvelopeIsKept
<1>1. SyncInv => EnvelopeIsKept
  BY DEF SyncInv, OwedRightly, EnvelopeIsKept
<1> QED BY <1>1, SyncInvariant, PTL

-----------------------------------------------------------------------------
(* Donations *)

DonationRow == [user : Donors, purchase : Purchases, month : 1 .. Months]

\* The row n is the first of its user in this month.
IsFirst(n) ==
  \A k \in ThisMonth : donations[k].user = donations[n].user => n <= k

\* Rows are appended, none of a month to come; that every donor of the month has a
\* first donation is stated, for it would need an induction otherwise.
MoneyInv ==
  /\ donations \in Seq(DonationRow)
  /\ month \in 1 .. Months
  /\ stripe \in Seq(Intents)
  /\ due \subseteq Intents
  /\ PurchaseCountsOnce
  /\ \A n \in DOMAIN donations : donations[n].month <= month
  /\ \A u \in DonorsOf(ThisMonth) : \E n \in ThisMonth : donations[n].user = u /\ IsFirst(n)

LEMMA FirstExists ==
  ASSUME MoneyInv, NEW u \in DonorsOf(ThisMonth)
  PROVE  /\ FirstOf(u) \in ThisMonth /\ donations[FirstOf(u)].user = u
         /\ \A k \in ThisMonth : donations[k].user = u => FirstOf(u) <= k
<1>1. \E n \in ThisMonth : donations[n].user = u /\ \A k \in ThisMonth : donations[k].user = u => n <= k
  BY DEF MoneyInv, IsFirst
<1> QED BY <1>1 DEF FirstOf

LEMMA FirstIsUnique ==
  ASSUME MoneyInv, NEW u \in DonorsOf(ThisMonth), NEW n \in ThisMonth, donations[n].user = u,
         IsFirst(n)
  PROVE  n = FirstOf(u)
<1>1. n \in Nat /\ FirstOf(u) \in Nat
  BY FirstExists DEF MoneyInv, ThisMonth
<1> QED BY <1>1, FirstExists DEF IsFirst

\* The same of the next state.
LEMMA FirstIsUniqueThen ==
  ASSUME MoneyInv', NEW u, u \in DonorsOf(ThisMonth)', NEW n, n \in ThisMonth',
         donations'[n].user = u, IsFirst(n)'
  PROVE  n = FirstOf(u)'
<1>1. \A k \in ThisMonth' : k \in Nat
  BY DEF MoneyInv, ThisMonth
<1>2. \A k \in ThisMonth' : donations'[k].user = u => n <= k
  BY DEF IsFirst
<1>3. /\ FirstOf(u)' \in ThisMonth' /\ donations'[FirstOf(u)'].user = u
      /\ \A k \in ThisMonth' : donations'[k].user = u => FirstOf(u)' <= k
  BY <1>2 DEF FirstOf
<1> QED BY <1>1, <1>2, <1>3

\* A purchase is one more row of this month.
LEMMA RecordedRow ==
  ASSUME MoneyInv, NEW u \in Donors, NEW p \in Purchases, RecordIap(u, p)
  PROVE  \E new \in Nat :
           /\ donations' \in Seq(DonationRow) /\ DOMAIN donations' = DOMAIN donations \cup {new}
           /\ \A n \in DOMAIN donations : donations'[n] = donations[n] /\ n < new /\ n \in Nat
           /\ new \notin DOMAIN donations
           /\ donations'[new] = [user |-> u, purchase |-> p, month |-> month]
           /\ ThisMonth' = ThisMonth \cup {new}
           /\ DonorsOf(ThisMonth)' = DonorsOf(ThisMonth) \cup {u}
<1> DEFINE new == Len(donations) + 1
<1>1. [user |-> u, purchase |-> p, month |-> month] \in DonationRow
  BY DEF MoneyInv, DonationRow
<1>2. /\ donations' \in Seq(DonationRow) /\ DOMAIN donations' = DOMAIN donations \cup {new}
      /\ \A n \in DOMAIN donations : donations'[n] = donations[n] /\ n < new /\ n \in Nat
      /\ new \in Nat /\ new \notin DOMAIN donations
      /\ donations'[new] = [user |-> u, purchase |-> p, month |-> month]
  BY <1>1 DEF RecordIap, MoneyInv
<1>3. month' = month
  BY DEF RecordIap
<1>4. ThisMonth' = ThisMonth \cup {new}
  BY <1>2, <1>3 DEF ThisMonth
<1>5. DonorsOf(ThisMonth)' = DonorsOf(ThisMonth) \cup {u}
  BY <1>2, <1>4 DEF DonorsOf, ThisMonth
<1> QED BY <1>2, <1>4, <1>5

LEMMA RecordIapKeeps ==
  ASSUME MoneyInv, NEW u \in Donors, NEW p \in Purchases, RecordIap(u, p)
  PROVE  MoneyInv' /\ Priority \subseteq Priority'
<1>1. PICK new \in Nat :
        /\ donations' \in Seq(DonationRow) /\ DOMAIN donations' = DOMAIN donations \cup {new}
        /\ \A n \in DOMAIN donations : donations'[n] = donations[n] /\ n < new /\ n \in Nat
        /\ new \notin DOMAIN donations
        /\ donations'[new] = [user |-> u, purchase |-> p, month |-> month]
        /\ ThisMonth' = ThisMonth \cup {new}
        /\ DonorsOf(ThisMonth)' = DonorsOf(ThisMonth) \cup {u}
  BY RecordedRow
<1>2. PurchaseCountsOnce'
  BY <1>1 DEF MoneyInv, PurchaseCountsOnce, RecordIap, IsRecorded
<1>3. ThisMonth \subseteq DOMAIN donations
  BY DEF ThisMonth
<1>4. ASSUME NEW n \in ThisMonth, IsFirst(n)
      PROVE  IsFirst(n)'
  BY <1>1, <1>3, <1>4 DEF IsFirst
<1>5. u \notin DonorsOf(ThisMonth) => IsFirst(new)'
  BY <1>1, <1>3 DEF IsFirst, DonorsOf
<1>6. \A v \in DonorsOf(ThisMonth)' : \E n \in ThisMonth' : donations'[n].user = v /\ IsFirst(n)'
  BY <1>1, <1>3, <1>4, <1>5 DEF MoneyInv
<1>7. MoneyInv'
  <2>1. UNCHANGED <<month, stripe, due>>
    BY DEF RecordIap
  <2>2. \A n \in DOMAIN donations' : donations'[n].month <= month
    BY <1>1 DEF MoneyInv
  <2> QED BY <1>1, <1>2, <1>6, <2>1, <2>2 DEF MoneyInv
<1>8. ASSUME NEW v \in DonorsOf(ThisMonth)
      PROVE  FirstOf(v)' = FirstOf(v) /\ FirstOf(v) \in ThisMonth
  <2>1. PICK n \in ThisMonth : donations[n].user = v /\ IsFirst(n)
    BY DEF MoneyInv
  <2>2. n = FirstOf(v)
    BY <2>1, FirstIsUnique
  <2>3. n = FirstOf(v)'
    <3>1. v \in DonorsOf(ThisMonth)' /\ n \in ThisMonth' /\ donations'[n].user = v /\ IsFirst(n)'
      BY <1>1, <1>3, <1>4, <2>1
    <3> QED BY <1>7, <3>1, FirstIsUniqueThen
  <2> QED BY <2>2, <2>3
<1>9. u \notin DonorsOf(ThisMonth) => FirstOf(u)' = new
  <2> SUFFICES ASSUME u \notin DonorsOf(ThisMonth) PROVE FirstOf(u)' = new
    OBVIOUS
  <2>1. u \in DonorsOf(ThisMonth)' /\ new \in ThisMonth' /\ donations'[new].user = u
    <3>1. u \in DonorsOf(ThisMonth)' /\ new \in ThisMonth'
      BY <1>1
    <3>2. donations'[new].user = u
      BY <1>1
    <3> QED BY <3>1, <3>2
  <2>2. IsFirst(new)'
    BY <1>5
  <2> QED BY <1>7, <2>1, <2>2, FirstIsUniqueThen
<1>10. ASSUME NEW v \in DonorsOf(ThisMonth)
       PROVE  {w \in DonorsOf(ThisMonth)' : Before(FirstOf(w)', FirstOf(v)')}
                = {w \in DonorsOf(ThisMonth) : Before(FirstOf(w), FirstOf(v))}
  <2>1. ASSUME NEW w \in DonorsOf(ThisMonth)
        PROVE  Before(FirstOf(w)', FirstOf(v)') <=> Before(FirstOf(w), FirstOf(v))
    BY <1>8, <2>1 DEF Before
  <2>2. u \notin DonorsOf(ThisMonth) => ~ Before(FirstOf(u)', FirstOf(v)')
    BY <1>1, <1>3, <1>8, <1>9 DEF Before
  <2> QED BY <1>1, <2>1, <2>2
<1>11. Priority \subseteq Priority'
  BY <1>1, <1>10 DEF Priority
<1> QED BY <1>7, <1>11
----
LEMMA MoneyStarts == DonationsInit => MoneyInv
BY SlotsAssumption
   DEF DonationsInit, MoneyInv, PurchaseCountsOnce, ThisMonth, DonorsOf, DonationRow

\* A month begins without donations.
LEMMA MonthEndsKeeps ==
  ASSUME MoneyInv, MonthEnds
  PROVE  MoneyInv'
<1>1. ThisMonth' = {}
  BY DEF MonthEnds, MoneyInv, ThisMonth
<1>2. month' \in 1 .. Months /\ \A n \in DOMAIN donations : donations[n].month <= month'
  <2>1. ASSUME NEW n \in DOMAIN donations
        PROVE  donations[n].month \in Nat /\ donations[n].month <= month
    <3>1. donations[n] \in DonationRow
      BY DEF MoneyInv
    <3> QED BY <3>1, SlotsAssumption DEF MoneyInv, DonationRow
  <2> QED BY <2>1, SlotsAssumption DEF MonthEnds, MoneyInv
<1> QED BY <1>1, <1>2 DEF MonthEnds, MoneyInv, PurchaseCountsOnce, DonorsOf

LEMMA StripeKeeps ==
  ASSUME MoneyInv, NEW i \in Intents, Succeeds(i) \/ Webhook(i)
  PROVE  MoneyInv' /\ Priority' = Priority
<1>1. UNCHANGED <<donations, month>>
  BY DEF Succeeds, Webhook
<1>2. stripe' \in Seq(Intents) /\ \A n, k \in DOMAIN stripe' : stripe'[n] = stripe'[k] => n = k
  <2>1. CASE UNCHANGED stripe
    BY <2>1 DEF MoneyInv, PurchaseCountsOnce
  <2>2. CASE stripe' = InsertedInto(stripe, i)
    BY <2>2 DEF MoneyInv, PurchaseCountsOnce, InsertedInto
  <2> QED BY <2>1, <2>2 DEF Succeeds, Webhook
<1>3. due' \subseteq Intents
  BY DEF MoneyInv, Succeeds, Webhook
<1>4. IF UNCHANGED <<donations, month>> THEN ThisMonth' = ThisMonth ELSE TRUE
  BY DEF ThisMonth
<1>5. MoneyInv'
  BY <1>1, <1>2, <1>3, <1>4 DEF MoneyInv, PurchaseCountsOnce, DonorsOf, IsFirst
<1> QED BY <1>1, <1>4, <1>5 DEF Priority, DonorsOf, FirstOf

LEMMA MoneyStep ==
  ASSUME MoneyInv, [DonationsNext]_money
  PROVE  MoneyInv' /\ (month' = month => Priority \subseteq Priority')
<1>1. CASE \E u \in Donors, p \in Purchases : RecordIap(u, p)
  BY <1>1, RecordIapKeeps
<1>2. CASE \E i \in Intents : Succeeds(i) \/ Webhook(i)
  BY <1>2, StripeKeeps
<1>3. CASE MonthEnds
  <2>1. month' # month
    BY <1>3 DEF MonthEnds, MoneyInv
  <2> QED BY <1>3, <2>1, MonthEndsKeeps
<1>4. CASE UNCHANGED money
  BY <1>4 DEF money, MoneyInv, PurchaseCountsOnce, ThisMonth, DonorsOf, IsFirst, Priority, FirstOf
<1> QED BY <1>1, <1>2, <1>3, <1>4 DEF DonationsNext

LEMMA MoneyInvariant == DonationsSpec => []MoneyInv
<1>1. DonationsInit => MoneyInv
  BY MoneyStarts
<1>2. MoneyInv /\ [DonationsNext]_money => MoneyInv'
  BY MoneyStep
<1> QED BY <1>1, <1>2, PTL DEF DonationsSpec

\* A purchase and a payment count once, and who has the extra storage of a month
\* keeps it until the month ends (_list_monthly_priority_donor_user_ids).
THEOREM DonationsAreKept == DonationsSpec => DonationsCount
<1>1. MoneyInv /\ [DonationsNext]_money => [month' = month => Priority \subseteq Priority']_money
  BY MoneyStep
<1>2. MoneyInv => PurchaseCountsOnce
  BY DEF MoneyInv
<1> QED BY <1>1, <1>2, MoneyInvariant, PTL DEF DonationsSpec, DonationsCount, SlotIsKept

-----------------------------------------------------------------------------
(* Presence and wakes *)

Job == [msg : Msgs, except : SUBSET Peers]

\* OutreachTypeOK without the relation of the two histories of wakes
Types ==
  /\ link \in [Peers -> Nodes \cup {NoNode}]
  /\ handlers \subseteq Peers \X Nodes
  /\ registry \in [Nodes -> SUBSET Peers]
  /\ shown \in [Nodes -> SUBSET Peers]
  /\ redis \in BOOLEAN
  /\ presence \subseteq Peers
  /\ channel \in [Nodes -> SUBSET (Msgs \X Peers)]
  /\ inbox \subseteq Msgs
  /\ unacked \subseteq Nodes \X Msgs
  /\ jobs \in [Nodes -> Seq(Job)]
  /\ sent \subseteq Msgs \X Peers
  /\ waked \subseteq Msgs \X Peers
  /\ routed \subseteq Msgs
  /\ arrived \subseteq Msgs \X Peers

\* Nothing is queued or posted that was not asked for.
OnlyAsked ==
  /\ sent \subseteq waked
  /\ \A n \in Nodes : \A i \in DOMAIN jobs[n] : Wakes(jobs[n][i]) \subseteq waked

OutreachInv == Types /\ OnlyAsked /\ RoutedIsKept /\ NobodyIsLeftAsleep

LEMMA WakesType ==
  ASSUME NEW job \in Job
  PROVE  Wakes(job) \subseteq Msgs \X Peers
BY DEF Wakes, Job

LEMMA RemovedType ==
  ASSUME Types, NEW n \in Nodes, NEW S, Removed(n, S)
  PROVE  /\ registry' \in [Nodes -> SUBSET Peers]
         /\ shown' \in [Nodes -> SUBSET Peers]
         /\ presence' \subseteq Peers
BY DEF Types, Removed

\* Queueing or posting a wake accounts for all of it, and for nothing else.
LEMMA WakeAsked ==
  ASSUME Types, OnlyAsked, NEW n \in Nodes, NEW m \in Msgs,
         NEW except \in SUBSET Peers, Wake(n, m, except)
  PROVE  /\ jobs' \in [Nodes -> Seq(Job)]
         /\ sent' \subseteq Msgs \X Peers
         /\ waked' = waked \cup ({m} \X (Peers \ except))
         /\ waked' \subseteq Msgs \X Peers
         /\ OnlyAsked'
         /\ waked' \subseteq waked \cup sent' \cup Queued'
<1> DEFINE job == [msg |-> m, except |-> except]
<1>1. job \in Job /\ job.msg = m /\ job.except = except
  BY DEF Job
<1>2. Wakes(job) = {m} \X (Peers \ except)
  BY <1>1 DEF Wakes
<1>3. waked' = waked \cup Wakes(job) /\ Enqueued(n, job)
  BY DEF Wake
<1>4. waked' \subseteq Msgs \X Peers
  BY <1>1, <1>3, WakesType DEF Types
<1>5. jobs[n] \in Seq(Job)
  BY DEF Types
<1> HIDE DEF job
<1>6. CASE jobs' = [jobs EXCEPT ![n] = Append(jobs[n], job)] /\ sent' = sent
  <2>1. /\ Append(jobs[n], job) \in Seq(Job)
        /\ Len(Append(jobs[n], job)) = Len(jobs[n]) + 1
        /\ \A i \in 1 .. Len(jobs[n]) : Append(jobs[n], job)[i] = jobs[n][i]
        /\ Append(jobs[n], job)[Len(jobs[n]) + 1] = job
    BY <1>1, <1>5, AppendProperties
  <2>2. jobs' \in [Nodes -> Seq(Job)] /\ jobs'[n] = Append(jobs[n], job)
    BY <1>6, <2>1 DEF Types
  <2>3. Len(jobs[n]) \in Nat
    BY <1>5, LenProperties
  <2>4. /\ DOMAIN jobs[n] = 1 .. Len(jobs[n])
        /\ DOMAIN jobs'[n] = 1 .. Len(jobs[n]) + 1
    BY <1>5, <2>1, <2>2, LenProperties
  <2>5. ASSUME NEW k \in Nodes, NEW i \in DOMAIN jobs'[k]
        PROVE  Wakes(jobs'[k][i]) \subseteq waked'
    <3>1. CASE k # n
      <4>1. jobs'[k] = jobs[k]
        BY <1>6, <3>1 DEF Types
      <4> QED BY <1>3, <2>5, <4>1 DEF OnlyAsked
    <3>2. CASE k = n /\ i \in 1 .. Len(jobs[n])
      <4>1. jobs'[k][i] = jobs[n][i] /\ i \in DOMAIN jobs[n]
        BY <2>1, <2>2, <2>4, <3>2
      <4> QED BY <1>3, <4>1 DEF OnlyAsked
    <3>3. CASE k = n /\ i = Len(jobs[n]) + 1
      BY <1>3, <2>1, <2>2, <3>3
    <3>4. k # n \/ i \in 1 .. Len(jobs[n]) \/ i = Len(jobs[n]) + 1
      BY <2>3, <2>4, <2>5
    <3> QED BY <3>1, <3>2, <3>3, <3>4
  <2>6. Len(jobs[n]) + 1 \in DOMAIN jobs'[n] /\ jobs'[n][Len(jobs[n]) + 1] = job
    BY <2>1, <2>2, <2>3, <2>4
  <2>7. Wakes(job) \subseteq Queued'
    <3> DEFINE W == {Wakes(jobs'[n][i]) : i \in DOMAIN jobs'[n]}
    <3>1. Wakes(job) \in W
      BY <2>6
    <3>2. UNION W \subseteq Queued'
      BY DEF Queued, Wakes
    <3> QED BY <3>1, <3>2
  <2> QED BY <1>1, <1>2, <1>3, <1>4, <1>6, <2>2, <2>5, <2>7 DEF Types, OnlyAsked
<1>7. CASE sent' = sent \cup Wakes(job) /\ jobs' = jobs
  BY <1>1, <1>2, <1>3, <1>4, <1>7, WakesType DEF Types, OnlyAsked
<1> QED BY <1>3, <1>6, <1>7 DEF Enqueued

-----------------------------------------------------------------------------
(* The actions of sessions *)

\* A step that leaves the histories and the mailbox alone keeps the promises.
LEMMA Untouched ==
  ASSUME OutreachInv, UNCHANGED <<inbox, unacked, jobs, sent, waked, routed, arrived>>
  PROVE  (OnlyAsked /\ RoutedIsKept /\ NobodyIsLeftAsleep)'
BY DEF OutreachInv, OnlyAsked, RoutedIsKept, NobodyIsLeftAsleep

LEMMA ConnectsKeeps ==
  ASSUME OutreachInv, NEW s \in Peers, NEW n \in Nodes, Connects(s, n)
  PROVE  OutreachInv'
<1>1. Types'
  BY DEF Connects, Registered, OutreachInv, Types
<1> QED BY <1>1, Untouched DEF Connects, OutreachInv

LEMMA ReportsKeeps ==
  ASSUME OutreachInv, NEW s \in Peers, Reports(s)
  PROVE  OutreachInv'
<1>1. link[s] \in Nodes
  BY DEF Reports, OutreachInv, Types
<1>2. shown' \in [Nodes -> SUBSET Peers]
  <2>1. PICK S \in {shown[link[s]] \cup {s}, shown[link[s]] \ {s}} :
          shown' = [shown EXCEPT ![link[s]] = S]
    BY DEF Reports, StateSet
  <2> QED BY <1>1, <2>1 DEF OutreachInv, Types
<1>3. Types'
  BY <1>2 DEF Reports, OutreachInv, Types
<1> QED BY <1>3, Untouched DEF Reports, OutreachInv

LEMMA LinkBreaksKeeps ==
  ASSUME OutreachInv, NEW s \in Peers, LinkBreaks(s)
  PROVE  OutreachInv'
<1>1. Types'
  BY DEF LinkBreaks, OutreachInv, Types
<1> QED BY <1>1, Untouched DEF LinkBreaks, OutreachInv

LEMMA HandlerEndsKeeps ==
  ASSUME OutreachInv, NEW s \in Peers, NEW n \in Nodes, HandlerEnds(s, n)
  PROVE  OutreachInv'
<1>1. Types'
  BY RemovedType DEF HandlerEnds, OutreachInv, Types
<1> QED BY <1>1, Untouched DEF HandlerEnds, OutreachInv

LEMMA ListensKeeps ==
  ASSUME OutreachInv, NEW n \in Nodes, NEW f \in channel[n], Listens(n, f)
  PROVE  OutreachInv'
<1>1. f \in Msgs \X Peers
  BY DEF OutreachInv, Types
<1>2. /\ registry' \in [Nodes -> SUBSET Peers]
      /\ shown' \in [Nodes -> SUBSET Peers]
      /\ presence' \subseteq Peers
  BY RemovedType DEF Listens, RelayedTo, OutreachInv, Types
<1>3. arrived \subseteq arrived' /\ arrived' \subseteq Msgs \X Peers
  BY <1>1 DEF Listens, RelayedTo, OutreachInv, Types
<1>4. Types'
  BY <1>2, <1>3 DEF Listens, OutreachInv, Types
<1>5. (OnlyAsked /\ RoutedIsKept /\ NobodyIsLeftAsleep)'
  BY <1>3 DEF Listens, OutreachInv, OnlyAsked, RoutedIsKept, NobodyIsLeftAsleep
<1> QED BY <1>4, <1>5 DEF OutreachInv

-----------------------------------------------------------------------------
(* Wakes and messages *)

LEMMA WorkerPostsKeeps ==
  ASSUME OutreachInv, NEW n \in Nodes, WorkerPosts(n)
  PROVE  OutreachInv'
<1>1. jobs[n] \in Seq(Job) /\ jobs[n] # <<>>
  BY DEF WorkerPosts, OutreachInv, Types
<1>2. /\ Head(jobs[n]) = jobs[n][1] /\ 1 \in DOMAIN jobs[n] /\ Head(jobs[n]) \in Job
      /\ Tail(jobs[n]) \in Seq(Job)
      /\ \A i \in DOMAIN Tail(jobs[n]) :
           i + 1 \in DOMAIN jobs[n] /\ Tail(jobs[n])[i] = jobs[n][i + 1]
  BY <1>1
<1>3. Wakes(Head(jobs[n])) \subseteq waked
  BY <1>2 DEF OutreachInv, OnlyAsked
<1>4. jobs' \in [Nodes -> Seq(Job)]
  BY <1>2 DEF WorkerPosts, OutreachInv, Types
<1>5. Types'
  BY <1>3, <1>4 DEF WorkerPosts, OutreachInv, Types
<1>6. ASSUME NEW k \in Nodes, NEW i \in DOMAIN jobs'[k]
      PROVE  Wakes(jobs'[k][i]) \subseteq waked
  <2>1. CASE k = n
    <3>1. jobs'[k] = Tail(jobs[n])
      BY <2>1 DEF WorkerPosts, OutreachInv, Types
    <3> QED BY <1>2, <1>6, <3>1 DEF OutreachInv, OnlyAsked
  <2>2. CASE k # n
    <3>1. jobs'[k] = jobs[k]
      BY <2>2 DEF WorkerPosts, OutreachInv, Types
    <3> QED BY <1>6, <3>1 DEF OutreachInv, OnlyAsked
  <2> QED BY <2>1, <2>2
<1>7. OnlyAsked'
  BY <1>3, <1>6 DEF WorkerPosts, OutreachInv, OnlyAsked
<1>8. (RoutedIsKept /\ NobodyIsLeftAsleep)'
  BY DEF WorkerPosts, OutreachInv, RoutedIsKept, NobodyIsLeftAsleep
<1> QED BY <1>5, <1>7, <1>8 DEF OutreachInv

\* What local sends reach, and what they leave to be acknowledged
LEMMA SentLocallyType ==
  ASSUME Types, NEW n \in Nodes, NEW m \in Msgs, NEW D \in SUBSET registry[n], NEW S,
         SentLocally(n, m, D, S)
  PROVE  /\ registry' \in [Nodes -> SUBSET Peers]
         /\ shown' \in [Nodes -> SUBSET Peers]
         /\ presence' \subseteq Peers
         /\ arrived \subseteq arrived' /\ arrived' \subseteq Msgs \X Peers
         /\ unacked \subseteq unacked' /\ unacked' \subseteq Nodes \X Msgs
         /\ \/ <<n, m>> \in unacked'
            \/ \A s \in D : <<m, s>> \in arrived'
<1>1. /\ registry' \in [Nodes -> SUBSET Peers]
      /\ shown' \in [Nodes -> SUBSET Peers]
      /\ presence' \subseteq Peers
  BY RemovedType DEF SentLocally
<1>2. LinkedTo(n) \subseteq Peers
  BY DEF LinkedTo
<1> QED BY <1>1, <1>2 DEF SentLocally, Types

LEMMA RouteKeeps ==
  ASSUME OutreachInv, NEW n \in Nodes, NEW m \in Msgs, Route(n, m)
  PROVE  /\ OutreachInv'
         /\ waked' \subseteq waked \cup sent' \cup Queued'
<1> USE DEF OutreachInv
<1>1. PICK D \in Deliverable(n), P \in {{}, presence \ registry[n]} :
        /\ SentLocally(n, m, D, registry[n] \ D)
        /\ channel' = [k \in Nodes |-> IF k = n THEN channel[k] ELSE channel[k] \cup ({m} \X P)]
        /\ IF Delivered(D, P) = {}
             THEN inbox' = inbox \cup {m} /\ Wake(n, m, {})
             ELSE UNCHANGED inbox /\ Wake(n, m, Excluded(n, D))
        /\ routed' = routed \cup {m}
        /\ UNCHANGED <<link, handlers, redis>>
  BY DEF Route, Published
<1>2. D \subseteq registry[n] /\ D \subseteq Peers /\ P \subseteq Peers
  BY DEF Deliverable, Types
<1> DEFINE except == IF D = {} THEN {} ELSE Excluded(n, D)
<1>3. except \in SUBSET Peers /\ except \subseteq D
  BY <1>2 DEF Excluded
<1>4. Wake(n, m, except) /\ inbox' = IF D = {} THEN inbox \cup {m} ELSE inbox
  BY <1>1 DEF Delivered
<1> HIDE DEF except
<1>5. /\ jobs' \in [Nodes -> Seq(Job)]
      /\ sent' \subseteq Msgs \X Peers
      /\ waked' = waked \cup ({m} \X (Peers \ except))
      /\ waked' \subseteq Msgs \X Peers
      /\ OnlyAsked'
      /\ waked' \subseteq waked \cup sent' \cup Queued'
  BY <1>3, <1>4, WakeAsked
<1>6. /\ registry' \in [Nodes -> SUBSET Peers]
      /\ shown' \in [Nodes -> SUBSET Peers]
      /\ presence' \subseteq Peers
      /\ arrived \subseteq arrived' /\ arrived' \subseteq Msgs \X Peers
      /\ unacked \subseteq unacked' /\ unacked' \subseteq Nodes \X Msgs
      /\ \/ <<n, m>> \in unacked'
         \/ \A s \in D : <<m, s>> \in arrived'
  BY <1>1, <1>2, SentLocallyType
<1>7. channel' \in [Nodes -> SUBSET (Msgs \X Peers)]
  BY <1>1, <1>2 DEF Types
<1>8. Types'
  BY <1>1, <1>4, <1>5, <1>6, <1>7 DEF Types
<1>9. RoutedIsKept'
  <2>1. m \in inbox' \/ (\E s \in Peers : <<m, s>> \in arrived') \/ <<n, m>> \in unacked'
    BY <1>2, <1>4, <1>6
  <2> QED BY <1>1, <1>4, <1>6, <2>1 DEF RoutedIsKept
<1>10. NobodyIsLeftAsleep'
  <2>1. ASSUME NEW s \in Peers
        PROVE  <<m, s>> \in waked' \cup arrived' \/ <<n, m>> \in unacked'
    BY <1>3, <1>5, <1>6
  <2> QED BY <1>1, <1>5, <1>6, <2>1 DEF NobodyIsLeftAsleep
<1> QED BY <1>5, <1>8, <1>9, <1>10

LEMMA RouteRaisesKeeps ==
  ASSUME OutreachInv, NEW n \in Nodes, NEW m \in Msgs, RouteRaises(n, m)
  PROVE  OutreachInv'
<1> USE DEF OutreachInv
<1>1. PICK D \in SUBSET registry[n], S \in SUBSET registry[n] : SentLocally(n, m, D, S)
  BY DEF RouteRaises
<1>2. /\ registry' \in [Nodes -> SUBSET Peers]
      /\ shown' \in [Nodes -> SUBSET Peers]
      /\ presence' \subseteq Peers
      /\ arrived \subseteq arrived' /\ arrived' \subseteq Msgs \X Peers
      /\ unacked \subseteq unacked' /\ unacked' \subseteq Nodes \X Msgs
  BY <1>1, SentLocallyType
<1>3. Types'
  BY <1>2 DEF RouteRaises, Types
<1>4. (OnlyAsked /\ RoutedIsKept /\ NobodyIsLeftAsleep)'
  BY <1>2 DEF RouteRaises, OnlyAsked, RoutedIsKept, NobodyIsLeftAsleep
<1> QED BY <1>3, <1>4

LEMMA AckMissingKeeps ==
  ASSUME OutreachInv, NEW n \in Nodes, NEW m \in Msgs, AckMissing(n, m)
  PROVE  /\ OutreachInv'
         /\ waked' \subseteq waked \cup sent' \cup Queued'
<1> USE DEF OutreachInv
<1>1. Wake(n, m, {})
  BY DEF AckMissing
<1>2. /\ jobs' \in [Nodes -> Seq(Job)]
      /\ sent' \subseteq Msgs \X Peers
      /\ waked' = waked \cup ({m} \X Peers)
      /\ waked' \subseteq Msgs \X Peers
      /\ OnlyAsked'
      /\ waked' \subseteq waked \cup sent' \cup Queued'
  BY <1>1, WakeAsked
<1>3. Types'
  BY <1>2 DEF AckMissing, Types
<1>4. RoutedIsKept'
  <2>1. \A k \in Msgs : k # m => \A p \in Nodes : <<p, k>> \in unacked => <<p, k>> \in unacked'
    BY DEF AckMissing
  <2> QED BY <2>1 DEF AckMissing, RoutedIsKept, Types
<1>5. NobodyIsLeftAsleep'
  <2>1. \A k \in Msgs : k # m => \A p \in Nodes : <<p, k>> \in unacked => <<p, k>> \in unacked'
    BY DEF AckMissing
  <2> QED BY <1>2, <2>1 DEF AckMissing, NobodyIsLeftAsleep, Types
<1> QED BY <1>2, <1>3, <1>4, <1>5

LEMMA FetchesInboxKeeps ==
  ASSUME OutreachInv, NEW s \in Peers, FetchesInbox(s)
  PROVE  OutreachInv'
<1>1. Types'
  BY DEF FetchesInbox, OutreachInv, Types
<1>2. \A m \in inbox : <<m, s>> \in arrived'
  BY DEF FetchesInbox
<1>3. (OnlyAsked /\ RoutedIsKept /\ NobodyIsLeftAsleep)'
  BY <1>2 DEF FetchesInbox, OutreachInv, OnlyAsked, RoutedIsKept, NobodyIsLeftAsleep
<1> QED BY <1>1, <1>3 DEF OutreachInv

LEMMA PurgeInboxKeeps ==
  ASSUME OutreachInv, PurgeInbox
  PROVE  OutreachInv'
<1>1. Types'
  BY DEF PurgeInbox, OutreachInv, Types
<1>2. (OnlyAsked /\ RoutedIsKept /\ NobodyIsLeftAsleep)'
  BY DEF PurgeInbox, OutreachInv, OnlyAsked, RoutedIsKept, NobodyIsLeftAsleep
<1> QED BY <1>1, <1>2 DEF OutreachInv

-----------------------------------------------------------------------------
(* Faults *)

LEMMA RedisKeeps ==
  ASSUME OutreachInv, PresenceExpires \/ RedisGoesOrComes
  PROVE  OutreachInv'
<1>1. Types'
  BY DEF PresenceExpires, RedisGoesOrComes, OutreachInv, Types
<1> QED BY <1>1, Untouched DEF PresenceExpires, RedisGoesOrComes, OutreachInv

\* What a process takes with it when it stops are acknowledgements it waits
\* for, and the messages of these are no longer claimed.
LEMMA NodeStopsKeeps ==
  ASSUME OutreachInv, NEW n \in Nodes, NodeStops(n)
  PROVE  OutreachInv'
<1>1. /\ link' \in [Peers -> Nodes \cup {NoNode}]
      /\ registry' \in [Nodes -> SUBSET Peers] /\ shown' \in [Nodes -> SUBSET Peers]
      /\ channel' \in [Nodes -> SUBSET (Msgs \X Peers)]
  BY DEF NodeStops, OutreachInv, Types
<1>2. jobs' \in [Nodes -> Seq(Job)] /\ jobs'[n] = <<>>
      /\ \A k \in Nodes : k # n => jobs'[k] = jobs[k]
  <2>1. <<>> \in Seq(Job)
    OBVIOUS
  <2> QED BY <2>1 DEF NodeStops, OutreachInv, Types
<1>3. Types'
  BY <1>1, <1>2 DEF NodeStops, OutreachInv, Types
<1>4. OnlyAsked'
  BY <1>2 DEF NodeStops, OutreachInv, OnlyAsked
<1>5. \A m \in routed' : m \in routed /\ \A k \in Nodes : <<k, m>> \in unacked => <<k, m>> \in unacked'
  BY DEF NodeStops
<1>6. (RoutedIsKept /\ NobodyIsLeftAsleep)'
  BY <1>5 DEF NodeStops, OutreachInv, RoutedIsKept, NobodyIsLeftAsleep
<1> QED BY <1>3, <1>4, <1>6 DEF OutreachInv

-----------------------------------------------------------------------------
(* The specification *)

LEMMA InitHolds == OutreachInit => OutreachInv
<1>1. <<>> \in Seq(Job)
  OBVIOUS
<1> QED BY <1>1 DEF OutreachInit, OutreachInv, Types, OnlyAsked, RoutedIsKept, NobodyIsLeftAsleep

\* Only routing and a missing acknowledgement ask for wakes.
LEMMA StepKeeps ==
  ASSUME OutreachInv, [OutreachNext \/ PurgeInbox \/ \E n \in Nodes : NodeStops(n)]_reach
  PROVE  OutreachInv' /\ waked' \subseteq waked \cup sent' \cup Queued'
<1>1. CASE \E s \in Peers : Reports(s) \/ LinkBreaks(s) \/ FetchesInbox(s)
  BY <1>1, ReportsKeeps, LinkBreaksKeeps, FetchesInboxKeeps DEF Reports, LinkBreaks, FetchesInbox
<1>2. CASE \E s \in Peers, n \in Nodes : Connects(s, n) \/ HandlerEnds(s, n)
  BY <1>2, ConnectsKeeps, HandlerEndsKeeps DEF Connects, HandlerEnds
<1>3. CASE \E n \in Nodes : WorkerPosts(n)
  BY <1>3, WorkerPostsKeeps DEF WorkerPosts
<1>4. CASE \E n \in Nodes, m \in Msgs : Route(n, m) \/ RouteRaises(n, m) \/ AckMissing(n, m)
  BY <1>4, RouteKeeps, RouteRaisesKeeps, AckMissingKeeps DEF RouteRaises
<1>5. CASE \E n \in Nodes : \E f \in channel[n] : Listens(n, f)
  BY <1>5, ListensKeeps DEF Listens
<1>6. CASE PresenceExpires \/ RedisGoesOrComes
  BY <1>6, RedisKeeps DEF PresenceExpires, RedisGoesOrComes
<1>7. CASE PurgeInbox \/ \E n \in Nodes : NodeStops(n)
  BY <1>7, PurgeInboxKeeps, NodeStopsKeeps DEF PurgeInbox, NodeStops
<1>8. CASE UNCHANGED reach
  BY <1>8 DEF reach, OutreachInv, Types, OnlyAsked, RoutedIsKept, NobodyIsLeftAsleep
<1> QED BY <1>1, <1>2, <1>3, <1>4, <1>5, <1>6, <1>7, <1>8 DEF OutreachNext

LEMMA ReachInvariant == OutreachSpec => []OutreachInv
<1>1. OutreachInv /\ [OutreachNext \/ PurgeInbox \/ \E n \in Nodes : NodeStops(n)]_reach
        => OutreachInv'
  BY StepKeeps
<1> QED BY <1>1, InitHolds, PTL DEF OutreachSpec

\* Every variable of the model of several server processes keeps its type, and
\* no wake is posted to the hub that was not asked for.
THEOREM ReachTypeCorrect == OutreachSpec => []OutreachTypeOK
<1>1. OutreachInv => OutreachTypeOK
  BY DEF OutreachInv, OutreachTypeOK, Types, OnlyAsked, Job
<1> QED BY <1>1, ReachInvariant, PTL

\* A routed message has reached a session of its recipient, lies in its mailbox
\* or is awaiting an acknowledgement, whatever Redis does (websocket_endpoint's
\* "publish is best-effort"), and a session that its wakes leave out has got it
\* or will be woken (_build_online_push_exclusions).
THEOREM MessagesReach == OutreachSpec => []MessageReaches
<1>1. OutreachInv => MessageReaches
  BY DEF OutreachInv, MessageReaches
<1> QED BY <1>1, ReachInvariant, PTL

\* A wake that is asked for is queued or posted in the same step, also when
\* the queue is full (enqueue_push).
THEOREM WakesAreQueued == OutreachSpec => WakeIsNotDropped
<1>1. OutreachInv /\ [OutreachNext \/ PurgeInbox \/ \E n \in Nodes : NodeStops(n)]_reach
        => [waked' \subseteq waked \cup sent' \cup Queued']_reach
  BY StepKeeps
<1> QED BY <1>1, ReachInvariant, PTL DEF OutreachSpec, WakeIsNotDropped

-----------------------------------------------------------------------------
(* A routed message is handed over *)

\* What module Handover sees of the state
Awaiting == {m \in Msgs : \E n \in Nodes : <<n, m>> \in unacked}
Arrived == {m \in Msgs : \E s \in Peers : <<m, s>> \in arrived}

LEMMA HandOverStarts == OutreachInit => Promise!Init
BY DEF OutreachInit, Promise!Init

LEMMA Unseen ==
  ASSUME UNCHANGED <<unacked, arrived, inbox, routed>>
  PROVE  UNCHANGED Promise!vars
BY DEF Promise!vars

\* A step that concerns one message
LEMMA Handled ==
  ASSUME NEW m \in Msgs,
         unacked' = unacked \/ \E n \in Nodes : unacked' = unacked \cup {<<n, m>>},
         inbox' \in {inbox, inbox \cup {m}},
         arrived' = arrived \/ \E D \in SUBSET Peers : arrived' = arrived \cup ({m} \X D),
         \/ routed' = routed
         \/ routed' = routed \cup {m} /\ RoutedIsKept'
  PROVE  Promise!Next
<1>1. Awaiting' \in {Awaiting, Awaiting \cup {m}}
  <2>1. \A x \in Msgs : x # m => (x \in Awaiting' <=> x \in Awaiting)
    BY DEF Awaiting
  <2>2. m \in Awaiting => m \in Awaiting'
    BY DEF Awaiting
  <2>3. Awaiting \subseteq Msgs /\ Awaiting' \subseteq Msgs
    BY DEF Awaiting
  <2> QED BY <2>1, <2>2, <2>3
<1>2. Arrived' \in {Arrived, Arrived \cup {m}}
  <2>1. \A x \in Msgs : x # m => (x \in Arrived' <=> x \in Arrived)
    <3>1. \A x, s : x # m => (<<x, s>> \in arrived' <=> <<x, s>> \in arrived)
      OBVIOUS
    <3> QED BY <3>1 DEF Arrived
  <2>2. m \in Arrived => m \in Arrived'
    BY DEF Arrived
  <2>3. Arrived \subseteq Msgs /\ Arrived' \subseteq Msgs
    BY DEF Arrived
  <2> QED BY <2>1, <2>2, <2>3
<1>3. \/ routed' = routed
      \/ routed' = routed \cup {m} /\ m \in Awaiting' \cup inbox' \cup Arrived'
  BY DEF RoutedIsKept, Awaiting, Arrived
<1>4. Promise!Handle(m)
        <=> /\ Awaiting' \in {Awaiting, Awaiting \cup {m}} /\ inbox' \in {inbox, inbox \cup {m}}
            /\ Arrived' \in {Arrived, Arrived \cup {m}}
            /\ \/ routed' = routed
               \/ routed' = routed \cup {m} /\ m \in Awaiting' \cup inbox' \cup Arrived'
  BY DEF Promise!Handle, Promise!Held, Awaiting, Arrived
<1> QED BY <1>1, <1>2, <1>3, <1>4 DEF Promise!Next

LEMMA SentHandles ==
  ASSUME NEW n \in Nodes, NEW m, NEW D \in SUBSET registry[n], NEW S, SentLocally(n, m, D, S), Types
  PROVE  /\ unacked' = unacked \/ unacked' = unacked \cup {<<n, m>>}
         /\ \E E \in SUBSET Peers : arrived' = arrived \cup ({m} \X E)
BY DEF SentLocally, Types, LinkedTo

LEMMA HandOverStep ==
  ASSUME OutreachInv, OutreachInv',
         [OutreachNext \/ PurgeInbox \/ \E n \in Nodes : NodeStops(n)]_reach
  PROVE  Promise!Next \/ UNCHANGED Promise!vars
<1> USE DEF OutreachInv
<1>1. CASE \/ \E s \in Peers : Reports(s) \/ LinkBreaks(s)
           \/ \E s \in Peers, n \in Nodes : Connects(s, n) \/ HandlerEnds(s, n)
           \/ \E n \in Nodes : WorkerPosts(n)
           \/ PresenceExpires \/ RedisGoesOrComes \/ UNCHANGED reach
  <2>1. UNCHANGED <<unacked, arrived, inbox, routed>>
    BY <1>1 DEF Reports, LinkBreaks, Connects, HandlerEnds, WorkerPosts, PresenceExpires,
                RedisGoesOrComes, reach
  <2> QED BY <2>1, Unseen
<1>2. ASSUME NEW n \in Nodes, NEW m \in Msgs, Route(n, m) PROVE Promise!Next
  <2>1. PICK D \in SUBSET registry[n] : SentLocally(n, m, D, registry[n] \ D)
    BY <1>2 DEF Route, Deliverable
  <2>2. inbox' \in {inbox, inbox \cup {m}} /\ routed' = routed \cup {m}
    BY <1>2 DEF Route
  <2> QED BY <2>1, <2>2, SentHandles, Handled
<1>3. ASSUME NEW n \in Nodes, NEW m \in Msgs, RouteRaises(n, m) PROVE Promise!Next
  <2>1. \E D \in SUBSET registry[n] : \E S : SentLocally(n, m, D, S)
    <3>1. registry[n] \in SUBSET registry[n]
      OBVIOUS
    <3> QED BY <1>3, <3>1 DEF RouteRaises
  <2>2. inbox' = inbox /\ routed' = routed
    BY <1>3 DEF RouteRaises
  <2> QED BY <2>1, <2>2, SentHandles, Handled
<1>4. ASSUME NEW n \in Nodes, NEW m \in Msgs, AckMissing(n, m) PROVE Promise!Next
  <2>1. <<n, m>> \in unacked /\ unacked' = unacked \ {<<n, m>>} /\ inbox' = inbox \cup {m}
    BY <1>4 DEF AckMissing
  <2>2. UNCHANGED <<arrived, routed>>
    BY <1>4 DEF AckMissing
  <2>3. \A x \in Msgs : x # m => (x \in Awaiting' <=> x \in Awaiting)
    BY <2>1 DEF Awaiting
  <2>4. m \in Awaiting /\ Awaiting \subseteq Msgs /\ Awaiting' \subseteq Msgs
    BY <2>1 DEF Awaiting
  <2>5. PICK A \in SUBSET {m} : Awaiting' = Awaiting \ A
    <3>1. Awaiting' = Awaiting \ {} \/ Awaiting' = Awaiting \ {m}
      BY <2>3, <2>4
    <3> QED BY <3>1
  <2>6. Promise!FallBack({m}, A)
    BY <2>1, <2>2, <2>4, <2>5 DEF Promise!FallBack, Awaiting
  <2> QED BY <2>6 DEF Promise!Next
<1>5. ASSUME NEW n \in Nodes, NEW f \in channel[n], Listens(n, f)
      PROVE  Promise!Next
  <2>1. f \in Msgs \X Peers
    BY DEF Types
  <2>2. UNCHANGED <<unacked, inbox, routed>> /\ (arrived' = arrived \/ arrived' = arrived \cup {f})
    BY <1>5 DEF Listens, RelayedTo
  <2>3. PICK m \in Msgs, s \in Peers : f = <<m, s>>
    BY <2>1
  <2>4. arrived' = arrived \/ arrived' = arrived \cup ({m} \X {s})
    BY <2>2, <2>3
  <2> QED BY <2>2, <2>4, Handled
<1>6. ASSUME NEW s \in Peers, FetchesInbox(s) PROVE Promise!Next
  <2>1. arrived' = arrived \cup (inbox \X {s}) /\ inbox' = {} /\ UNCHANGED <<unacked, routed>>
    BY <1>6 DEF FetchesInbox
  <2>2. Arrived' = Arrived \cup inbox
    <3>1. inbox \subseteq Msgs
      BY DEF Types
    <3> QED BY <2>1, <3>1 DEF Arrived
  <2>3. Promise!Fetch
    BY <2>1, <2>2 DEF Promise!Fetch, Arrived
  <2> QED BY <2>3 DEF Promise!Next
<1>7. CASE PurgeInbox
  <2>1. inbox' = inbox \ inbox /\ routed' = routed \ inbox /\ UNCHANGED <<unacked, arrived>>
    BY <1>7 DEF PurgeInbox
  <2>2. PICK M \in SUBSET Msgs : M = inbox
    BY DEF Types
  <2>3. Promise!Lose(M, {}, M) /\ {} \in SUBSET M /\ M \in SUBSET M
    BY <2>1, <2>2 DEF Promise!Lose
  <2> QED BY <2>3 DEF Promise!Next
<1>8. ASSUME NEW n \in Nodes, NodeStops(n) PROVE Promise!Next
  <2>1. /\ unacked' = {a \in unacked : a[1] # n} /\ routed' = {m \in routed : <<n, m>> \notin unacked}
        /\ UNCHANGED <<inbox, arrived>>
    BY <1>8 DEF NodeStops
  <2>2. PICK M \in SUBSET Msgs : M = {m \in Msgs : <<n, m>> \in unacked}
    OBVIOUS
  <2>3. PICK A \in SUBSET M : A = M \ Awaiting'
    OBVIOUS
  <2>4. Awaiting' = Awaiting \ A /\ M \subseteq Awaiting
    BY <2>1, <2>2, <2>3 DEF Awaiting
  <2>5. routed' = routed \ M
    BY <2>1, <2>2 DEF Types
  <2>6. Promise!Lose(M, A, {}) /\ {} \in SUBSET M
    BY <2>1, <2>4, <2>5 DEF Promise!Lose, Awaiting
  <2> QED BY <2>6 DEF Promise!Next
<1> QED BY <1>1, <1>2, <1>3, <1>4, <1>5, <1>6, <1>7, <1>8 DEF OutreachNext

\* Several processes and Redis keep the promise of Handover, for any processes,
\* sessions and messages (websocket_endpoint, _pending_delivery_timeout_worker,
\* FanoutBridge.publish): a copy that was only published is never relied on.
THEOREM ReachImplementsHandover == OutreachSpec => RoutedIsHandedOver
<1>1. OutreachInv /\ OutreachInv' /\ [OutreachNext \/ PurgeInbox \/ \E n \in Nodes : NodeStops(n)]_reach
        => [Promise!Next]_(Promise!vars)
  BY HandOverStep
<1> QED
  BY <1>1, HandOverStarts, ReachInvariant, PTL DEF OutreachSpec, RoutedIsHandedOver, Promise!Spec
-----------------------------------------------------------------------------
(* The composition *)

\* Each step of the composition is a step of every part, or leaves it alone.
LEMMA AccountStep ==
  ASSUME [AccountNext]_accountVars
  PROVE  /\ [LifecycleNext \/ PurgeMailbox \/ LifecycleCrash]_lifecycle
         /\ [DonationsNext]_money
         /\ [SyncNext \/ PurgeDevices \/ SyncCrash]_sync
         /\ [GuardsNext \/ GuardsCrash]_guards
         /\ [OutreachNext \/ PurgeInbox \/ \E n \in Nodes : NodeStops(n)]_reach
<1>1. CASE EventStep
  BY <1>1 DEF EventStep
<1>2. CASE EnvelopeStep
  BY <1>2 DEF EnvelopeStep
<1>3. CASE DonationStep
  BY <1>3 DEF DonationStep
<1>4. CASE RequestStep
  BY <1>4 DEF RequestStep
<1>5. CASE OutreachStep
  BY <1>5 DEF OutreachStep
<1>6. CASE AccountGone
  BY <1>6 DEF AccountGone
<1>7. CASE ProcessStops
  BY <1>7 DEF ProcessStops
<1>8. CASE UNCHANGED accountVars
  BY <1>8 DEF accountVars
<1> QED BY <1>1, <1>2, <1>3, <1>4, <1>5, <1>6, <1>7, <1>8 DEF AccountNext

\* What is proved of the parts holds of an account that has them all, where accounts
\* go and processes stop for several of them at once (deregister, account_reset).
THEOREM AccountKeepsParts ==
  AccountSpec => LifecycleSpec /\ SyncSpec /\ DonationsSpec /\ GuardsSpec /\ OutreachSpec
<1>1. AccountInit => LifecycleInit /\ SyncInit /\ DonationsInit /\ GuardsInit /\ OutreachInit
  BY DEF AccountInit
<1>2. [AccountNext]_accountVars
        => /\ [LifecycleNext \/ PurgeMailbox \/ LifecycleCrash]_lifecycle
           /\ [DonationsNext]_money
           /\ [SyncNext \/ PurgeDevices \/ SyncCrash]_sync
           /\ [GuardsNext \/ GuardsCrash]_guards
           /\ [OutreachNext \/ PurgeInbox \/ \E n \in Nodes : NodeStops(n)]_reach
  BY AccountStep
<1> QED
  BY <1>1, <1>2, PTL DEF AccountSpec, LifecycleSpec, SyncSpec, DonationsSpec, GuardsSpec, OutreachSpec

\* Every table and every list in memory that is about an account holds what its
\* type says, and no bucket of tokens more than its capacity.
THEOREM AccountTypeCorrect == AccountSpec => []AccountTypeOK
<1>1. DonationsSpec => []DonationsTypeOK
  <2>1. MoneyInv => DonationsTypeOK
    BY LenProperties DEF MoneyInv, DonationsTypeOK, DonationRow
  <2> QED BY <2>1, MoneyInvariant, PTL
<1> QED
  BY <1>1, AccountKeepsParts, LifecycleTypeCorrect, SyncTypeCorrect, GuardsTypeCorrect,
     ReachTypeCorrect, PTL DEF AccountTypeOK
=============================================================================
