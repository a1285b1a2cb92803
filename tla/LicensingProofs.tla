--------------------------- MODULE LicensingProofs ---------------------------
(***************************************************************************)
(* What the identity key of the server, and the licence that is confirmed  *)
(* with it, guarantee for any number of processes, rotations, keys,        *)
(* licences and requests.                                                  *)
(*                                                                         *)
(* Of the key: Basic holds whatever happens, and gives that what is        *)
(* announced was in the key file and verifies.  Orderly holds as long as   *)
(* nothing upsets a rotation, and gives that the announcements form a      *)
(* chain, which ends with the key in the file.  Licensing only takes steps *)
(* of ServerIdentity, so it all holds there too.                           *)
(*                                                                         *)
(* Of the licence: a request that was answered with a token has stored it  *)
(* (Answered), so what the launcher and the processes use is on record.  A *)
(* token is numbered before it is stored, so the answer that the launcher  *)
(* waits for is the newest it has not missed (NewestInv).                  *)
(*                                                                         *)
(* Of the key that is handed out once: a rotation starts from the file     *)
(* (FollowsFile), so what it moves there replaces the key it retires.      *)
(***************************************************************************)
EXTENDS Licensing, FiniteSetTheorems, SequenceTheorems, TLAPS

\* Two writers have met, or the central service has issued a key.
Disturbed == upset \cap {"forked", "issued"} # {}

\* A rotation runs in a process that is up, with the keys it has read and made.
Underway ==
  /\ \A r \in Running : /\ rot[r].at \in Ups
                        /\ rot[r].from \in AnyKey /\ rot[r].shown \in AnyKey
                        /\ rot[r].new \in Keys
  /\ \A r \in Rotations : rot[r].pc = "new" => rot[r].from = None
  /\ \A p \in Procs : boot[p] \in {"looked", "writing"} => made[p] \in Keys
  /\ grace # "none" => chain # <<>>

Alone == \A r, s \in Running : r # s => "forked" \in upset

\* What is moved to the key file, and then announced, is the rotation's key.
MovesItsKey ==
  /\ \A r \in Rotations : rot[r].pc = "replace" => tmp = rot[r].new \/ Disturbed
  /\ \A r \in Replaced : rot[r].new \in written \/ Disturbed

\* The key a process shows is the one it signs with, but between the two
\* assignments at the end of a rotation.
ShowsItsKey ==
  /\ \A r \in Running : rot[r].from = rot[r].shown \/ Disturbed
  /\ \A p \in Ups : \/ priv[p] = pub[p] \/ Disturbed
                    \/ \E r \in Rotations : rot[r].pc = "show" /\ rot[r].at = p
  /\ \A r \in Rotations : rot[r].pc = "show" => priv[rot[r].at] = rot[r].new \/ Disturbed

Basic ==
  /\ TypeOK /\ Underway /\ Alone /\ MovesItsKey /\ ShowsItsKey
  /\ AnnouncedWasStored /\ AnnouncementVerifies

Last == chain[Len(chain)]

FileIsLast ==
  /\ \A r \in Replaced : identity = rot[r].new
  /\ chain # <<>> => identity = Last.new \/ \E r \in Rotations : rot[r].pc = "announce"

RetiresLast ==
  \A r \in Rotations :
    /\ rot[r].pc \in {"save", "tmp", "replace", "announce"} /\ chain # <<>> => rot[r].shown = Last.new
    /\ rot[r].pc \in {"tmp", "replace", "announce"} => old = rot[r].from

Linked == \A i \in DOMAIN chain : i > 1 => chain[i].old = chain[i - 1].new

Serves ==
  \A p \in Ups \ behind :
    (\A r \in Replaced : rot[r].at # p) => priv[p] = identity /\ pub[p] = identity

Loadable ==
  grace = "open" =>
    \/ old = Last.old
    \/ old = Last.new /\ \E r \in Rotations : rot[r].from = Last.new

Orderly ==
  upset = {} => FileIsLast /\ RetiresLast /\ Linked /\ Serves /\ Loadable

IdentityInv == Basic /\ Orderly

-----------------------------------------------------------------------------
(* Lemmas about the parts *)

LEMMA KeysAreKeys ==
  /\ None \notin AnyKey /\ Torn \notin AnyKey /\ None # Torn /\ None \notin Procs
  /\ Issued \notin Keys /\ Keys \subseteq AnyKey
BY KeyAssumption, PresentAssumption DEF Keys, AnyKey

LEMMA NewKey ==
  ASSUME TypeOK, minted < MaxKeys
  PROVE  minted + 1 \in Keys /\ minted + 1 \in 0 .. MaxKeys
BY KeyAssumption DEF TypeOK, Keys

LEMMA RunningAreRotations ==
  Running \subseteq Rotations /\ Replaced \subseteq Running /\ Ups \subseteq Procs
BY DEF Running, Replaced, Ups

\* A step of a rotation moves its counter and nothing else.
LEMMA GoesOn ==
  ASSUME TypeOK, NEW r \in Rotations, NEW pc \in Steps \cup {"new", "done", "failed"}, Goes(r, pc)
  PROVE  /\ rot' \in [Rotations -> [pc : Steps \cup {"new", "done", "failed"},
                                    at : Procs \cup {None}, from : AnyKey \cup {None},
                                    shown : AnyKey \cup {None}, new : Keys \cup {None}]]
         /\ rot'[r].pc = pc
         /\ \A s \in Rotations : /\ rot'[s].at = rot[s].at /\ rot'[s].from = rot[s].from
                                 /\ rot'[s].shown = rot[s].shown /\ rot'[s].new = rot[s].new
                                 /\ s # r => rot'[s].pc = rot[s].pc
<1>1. rot[r] \in [pc : Steps \cup {"new", "done", "failed"}, at : Procs \cup {None},
                  from : AnyKey \cup {None}, shown : AnyKey \cup {None}, new : Keys \cup {None}]
  BY DEF TypeOK
<1>2. rot' = [rot EXCEPT ![r] = [rot[r] EXCEPT !.pc = pc]]
  BY DEF Goes, TypeOK
<1>3. rot'[r] = [rot[r] EXCEPT !.pc = pc] /\ \A s \in Rotations : s # r => rot'[s] = rot[s]
  BY <1>2 DEF TypeOK
<1> QED BY <1>1, <1>2, <1>3 DEF TypeOK

\* The last announcement after one was added
LEMMA LastOfAppend ==
  ASSUME TypeOK, NEW a \in [old : AnyKey, new : Keys, by : AnyKey], chain' = Append(chain, a)
  PROVE  /\ chain' \in Seq([old : AnyKey, new : Keys, by : AnyKey]) /\ chain' # <<>>
         /\ Last' = a
         /\ \A i \in DOMAIN chain' : \/ i \in DOMAIN chain /\ chain'[i] = chain[i]
                                     \/ i = Len(chain) + 1 /\ chain'[i] = a
         /\ \A i \in DOMAIN chain' : i > 1 => i - 1 \in DOMAIN chain /\ chain'[i - 1] = chain[i - 1]
<1> DEFINE T == [old : AnyKey, new : Keys, by : AnyKey]
<1>1. chain \in Seq(T)
  BY DEF TypeOK
<1> HIDE DEF T
<1>2. /\ chain' \in Seq(T)
      /\ Len(chain') = Len(chain) + 1
      /\ \A i \in 1 .. Len(chain) : chain'[i] = chain[i]
      /\ chain'[Len(chain) + 1] = a
  BY <1>1, AppendProperties DEF T
<1>3. /\ DOMAIN chain = 1 .. Len(chain) /\ DOMAIN chain' = 1 .. Len(chain) + 1
      /\ Len(chain) \in Nat
  BY <1>1, <1>2, LenProperties
<1>4. chain' # <<>> /\ Last' = a
  BY <1>2, <1>3 DEF Last
<1>5. \A i \in DOMAIN chain' : \/ i \in DOMAIN chain /\ chain'[i] = chain[i]
                               \/ i = Len(chain) + 1 /\ chain'[i] = a
  BY <1>2, <1>3
<1>6. \A i \in DOMAIN chain' : i > 1 => i - 1 \in DOMAIN chain /\ chain'[i - 1] = chain[i - 1]
  BY <1>2, <1>3
<1> QED BY <1>2, <1>4, <1>5, <1>6 DEF T

LEMMA LastIsKey ==
  ASSUME TypeOK, chain # <<>>
  PROVE  Last \in [old : AnyKey, new : Keys, by : AnyKey] /\ Len(chain) \in DOMAIN chain
<1> DEFINE T == [old : AnyKey, new : Keys, by : AnyKey]
<1>1. chain \in Seq(T) /\ chain # <<>>
  BY DEF TypeOK
<1> HIDE DEF T
<1>2. Len(chain) \in DOMAIN chain /\ chain[Len(chain)] \in T
  BY <1>1
<1> QED BY <1>2 DEF T, Last

\* As long as nothing upsets it, a rotation is alone and what was announced
\* last was stored.
LEMMA WhenOrderly ==
  ASSUME Basic, upset = {}
  PROVE  /\ ~ Disturbed
         /\ \A r, s \in Running : r = s
         /\ chain # <<>> => Last.new \in written
BY LastIsKey DEF Basic, Disturbed, Alone, AnnouncedWasStored, Last

-----------------------------------------------------------------------------
(* Steps of a rotation *)

\* Saving the old key and writing the new one beside the key file
LEMMA SavesOldKeeps ==
  ASSUME IdentityInv, NEW r \in Rotations, SavesOld(r)
  PROVE  IdentityInv'
<1> USE DEF IdentityInv, Basic
<1>1. /\ rot[r].pc = "save" /\ old' = rot[r].from /\ Goes(r, "tmp")
      /\ UNCHANGED <<boot, made, priv, pub, identity, tmp, chain, grace, minted, behind, written, upset>>
  BY DEF SavesOld, memory, db, history
<1>2. /\ rot'[r].pc = "tmp"
      /\ \A s \in Rotations : /\ rot'[s].at = rot[s].at /\ rot'[s].from = rot[s].from
                              /\ rot'[s].shown = rot[s].shown /\ rot'[s].new = rot[s].new
                              /\ s # r => rot'[s].pc = rot[s].pc
  BY <1>1, GoesOn DEF Steps
<1>3. r \in Running /\ Running' = Running /\ Replaced' = Replaced /\ Ups' = Ups
  BY <1>1, <1>2 DEF Running, Replaced, Steps, Ups
<1>4. TypeOK'
  <2>1. old' \in Files
    BY <1>1, <1>3 DEF Underway, Files
  <2> QED BY <1>1, <2>1, GoesOn DEF TypeOK, Steps, Ups
<1>5. (Underway /\ Alone /\ MovesItsKey /\ ShowsItsKey /\ AnnouncedWasStored /\ AnnouncementVerifies)'
  BY <1>1, <1>2, <1>3 DEF Underway, Alone, MovesItsKey, ShowsItsKey, AnnouncedWasStored,
                         AnnouncementVerifies, Running, Replaced, Disturbed
<1>6. Orderly'
  <2> SUFFICES ASSUME upset = {} PROVE (FileIsLast /\ RetiresLast /\ Linked /\ Serves /\ Loadable)'
    BY <1>1 DEF Orderly
  <2>1. \A s \in Running : s = r
    BY <1>3, WhenOrderly
  <2>2. (FileIsLast /\ Linked /\ Serves)'
    BY <1>1, <1>2, <1>3 DEF Orderly, FileIsLast, Linked, Serves, Last, Running, Replaced
  <2>3. RetiresLast'
    BY <1>1, <1>2, <2>1 DEF Orderly, RetiresLast, Last, Running, Steps
  <2>4. Loadable'
    <3> SUFFICES ASSUME grace = "open" PROVE Loadable'
      BY <1>1 DEF Loadable
    <3>1. rot[r].from = Last.new
      BY <1>1, <1>3, WhenOrderly DEF Underway, ShowsItsKey, Orderly, RetiresLast
    <3> QED BY <1>1, <1>2, <3>1 DEF Loadable, Last
  <2> QED BY <2>2, <2>3, <2>4
<1> QED BY <1>4, <1>5, <1>6

LEMMA WritesTmpKeeps ==
  ASSUME IdentityInv, NEW r \in Rotations, WritesTmp(r)
  PROVE  IdentityInv'
<1> USE DEF IdentityInv, Basic
<1>1. /\ rot[r].pc = "tmp" /\ tmp' = rot[r].new /\ Goes(r, "replace")
      /\ UNCHANGED <<boot, made, priv, pub, identity, old, chain, grace, minted, behind, written, upset>>
  BY DEF WritesTmp, Beside, memory, db, history
<1>2. /\ rot'[r].pc = "replace"
      /\ \A s \in Rotations : /\ rot'[s].at = rot[s].at /\ rot'[s].from = rot[s].from
                              /\ rot'[s].shown = rot[s].shown /\ rot'[s].new = rot[s].new
                              /\ s # r => rot'[s].pc = rot[s].pc
  BY <1>1, GoesOn DEF Steps
<1>3. r \in Running /\ Running' = Running /\ Replaced' = Replaced /\ Ups' = Ups
  BY <1>1, <1>2 DEF Running, Replaced, Steps, Ups
<1>4. TypeOK'
  <2>1. tmp' \in AnyKey
    BY <1>1, <1>3, KeysAreKeys DEF Underway
  <2> QED BY <1>1, <2>1, GoesOn DEF TypeOK, Steps, Ups
<1>5. MovesItsKey'
  <2>1. \A s \in Rotations : rot'[s].pc = "replace" => s = r \/ Disturbed
    BY <1>2, <1>3 DEF Alone, Running, Steps, Disturbed
  <2> QED BY <1>1, <1>2, <1>3, <2>1 DEF MovesItsKey, Replaced, Running, Disturbed
<1>6. (Underway /\ Alone /\ ShowsItsKey /\ AnnouncedWasStored /\ AnnouncementVerifies)'
  BY <1>1, <1>2, <1>3 DEF Underway, Alone, ShowsItsKey, AnnouncedWasStored,
                         AnnouncementVerifies, Running, Disturbed
<1>7. Orderly'
  <2> SUFFICES ASSUME upset = {} PROVE (FileIsLast /\ RetiresLast /\ Linked /\ Serves /\ Loadable)'
    BY <1>1 DEF Orderly
  <2>1. (FileIsLast /\ Linked /\ Serves /\ Loadable)'
    BY <1>1, <1>2, <1>3 DEF Orderly, FileIsLast, Linked, Serves, Loadable, Last, Running, Replaced
  <2>2. RetiresLast'
    BY <1>1, <1>2 DEF Orderly, RetiresLast, Last
  <2> QED BY <2>1, <2>2
<1> QED BY <1>4, <1>5, <1>6, <1>7

\* Moving the new key into the key file
LEMMA ReplacesKeeps ==
  ASSUME IdentityInv, NEW r \in Rotations, Replaces(r)
  PROVE  IdentityInv'
<1> USE DEF IdentityInv, Basic
<1>1. CASE tmp = None
  <2>1. /\ rot[r].pc = "replace" /\ Goes(r, "failed")
        /\ UNCHANGED <<boot, made, priv, pub, identity, tmp, old, chain, grace, minted, behind, written, upset>>
    BY <1>1 DEF Replaces, memory, db
  <2>2. /\ rot'[r].pc = "failed"
        /\ \A s \in Rotations : /\ rot'[s].at = rot[s].at /\ rot'[s].from = rot[s].from
                                /\ rot'[s].shown = rot[s].shown /\ rot'[s].new = rot[s].new
                                /\ s # r => rot'[s].pc = rot[s].pc
    BY <2>1, GoesOn DEF Steps
  <2>3. Running' \subseteq Running /\ Replaced' = Replaced /\ Ups' = Ups
    BY <2>1, <2>2 DEF Running, Replaced, Steps, Ups
  <2>4. TypeOK'
    BY <2>1, GoesOn DEF TypeOK, Steps, Ups
  <2>5. (Underway /\ Alone /\ MovesItsKey)'
    BY <2>1, <2>2, <2>3, RunningAreRotations DEF Underway, Alone, MovesItsKey, Disturbed
  <2>6. (ShowsItsKey /\ AnnouncedWasStored /\ AnnouncementVerifies)'
    BY <2>1, <2>2, <2>3, RunningAreRotations DEF ShowsItsKey, AnnouncedWasStored,
                                                AnnouncementVerifies, Disturbed
  <2>7. Orderly'
    <3> SUFFICES ASSUME upset = {} PROVE (FileIsLast /\ RetiresLast /\ Linked /\ Serves /\ Loadable)'
      BY <2>1 DEF Orderly
    <3>1. (FileIsLast /\ RetiresLast)'
      BY <2>1, <2>2, <2>3, RunningAreRotations DEF Orderly, FileIsLast, RetiresLast, Last
    <3>2. (Linked /\ Serves /\ Loadable)'
      BY <2>1, <2>2, <2>3, RunningAreRotations DEF Orderly, Linked, Serves, Loadable, Last
    <3> QED BY <3>1, <3>2
  <2> QED BY <2>4, <2>5, <2>6, <2>7
<1>2. CASE tmp # None
  <2>1. /\ rot[r].pc = "replace" /\ Goes(r, "announce")
        /\ identity' = tmp /\ tmp' = None
        /\ written' = written \cup {tmp} /\ behind' = behind \cup (Ups \ {rot[r].at})
        /\ UNCHANGED <<boot, made, priv, pub, old, chain, grace, minted, upset>>
    BY <1>2 DEF Replaces, Moved, Recorded, memory, db
  <2>2. /\ rot'[r].pc = "announce"
        /\ \A s \in Rotations : /\ rot'[s].at = rot[s].at /\ rot'[s].from = rot[s].from
                                /\ rot'[s].shown = rot[s].shown /\ rot'[s].new = rot[s].new
                                /\ s # r => rot'[s].pc = rot[s].pc
    BY <2>1, GoesOn DEF Steps
  <2>3. /\ r \in Running /\ Running' = Running /\ Ups' = Ups
        /\ Replaced' \subseteq Replaced \cup {r} /\ r \in Replaced'
    BY <2>1, <2>2 DEF Running, Replaced, Steps, Ups
  <2>4. tmp \in AnyKey /\ (tmp = rot[r].new \/ Disturbed)
    BY <1>2, <2>1 DEF TypeOK, MovesItsKey
  <2>5. TypeOK'
    BY <2>1, <2>4, GoesOn DEF TypeOK, Steps, Ups, Files
  <2>6. MovesItsKey'
    <3>1. \A s \in Rotations : rot'[s].pc = "replace" => Disturbed
      BY <2>1, <2>2 DEF Alone, Running, Steps, Disturbed
    <3>2. ASSUME NEW s \in Replaced'
          PROVE  rot'[s].new \in written' \/ Disturbed'
      BY <2>1, <2>2, <2>3, <2>4, <3>2, RunningAreRotations DEF MovesItsKey, Disturbed
    <3> QED BY <2>1, <3>1, <3>2 DEF MovesItsKey, Disturbed
  <2>7. (Underway /\ Alone /\ ShowsItsKey /\ AnnouncedWasStored /\ AnnouncementVerifies)'
    BY <2>1, <2>2, <2>3 DEF Underway, Alone, ShowsItsKey, AnnouncedWasStored,
                           AnnouncementVerifies, Running, Disturbed
  <2>8. Orderly'
    <3> SUFFICES ASSUME upset = {} PROVE (FileIsLast /\ RetiresLast /\ Linked /\ Serves /\ Loadable)'
      BY <2>1 DEF Orderly
    <3>1. ~ Disturbed /\ \A s \in Running : s = r
      BY <2>3, WhenOrderly
    <3>2. FileIsLast'
      BY <2>1, <2>2, <2>3, <2>4, <3>1 DEF FileIsLast, Running, Replaced
    <3>3. (RetiresLast /\ Linked /\ Loadable)'
      BY <2>1, <2>2 DEF Orderly, RetiresLast, Linked, Loadable, Last
    <3>4. Serves'
      BY <2>1, <2>2, <2>3 DEF Serves
    <3> QED BY <3>2, <3>3, <3>4
  <2> QED BY <2>5, <2>6, <2>7, <2>8
<1> QED BY <1>1, <1>2

LEMMA AnnouncesKeeps ==
  ASSUME IdentityInv, NEW r \in Rotations, Announces(r)
  PROVE  IdentityInv'
<1> USE DEF IdentityInv, Basic
<1>1. /\ rot[r].pc = "announce"
      /\ UNCHANGED <<boot, made, priv, pub, identity, tmp, old, minted, behind, written>>
  BY DEF Announces, memory, disk
<1>2. r \in Running /\ r \in Replaced
  BY <1>1 DEF Running, Replaced, Steps
<1>3. CASE /\ chain' = Append(chain, Announcement(r)) /\ grace' = "open" /\ Goes(r, "switch")
           /\ UNCHANGED upset
  <2>1. /\ rot'[r].pc = "switch"
        /\ \A s \in Rotations : /\ rot'[s].at = rot[s].at /\ rot'[s].from = rot[s].from
                                /\ rot'[s].shown = rot[s].shown /\ rot'[s].new = rot[s].new
                                /\ s # r => rot'[s].pc = rot[s].pc
    BY <1>3, GoesOn DEF Steps
  <2>2. Running' = Running /\ Replaced' = Replaced /\ Ups' = Ups
    BY <1>1, <1>2, <2>1 DEF Running, Replaced, Steps, Ups
  <2> DEFINE a == Announcement(r)
  <2>3. /\ a \in [old : AnyKey, new : Keys, by : AnyKey]
        /\ a.old = rot[r].shown /\ a.new = rot[r].new /\ a.by = rot[r].from
    BY <1>2 DEF Announcement, Underway
  <2> HIDE DEF a
  <2>4. chain' = Append(chain, a)
    BY <1>3 DEF a
  <2>5. /\ chain' \in Seq([old : AnyKey, new : Keys, by : AnyKey]) /\ chain' # <<>>
        /\ Last' = a
        /\ \A i \in DOMAIN chain' : \/ i \in DOMAIN chain /\ chain'[i] = chain[i]
                                    \/ i = Len(chain) + 1 /\ chain'[i] = a
        /\ \A i \in DOMAIN chain' : i > 1 => i - 1 \in DOMAIN chain /\ chain'[i - 1] = chain[i - 1]
    BY <2>3, <2>4, LastOfAppend
  <2>6. TypeOK'
    BY <1>1, <1>3, <2>5, GoesOn DEF TypeOK, Steps, Ups
  <2>7. (Underway /\ Alone /\ MovesItsKey /\ ShowsItsKey)'
    <3>1. (Underway /\ Alone)'
      BY <1>1, <1>3, <2>1, <2>2, <2>5, RunningAreRotations DEF Underway, Alone
    <3>2. (MovesItsKey /\ ShowsItsKey)'
      BY <1>1, <1>3, <2>1, <2>2, RunningAreRotations DEF MovesItsKey, ShowsItsKey, Disturbed
    <3> QED BY <3>1, <3>2
  <2>8. (AnnouncedWasStored /\ AnnouncementVerifies)'
    BY <1>1, <1>2, <1>3, <2>3, <2>5 DEF AnnouncedWasStored, AnnouncementVerifies, MovesItsKey,
                                       ShowsItsKey, Disturbed
  <2>9. Orderly'
    <3> SUFFICES ASSUME upset = {} PROVE (FileIsLast /\ RetiresLast /\ Linked /\ Serves /\ Loadable)'
      BY <1>3 DEF Orderly
    <3>1. ~ Disturbed /\ \A s \in Running : s = r
      BY <1>2, WhenOrderly
    <3>2. FileIsLast'
      BY <1>1, <1>2, <2>1, <2>2, <2>3, <2>5, RunningAreRotations DEF Orderly, FileIsLast
    <3>3. RetiresLast'
      BY <1>1, <2>1, <2>2, <3>1 DEF RetiresLast, Running, Steps
    <3>4. Linked'
      <4>1. ASSUME NEW i \in DOMAIN chain', i > 1
            PROVE  chain'[i].old = chain'[i - 1].new
        <5>1. CASE i \in DOMAIN chain /\ chain'[i] = chain[i]
          BY <2>5, <4>1, <5>1 DEF Orderly, Linked
        <5>2. CASE i = Len(chain) + 1 /\ chain'[i] = a
          <6>1. i - 1 \in DOMAIN chain /\ chain'[i - 1] = chain[i - 1]
            BY <2>5, <4>1
          <6>2. chain # <<>> /\ chain[i - 1] = Last
            BY <5>2, <6>1 DEF TypeOK, Last
          <6> QED BY <1>1, <2>3, <5>2, <6>1, <6>2 DEF Orderly, RetiresLast
        <5> QED BY <2>5, <4>1, <5>1, <5>2
      <4> QED BY <4>1 DEF Linked
    <3>5. Serves'
      BY <1>1, <2>1, <2>2, RunningAreRotations DEF Orderly, Serves
    <3>6. Loadable'
      BY <1>1, <1>2, <2>3, <2>5, <3>1 DEF Orderly, Loadable, RetiresLast, ShowsItsKey
    <3> QED BY <3>2, <3>3, <3>4, <3>5, <3>6
  <2> QED BY <2>6, <2>7, <2>8, <2>9
<1>4. CASE Goes(r, "failed") /\ upset' = upset \cup {"unannounced"} /\ UNCHANGED db
  <2>1. /\ rot'[r].pc = "failed"
        /\ \A s \in Rotations : /\ rot'[s].at = rot[s].at /\ rot'[s].from = rot[s].from
                                /\ rot'[s].shown = rot[s].shown /\ rot'[s].new = rot[s].new
                                /\ s # r => rot'[s].pc = rot[s].pc
    BY <1>4, GoesOn DEF Steps
  <2>2. Running' \subseteq Running /\ Replaced' \subseteq Replaced /\ Ups' = Ups
    BY <1>1, <2>1 DEF Running, Replaced, Steps, Ups
  <2>3. TypeOK'
    BY <1>1, <1>4, GoesOn DEF TypeOK, Steps, Ups, Upsets, db
  <2>4. Disturbed' <=> Disturbed
    BY <1>4 DEF Disturbed
  <2>5. (Underway /\ Alone /\ MovesItsKey)'
    BY <1>1, <1>4, <2>1, <2>2, <2>4, RunningAreRotations DEF Underway, Alone, MovesItsKey, db
  <2>6. (ShowsItsKey /\ AnnouncedWasStored /\ AnnouncementVerifies)'
    BY <1>1, <1>4, <2>1, <2>2, <2>4, RunningAreRotations
       DEF ShowsItsKey, AnnouncedWasStored, AnnouncementVerifies, Disturbed, db
  <2>7. Orderly'
    BY <1>4 DEF Orderly
  <2> QED BY <2>3, <2>5, <2>6, <2>7
<1> QED BY <1>3, <1>4 DEF Announces

\* The two assignments at the end
LEMMA SwitchesKeeps ==
  ASSUME IdentityInv, NEW r \in Rotations, Switches(r)
  PROVE  IdentityInv'
<1> USE DEF IdentityInv, Basic
<1> DEFINE p == rot[r].at
<1>1. /\ rot[r].pc = "switch" /\ Goes(r, "show")
      /\ priv' = [priv EXCEPT ![p] = rot[r].new]
      /\ UNCHANGED <<boot, made, pub, identity, tmp, old, chain, grace, minted, behind, written, upset>>
  BY DEF Switches, Signs, disk, db, history
<1>2. /\ rot'[r].pc = "show"
      /\ \A s \in Rotations : /\ rot'[s].at = rot[s].at /\ rot'[s].from = rot[s].from
                              /\ rot'[s].shown = rot[s].shown /\ rot'[s].new = rot[s].new
                              /\ s # r => rot'[s].pc = rot[s].pc
  BY <1>1, GoesOn DEF Steps
<1>3. r \in Replaced /\ Running' = Running /\ Replaced' = Replaced /\ Ups' = Ups
  BY <1>1, <1>2 DEF Running, Replaced, Steps, Ups
<1>4. p \in Ups /\ p \in Procs /\ rot[r].new \in Keys
  BY <1>3, RunningAreRotations DEF Underway
<1> HIDE DEF p
<1>5. /\ priv' \in [Procs -> AnyKey \cup {None}] /\ priv'[p] = rot[r].new
      /\ \A q \in Procs : q # p => priv'[q] = priv[q]
  BY <1>1, <1>4, KeysAreKeys DEF TypeOK
<1>6. TypeOK'
  <2>1. \A q \in Ups : priv'[q] \in AnyKey /\ pub[q] \in AnyKey
    BY <1>4, <1>5, KeysAreKeys, RunningAreRotations DEF TypeOK
  <2> QED BY <1>1, <1>3, <1>5, <2>1, GoesOn DEF TypeOK, Steps
<1>7. (Underway /\ Alone /\ MovesItsKey)'
  BY <1>1, <1>2, <1>3, RunningAreRotations DEF Underway, Alone, MovesItsKey, Disturbed
<1>8. ShowsItsKey'
  <2>1. Disturbed' <=> Disturbed
    BY <1>1 DEF Disturbed
  <2>2. \A s \in Running' : rot'[s].from = rot'[s].shown \/ Disturbed
    BY <1>2, <1>3, RunningAreRotations DEF ShowsItsKey
  <2>3. rot'[r].at = p
    BY <1>2 DEF p
  <2>4. ASSUME NEW q \in Ups
        PROVE  \/ priv'[q] = pub'[q] \/ Disturbed
               \/ \E s \in Rotations : rot'[s].pc = "show" /\ rot'[s].at = q
    BY <1>1, <1>2, <1>5, <2>3, RunningAreRotations DEF ShowsItsKey
  <2>5. ASSUME NEW s \in Rotations, rot'[s].pc = "show"
        PROVE  priv'[rot'[s].at] = rot'[s].new \/ Disturbed
    <3>1. CASE s = r
      BY <1>2, <1>5, <2>3, <3>1
    <3>2. CASE s # r
      BY <1>2, <1>3, <2>5, <3>2, RunningAreRotations DEF Alone, Running, Steps, Disturbed
    <3> QED BY <3>1, <3>2
  <2> QED BY <1>3, <2>1, <2>2, <2>4, <2>5 DEF ShowsItsKey
<1>9. (AnnouncedWasStored /\ AnnouncementVerifies)'
  BY <1>1 DEF AnnouncedWasStored, AnnouncementVerifies
<1>10. Orderly'
  <2> SUFFICES ASSUME upset = {} PROVE (FileIsLast /\ RetiresLast /\ Linked /\ Serves /\ Loadable)'
    BY <1>1 DEF Orderly
  <2>1. FileIsLast'
    BY <1>1, <1>2, <1>3, RunningAreRotations DEF Orderly, FileIsLast, Last
  <2>2. (RetiresLast /\ Linked /\ Loadable)'
    BY <1>1, <1>2 DEF Orderly, RetiresLast, Linked, Loadable, Last
  <2>3. Serves'
    <3>1. ASSUME NEW q \in Ups \ behind, \A s \in Replaced : rot'[s].at # q
          PROVE  priv'[q] = identity /\ pub[q] = identity
      <4>1. q # p
        BY <1>2, <1>3, <3>1 DEF p
      <4> QED BY <1>2, <1>5, <3>1, <4>1, RunningAreRotations DEF Orderly, Serves
    <3> QED BY <1>1, <1>3, <3>1 DEF Serves
  <2> QED BY <2>1, <2>2, <2>3
<1> QED BY <1>6, <1>7, <1>8, <1>9, <1>10

LEMMA ShowsKeeps ==
  ASSUME IdentityInv, NEW r \in Rotations, Shows(r)
  PROVE  IdentityInv'
<1> USE DEF IdentityInv, Basic
<1> DEFINE p == rot[r].at
<1>1. /\ rot[r].pc = "show" /\ Goes(r, "done")
      /\ pub' = [pub EXCEPT ![p] = rot[r].new]
      /\ UNCHANGED <<boot, made, priv, identity, tmp, old, chain, grace, minted, behind, written, upset>>
  BY DEF Shows, Shown, disk, db, history
<1>2. /\ rot'[r].pc = "done"
      /\ \A s \in Rotations : /\ rot'[s].at = rot[s].at /\ rot'[s].from = rot[s].from
                              /\ rot'[s].shown = rot[s].shown /\ rot'[s].new = rot[s].new
                              /\ s # r => rot'[s].pc = rot[s].pc
  BY <1>1, GoesOn DEF Steps
<1>3. /\ r \in Replaced /\ Ups' = Ups
      /\ Running' = Running \ {r} /\ Replaced' = Replaced \ {r}
  BY <1>1, <1>2 DEF Running, Replaced, Steps, Ups
<1>4. p \in Ups /\ p \in Procs /\ rot[r].new \in Keys
  BY <1>3, RunningAreRotations DEF Underway
<1> HIDE DEF p
<1>5. /\ pub' \in [Procs -> AnyKey \cup {None}] /\ pub'[p] = rot[r].new
      /\ \A q \in Procs : q # p => pub'[q] = pub[q]
  BY <1>1, <1>4, KeysAreKeys DEF TypeOK
<1>6. TypeOK'
  <2>1. \A q \in Ups : priv[q] \in AnyKey /\ pub'[q] \in AnyKey
    BY <1>4, <1>5, KeysAreKeys, RunningAreRotations DEF TypeOK
  <2> QED BY <1>1, <1>3, <1>5, <2>1, GoesOn DEF TypeOK, Steps
<1>7. (Underway /\ Alone /\ MovesItsKey)'
  BY <1>1, <1>2, <1>3, RunningAreRotations DEF Underway, Alone, MovesItsKey, Disturbed
<1>8. priv[p] = rot[r].new \/ Disturbed
  BY <1>1 DEF ShowsItsKey, p
<1>9. ShowsItsKey'
  <2>1. Disturbed' <=> Disturbed
    BY <1>1 DEF Disturbed
  <2>2. \A s \in Running' : rot'[s].from = rot'[s].shown \/ Disturbed
    BY <1>2, <1>3, RunningAreRotations DEF ShowsItsKey
  <2>3. ASSUME NEW q \in Ups
        PROVE  \/ priv[q] = pub'[q] \/ Disturbed
               \/ \E s \in Rotations : rot'[s].pc = "show" /\ rot'[s].at = q
    <3>1. CASE q = p
      BY <1>5, <1>8, <3>1
    <3>2. CASE q # p
      BY <1>2, <1>5, <3>2, RunningAreRotations DEF ShowsItsKey, p
    <3> QED BY <3>1, <3>2
  <2>4. \A s \in Rotations : rot'[s].pc = "show" => priv[rot'[s].at] = rot'[s].new \/ Disturbed
    BY <1>2 DEF ShowsItsKey
  <2> QED BY <1>1, <1>3, <2>1, <2>2, <2>3, <2>4 DEF ShowsItsKey
<1>10. (AnnouncedWasStored /\ AnnouncementVerifies)'
  BY <1>1 DEF AnnouncedWasStored, AnnouncementVerifies
<1>11. Orderly'
  <2> SUFFICES ASSUME upset = {} PROVE (FileIsLast /\ RetiresLast /\ Linked /\ Serves /\ Loadable)'
    BY <1>1 DEF Orderly
  <2>1. FileIsLast'
    BY <1>1, <1>2, <1>3, RunningAreRotations DEF Orderly, FileIsLast, Last
  <2>2. (RetiresLast /\ Linked /\ Loadable)'
    BY <1>1, <1>2 DEF Orderly, RetiresLast, Linked, Loadable, Last
  <2>3. Serves'
    <3>1. \A s \in Running : s = r
      BY <1>3, RunningAreRotations, WhenOrderly
    <3>2. ~ Disturbed /\ identity = rot[r].new
      BY <1>3, WhenOrderly DEF Orderly, FileIsLast
    <3>3. ASSUME NEW q \in Ups \ behind
          PROVE  priv[q] = identity /\ pub'[q] = identity
      <4>1. CASE q = p
        BY <1>5, <1>8, <3>2, <4>1
      <4>2. CASE q # p
        BY <1>5, <3>1, <4>2, RunningAreRotations DEF Orderly, Serves, p
      <4> QED BY <4>1, <4>2
    <3> QED BY <1>1, <1>3, <3>3 DEF Serves
  <2> QED BY <2>1, <2>2, <2>3
<1> QED BY <1>6, <1>7, <1>9, <1>10, <1>11

\* A request that begins alone reads the key announced last.
LEMMA RotationBeginsKeeps ==
  ASSUME IdentityInv, NEW r \in Rotations, NEW p \in Procs, RotationBegins(r, p)
  PROVE  IdentityInv'
<1> USE DEF IdentityInv, Basic
<1> DEFINE k == minted + 1
           new == [pc |-> "save", at |-> p, from |-> priv[p], shown |-> pub[p], new |-> k]
<1>1. /\ rot[r].pc = "new" /\ p \in Ups /\ minted < MaxKeys
      /\ minted' = k /\ rot' = [rot EXCEPT ![r] = new]
      /\ upset' = IF Running # {} \/ p \in behind THEN upset \cup {"forked"} ELSE upset
      /\ UNCHANGED <<boot, made, priv, pub, identity, tmp, old, chain, grace, behind, written>>
  BY DEF RotationBegins, memory, disk, db, Ups
<1>2. k \in Keys /\ k \in 0 .. MaxKeys /\ priv[p] \in AnyKey /\ pub[p] \in AnyKey
  BY <1>1, NewKey DEF TypeOK
<1>3. /\ new.pc = "save" /\ new.at = p /\ new.from = priv[p] /\ new.shown = pub[p] /\ new.new = k
      /\ new \in [pc : Steps \cup {"new", "done", "failed"}, at : Procs \cup {None},
                  from : AnyKey \cup {None}, shown : AnyKey \cup {None}, new : Keys \cup {None}]
  BY <1>2 DEF Steps
<1> HIDE DEF k, new
<1>4. rot'[r] = new /\ \A s \in Rotations : s # r => rot'[s] = rot[s]
  BY <1>1 DEF TypeOK
<1>5. /\ Running' = Running \cup {r} /\ r \notin Running /\ Replaced' = Replaced /\ Ups' = Ups
  BY <1>1, <1>3, <1>4 DEF Running, Replaced, Steps, Ups
<1>6. TypeOK'
  <2>1. rot' \in [Rotations -> [pc : Steps \cup {"new", "done", "failed"}, at : Procs \cup {None},
                                from : AnyKey \cup {None}, shown : AnyKey \cup {None},
                                new : Keys \cup {None}]]
    BY <1>1, <1>3 DEF TypeOK
  <2>2. upset' \subseteq Upsets
    BY <1>1 DEF TypeOK, Upsets
  <2> QED BY <1>1, <1>2, <1>5, <2>1, <2>2 DEF TypeOK
<1>7. Disturbed => Disturbed'
  BY <1>1 DEF Disturbed
<1>8. (Underway /\ Alone)'
  <2>1. Underway'
    BY <1>1, <1>2, <1>3, <1>4, <1>5, RunningAreRotations DEF Underway
  <2>2. Running # {} => "forked" \in upset'
    BY <1>1
  <2>3. upset \subseteq upset'
    BY <1>1
  <2>4. Alone'
    BY <1>5, <2>2, <2>3 DEF Alone
  <2> QED BY <2>1, <2>4
<1>9. MovesItsKey'
  <2>1. r \notin Replaced
    BY <1>5, RunningAreRotations
  <2> QED BY <1>1, <1>3, <1>4, <1>5, <1>7, <2>1, RunningAreRotations DEF MovesItsKey
<1>10. ShowsItsKey'
  <2>1. priv[p] = pub[p] \/ Disturbed'
    <3>1. (\E s \in Rotations : rot[s].pc = "show") => Running # {}
      BY DEF Running, Steps
    <3>2. Running # {} => Disturbed'
      BY <1>1 DEF Disturbed
    <3> QED BY <1>1, <1>7, <3>1, <3>2 DEF ShowsItsKey
  <2>2. \A s \in Running' : rot'[s].from = rot'[s].shown \/ Disturbed'
    BY <1>3, <1>4, <1>5, <1>7, <2>1, RunningAreRotations DEF ShowsItsKey
  <2>3. \A s \in Rotations : rot[s].pc = "show" => s # r
    BY <1>1
  <2>4. \A q \in Ups : \/ priv[q] = pub[q] \/ Disturbed'
                       \/ \E s \in Rotations : rot'[s].pc = "show" /\ rot'[s].at = q
    BY <1>4, <1>7, <2>3 DEF ShowsItsKey
  <2>5. \A s \in Rotations : rot'[s].pc = "show" => priv[rot'[s].at] = rot'[s].new \/ Disturbed'
    BY <1>3, <1>4, <1>7 DEF ShowsItsKey
  <2> QED BY <1>1, <1>5, <2>2, <2>4, <2>5 DEF ShowsItsKey
<1>11. (AnnouncedWasStored /\ AnnouncementVerifies)'
  BY <1>1, <1>7 DEF AnnouncedWasStored, AnnouncementVerifies, Disturbed
<1>12. Orderly'
  <2> SUFFICES ASSUME upset' = {} PROVE (FileIsLast /\ RetiresLast /\ Linked /\ Serves /\ Loadable)'
    BY DEF Orderly
  <2>1. upset = {} /\ Running = {} /\ p \notin behind
    BY <1>1
  <2>2. \A s \in Rotations : s # r => rot'[s].pc \notin Steps
    BY <1>4, <2>1 DEF Running
  <2>3. priv[p] = identity /\ pub[p] = identity
    BY <1>1, <2>1, RunningAreRotations DEF Orderly, Serves
  <2>4. chain # <<>> => identity = Last.new
    BY <2>1 DEF Orderly, FileIsLast, Running, Steps
  <2>5. FileIsLast'
    BY <1>1, <1>5, <2>1, <2>4, RunningAreRotations DEF FileIsLast, Last
  <2>6. RetiresLast'
    BY <1>1, <1>3, <1>4, <2>2, <2>3, <2>4 DEF RetiresLast, Last, Steps
  <2>7. (Linked /\ Serves)'
    BY <1>1, <1>5, <2>1, RunningAreRotations DEF Orderly, Linked, Serves
  <2>8. Loadable'
    <3> SUFFICES ASSUME grace = "open" PROVE Loadable'
      BY <1>1 DEF Loadable
    <3>1. chain # <<>>
      BY DEF Underway
    <3>2. rot[r].from = None /\ Last.new # None
      BY <1>1, <3>1, LastIsKey, KeysAreKeys DEF Underway
    <3>3. \A s \in Rotations : rot[s].from = Last.new => rot'[s].from = Last.new
      BY <1>4, <3>2
    <3> QED BY <1>1, <2>1, <3>3 DEF Orderly, Loadable, Last
  <2> QED BY <2>5, <2>6, <2>7, <2>8
<1> QED BY <1>6, <1>8, <1>9, <1>10, <1>11, <1>12

-----------------------------------------------------------------------------
(* Processes that start *)

LEMMA GraceEndsKeeps ==
  ASSUME IdentityInv, GraceEnds
  PROVE  IdentityInv'
<1> USE DEF IdentityInv, Basic
<1>1. /\ grace = "open" /\ grace' = "over"
      /\ UNCHANGED <<boot, made, priv, pub, identity, tmp, old, rot, chain, minted, behind, written, upset>>
  BY DEF GraceEnds, memory, disk, history
<1>2. (TypeOK /\ Underway)'
  BY <1>1 DEF TypeOK, Underway, Running, Ups
<1>3. (Alone /\ MovesItsKey /\ ShowsItsKey /\ AnnouncedWasStored /\ AnnouncementVerifies)'
  BY <1>1 DEF Alone, MovesItsKey, ShowsItsKey, AnnouncedWasStored, AnnouncementVerifies,
              Disturbed, Running, Replaced, Ups
<1>4. Orderly'
  BY <1>1 DEF Orderly, FileIsLast, RetiresLast, Linked, Serves, Loadable, Last, Running, Replaced, Ups
<1> QED BY <1>2, <1>3, <1>4

\* Whatever is in the key file and in memory of processes that are not up, the
\* basic facts hold on.
LEMMA BasicFrame ==
  ASSUME Basic, UNCHANGED <<rot, tmp, chain, grace>>,
         Ups \subseteq Ups', upset \subseteq upset', written \subseteq written',
         \A p \in Ups : priv'[p] = priv[p] /\ pub'[p] = pub[p],
         \A p \in Ups' \ Ups : priv'[p] = pub'[p],
         \A p \in Procs : boot'[p] \in {"looked", "writing"} => made'[p] \in Keys
  PROVE  (Underway /\ Alone /\ MovesItsKey /\ ShowsItsKey /\ AnnouncedWasStored /\ AnnouncementVerifies)'
<1> USE DEF Basic
<1>1. Running' = Running /\ Replaced' = Replaced
  BY DEF Running, Replaced
<1>2. Disturbed => Disturbed'
  BY DEF Disturbed
<1>3. (Underway /\ Alone)'
  BY <1>1 DEF Underway, Alone
<1>4. MovesItsKey'
  BY <1>1, <1>2 DEF MovesItsKey
<1>5. ShowsItsKey'
  <2>1. \A r \in Rotations : rot[r].pc = "show" => rot[r].at \in Ups
    BY DEF Underway, Running, Steps
  <2> QED BY <1>1, <1>2, <2>1 DEF ShowsItsKey
<1>6. (AnnouncedWasStored /\ AnnouncementVerifies)'
  BY DEF AnnouncedWasStored, AnnouncementVerifies
<1> QED BY <1>3, <1>4, <1>5, <1>6

\* A process that comes up with key k
LEMMA StartedType ==
  ASSUME TypeOK, NEW p \in Procs, boot[p] # "up", NEW k \in AnyKey, NEW before \in SUBSET Upsets,
         upset \subseteq before, Started(p, k, before)
  PROVE  /\ boot' \in [Procs -> {"off", "booting", "looked", "writing", "up"}]
         /\ Ups' = Ups \cup {p} /\ p \notin Ups
         /\ priv' \in [Procs -> AnyKey \cup {None}] /\ pub' \in [Procs -> AnyKey \cup {None}]
         /\ \A q \in Ups' : priv'[q] \in AnyKey /\ pub'[q] \in AnyKey
         /\ \A q \in Ups : priv'[q] = priv[q] /\ pub'[q] = pub[q]
         /\ priv'[p] = k /\ pub'[p] = k
         /\ old' \in Files /\ upset \subseteq upset' /\ upset' \subseteq Upsets
         /\ \A q \in Procs : boot'[q] \in {"looked", "writing"} => boot[q] = boot'[q] /\ q # p
         /\ upset' = {} => before = {} /\ (old' = old \/ (grace = "over" /\ Running = {}))
BY DEF TypeOK, Started, StaleOld, Ups, Files, Upsets

LEMMA BootLoadsKeeps ==
  ASSUME IdentityInv, NEW p \in Procs, BootLoads(p)
  PROVE  IdentityInv'
<1> USE DEF IdentityInv, Basic
<1>1. /\ boot[p] # "up" /\ identity \in AnyKey /\ Started(p, identity, upset)
      /\ UNCHANGED <<made, identity, tmp, rot, chain, grace, minted, behind, written>>
  BY DEF BootLoads, HasKey, db
<1>2. upset \in SUBSET Upsets
  BY DEF TypeOK
<1>3. /\ boot' \in [Procs -> {"off", "booting", "looked", "writing", "up"}]
      /\ Ups' = Ups \cup {p} /\ p \notin Ups
      /\ priv' \in [Procs -> AnyKey \cup {None}] /\ pub' \in [Procs -> AnyKey \cup {None}]
      /\ \A q \in Ups' : priv'[q] \in AnyKey /\ pub'[q] \in AnyKey
      /\ \A q \in Ups : priv'[q] = priv[q] /\ pub'[q] = pub[q]
      /\ priv'[p] = identity /\ pub'[p] = identity
      /\ old' \in Files /\ upset \subseteq upset' /\ upset' \subseteq Upsets
      /\ \A q \in Procs : boot'[q] \in {"looked", "writing"} => boot[q] = boot'[q] /\ q # p
      /\ upset' = {} => old' = old \/ (grace = "over" /\ Running = {})
  BY <1>1, <1>2, StartedType
<1>4. TypeOK'
  BY <1>1, <1>3 DEF TypeOK
<1>5. (Underway /\ Alone /\ MovesItsKey /\ ShowsItsKey /\ AnnouncedWasStored /\ AnnouncementVerifies)'
  <2>1. \A q \in Procs : boot'[q] \in {"looked", "writing"} => made'[q] \in Keys
    BY <1>1, <1>3 DEF Underway
  <2> QED BY <1>1, <1>3, <2>1, BasicFrame
<1>6. Orderly'
  <2> SUFFICES ASSUME upset' = {} PROVE (FileIsLast /\ RetiresLast /\ Linked /\ Serves /\ Loadable)'
    BY DEF Orderly
  <2>1. upset = {} /\ Running' = Running /\ Replaced' = Replaced
    BY <1>1, <1>3 DEF Running, Replaced
  <2>2. (FileIsLast /\ Linked)'
    BY <1>1, <2>1 DEF Orderly, FileIsLast, Linked, Last
  <2>3. RetiresLast'
    BY <1>1, <1>3, <2>1 DEF Orderly, RetiresLast, Last, Running, Steps
  <2>4. Serves'
    BY <1>1, <1>3, <2>1 DEF Orderly, Serves
  <2>5. Loadable'
    BY <1>1, <1>3, <2>1 DEF Orderly, Loadable, Last
  <2> QED BY <2>2, <2>3, <2>4, <2>5
<1> QED BY <1>4, <1>5, <1>6

LEMMA BootMissesKeeps ==
  ASSUME IdentityInv, NEW p \in Procs, BootMisses(p)
  PROVE  IdentityInv'
<1> USE DEF IdentityInv, Basic
<1>1. /\ boot[p] = "booting" /\ minted < MaxKeys /\ minted' = minted + 1
      /\ made' = [made EXCEPT ![p] = minted + 1] /\ boot' = [boot EXCEPT ![p] = "looked"]
      /\ UNCHANGED <<priv, pub, identity, tmp, old, rot, chain, grace, behind, written, upset>>
  BY DEF BootMisses, disk, db, history
<1>2. minted' \in Keys /\ minted' \in 0 .. MaxKeys
  BY <1>1, NewKey
<1>3. Ups' = Ups
  BY <1>1 DEF Ups, TypeOK
<1>4. TypeOK'
  BY <1>1, <1>2, <1>3 DEF TypeOK
<1>5. (Underway /\ Alone /\ MovesItsKey /\ ShowsItsKey /\ AnnouncedWasStored /\ AnnouncementVerifies)'
  <2>1. \A q \in Procs : boot'[q] \in {"looked", "writing"} => made'[q] \in Keys
    BY <1>1, <1>2 DEF Underway, TypeOK
  <2> QED BY <1>1, <1>3, <2>1, BasicFrame
<1>6. Orderly'
  BY <1>1, <1>3 DEF Orderly, FileIsLast, RetiresLast, Linked, Serves, Loadable, Last, Running, Replaced
<1> QED BY <1>4, <1>5, <1>6

\* Only the first key there is may be written into the key file without
\* upsetting anything, and then nothing has been announced.
LEMMA NothingYet ==
  ASSUME Basic, Orderly, upset = {}, written = {}
  PROVE  chain = <<>> /\ grace = "none" /\ Replaced = {} /\ old \in Files
BY WhenOrderly DEF Basic, MovesItsKey, Underway, TypeOK

LEMMA BootTruncatesKeeps ==
  ASSUME IdentityInv, NEW p \in Procs, BootTruncates(p)
  PROVE  IdentityInv'
<1> USE DEF IdentityInv, Basic
<1>1. /\ boot[p] = "looked" /\ identity' = Torn /\ boot' = [boot EXCEPT ![p] = "writing"]
      /\ upset' = FirstKeyAgain /\ behind' = behind \cup Ups
      /\ UNCHANGED <<made, priv, pub, tmp, old, rot, chain, grace, minted, written>>
  BY DEF BootTruncates, db
<1>2. Ups' = Ups
  BY <1>1 DEF Ups, TypeOK
<1>3. /\ upset \subseteq upset' /\ upset' \subseteq Upsets
      /\ upset' = {} => upset = {} /\ written = {}
  BY <1>1 DEF FirstKeyAgain, TypeOK, Upsets
<1>4. TypeOK'
  BY <1>1, <1>2, <1>3, RunningAreRotations DEF TypeOK, Files
<1>5. (Underway /\ Alone /\ MovesItsKey /\ ShowsItsKey /\ AnnouncedWasStored /\ AnnouncementVerifies)'
  <2>1. \A q \in Procs : boot'[q] \in {"looked", "writing"} => made'[q] \in Keys
    BY <1>1 DEF Underway, TypeOK
  <2> QED BY <1>1, <1>2, <1>3, <2>1, BasicFrame
<1>6. Orderly'
  <2> SUFFICES ASSUME upset' = {} PROVE (FileIsLast /\ RetiresLast /\ Linked /\ Serves /\ Loadable)'
    BY DEF Orderly
  <2>1. upset = {} /\ chain = <<>> /\ grace = "none" /\ Replaced = {}
    BY <1>3, NothingYet
  <2> QED BY <1>1, <1>2, <2>1 DEF Orderly, FileIsLast, RetiresLast, Linked, Serves, Loadable, Replaced, Running
<1> QED BY <1>4, <1>5, <1>6

LEMMA BootWritesKeeps ==
  ASSUME IdentityInv, NEW p \in Procs, BootWrites(p)
  PROVE  IdentityInv'
<1> USE DEF IdentityInv, Basic
<1> DEFINE k == made[p]
<1>1. /\ boot[p] = "writing" /\ identity' = k
      /\ written' = written \cup {k} /\ behind' = behind \cup (Ups \ {p})
      /\ made' = [made EXCEPT ![p] = None] /\ Started(p, k, FirstKeyAgain)
      /\ UNCHANGED <<tmp, rot, chain, grace, minted>>
  BY DEF BootWrites, Recorded, db
<1>2. k \in Keys /\ k \in AnyKey
  BY <1>1, KeysAreKeys DEF Underway
<1> HIDE DEF k
<1>3. /\ upset \subseteq FirstKeyAgain /\ FirstKeyAgain \in SUBSET Upsets
      /\ FirstKeyAgain = {} => upset = {} /\ written = {}
  BY DEF FirstKeyAgain, TypeOK, Upsets
<1>4. /\ boot' \in [Procs -> {"off", "booting", "looked", "writing", "up"}]
      /\ Ups' = Ups \cup {p} /\ p \notin Ups
      /\ priv' \in [Procs -> AnyKey \cup {None}] /\ pub' \in [Procs -> AnyKey \cup {None}]
      /\ \A q \in Ups' : priv'[q] \in AnyKey /\ pub'[q] \in AnyKey
      /\ \A q \in Ups : priv'[q] = priv[q] /\ pub'[q] = pub[q]
      /\ priv'[p] = k /\ pub'[p] = k
      /\ old' \in Files /\ upset \subseteq upset' /\ upset' \subseteq Upsets
      /\ \A q \in Procs : boot'[q] \in {"looked", "writing"} => boot[q] = boot'[q] /\ q # p
      /\ upset' = {} => FirstKeyAgain = {} /\ (old' = old \/ (grace = "over" /\ Running = {}))
  BY <1>1, <1>2, <1>3, StartedType
<1>5. TypeOK'
  BY <1>1, <1>2, <1>4, RunningAreRotations DEF TypeOK, Files
<1>6. (Underway /\ Alone /\ MovesItsKey /\ ShowsItsKey /\ AnnouncedWasStored /\ AnnouncementVerifies)'
  <2>1. \A q \in Procs : boot'[q] \in {"looked", "writing"} => made'[q] \in Keys
    BY <1>1, <1>4 DEF Underway, TypeOK
  <2> QED BY <1>1, <1>4, <2>1, BasicFrame
<1>7. Orderly'
  <2> SUFFICES ASSUME upset' = {} PROVE (FileIsLast /\ RetiresLast /\ Linked /\ Serves /\ Loadable)'
    BY DEF Orderly
  <2>1. /\ upset = {} /\ chain = <<>> /\ grace = "none" /\ Replaced = {} /\ old' = old
    BY <1>3, <1>4, NothingYet
  <2>2. (FileIsLast /\ RetiresLast /\ Linked /\ Loadable)'
    BY <1>1, <2>1 DEF Orderly, FileIsLast, RetiresLast, Linked, Loadable, Replaced, Running
  <2>3. Serves'
    BY <1>1, <1>4 DEF Serves
  <2> QED BY <2>2, <2>3
<1> QED BY <1>5, <1>6, <1>7

LEMMA GenerateKeeps ==
  ASSUME IdentityInv, Generate
  PROVE  IdentityInv'
<1> USE DEF IdentityInv, Basic
<1>1. /\ minted < MaxKeys /\ minted' = minted + 1 /\ identity' = minted + 1
      /\ written' = written \cup {minted + 1} /\ behind' = behind \cup (Ups \ {})
      /\ upset' = IF written = {} THEN upset ELSE upset \cup {"replaced"}
      /\ UNCHANGED <<boot, made, priv, pub, tmp, old, rot, chain, grace>>
  BY DEF Generate, Recorded, memory, db
<1>2. minted + 1 \in Keys /\ minted + 1 \in AnyKey /\ minted' \in 0 .. MaxKeys
  BY <1>1, NewKey, KeysAreKeys
<1>3. Ups' = Ups
  BY <1>1 DEF Ups
<1>4. TypeOK'
  BY <1>1, <1>2, <1>3, RunningAreRotations DEF TypeOK, Files, Upsets
<1>5. (Underway /\ Alone /\ MovesItsKey /\ ShowsItsKey /\ AnnouncedWasStored /\ AnnouncementVerifies)'
  <2>1. \A q \in Procs : boot'[q] \in {"looked", "writing"} => made'[q] \in Keys
    BY <1>1 DEF Underway
  <2> QED BY <1>1, <1>3, <2>1, BasicFrame
<1>6. Orderly'
  <2> SUFFICES ASSUME upset' = {} PROVE (FileIsLast /\ RetiresLast /\ Linked /\ Serves /\ Loadable)'
    BY DEF Orderly
  <2>1. upset = {} /\ chain = <<>> /\ grace = "none" /\ Replaced = {}
    BY <1>1, NothingYet
  <2> QED BY <1>1, <1>3, <2>1 DEF Orderly, FileIsLast, RetiresLast, Linked, Serves, Loadable, Replaced, Running
<1> QED BY <1>4, <1>5, <1>6

LEMMA LaunchKeeps ==
  ASSUME IdentityInv, Launch
  PROVE  IdentityInv'
<1> USE DEF IdentityInv, Basic
<1>1. /\ Ups = {} /\ boot' = [p \in Procs |-> "booting"]
      /\ UNCHANGED <<made, priv, pub, identity, tmp, old, rot, chain, grace, minted, behind, written, upset>>
  BY DEF Launch, Ups, disk, db, history
<1>2. Ups' = {}
  BY <1>1 DEF Ups
<1>3. TypeOK'
  BY <1>1, <1>2 DEF TypeOK
<1>4. (Underway /\ Alone /\ MovesItsKey /\ ShowsItsKey /\ AnnouncedWasStored /\ AnnouncementVerifies)'
  BY <1>1, <1>2, BasicFrame
<1>5. Orderly'
  BY <1>1, <1>2 DEF Orderly, FileIsLast, RetiresLast, Linked, Serves, Loadable, Last, Replaced, Running
<1> QED BY <1>3, <1>4, <1>5

\* The processes ps go down, and the rotations that run in them are cut.
LEMMA DownKeeps ==
  ASSUME IdentityInv, NEW ps \in SUBSET Procs, Down(ps)
  PROVE  IdentityInv'
<1> USE DEF IdentityInv, Basic
<1> DEFINE cut == {r \in Running : rot[r].at \in ps}
<1>1. /\ boot' = [p \in Procs |-> IF p \in ps THEN "off" ELSE boot[p]]
      /\ made' = [p \in Procs |-> IF p \in ps THEN None ELSE made[p]]
      /\ priv' = [p \in Procs |-> IF p \in ps THEN None ELSE priv[p]]
      /\ pub' = [p \in Procs |-> IF p \in ps THEN None ELSE pub[p]]
      /\ rot' = [r \in Rotations |-> IF r \in cut THEN [rot[r] EXCEPT !.pc = "failed"] ELSE rot[r]]
      /\ old' = old \/ old' = Torn
      /\ upset' = upset \cup (IF \E r \in cut : rot[r].pc = "announce" THEN {"unannounced"} ELSE {})
                        \cup (IF old' = Torn THEN {"torn"} ELSE {})
      /\ behind' = behind \ ps
      /\ UNCHANGED <<identity, tmp, chain, grace, minted, written>>
  BY DEF Down, db
<1>2. cut \subseteq Running /\ \A r \in Running : r \in cut <=> rot[r].at \in ps
  OBVIOUS
<1> HIDE DEF cut
<1>3. /\ rot' \in [Rotations -> [pc : Steps \cup {"new", "done", "failed"}, at : Procs \cup {None},
                                 from : AnyKey \cup {None}, shown : AnyKey \cup {None},
                                 new : Keys \cup {None}]]
      /\ \A r \in Rotations : /\ rot'[r].at = rot[r].at /\ rot'[r].from = rot[r].from
                              /\ rot'[r].shown = rot[r].shown /\ rot'[r].new = rot[r].new
                              /\ rot'[r].pc = IF r \in cut THEN "failed" ELSE rot[r].pc
  <2>1. \A r \in Rotations : rot[r] \in [pc : Steps \cup {"new", "done", "failed"}, at : Procs \cup {None},
                                         from : AnyKey \cup {None}, shown : AnyKey \cup {None},
                                         new : Keys \cup {None}]
    BY DEF TypeOK
  <2> QED BY <1>1, <2>1
<1>4. Running' = Running \ cut /\ Replaced' = Replaced \ cut /\ Ups' = Ups \ ps
  BY <1>1, <1>3 DEF Running, Replaced, Steps, Ups
<1>5. \A p \in Ups' : priv'[p] = priv[p] /\ pub'[p] = pub[p]
  BY <1>1, <1>4, RunningAreRotations
<1>6. upset \subseteq upset' /\ (Disturbed' <=> Disturbed)
  BY <1>1 DEF Disturbed
<1>7. TypeOK'
  <2>1. /\ boot' \in [Procs -> {"off", "booting", "looked", "writing", "up"}]
        /\ made' \in [Procs -> Keys \cup {None}]
        /\ priv' \in [Procs -> AnyKey \cup {None}] /\ pub' \in [Procs -> AnyKey \cup {None}]
    BY <1>1 DEF TypeOK
  <2>2. \A p \in Ups' : priv'[p] \in AnyKey /\ pub'[p] \in AnyKey
    BY <1>4, <1>5 DEF TypeOK
  <2>3. old' \in Files /\ upset' \subseteq Upsets /\ behind' \subseteq Procs
    BY <1>1 DEF TypeOK, Files, Upsets
  <2> QED BY <1>1, <1>3, <2>1, <2>2, <2>3 DEF TypeOK
<1>8. (Underway /\ Alone)'
  <2>1. \A r \in Running' : rot[r].at \in Ups'
    BY <1>2, <1>4 DEF Underway
  <2>2. \A p \in Procs : boot'[p] \in {"looked", "writing"} => made'[p] \in Keys
    BY <1>1 DEF Underway
  <2>3. Underway'
    BY <1>1, <1>3, <1>4, <2>1, <2>2, RunningAreRotations DEF Underway
  <2>4. Alone'
    BY <1>4, <1>6 DEF Alone
  <2> QED BY <2>3, <2>4
<1>9. MovesItsKey'
  BY <1>1, <1>3, <1>4, <1>6, RunningAreRotations DEF MovesItsKey
<1>10. ShowsItsKey'
  <2>1. \A r \in Running' : rot'[r].from = rot'[r].shown \/ Disturbed'
    BY <1>3, <1>4, <1>6, RunningAreRotations DEF ShowsItsKey
  <2>2. \A r \in Rotations : rot[r].pc = "show" => r \in Running
    BY DEF Running, Steps
  <2>3. \A p \in Ups' : \/ priv'[p] = pub'[p] \/ Disturbed'
                        \/ \E r \in Rotations : rot'[r].pc = "show" /\ rot'[r].at = p
    BY <1>2, <1>3, <1>4, <1>5, <1>6, <2>2 DEF ShowsItsKey
  <2>4. ASSUME NEW r \in Rotations, rot'[r].pc = "show"
        PROVE  priv'[rot'[r].at] = rot'[r].new \/ Disturbed'
    <3>1. rot[r].pc = "show" /\ r \in Running /\ r \notin cut
      BY <1>3, <2>2, <2>4
    <3>2. rot[r].at \in Ups'
      BY <1>2, <1>4, <3>1 DEF Underway
    <3> QED BY <1>3, <1>5, <1>6, <3>1, <3>2 DEF ShowsItsKey
  <2> QED BY <2>1, <2>3, <2>4 DEF ShowsItsKey
<1>11. (AnnouncedWasStored /\ AnnouncementVerifies)'
  BY <1>1, <1>6 DEF AnnouncedWasStored, AnnouncementVerifies, Disturbed
<1>12. Orderly'
  <2> SUFFICES ASSUME upset' = {} PROVE (FileIsLast /\ RetiresLast /\ Linked /\ Serves /\ Loadable)'
    BY DEF Orderly
  <2>1. upset = {} /\ old' = old /\ \A r \in cut : rot[r].pc # "announce"
    BY <1>1
  <2>2. FileIsLast'
    BY <1>1, <1>3, <1>4, <2>1, RunningAreRotations DEF Orderly, FileIsLast, Last
  <2>3. (RetiresLast /\ Linked)'
    BY <1>1, <1>3, <2>1 DEF Orderly, RetiresLast, Linked, Last
  <2>4. Serves'
    <3>1. \A r \in Replaced : rot[r].at \notin Ups' \/ r \in Replaced'
      BY <1>2, <1>4, RunningAreRotations
    <3>2. \A r \in Replaced : rot'[r].at = rot[r].at
      BY <1>3, RunningAreRotations
    <3>3. \A p \in Ups' \ behind' : p \in Ups \ behind
      BY <1>1, <1>4
    <3>4. ASSUME NEW p \in Ups' \ behind', \A r \in Replaced' : rot'[r].at # p
          PROVE  priv'[p] = identity /\ pub'[p] = identity
      <4>1. \A r \in Replaced : rot[r].at # p
        BY <1>4, <3>1, <3>2, <3>4
      <4> QED BY <1>5, <2>1, <3>3, <4>1 DEF Orderly, Serves
    <3> QED BY <1>1, <3>4 DEF Serves
  <2>5. Loadable'
    BY <1>1, <1>3, <2>1 DEF Orderly, Loadable, Last
  <2> QED BY <2>2, <2>3, <2>4, <2>5
<1> QED BY <1>7, <1>8, <1>9, <1>10, <1>11, <1>12

\* The central service's key: all but the types and who runs is given up.
LEMMA PemKeeps ==
  ASSUME IdentityInv, NEW p \in Procs, PemWrites(p) \/ PemInstalls(p)
  PROVE  IdentityInv'
<1> USE DEF IdentityInv, Basic
<1>1. /\ p \in Ups /\ upset' = FromOutside
      /\ UNCHANGED <<boot, made, old, rot, chain, grace, minted>>
  BY DEF PemWrites, PemInstalls, memory, db, Ups
<1>2. Disturbed' /\ upset' # {} /\ upset \subseteq upset' /\ upset' \subseteq Upsets
  BY <1>1 DEF FromOutside, Disturbed, TypeOK, Upsets
<1>3. Ups' = Ups /\ Running' = Running
  BY <1>1 DEF Ups, Running
<1>4. Issued \in AnyKey
  BY DEF AnyKey
<1>5. TypeOK'
  <2>1. CASE PemWrites(p)
    BY <1>1, <1>2, <1>3, <1>4, <2>1 DEF PemWrites, TypeOK, memory
  <2>2. CASE PemInstalls(p)
    <3>1. /\ tmp \in AnyKey /\ identity' = tmp /\ tmp' = None
          /\ written' = written \cup {tmp} /\ behind' = behind \cup (Ups \ {p})
          /\ priv' = [priv EXCEPT ![p] = tmp] /\ pub' = [pub EXCEPT ![p] = tmp]
      BY <2>2 DEF PemInstalls, Recorded, Installed, TypeOK
    <3>2. /\ priv' \in [Procs -> AnyKey \cup {None}] /\ pub' \in [Procs -> AnyKey \cup {None}]
          /\ \A q \in Ups : priv'[q] \in AnyKey /\ pub'[q] \in AnyKey
      BY <3>1, RunningAreRotations DEF TypeOK
    <3> QED BY <1>1, <1>2, <1>3, <3>1, <3>2, RunningAreRotations DEF TypeOK, Files
  <2> QED BY <2>1, <2>2
<1>6. (Underway /\ Alone)'
  BY <1>1, <1>2, <1>3 DEF Underway, Alone
<1>7. (MovesItsKey /\ ShowsItsKey /\ AnnouncedWasStored /\ AnnouncementVerifies)'
  BY <1>2 DEF MovesItsKey, ShowsItsKey, AnnouncedWasStored, AnnouncementVerifies, Disturbed
<1>8. Orderly'
  BY <1>2 DEF Orderly
<1> QED BY <1>5, <1>6, <1>7, <1>8

-----------------------------------------------------------------------------
(* The specification *)

LEMMA IdentityStarts ==
  ASSUME NEW rs \in SUBSET Rotations, NEW keys \in 0 .. MaxKeys, InitWith(rs, keys)
  PROVE  IdentityInv
<1>1. /\ Running = {} /\ Ups = {} /\ Replaced = {}
      /\ \A r \in Rotations : rot[r].pc \in {"new", "failed"} /\ rot[r].from = None
      /\ \A p \in Procs : boot[p] = "off"
  BY DEF InitWith, Running, Ups, Replaced, Steps, NoRotation
<1>2. TypeOK
  <2>1. rot \in [Rotations -> [pc : Steps \cup {"new", "done", "failed"}, at : Procs \cup {None},
                               from : AnyKey \cup {None}, shown : AnyKey \cup {None},
                               new : Keys \cup {None}]]
    BY DEF InitWith, NoRotation
  <2>2. minted \in 0 .. MaxKeys /\ chain \in Seq([old : AnyKey, new : Keys, by : AnyKey])
    BY KeyAssumption DEF InitWith
  <2> QED BY <1>1, <2>1, <2>2 DEF InitWith, TypeOK, Files
<1> QED BY <1>1, <1>2 DEF InitWith, IdentityInv, Basic, Underway, Alone, MovesItsKey, ShowsItsKey,
      AnnouncedWasStored, AnnouncementVerifies, Orderly, FileIsLast, RetiresLast, Linked, Serves,
      Loadable

LEMMA IdentityStep ==
  ASSUME IdentityInv, [Next]_vars
  PROVE  IdentityInv'
<1>1. CASE Generate \/ GraceEnds \/ Launch
  BY <1>1, GenerateKeeps, GraceEndsKeeps, LaunchKeeps
<1>2. CASE \E p \in Procs : Boots(p)
  BY <1>2, BootLoadsKeeps, BootMissesKeeps, BootTruncatesKeeps, BootWritesKeeps DEF Boots
<1>3. CASE \E r \in Rotations : Rotate(r) \/ \E p \in Procs : RotationBegins(r, p)
  BY <1>3, SavesOldKeeps, WritesTmpKeeps, ReplacesKeeps, AnnouncesKeeps, SwitchesKeeps, ShowsKeeps,
     RotationBeginsKeeps DEF Rotate
<1>4. CASE Stop
  <2>1. Down(Procs)
    BY <1>4 DEF Stop
  <2> QED BY <2>1, DownKeeps
<1>5. CASE \E p \in Procs : Crash(p)
  <2>1. PICK p \in Procs : Down({p})
    BY <1>5 DEF Crash
  <2> QED BY <2>1, DownKeeps
<1>6. CASE \E p \in Procs : PemWrites(p) \/ PemInstalls(p)
  BY <1>6, PemKeeps
<1>7. CASE UNCHANGED vars
  BY <1>7 DEF vars, memory, disk, db, history, IdentityInv, Basic, TypeOK, Underway, Alone,
     MovesItsKey, ShowsItsKey, AnnouncedWasStored, AnnouncementVerifies, Orderly, FileIsLast,
     RetiresLast, Linked, Serves, Loadable, Last, Running, Replaced, Ups, Disturbed
<1> QED BY <1>1, <1>2, <1>3, <1>4, <1>5, <1>6, <1>7 DEF Next, Works

LEMMA IdentityInvariant == Spec => []IdentityInv
<1>1. Init => IdentityInv
  <2>1. MaxKeys \in 0 .. MaxKeys
    BY KeyAssumption
  <2> QED BY <2>1, IdentityStarts DEF Init
<1>2. IdentityInv /\ [Next]_vars => IdentityInv'
  BY IdentityStep
<1> QED BY <1>1, <1>2, PTL DEF Spec

\* Every variable of the model of the identity key keeps its type; a process
\* that is up has a key.
THEOREM IdentityTypeCorrect == Spec => []TypeOK
<1>1. IdentityInv => TypeOK
  BY DEF IdentityInv, Basic
<1> QED BY <1>1, IdentityInvariant, PTL

\* A client can follow the announcements (_perform_identity_key_rotation): each
\* announced key was in the key file, each announcement is signed by the key it
\* retires, and each retires the key that the one before has introduced, as far
\* as no two writers of the ".tmp" file have met.
THEOREM AnnouncementsCanBeFollowed == Spec => []AnnouncementsHold
<1>1. IdentityInv => AnnouncedWasStored /\ AnnouncementVerifies
  BY DEF IdentityInv, Basic
<1>2. IdentityInv => ChainHolds
  BY DEF IdentityInv, Orderly, Linked, ChainHolds
<1>3. IdentityInv => AnnouncementsHold
  BY <1>1, <1>2 DEF AnnouncementsHold
<1> QED BY <1>3, IdentityInvariant, PTL

\* The key file holds the key announced last, which is the one that a process
\* nobody has overtaken uses, and the key retired last stays loadable through its
\* grace period.
THEOREM RotationIsOrderly == Spec => []KeysAgree
<1>1. IdentityInv => ServesKeyFile
  BY DEF IdentityInv, Orderly, Serves, ServesKeyFile
<1>2. IdentityInv => FileIsAnnounced
  <2>1. \A r \in Rotations : rot[r].pc = "announce" => r \in Replaced
    BY DEF Replaced, Running, Steps
  <2> QED BY <2>1 DEF IdentityInv, Orderly, FileIsLast, FileIsAnnounced, Last
<1>3. IdentityInv => OldKeyIsKept
  BY DEF IdentityInv, Orderly, Loadable, OldKeyIsKept, ActiveAnnouncement, Last
<1>4. IdentityInv => KeysAgree
  BY <1>1, <1>2, <1>3 DEF KeysAgree
<1> QED BY <1>4, IdentityInvariant, PTL

\* No step leaves half a key in the key file but that of a process that found
\* no key there.
THEOREM NoHalfKeyFile == Spec => KeyFileStaysWhole
<1>1. IdentityInv /\ [Next]_vars =>
        [HasKey(identity) /\ (\A p \in Procs : boot[p] # "looked") => HasKey(identity')]_vars
  <2> SUFFICES ASSUME IdentityInv, Next, HasKey(identity), \A p \in Procs : boot[p] # "looked"
               PROVE  HasKey(identity')
    OBVIOUS
  <2> USE DEF IdentityInv, Basic, HasKey
  <2>1. CASE Generate
    BY <2>1, NewKey, KeysAreKeys DEF Generate
  <2>2. CASE \E p \in Procs : BootWrites(p)
    BY <2>2, KeysAreKeys DEF BootWrites, Underway
  <2>3. CASE \E r \in Rotations : Replaces(r)
    BY <2>3 DEF Replaces, Moved, TypeOK
  <2>4. CASE \E p \in Procs : PemInstalls(p)
    BY <2>4 DEF PemInstalls, TypeOK
  <2>5. CASE UNCHANGED identity
    BY <2>5
  <2> QED BY <2>1, <2>2, <2>3, <2>4, <2>5
      DEF Next, Works, Boots, BootLoads, BootMisses, BootTruncates, Rotate, SavesOld, WritesTmp,
          Beside, Announces, Switches, Shows, RotationBegins, GraceEnds, Launch, Stop, Crash, Down,
          PemWrites, disk
<1> QED BY <1>1, IdentityInvariant, PTL DEF Spec, KeyFileStaysWhole

-----------------------------------------------------------------------------
(* The licence *)

\* Every step of the licensed system is one of the key's, or leaves it alone.
LEMMA StepOfIdentity == LicenceNext => [Next]_vars
<1> SUFFICES ASSUME LicenceNext PROVE Next \/ UNCHANGED vars
  OBVIOUS
<1>1. CASE Works \/ LicensedLaunch \/ LicensedStop \/ Reopens
  BY <1>1 DEF LicensedLaunch, Environment, LicensedStop, Reopens, Next
<1>2. CASE \E p \in Procs : LicensedCrash(p)
  BY <1>2 DEF LicensedCrash, Next
<1>3. CASE Confirmed \/ NotConfirmed \/ GivesUp
  BY <1>3 DEF Confirmed, NotConfirmed, GivesUp
<1>4. CASE \E q \in Requests : Handles(q) \/ Redeemed(q) \/ Confirm(q) \/ \E l \in Licences : Redeem(q, l)
  BY <1>4, LicensingAssumption
     DEF Handles, Begins, Redeems, Authorizes, WritesPem, InstallsPem, Bootstraps, Stores,
         Refreshes, Redeemed, Confirm, Redeem, Next
<1> QED BY <1>1, <1>2, <1>3, <1>4 DEF LicenceNext

\* What is proved of the key holds in the system that obtains licences with it.
THEOREM LicensingKeepsIdentity == LicenceSpec => Spec
<1>1. [LicenceNext]_<<vars, licence>> => [Next]_vars
  BY StepOfIdentity
<1> QED BY <1>1, PTL DEF LicenceSpec, Spec

LicenceTypes ==
  /\ fields \in Licensed /\ saved \in Licensed /\ env \in [Procs -> Licensed]
  /\ tk \in Requests \cup {None}
  /\ req \in [Requests -> [op : {None, "redeem", "authorize"},
                           pc : Working \cup {"new", "queued", "replied", "done", "failed"},
                           licence : Licences \cup {None}, token : Tokens \cup {None}]]
  /\ \A p, q \in AtWork : p = q
  /\ rows \subseteq Tokens /\ missed \subseteq rows
  /\ terms \in [Licences -> {None, "assumed", "confirmed"}]
  /\ given \in 0 .. MaxTokens /\ handed \in BOOLEAN

\* A request is for a licence.  What one that was answered obtained is stored.
Answered ==
  \A q \in Requests :
    /\ req[q].pc \in Working \cup {"queued", "replied"} => req[q].licence \in Licences
    /\ req[q].pc \in {"queued", "central", "pem", "install", "bootstrap"} => req[q].token = None
    /\ req[q].pc = "store" => req[q].token \in Tokens
    /\ req[q].pc \in {"refresh", "replied"} =>
         /\ terms[req[q].licence] # None
         /\ req[q].token # None => req[q].token \in rows

OnRecord(x) ==
  /\ x.token # None => x.token \in rows
  /\ x.licence # None => terms[x.licence] # None

Recording == OnRecord(fields) /\ OnRecord(saved) /\ \A p \in Procs : OnRecord(env[p])

LicenceInv == LicenceTypes /\ Answered /\ Recording

Request == [op : {None, "redeem", "authorize"},
            pc : Working \cup {"new", "queued", "replied", "done", "failed"},
            licence : Licences \cup {None}, token : Tokens \cup {None}]

\* One request changes, into record x.
LEMMA RequestChanges ==
  ASSUME LicenceTypes, NEW q \in Requests, NEW x \in Request, req' = [req EXCEPT ![q] = x]
  PROVE  /\ req' \in [Requests -> Request] /\ req'[q] = x
         /\ \A r \in Requests : r # q => req'[r] = req[r]
         /\ AtWork' = IF x.pc \in Working THEN AtWork \cup {q} ELSE AtWork \ {q}
<1>1. req \in [Requests -> Request]
  BY DEF LicenceTypes, Request
<1>2. /\ req' \in [Requests -> Request] /\ req'[q] = x
      /\ \A r \in Requests : r # q => req'[r] = req[r]
  BY <1>1
<1> QED BY <1>2 DEF AtWork

LEMMA RequestGoes ==
  ASSUME LicenceTypes, NEW q \in Requests,
         NEW pc \in Working \cup {"new", "queued", "replied", "done", "failed"},
         req' = [req EXCEPT ![q].pc = pc]
  PROVE  /\ req' \in [Requests -> Request]
         /\ req'[q].pc = pc /\ req'[q].op = req[q].op
         /\ req'[q].licence = req[q].licence /\ req'[q].token = req[q].token
         /\ \A r \in Requests : r # q => req'[r] = req[r]
         /\ AtWork' = IF pc \in Working THEN AtWork \cup {q} ELSE AtWork \ {q}
<1> DEFINE x == [req[q] EXCEPT !.pc = pc]
<1>1. req[q] \in Request
  BY DEF LicenceTypes, Request
<1>2. x \in Request /\ x.pc = pc /\ x.op = req[q].op /\ x.licence = req[q].licence /\ x.token = req[q].token
  BY <1>1 DEF Request
<1>3. req' = [req EXCEPT ![q] = x]
  BY DEF LicenceTypes
<1> HIDE DEF x
<1> QED BY <1>2, <1>3, RequestChanges

\* A step that moves one request without storing or using anything
LEMMA OnlyMoves ==
  ASSUME LicenceInv, NEW q \in Requests,
         NEW pc \in Working \cup {"new", "queued", "replied", "done", "failed"},
         req' = [req EXCEPT ![q].pc = pc],
         UNCHANGED <<fields, saved, env, rows, terms, given, missed>>,
         tk' \in Requests \cup {None}, handed' \in BOOLEAN,
         pc \in Working => req[q].pc \in Working \/ AtWork = {},
         \/ pc \in {"done", "failed"}
         \/ /\ pc \in {"central", "pem", "install", "bootstrap"}
            /\ req[q].pc \in {"queued", "central", "pem", "install"}
  PROVE  LicenceInv'
<1> USE DEF LicenceInv
<1>1. /\ req' \in [Requests -> Request] /\ req'[q].pc = pc
      /\ req'[q].licence = req[q].licence /\ req'[q].token = req[q].token
      /\ \A r \in Requests : r # q => req'[r] = req[r]
      /\ AtWork' = IF pc \in Working THEN AtWork \cup {q} ELSE AtWork \ {q}
  BY RequestGoes
<1>2. \A p, r \in AtWork' : p = r
  BY <1>1 DEF LicenceTypes, AtWork
<1>3. LicenceTypes'
  BY <1>1, <1>2 DEF LicenceTypes, Request
<1>4. Answered'
  BY <1>1 DEF Answered, Working
<1>5. Recording'
  BY DEF Recording, OnRecord
<1> QED BY <1>3, <1>4, <1>5

LEMMA LauncherKeeps ==
  ASSUME LicenceInv, (Works /\ UNCHANGED licence) \/ LicensedLaunch \/ Reopens
  PROVE  LicenceInv'
<1> USE DEF LicenceInv
<1>1. /\ UNCHANGED <<tk, req, rows, terms, given, handed, missed>>
      /\ fields' \in {fields, saved} /\ saved' \in {fields, saved}
      /\ env' = env \/ env' = [p \in Procs |-> fields]
  BY DEF LicensedLaunch, Environment, Reopens, licence, launcher
<1>2. LicenceTypes'
  BY <1>1 DEF LicenceTypes, AtWork
<1>3. Answered'
  BY <1>1 DEF Answered
<1>4. Recording'
  BY <1>1 DEF Recording, OnRecord
<1> QED BY <1>2, <1>3, <1>4

LEMMA CutKeeps ==
  ASSUME LicenceInv, NEW ps \in SUBSET Procs, Cut(ps),
         UNCHANGED <<launcher, rows, terms, given, handed>>
  PROVE  LicenceInv'
<1> USE DEF LicenceInv
<1> DEFINE dead == {q \in Requests : req[q].pc \in Working \cup {"queued"} /\ Main \in ps}
<1>1. /\ req' = [q \in Requests |-> IF q \in dead THEN [req[q] EXCEPT !.pc = "failed"] ELSE req[q]]
      /\ missed' = missed \cup ({req[q].token : q \in dead} \cap rows)
      /\ env' = [p \in Procs |-> IF p \in ps THEN Unlicensed ELSE env[p]]
      /\ UNCHANGED <<fields, saved, tk, rows, terms, given, handed>>
  BY DEF Cut, launcher
<1> HIDE DEF dead
<1>2. \A q \in Requests : req[q] \in Request
  BY DEF LicenceTypes, Request
<1>3. \A q \in Requests : [req[q] EXCEPT !.pc = "failed"] \in Request /\ [req[q] EXCEPT !.pc = "failed"].pc = "failed"
  BY <1>2 DEF Request
<1>4. /\ req' \in [Requests -> Request]
      /\ \A q \in Requests : req'[q] = req[q] \/ req'[q].pc = "failed"
  BY <1>1, <1>2, <1>3
<1>5. AtWork' \subseteq AtWork
  BY <1>4 DEF AtWork, Working
<1>6. Unlicensed \in Licensed /\ Unlicensed.token = None /\ Unlicensed.licence = None
  BY DEF Unlicensed, Licensed
<1>7. LicenceTypes'
  BY <1>1, <1>4, <1>5, <1>6 DEF LicenceTypes, Request
<1>8. Answered'
  BY <1>1, <1>4 DEF Answered, Working
<1>9. Recording'
  BY <1>1, <1>6 DEF Recording, OnRecord
<1> QED BY <1>7, <1>8, <1>9

\* The launcher sends a request for licence l.
LEMMA SendKeeps ==
  ASSUME LicenceInv, NEW q \in Requests, NEW op \in {"redeem", "authorize"}, NEW l \in Licences,
         req[q].pc = "new", Send(q, op, l), tk' \in Requests \cup {None},
         UNCHANGED <<fields, saved, env, rows, terms, given, handed, missed>>
  PROVE  LicenceInv'
<1> USE DEF LicenceInv
<1> DEFINE x == [NoRequest EXCEPT !.op = op, !.pc = "queued", !.licence = l]
<1>1. req' = [req EXCEPT ![q] = x]
  BY DEF Send
<1>2. x \in Request /\ x.pc = "queued" /\ x.licence = l /\ x.token = None
  BY DEF Request, NoRequest
<1> HIDE DEF x
<1>3. /\ req' \in [Requests -> Request] /\ req'[q] = x
      /\ \A r \in Requests : r # q => req'[r] = req[r]
      /\ AtWork' = IF x.pc \in Working THEN AtWork \cup {q} ELSE AtWork \ {q}
  BY <1>1, <1>2, RequestChanges
<1>4. AtWork' \subseteq AtWork
  BY <1>2, <1>3 DEF Working
<1>5. LicenceTypes'
  BY <1>3, <1>4 DEF LicenceTypes, Request
<1>6. Answered'
  BY <1>2, <1>3 DEF Answered, Working
<1>7. Recording'
  BY DEF Recording, OnRecord
<1> QED BY <1>5, <1>6, <1>7

\* The launcher takes an answer over into its fields.
LEMMA TakenKeeps ==
  ASSUME LicenceInv, NEW q \in Requests, req[q].pc = "replied",
         fields' = [fields EXCEPT !.licence = req[q].licence] \/ fields' = [fields EXCEPT !.token = req[q].token],
         saved' \in {saved, fields'}, req' = [req EXCEPT ![q].pc = "done"],
         tk' \in Requests \cup {None},
         UNCHANGED <<env, rows, terms, given, handed, missed>>
  PROVE  LicenceInv'
<1> USE DEF LicenceInv
<1>1. /\ req' \in [Requests -> Request] /\ req'[q].pc = "done"
      /\ \A r \in Requests : r # q => req'[r] = req[r]
      /\ AtWork' = AtWork \ {q}
  BY RequestGoes DEF Working
<1>2. /\ req[q].licence \in Licences /\ terms[req[q].licence] # None
      /\ req[q].token \in Tokens \cup {None} /\ (req[q].token # None => req[q].token \in rows)
  BY DEF Answered, LicenceTypes
<1>3. fields' \in Licensed /\ OnRecord(fields)'
  <2>1. fields \in Licensed /\ OnRecord(fields)
    BY DEF LicenceTypes, Recording
  <2> QED BY <1>2, <2>1 DEF Licensed, OnRecord
<1>4. LicenceTypes'
  BY <1>1, <1>3 DEF LicenceTypes, Request
<1>5. Answered'
  BY <1>1 DEF Answered, Working
<1>6. Recording'
  BY <1>3 DEF Recording, OnRecord
<1> QED BY <1>4, <1>5, <1>6

\* The launcher stops waiting.
LEMMA WaitEnds ==
  ASSUME LicenceInv, tk' = None, missed' \subseteq rows,
         UNCHANGED <<fields, saved, req, env, rows, terms, given, handed>>
  PROVE  LicenceInv'
<1> USE DEF LicenceInv
<1>1. LicenceTypes'
  BY DEF LicenceTypes, AtWork
<1>2. Answered'
  BY DEF Answered
<1>3. Recording'
  BY DEF Recording, OnRecord
<1> QED BY <1>1, <1>2, <1>3

LEMMA RedeemsKeeps ==
  ASSUME LicenceInv, NEW q \in Requests, Redeems(q)
  PROVE  LicenceInv'
<1> USE DEF LicenceInv
<1>0. req[q].licence \in Licences /\ req[q].token = None
  BY DEF Redeems, Answered, Working
<1>1. CASE Fails(q) /\ UNCHANGED terms
  BY <1>1, OnlyMoves DEF Redeems, Fails, Goes2, launcher, LicenceTypes
<1>2. CASE Goes2(q, "replied") /\ terms' = [terms EXCEPT ![req[q].licence] = "assumed"]
  <2>1. /\ req' \in [Requests -> Request] /\ req'[q].pc = "replied"
        /\ req'[q].licence = req[q].licence /\ req'[q].token = req[q].token
        /\ \A r \in Requests : r # q => req'[r] = req[r]
        /\ AtWork' = AtWork \ {q}
    BY <1>2, RequestGoes DEF Goes2, Working
  <2>2. /\ terms' \in [Licences -> {None, "assumed", "confirmed"}]
        /\ terms'[req[q].licence] = "assumed" /\ "assumed" # None
        /\ \A l \in Licences : terms[l] # None => terms'[l] # None
    BY <1>0, <1>2, LicensingAssumption DEF LicenceTypes
  <2>3. UNCHANGED <<fields, saved, tk, env, rows, given, handed, missed>>
    BY DEF Redeems, launcher
  <2>4. LicenceTypes'
    BY <2>1, <2>2, <2>3 DEF LicenceTypes, Request
  <2>5. Answered'
    <3> SUFFICES ASSUME NEW r \in Requests
                 PROVE  /\ req'[r].pc \in Working \cup {"queued", "replied"} => req'[r].licence \in Licences
                        /\ req'[r].pc \in {"queued", "central", "pem", "install", "bootstrap"} => req'[r].token = None
                        /\ req'[r].pc = "store" => req'[r].token \in Tokens
                        /\ req'[r].pc \in {"refresh", "replied"} =>
                             /\ terms'[req'[r].licence] # None
                             /\ req'[r].token # None => req'[r].token \in rows'
      BY DEF Answered
    <3>1. CASE r = q
      BY <3>1, <1>0, <2>1, <2>2
    <3>2. CASE r # q
      BY <3>2, <2>1, <2>2, <2>3 DEF Answered, Working
    <3> QED BY <3>1, <3>2
  <2>6. Recording'
    BY <2>2, <2>3 DEF Recording, OnRecord, LicenceTypes, Licensed
  <2> QED BY <2>4, <2>5, <2>6
<1> QED BY <1>1, <1>2 DEF Redeems

\* The token is given with the licence's answer ...
LEMMA BootstrapsKeeps ==
  ASSUME LicenceInv, NEW q \in Requests, Bootstraps(q)
  PROVE  LicenceInv'
<1> USE DEF LicenceInv
<1> DEFINE t == [licence |-> req[q].licence, n |-> given + 1]
           x == [req[q] EXCEPT !.pc = "store", !.token = t]
<1>0. req[q].licence \in Licences /\ req[q] \in Request /\ given \in Nat /\ q \in AtWork
  BY LicensingAssumption DEF Bootstraps, Answered, Working, LicenceTypes, Request, AtWork
<1>1. CASE Fails(q) /\ UNCHANGED given
  BY <1>1, OnlyMoves DEF Bootstraps, Fails, Goes2, launcher, LicenceTypes
<1>2. CASE /\ given < MaxTokens /\ given' = given + 1
           /\ req' = [req EXCEPT ![q].pc = "store", ![q].token = t]
  <2>1. t \in Tokens /\ given' \in 0 .. MaxTokens
    BY <1>0, <1>2, LicensingAssumption DEF Tokens
  <2> HIDE DEF t
  <2>2. x \in Request /\ x.pc = "store" /\ x.licence = req[q].licence /\ x.token = t
    BY <1>0, <2>1 DEF Request, Working
  <2>3. req' = [req EXCEPT ![q] = x]
    BY <1>2
  <2> HIDE DEF x
  <2>4. /\ req' \in [Requests -> Request] /\ req'[q] = x
        /\ \A r \in Requests : r # q => req'[r] = req[r]
        /\ AtWork' = AtWork \cup {q}
    BY <2>2, <2>3, RequestChanges DEF Working
  <2>5. UNCHANGED <<fields, saved, tk, env, rows, terms, handed, missed>>
    BY DEF Bootstraps, launcher
  <2>6. LicenceTypes'
    BY <1>0, <2>1, <2>4, <2>5 DEF LicenceTypes, Request
  <2>7. Answered'
    BY <1>0, <2>1, <2>2, <2>4, <2>5 DEF Answered, Working
  <2>8. Recording'
    BY <2>5 DEF Recording, OnRecord
  <2> QED BY <2>6, <2>7, <2>8
<1> QED BY <1>1, <1>2 DEF Bootstraps

\* ... stored with the licence's confirmed terms ...
LEMMA StoresKeeps ==
  ASSUME LicenceInv, NEW q \in Requests, Stores(q)
  PROVE  LicenceInv'
<1> USE DEF LicenceInv
<1>0. /\ req[q].licence \in Licences /\ req[q].token \in Tokens /\ q \in AtWork
      /\ UNCHANGED <<fields, saved, tk, env, given, handed>>
  BY DEF Stores, Answered, Working, AtWork, launcher
<1>1. CASE Fails(q) /\ UNCHANGED <<rows, terms, missed>>
  BY <1>0, <1>1, OnlyMoves DEF Fails, Goes2, Working, LicenceTypes
<1>2. CASE /\ rows' = WithToken(q) /\ terms' = [terms EXCEPT ![req[q].licence] = "confirmed"]
           /\ missed' = IF tk = q THEN missed ELSE missed \cup {req[q].token}
           /\ Goes2(q, "refresh")
  <2>1. /\ req' \in [Requests -> Request] /\ req'[q].pc = "refresh"
        /\ req'[q].licence = req[q].licence /\ req'[q].token = req[q].token
        /\ \A r \in Requests : r # q => req'[r] = req[r]
        /\ AtWork' = AtWork \cup {q}
    BY <1>2, RequestGoes DEF Goes2, Working
  <2>2. /\ terms' \in [Licences -> {None, "assumed", "confirmed"}]
        /\ terms'[req[q].licence] = "confirmed" /\ "confirmed" # None
        /\ \A l \in Licences : terms[l] # None => terms'[l] # None
    BY <1>0, <1>2, LicensingAssumption DEF LicenceTypes
  <2>3. rows' = rows \cup {req[q].token}
    BY <1>2 DEF WithToken
  <2>4. LicenceTypes'
    BY <1>0, <1>2, <2>1, <2>2, <2>3 DEF LicenceTypes, Request
  <2>5. Answered'
    <3> SUFFICES ASSUME NEW r \in Requests
                 PROVE  /\ req'[r].pc \in Working \cup {"queued", "replied"} => req'[r].licence \in Licences
                        /\ req'[r].pc \in {"queued", "central", "pem", "install", "bootstrap"} => req'[r].token = None
                        /\ req'[r].pc = "store" => req'[r].token \in Tokens
                        /\ req'[r].pc \in {"refresh", "replied"} =>
                             /\ terms'[req'[r].licence] # None
                             /\ req'[r].token # None => req'[r].token \in rows'
      BY DEF Answered
    <3>1. CASE r = q
      BY <3>1, <1>0, <2>1, <2>2, <2>3
    <3>2. CASE r # q
      BY <3>2, <2>1, <2>2, <2>3 DEF Answered, Working
    <3> QED BY <3>1, <3>2
  <2>6. Recording'
    BY <1>0, <2>2, <2>3 DEF Recording, OnRecord, LicenceTypes, Licensed
  <2> QED BY <2>4, <2>5, <2>6
<1> QED BY <1>1, <1>2 DEF Stores

\* ... and used.
LEMMA RefreshesKeeps ==
  ASSUME LicenceInv, NEW q \in Requests, Refreshes(q)
  PROVE  LicenceInv'
<1> USE DEF LicenceInv
<1> DEFINE x == [licence |-> req[q].licence, token |-> req[q].token]
<1>1. /\ req[q].licence \in Licences /\ terms[req[q].licence] # None
      /\ req[q].token \in Tokens \cup {None} /\ (req[q].token # None => req[q].token \in rows)
      /\ UNCHANGED <<fields, saved, tk, rows, terms, given, handed, missed>>
  BY DEF Refreshes, Answered, Working, LicenceTypes, launcher
<1>2. x \in Licensed /\ OnRecord(x)
  BY <1>1 DEF Licensed, OnRecord
<1>3. env' = [env EXCEPT ![Main] = x]
  BY DEF Refreshes, Refreshed
<1> HIDE DEF x
<1>4. /\ req' \in [Requests -> Request] /\ req'[q].pc = "replied"
      /\ req'[q].licence = req[q].licence /\ req'[q].token = req[q].token
      /\ \A r \in Requests : r # q => req'[r] = req[r]
      /\ AtWork' = AtWork \ {q}
  BY RequestGoes DEF Refreshes, Goes2, Working
<1>5. env' \in [Procs -> Licensed] /\ \A p \in Procs : env'[p] = env[p] \/ env'[p] = x
  BY <1>2, <1>3 DEF LicenceTypes
<1>6. LicenceTypes'
  BY <1>1, <1>4, <1>5 DEF LicenceTypes, Request
<1>7. Answered'
  BY <1>1, <1>4 DEF Answered, Working
<1>8. Recording'
  BY <1>1, <1>2, <1>5 DEF Recording, OnRecord
<1> QED BY <1>6, <1>7, <1>8

LEMMA HandlesKeeps ==
  ASSUME LicenceInv, NEW q \in Requests, Handles(q)
  PROVE  LicenceInv'
<1>1. CASE Begins(q)
  BY <1>1, OnlyMoves DEF Begins, Goes2, LoopIsFree, launcher, LicenceInv, LicenceTypes, Working
<1>2. CASE Redeems(q)
  BY <1>2, RedeemsKeeps
<1>3. CASE Authorizes(q)
  <2>1. CASE Fails(q)
    BY <1>3, <2>1, OnlyMoves DEF Authorizes, Fails, Goes2, launcher, LicenceInv, LicenceTypes, Working
  <2>2. CASE Goes2(q, "bootstrap")
    BY <1>3, <2>2, OnlyMoves DEF Authorizes, Goes2, launcher, LicenceInv, LicenceTypes, Working
  <2>3. CASE Goes2(q, "pem")
    BY <1>3, <2>3, OnlyMoves DEF Authorizes, Goes2, launcher, LicenceInv, LicenceTypes, Working
  <2> QED BY <1>3, <2>1, <2>2, <2>3 DEF Authorizes
<1>4. CASE WritesPem(q)
  BY <1>4, OnlyMoves DEF WritesPem, Goes2, launcher, LicenceInv, LicenceTypes, Working
<1>5. CASE InstallsPem(q)
  BY <1>5, OnlyMoves DEF InstallsPem, Fails, Goes2, launcher, LicenceInv, LicenceTypes, Working
<1>6. CASE Bootstraps(q)
  BY <1>6, BootstrapsKeeps
<1>7. CASE Stores(q)
  BY <1>7, StoresKeeps
<1>8. CASE Refreshes(q)
  BY <1>8, RefreshesKeeps
<1> QED BY <1>1, <1>2, <1>3, <1>4, <1>5, <1>6, <1>7, <1>8 DEF Handles

LEMMA LicenceInvariant == LicenceSpec => []LicenceInv
<1>1. Init /\ LicenceInit => LicenceInv
  <2> SUFFICES ASSUME LicenceInit PROVE LicenceInv
    OBVIOUS
  <2>1. Unlicensed \in Licensed /\ OnRecord(Unlicensed)
    BY DEF Unlicensed, Licensed, OnRecord
  <2>2. \A pc \in {"new", "done"} : [NoRequest EXCEPT !.pc = pc] \in Request /\ [NoRequest EXCEPT !.pc = pc].pc = pc
    BY DEF NoRequest, Request
  <2>3. \A q \in Requests : req[q] \in Request /\ req[q].pc \in {"new", "done"}
    BY <2>2 DEF LicenceInit, LicenceInitWith
  <2>4. req \in [Requests -> Request] /\ AtWork = {}
    BY <2>3 DEF LicenceInit, LicenceInitWith, AtWork, Working
  <2>5. LicenceTypes
    <3>1. /\ fields \in Licensed /\ saved \in Licensed /\ env \in [Procs -> Licensed]
          /\ tk \in Requests \cup {None} /\ rows = {} /\ missed = {} /\ handed = FALSE
      BY <2>1 DEF LicenceInit, LicenceInitWith
    <3>2. terms \in [Licences -> {None, "assumed", "confirmed"}]
      BY DEF LicenceInit, LicenceInitWith
    <3>3. given \in 0 .. MaxTokens
      BY LicensingAssumption DEF LicenceInit, LicenceInitWith
    <3> QED BY <2>4, <3>1, <3>2, <3>3 DEF LicenceTypes, Request
  <2>6. Answered
    BY <2>3 DEF Answered, Working
  <2>7. Recording
    BY <2>1 DEF LicenceInit, LicenceInitWith, Recording
  <2> QED BY <2>5, <2>6, <2>7 DEF LicenceInv
<1>2. LicenceInv /\ [LicenceNext]_<<vars, licence>> => LicenceInv'
  <2> SUFFICES ASSUME LicenceInv, [LicenceNext]_<<vars, licence>> PROVE LicenceInv'
    OBVIOUS
  <2>1. CASE (Works /\ UNCHANGED licence) \/ LicensedLaunch \/ Reopens
    BY <2>1, LauncherKeeps
  <2>2. CASE LicensedStop
    BY <2>2, CutKeeps DEF LicensedStop
  <2>3. CASE \E p \in Procs : LicensedCrash(p)
    BY <2>3, CutKeeps DEF LicensedCrash
  <2>4. CASE Confirmed
    <3>1. tk \in Requests /\ tk # None
      BY <2>4 DEF Confirmed, LicenceInv, LicenceTypes
    <3> QED BY <2>4, <3>1, TakenKeeps DEF Confirmed, Saved
  <2>5. CASE NotConfirmed
    BY <2>5, WaitEnds DEF NotConfirmed, LicenceInv, LicenceTypes
  <2>6. CASE GivesUp
    BY <2>6, WaitEnds DEF GivesUp, LicenceInv, LicenceTypes
  <2>7. CASE \E q \in Requests : Handles(q)
    BY <2>7, HandlesKeeps
  <2>8. ASSUME NEW q \in Requests, Redeemed(q) PROVE LicenceInv'
    BY <2>8, TakenKeeps DEF Redeemed, LicenceInv, LicenceTypes
  <2>9. ASSUME NEW q \in Requests, Confirm(q) PROVE LicenceInv'
    <3>1. fields.licence \in Licences
      BY <2>9 DEF Confirm, LicenceInv, LicenceTypes, Licensed
    <3> QED BY <2>9, <3>1, SendKeeps DEF Confirm
  <2>10. ASSUME NEW q \in Requests, NEW l \in Licences, Redeem(q, l) PROVE LicenceInv'
    BY <2>10, SendKeeps DEF Redeem, launcher, LicenceInv, LicenceTypes
  <2>11. CASE UNCHANGED <<vars, licence>>
    BY <2>11 DEF licence, launcher, LicenceInv, LicenceTypes, AtWork, Answered, Recording, OnRecord
  <2> QED BY <2>1, <2>2, <2>3, <2>4, <2>5, <2>6, <2>7, <2>8, <2>9, <2>10, <2>11 DEF LicenceNext
<1> QED BY <1>1, <1>2, PTL DEF LicenceSpec

\* Every variable of the model of the licence keeps its type, and the event loop
\* is with one request at most.
THEOREM LicenceTypeCorrect == LicenceSpec => []LicensingTypeOK
<1>1. LicenceInv /\ TypeOK => LicensingTypeOK
  <2> SUFFICES ASSUME LicenceInv, TypeOK PROVE LicensingTypeOK
    OBVIOUS
  <2>1. Cardinality(AtWork) <= 1
    <3>1. CASE AtWork = {}
      BY <3>1, FS_EmptySet
    <3>2. ASSUME NEW q \in AtWork PROVE Cardinality(AtWork) <= 1
      <4>1. AtWork = {q}
        BY DEF LicenceInv, LicenceTypes
      <4> QED BY <4>1, FS_Singleton
    <3> QED BY <3>1, <3>2
  <2> QED BY <2>1 DEF LicenceInv, LicenceTypes, LicensingTypeOK
<1> QED BY <1>1, LicenceInvariant, LicensingKeepsIdentity, IdentityTypeCorrect, PTL

\* No token is in use, or would be after the next start, that is not on record,
\* and no licence without its terms.
THEOREM InUseStaysRecorded == LicenceSpec => []InUseIsRecorded
<1>1. LicenceInv => InUseIsRecorded
  BY DEF LicenceInv, Recording, OnRecord, InUseIsRecorded
<1> QED BY <1>1, LicenceInvariant, PTL

-----------------------------------------------------------------------------
(* The signing key that is handed out once *)

\* Nothing has gone against an orderly rotation but that the key was installed.
Quiet == upset \subseteq {"issued"}

\* A rotation starts from the key in the file and leaves its own there, and a
\* process nobody has overtaken signs with it.
StartsFromFile ==
  \A r \in Rotations :
    rot[r].pc \in {"save", "tmp", "replace"} /\ Issued \in written => rot[r].from = identity

LeavesItsKey ==
  /\ \A r \in Rotations : rot[r].pc = "replace" => tmp = rot[r].new
  /\ \A r \in Replaced : identity = rot[r].new /\ rot[r].new \in written
  /\ \A r \in Rotations : rot[r].pc = "show" => priv[rot[r].at] = rot[r].new

SignsWithFile ==
  \A p \in Ups \ behind : (\A r \in Replaced : rot[r].at # p) => priv[p] = identity

StillThere ==
  Issued \in written =>
    \/ identity = Issued /\ tmp \in {None, Issued}
    \/ \E r \in Rotations : rot[r].from = Issued

FollowsFile == StartsFromFile /\ LeavesItsKey /\ SignsWithFile /\ StillThere

IssuedInv == Quiet => FollowsFile

LEMMA WhenQuiet ==
  ASSUME Basic, Quiet
  PROVE  /\ \A r, s \in Running : r = s
         /\ \A r \in Running : rot[r].at \in Ups
         /\ \A r \in Rotations :
              rot[r].pc \in {"save", "tmp", "replace", "announce", "switch", "show"} => r \in Running
         /\ \A r \in Rotations : rot[r].pc = "new" => rot[r].from # Issued
BY KeysAreKeys DEF Quiet, Basic, Alone, Underway, Running, Steps, AnyKey

\* A step of a rotation that does not touch the key file
LEMMA GoesQuietly ==
  ASSUME IdentityInv, FollowsFile, Quiet, NEW r \in Rotations,
         NEW pc \in Steps \cup {"new", "done", "failed"}, Goes(r, pc),
         UNCHANGED <<boot, identity, behind, written>>,
         \/ /\ rot[r].pc = "save" /\ pc = "tmp" /\ UNCHANGED <<tmp, priv>>
         \/ /\ rot[r].pc = "tmp" /\ pc = "replace" /\ tmp' = rot[r].new /\ UNCHANGED priv
         \/ /\ rot[r].pc = "replace" /\ pc = "failed" /\ UNCHANGED <<tmp, priv>>
         \/ /\ rot[r].pc = "announce" /\ pc = "switch" /\ UNCHANGED <<tmp, priv>>
         \/ /\ rot[r].pc = "switch" /\ pc = "show" /\ UNCHANGED tmp
            /\ priv' = [priv EXCEPT ![rot[r].at] = rot[r].new]
         \/ /\ rot[r].pc = "show" /\ pc = "done" /\ UNCHANGED <<tmp, priv>>
  PROVE  FollowsFile'
<1> USE DEF IdentityInv
<1>1. /\ rot'[r].pc = pc
      /\ \A s \in Rotations : /\ rot'[s].at = rot[s].at /\ rot'[s].from = rot[s].from
                              /\ rot'[s].new = rot[s].new
                              /\ s # r => rot'[s].pc = rot[s].pc
  BY GoesOn DEF Basic
<1>0. r \in Running
  BY DEF Running, Steps
<1>2. rot[r].at \in Ups /\ \A s \in Running : s = r
  BY <1>0, WhenQuiet
<1>3. Ups' = Ups
  BY DEF Ups
<1>4. /\ \A s \in Rotations : s \in Replaced <=> rot[s].pc \in {"announce", "switch", "show"}
      /\ \A s \in Rotations : s \in Replaced' <=> rot'[s].pc \in {"announce", "switch", "show"}
      /\ Replaced \subseteq Rotations /\ Replaced' \subseteq Rotations
  BY DEF Running, Replaced, Steps
<1>5. \A s \in Rotations : s # r => rot[s].pc \notin {"save", "tmp", "replace", "announce", "switch", "show"}
  BY <1>2, WhenQuiet
<1>6. \A s \in Rotations : s # r => s \notin Replaced /\ s \notin Replaced'
  BY <1>1, <1>4, <1>5
<1>7. priv \in [Procs -> AnyKey \cup {None}] /\ rot[r].at \in Procs
  BY <1>2, RunningAreRotations DEF Basic, TypeOK
<1>8. StartsFromFile'
  BY <1>1, <1>5 DEF FollowsFile, StartsFromFile
<1>9. LeavesItsKey'
  <2>1. \A s \in Rotations : rot'[s].pc = "replace" => tmp' = rot'[s].new
    BY <1>1, <1>5
  <2>2. \A s \in Replaced' : identity' = rot'[s].new /\ rot'[s].new \in written'
    <3>1. r \in Replaced' => r \in Replaced
      BY <1>1, <1>4
    <3> QED BY <1>1, <1>4, <1>6, <3>1 DEF FollowsFile, LeavesItsKey
  <2>3. \A s \in Rotations : rot'[s].pc = "show" => priv'[rot'[s].at] = rot'[s].new
    BY <1>1, <1>5, <1>7
  <2> QED BY <2>1, <2>2, <2>3 DEF LeavesItsKey
<1>10. SignsWithFile'
  <2> SUFFICES ASSUME NEW p \in Ups \ behind, \A s \in Replaced' : rot'[s].at # p
               PROVE  priv'[p] = identity
    BY <1>3 DEF SignsWithFile
  <2>1. CASE pc \in {"switch", "show"}
    <3>1. r \in Replaced' /\ rot[r].at # p
      BY <1>1, <1>4, <2>1
    <3>2. \A s \in Replaced : rot[s].at # p
      BY <1>4, <1>6, <3>1
    <3>3. priv[p] = identity
      BY <3>2 DEF FollowsFile, SignsWithFile
    <3> QED BY <1>7, <3>1, <3>3, RunningAreRotations
  <2>2. CASE pc = "done"
    <3>1. \A s \in Replaced : s = r
      BY <1>4, <1>6
    <3>2. r \in Replaced /\ priv[rot[r].at] = identity
      BY <1>4, <2>2 DEF FollowsFile, LeavesItsKey
    <3> QED BY <2>2, <3>1, <3>2 DEF FollowsFile, SignsWithFile
  <2>3. CASE pc \in {"tmp", "replace", "failed"}
    <3>1. Replaced = {}
      BY <1>4, <1>6, <2>3
    <3> QED BY <2>3, <3>1 DEF FollowsFile, SignsWithFile
  <2> QED BY <2>1, <2>2, <2>3
<1>11. StillThere'
  <2> SUFFICES ASSUME Issued \in written, \A s \in Rotations : rot[s].from # Issued
               PROVE  identity' = Issued /\ tmp' \in {None, Issued}
    BY <1>1 DEF StillThere
  <2>1. identity = Issued /\ tmp \in {None, Issued}
    BY DEF FollowsFile, StillThere
  <2>2. rot[r].pc # "tmp"
    BY <2>1 DEF FollowsFile, StartsFromFile
  <2> QED BY <2>1, <2>2
<1> QED BY <1>8, <1>9, <1>10, <1>11 DEF FollowsFile

\* The new key takes the place of the one the rotation started from.
LEMMA ReplacesQuietly ==
  ASSUME IdentityInv, FollowsFile, Quiet, NEW r \in Rotations, rot[r].pc = "replace",
         Moved(r), Goes(r, "announce"), tmp # None, UNCHANGED memory
  PROVE  FollowsFile'
<1> USE DEF IdentityInv
<1>1. /\ rot'[r].pc = "announce"
      /\ \A s \in Rotations : /\ rot'[s].at = rot[s].at /\ rot'[s].from = rot[s].from
                              /\ rot'[s].new = rot[s].new
                              /\ s # r => rot'[s].pc = rot[s].pc
  BY GoesOn DEF Basic, Steps
<1>0. r \in Running
  BY DEF Running, Steps
<1>2. rot[r].at \in Ups /\ \A s \in Running : s = r
  BY <1>0, WhenQuiet
<1>3. /\ identity' = tmp /\ written' = written \cup {tmp} /\ UNCHANGED <<boot, priv>>
      /\ behind' = behind \cup (Ups \ {rot[r].at}) /\ tmp = rot[r].new
  BY DEF Moved, Recorded, memory, FollowsFile, LeavesItsKey
<1>4. \A s \in Rotations : s # r => rot[s].pc \notin {"save", "tmp", "replace", "announce", "switch", "show"}
  BY <1>2, WhenQuiet
<1>5. Ups' = Ups /\ r \in Replaced' /\ \A s \in Replaced' : s = r
  BY <1>1, <1>3, <1>4 DEF Ups, Running, Replaced, Steps
<1>6. StartsFromFile'
  BY <1>1, <1>4 DEF StartsFromFile
<1>7. LeavesItsKey'
  BY <1>1, <1>3, <1>4, <1>5 DEF LeavesItsKey
<1>8. SignsWithFile'
  BY <1>1, <1>3, <1>5 DEF SignsWithFile
<1>9. StillThere'
  <2> SUFFICES ASSUME Issued \in written', \A s \in Rotations : rot[s].from # Issued
               PROVE  identity' = Issued /\ tmp' = None
    BY <1>1 DEF StillThere
  <2>1. tmp' = None
    BY DEF Moved
  <2>2. Issued \in written => rot[r].from = identity /\ identity = Issued
    BY DEF FollowsFile, StartsFromFile, StillThere
  <2>3. Issued \notin written
    BY <2>2
  <2> QED BY <1>3, <2>1, <2>3
<1> QED BY <1>6, <1>7, <1>8, <1>9 DEF FollowsFile

LEMMA BeginsQuietly ==
  ASSUME IdentityInv, FollowsFile, NEW r \in Rotations, NEW p \in Procs, RotationBegins(r, p), Quiet'
  PROVE  FollowsFile'
<1> USE DEF IdentityInv
<1> DEFINE x == [pc |-> "save", at |-> p, from |-> priv[p], shown |-> pub[p], new |-> minted + 1]
<1>1. /\ rot[r].pc = "new" /\ p \in Ups /\ rot' = [rot EXCEPT ![r] = x]
      /\ Running = {} /\ p \notin behind
      /\ UNCHANGED <<boot, priv, identity, tmp, behind, written>>
  BY DEF RotationBegins, Ups, Quiet, memory, disk
<1>2. Quiet
  BY DEF RotationBegins, Quiet
<1>3. /\ rot'[r] = x /\ x.pc = "save" /\ x.from = priv[p]
      /\ \A s \in Rotations : s # r => rot'[s] = rot[s]
  BY <1>1 DEF Basic, TypeOK
<1> HIDE DEF x
<1>4. Replaced = {} /\ Replaced' = {} /\ Ups' = Ups
  BY <1>1, <1>3 DEF Replaced, Running, Steps, Ups
<1>5. \A s \in Rotations : rot[s].pc \notin {"save", "tmp", "replace", "announce", "switch", "show"}
  BY <1>1, <1>2, WhenQuiet
<1>6. priv[p] = identity
  BY <1>1, <1>4 DEF FollowsFile, SignsWithFile
<1>7. StartsFromFile'
  BY <1>1, <1>3, <1>5, <1>6 DEF StartsFromFile
<1>8. LeavesItsKey' /\ SignsWithFile'
  BY <1>1, <1>3, <1>4, <1>5 DEF FollowsFile, LeavesItsKey, SignsWithFile
<1>9. rot[r].from # Issued
  BY <1>1, <1>2, WhenQuiet
<1>10. StillThere'
  BY <1>1, <1>3, <1>9 DEF FollowsFile, StillThere
<1> QED BY <1>7, <1>8, <1>10 DEF FollowsFile

\* A process that starts without a key finds that none was ever there.
LEMMA BootsQuietly ==
  ASSUME IdentityInv, FollowsFile, NEW p \in Procs, Boots(p), Quiet'
  PROVE  FollowsFile'
<1> USE DEF IdentityInv
<1>1. CASE BootMisses(p)
  <2>1. Ups' = Ups /\ Replaced' = Replaced /\ UNCHANGED <<priv, identity, tmp, rot, behind, written>>
    BY <1>1 DEF BootMisses, disk, history, Ups, Replaced, Running, Basic, TypeOK
  <2> QED BY <2>1 DEF FollowsFile, StartsFromFile, LeavesItsKey, SignsWithFile, StillThere
<1>2. CASE BootLoads(p)
  <2>1. /\ Ups' = Ups \cup {p} /\ p \notin Ups /\ priv' = [priv EXCEPT ![p] = identity]
        /\ UNCHANGED <<identity, tmp, rot, behind, written>>
    BY <1>2 DEF BootLoads, Started, Ups, Basic, TypeOK
  <2>2. Replaced' = Replaced /\ \A q \in Procs : priv'[q] = IF q = p THEN identity ELSE priv[q]
    BY <2>1 DEF Replaced, Running, Basic, TypeOK
  <2>3. \A r \in Rotations : rot[r].pc = "show" => rot[r].at # p /\ rot[r].at \in Procs
    BY <2>1, RunningAreRotations DEF Basic, Underway, Running, Steps
  <2>4. StartsFromFile' /\ LeavesItsKey' /\ StillThere'
    BY <2>1, <2>2, <2>3 DEF FollowsFile, StartsFromFile, LeavesItsKey, StillThere
  <2>5. SignsWithFile'
    BY <2>1, <2>2, RunningAreRotations DEF FollowsFile, SignsWithFile
  <2> QED BY <2>4, <2>5 DEF FollowsFile
<1>3. CASE BootTruncates(p)
  <2>1. /\ written = {} /\ written' = {} /\ Ups \subseteq behind' /\ UNCHANGED <<priv, tmp, rot>>
    BY <1>3 DEF BootTruncates, FirstKeyAgain, Quiet
  <2>2. Ups' = Ups /\ Replaced' = Replaced
    BY <1>3, <2>1 DEF BootTruncates, Ups, Replaced, Running, Basic, TypeOK
  <2> QED BY <2>1, <2>2 DEF FollowsFile, StartsFromFile, LeavesItsKey, SignsWithFile, StillThere
<1>4. CASE BootWrites(p)
  <2>1. /\ written = {} /\ written' = {made[p]} /\ identity' = made[p] /\ made[p] \in Keys
        /\ behind' = behind \cup (Ups \ {p}) /\ UNCHANGED <<tmp, rot>>
        /\ priv' = [priv EXCEPT ![p] = made[p]]
    BY <1>4 DEF BootWrites, Recorded, Started, FirstKeyAgain, Quiet, Basic, Underway
  <2>2. Ups' = Ups \cup {p} /\ p \notin Ups /\ Replaced' = Replaced
    BY <1>4, <2>1 DEF BootWrites, Started, Ups, Replaced, Running, Basic, TypeOK
  <2>3. Replaced = {}
    BY <2>1 DEF FollowsFile, LeavesItsKey
  <2>4. \A q \in Procs : priv'[q] = IF q = p THEN made[p] ELSE priv[q]
    BY <2>1 DEF Basic, TypeOK
  <2>5. Issued \notin written'
    BY <2>1, KeysAreKeys
  <2>6. LeavesItsKey'
    <3>1. \A r \in Rotations : rot[r].pc = "show" => rot[r].at # p /\ rot[r].at \in Procs
      BY <2>2, RunningAreRotations DEF Basic, Underway, Running, Steps
    <3> QED BY <2>1, <2>2, <2>3, <2>4, <3>1 DEF FollowsFile, LeavesItsKey
  <2>7. SignsWithFile'
    BY <2>1, <2>2, <2>4 DEF SignsWithFile
  <2> QED BY <2>5, <2>6, <2>7 DEF FollowsFile, StartsFromFile, StillThere
<1> QED BY <1>1, <1>2, <1>3, <1>4 DEF Boots

LEMMA DownQuietly ==
  ASSUME IdentityInv, FollowsFile, Quiet, NEW ps \in SUBSET Procs, Down(ps), Quiet'
  PROVE  FollowsFile'
<1> USE DEF IdentityInv
<1> DEFINE cut == {r \in Running : rot[r].at \in ps}
<1>1. /\ boot' = [p \in Procs |-> IF p \in ps THEN "off" ELSE boot[p]]
      /\ priv' = [p \in Procs |-> IF p \in ps THEN None ELSE priv[p]]
      /\ rot' = [r \in Rotations |-> IF r \in cut THEN [rot[r] EXCEPT !.pc = "failed"] ELSE rot[r]]
      /\ behind' = behind \ ps /\ UNCHANGED <<identity, tmp, written>>
  BY DEF Down
<1>2. cut \subseteq Running /\ \A r \in Running : r \in cut <=> rot[r].at \in ps
  OBVIOUS
<1> HIDE DEF cut
<1>3. \A r \in Rotations : /\ rot'[r].at = rot[r].at /\ rot'[r].from = rot[r].from
                           /\ rot'[r].new = rot[r].new
                           /\ rot'[r].pc = IF r \in cut THEN "failed" ELSE rot[r].pc
  <2>1. \A r \in Rotations : rot[r] \in [pc : Steps \cup {"new", "done", "failed"}, at : Procs \cup {None},
                                         from : AnyKey \cup {None}, shown : AnyKey \cup {None},
                                         new : Keys \cup {None}]
    BY DEF Basic, TypeOK
  <2> QED BY <1>1, <2>1
<1>4. Running' = Running \ cut /\ Replaced' = Replaced \ cut /\ Ups' = Ups \ ps
  BY <1>1, <1>3 DEF Running, Replaced, Steps, Ups
<1>5. \A p \in Ups' : priv'[p] = priv[p]
  BY <1>1, <1>4, RunningAreRotations
<1>6. StartsFromFile' /\ StillThere'
  BY <1>1, <1>3 DEF FollowsFile, StartsFromFile, StillThere
<1>7. LeavesItsKey'
  <2>1. ASSUME NEW r \in Rotations, rot'[r].pc = "show" PROVE priv'[rot'[r].at] = rot'[r].new
    <3>1. rot[r].pc = "show" /\ r \in Running /\ r \notin cut
      BY <1>3, <2>1, WhenQuiet
    <3>2. rot[r].at \in Ups'
      BY <1>2, <1>4, <3>1, WhenQuiet
    <3> QED BY <1>3, <1>5, <3>1, <3>2 DEF FollowsFile, LeavesItsKey
  <2> QED BY <1>1, <1>3, <1>4, <2>1, RunningAreRotations DEF FollowsFile, LeavesItsKey
<1>8. SignsWithFile'
  <2> SUFFICES ASSUME NEW p \in Ups' \ behind', \A r \in Replaced' : rot'[r].at # p
               PROVE  priv'[p] = identity
    BY <1>1 DEF SignsWithFile
  <2>1. \A r \in Replaced : rot[r].at # p
    BY <1>2, <1>3, <1>4, RunningAreRotations
  <2>2. p \in Ups \ behind
    BY <1>1, <1>4
  <2> QED BY <1>5, <2>1, <2>2 DEF FollowsFile, SignsWithFile
<1> QED BY <1>6, <1>7, <1>8 DEF FollowsFile

\* The key is installed while no rotation runs.
LEMMA InstalledQuietly ==
  ASSUME IdentityInv, FollowsFile, NEW p \in Procs, PemWrites(p) \/ PemInstalls(p), Quiet, Quiet'
  PROVE  FollowsFile'
<1> USE DEF IdentityInv
<1>1. Running = {} /\ UNCHANGED <<boot, rot>>
  BY DEF PemWrites, PemInstalls, FromOutside, Quiet, memory
<1>2. Running' = {} /\ Ups' = Ups
  BY <1>1 DEF Running, Ups
<1>7. Replaced = {} /\ Replaced' = {}
  BY <1>1, <1>2 DEF Replaced
<1>3. \A r \in Rotations : rot[r].pc \notin {"save", "tmp", "replace", "announce", "switch", "show"}
  BY <1>1, WhenQuiet
<1>4. StartsFromFile' /\ LeavesItsKey'
  BY <1>1, <1>7, <1>3 DEF StartsFromFile, LeavesItsKey
<1>5. CASE PemWrites(p)
  BY <1>1, <1>2, <1>7, <1>4, <1>5 DEF PemWrites, FollowsFile, SignsWithFile, StillThere, memory
<1>6. CASE PemInstalls(p)
  <2>1. /\ identity' = tmp /\ written' = written \cup {tmp} /\ behind' = behind \cup (Ups \ {p})
        /\ priv' = [priv EXCEPT ![p] = tmp]
    BY <1>6 DEF PemInstalls, Recorded, Installed
  <2>2. SignsWithFile'
    BY <1>2, <1>7, <2>1 DEF SignsWithFile, Basic, TypeOK
  <2>3. StillThere'
    <3>1. tmp' = None
      BY <1>6 DEF PemInstalls
    <3> QED BY <1>1, <1>6, <2>1, <3>1 DEF PemInstalls, FollowsFile, StillThere
  <2> QED BY <1>4, <2>2, <2>3 DEF FollowsFile
<1> QED BY <1>5, <1>6

LEMMA IssuedStep ==
  ASSUME IdentityInv, IssuedInv, [Next]_vars
  PROVE  IssuedInv'
<1> SUFFICES ASSUME Quiet' PROVE FollowsFile'
  BY DEF IssuedInv
<1> USE DEF IdentityInv
<1>1. upset \subseteq upset'
  BY DEF Next, Works, Launch, Stop, Crash, Down, Boots, BootLoads, BootMisses, BootTruncates,
         BootWrites, Started, FirstKeyAgain, Generate, GraceEnds, Rotate, SavesOld, WritesTmp,
         Replaces, Announces, Switches, Shows, RotationBegins, PemWrites, PemInstalls,
         FromOutside, vars, history
<1>2. Quiet /\ FollowsFile
  BY <1>1 DEF Quiet, IssuedInv
<1>3. CASE GraceEnds \/ UNCHANGED vars
  <2>1. UNCHANGED <<boot, priv, identity, tmp, rot, behind, written>>
    BY <1>3 DEF GraceEnds, memory, disk, history, vars
  <2>2. Ups' = Ups /\ Replaced' = Replaced
    BY <2>1 DEF Ups, Replaced, Running
  <2> QED BY <1>2, <2>1, <2>2
      DEF FollowsFile, StartsFromFile, LeavesItsKey, SignsWithFile, StillThere
<1>4. CASE Launch
  <2>1. Ups' = {} /\ Replaced' = Replaced /\ UNCHANGED <<priv, identity, tmp, rot, written>>
    BY <1>4 DEF Launch, Ups, Replaced, Running, disk, history
  <2> QED BY <1>2, <2>1 DEF FollowsFile, StartsFromFile, LeavesItsKey, SignsWithFile, StillThere
<1>5. CASE Generate
  <2>1. /\ written = {} /\ identity' = minted + 1 /\ written' = {minted + 1}
        /\ behind' = behind \cup Ups /\ UNCHANGED <<boot, priv, tmp, rot>>
    BY <1>5 DEF Generate, Recorded, Quiet, memory
  <2>2. Ups' = Ups /\ Replaced' = Replaced /\ Replaced = {}
    BY <1>2, <2>1 DEF Ups, Replaced, Running, FollowsFile, LeavesItsKey
  <2>3. Issued \notin written'
    BY <1>5, <2>1, NewKey, KeysAreKeys DEF Generate, Basic
  <2> QED BY <1>2, <2>1, <2>2, <2>3
      DEF FollowsFile, StartsFromFile, LeavesItsKey, SignsWithFile, StillThere
<1>6. CASE \E p \in Procs : Boots(p)
  BY <1>2, <1>6, BootsQuietly
<1>7. CASE Stop
  <2>1. Down(Procs)
    BY <1>7 DEF Stop
  <2> QED BY <1>2, <2>1, DownQuietly
<1>8. CASE \E p \in Procs : Crash(p)
  <2>1. PICK p \in Procs : Down({p})
    BY <1>8 DEF Crash
  <2> QED BY <1>2, <2>1, DownQuietly
<1>9. CASE \E p \in Procs : PemWrites(p) \/ PemInstalls(p)
  BY <1>2, <1>9, InstalledQuietly
<1>10. CASE \E r \in Rotations, p \in Procs : RotationBegins(r, p)
  BY <1>2, <1>10, BeginsQuietly
<1>11. ASSUME NEW r \in Rotations, Rotate(r) PROVE FollowsFile'
  <2>1. CASE SavesOld(r)
    BY <1>2, <2>1, GoesQuietly DEF SavesOld, memory, history, Steps
  <2>2. CASE WritesTmp(r)
    BY <1>2, <2>2, GoesQuietly DEF WritesTmp, Beside, memory, history, Steps
  <2>3. CASE Replaces(r)
    <3>1. CASE tmp = None
      BY <1>2, <2>3, <3>1, GoesQuietly DEF Replaces, memory
    <3>2. CASE tmp # None
      BY <1>2, <2>3, <3>2, ReplacesQuietly DEF Replaces
    <3> QED BY <3>1, <3>2
  <2>4. CASE Announces(r)
    <3>1. Goes(r, "switch")
      BY <2>4 DEF Announces, Quiet
    <3> QED BY <1>2, <2>4, <3>1, GoesQuietly DEF Announces, memory, disk, Steps
  <2>5. CASE Switches(r)
    BY <1>2, <2>5, GoesQuietly DEF Switches, Signs, disk, history, Steps
  <2>6. CASE Shows(r)
    BY <1>2, <2>6, GoesQuietly DEF Shows, disk, history, Steps
  <2> QED BY <1>11, <2>1, <2>2, <2>3, <2>4, <2>5, <2>6 DEF Rotate
<1> QED BY <1>3, <1>4, <1>5, <1>6, <1>7, <1>8, <1>9, <1>10, <1>11 DEF Next, Works

\* The signing key that the central service hands out once stays in the key file, or
\* has been retired by a rotation (_write_server_signing_key_pem and
\* _perform_identity_key_rotation), as far as these did not run into each other.
THEOREM IssuedKeySurvives == LicenceSpec => []IssuedKeyIsKept
<1>1. Init => IssuedInv
  <2> SUFFICES ASSUME Init PROVE FollowsFile
    BY DEF IssuedInv
  <2>1. /\ Ups = {} /\ Replaced = {} /\ written = {}
        /\ \A r \in Rotations : rot[r].pc \in {"new", "failed"}
    BY DEF Init, InitWith, Ups, Replaced, Running, Steps, NoRotation
  <2> QED BY <2>1 DEF FollowsFile, StartsFromFile, LeavesItsKey, SignsWithFile, StillThere
<1>2. IdentityInv /\ IssuedInv /\ [Next]_vars => IssuedInv'
  BY IssuedStep
<1>3. Spec => []IssuedInv
  BY <1>1, <1>2, IdentityInvariant, PTL DEF Spec
<1>4. IssuedInv => IssuedKeyIsKept
  BY DEF IssuedInv, Quiet, FollowsFile, StillThere, IssuedKeyIsKept
<1> QED BY <1>3, <1>4, LicensingKeepsIdentity, PTL

-----------------------------------------------------------------------------
(* The newest token *)

Newest(t) == t \in rows /\ \A u \in rows : u.n <= t.n

\* The launcher has it, and so has the main process unless it is off.
Taken(t) ==
  fields.token = t /\ saved.token = t /\ (boot[Main] # "off" => env[Main].token = t)

\* The launcher waits for the answer that brings it.
OnItsWay(t) ==
  /\ tk # None /\ req[tk].token = t /\ req[tk].pc \in {"refresh", "replied"}
  /\ req[tk].pc = "replied" /\ boot[Main] # "off" => env[Main].token = t

\* Tokens are numbered, and stored in the order of their numbers.
InOrder ==
  /\ \A t, u \in rows : t.n = u.n => t = u
  /\ \A t \in rows : t.n <= given
  /\ \A q \in Requests :
       req[q].pc = "store" => req[q].token.n <= given /\ \A t \in rows : t.n < req[q].token.n
  /\ \A q \in Requests :
       req[q].pc = "refresh" => Newest(req[q].token) /\ (tk = q \/ req[q].token \in missed)

\* The launcher waits for a confirmation; once it is answered, no token is newer
\* than the answer's but those the launcher has missed.
Awaited ==
  /\ \A q \in Requests : req[q].op = "authorize" /\ req[q].pc = "replied" => req[q].token \in rows
  /\ tk # None => req[tk].op = "authorize" /\ req[tk].pc # "new"
  /\ tk # None /\ req[tk].pc = "replied" =>
       \A t \in rows : t.n > req[tk].token.n => t \in missed

Arrives == \A t \in rows \ missed : Newest(t) => Taken(t) \/ OnItsWay(t)

NewestInv == InOrder /\ Awaited /\ Arrives

Early == {"queued", "central", "pem", "install", "bootstrap", "store"}

LEMMA RowsAreNumbers ==
  ASSUME LicenceInv
  PROVE  /\ rows \subseteq Tokens /\ missed \subseteq rows /\ given \in Nat
         /\ \A t \in Tokens : t.n \in Nat
         /\ tk \in Requests \cup {None} /\ None \notin Requests
         /\ \A q \in Requests : req[q].pc = "store" => req[q].token \in Tokens
         /\ req \in [Requests -> Request] /\ env \in [Procs -> Licensed]
         /\ fields \in Licensed /\ saved \in Licensed
<1>1. \A t \in Tokens : t.n \in Nat
  BY LicensingAssumption DEF Tokens
<1> QED BY <1>1, LicensingAssumption DEF LicenceInv, LicenceTypes, Answered, Request

\* A step that moves one request, short of an answer, and no token
LEMMA MovesKeep ==
  ASSUME LicenceInv, NewestInv, NEW q \in Requests,
         req[q].pc \in Early,
         NEW pc \in {"central", "pem", "install", "bootstrap", "failed"},
         req' = [req EXCEPT ![q].pc = pc],
         UNCHANGED <<fields, saved, tk, env, rows, given, missed>>, boot' = boot
  PROVE  NewestInv'
<1>1. /\ req'[q].pc = pc /\ req'[q].op = req[q].op /\ req'[q].token = req[q].token
      /\ \A r \in Requests : r # q => req'[r] = req[r]
  BY RequestGoes DEF LicenceInv, Working
<1>2. tk = q => req[tk].pc \notin {"refresh", "replied"}
  BY DEF Early
<1>3. tk \in Requests \cup {None}
  BY RowsAreNumbers
<1>4. InOrder'
  BY <1>1 DEF NewestInv, InOrder, Newest
<1>5. Awaited'
  BY <1>1, <1>3 DEF NewestInv, Awaited
<1>6. Arrives'
  BY <1>1, <1>2, <1>3 DEF NewestInv, Arrives, Newest, Taken, OnItsWay
<1> QED BY <1>4, <1>5, <1>6 DEF NewestInv

\* A request that the launcher does not wait for comes, or goes.
LEMMA OthersKeep ==
  ASSUME LicenceInv, NewestInv, NEW q \in Requests, tk # q, NEW x \in Request,
         req' = [req EXCEPT ![q] = x],
         x.pc \notin {"store", "refresh"}, x.op = "redeem" \/ x.pc # "replied",
         fields'.token = fields.token,
         UNCHANGED <<saved, tk, env, rows, given, missed>>, boot' = boot
  PROVE  NewestInv'
<1>1. req'[q] = x /\ \A r \in Requests : r # q => req'[r] = req[r]
  BY RequestChanges DEF LicenceInv
<1>3. tk \in Requests \cup {None}
  BY RowsAreNumbers
<1>4. InOrder'
  BY <1>1 DEF NewestInv, InOrder, Newest
<1>5. Awaited'
  BY <1>1, <1>3 DEF NewestInv, Awaited
<1>6. Arrives'
  BY <1>1, <1>3 DEF NewestInv, Arrives, Newest, Taken, OnItsWay
<1> QED BY <1>4, <1>5, <1>6 DEF NewestInv

\* The launcher's buttons, and what leaves the licence alone
LEMMA LaunchersKeep ==
  ASSUME LicenceInv, NewestInv, UNCHANGED <<tk, req, rows, given, missed>>,
         \/ /\ UNCHANGED <<fields, saved, env>> /\ (boot'[Main] # "off" => boot[Main] # "off")
         \/ /\ tk = None /\ UNCHANGED fields /\ saved' = fields /\ env' = [p \in Procs |-> fields]
         \/ /\ tk = None /\ fields' = saved /\ UNCHANGED <<saved, env, boot>>
  PROVE  NewestInv'
<1>1. InOrder' /\ Awaited'
  BY DEF NewestInv, InOrder, Awaited, Newest
<1>2. Arrives'
  BY LicensingAssumption DEF NewestInv, Arrives, Newest, Taken, OnItsWay
<1> QED BY <1>1, <1>2 DEF NewestInv

\* Processes end, the main one among them or not.
LEMMA CutsKeep ==
  ASSUME LicenceInv, NewestInv, NEW ps \in SUBSET Procs, Cut(ps), Down(ps), TypeOK,
         UNCHANGED <<launcher, rows, terms, given, handed>>
  PROVE  NewestInv'
<1> DEFINE dead == {q \in Requests : req[q].pc \in Working \cup {"queued"} /\ Main \in ps}
<1>0. Main \in Procs
  BY LicensingAssumption
<1>1. /\ req' = [q \in Requests |-> IF q \in dead THEN [req[q] EXCEPT !.pc = "failed"] ELSE req[q]]
      /\ missed' = missed \cup ({req[q].token : q \in dead} \cap rows)
      /\ env' = [p \in Procs |-> IF p \in ps THEN Unlicensed ELSE env[p]]
      /\ UNCHANGED <<fields, saved, tk, rows, given>>
  BY DEF Cut, launcher
<1>2. boot' = [p \in Procs |-> IF p \in ps THEN "off" ELSE boot[p]]
  BY DEF Down
<1>3. CASE Main \notin ps
  <2>1. dead = {}
    BY <1>3
  <2>2. req' = req /\ missed' = missed
    BY <1>1, <2>1, RowsAreNumbers
  <2>3. env'[Main] = env[Main] /\ boot'[Main] = boot[Main]
    BY <1>0, <1>1, <1>2, <1>3
  <2>4. InOrder' /\ Awaited'
    BY <1>1, <2>2 DEF NewestInv, InOrder, Awaited, Newest
  <2>5. Arrives'
    BY <1>1, <2>2, <2>3 DEF NewestInv, Arrives, Newest, Taken, OnItsWay
  <2> QED BY <2>4, <2>5 DEF NewestInv
<1>4. CASE Main \in ps
  <2>0. boot'[Main] = "off"
    BY <1>0, <1>2, <1>4
  <2>1. \A q \in Requests : q \in dead <=> req[q].pc \in Working \cup {"queued"}
    BY <1>4
  <2>2. \A q \in Requests :
          \/ q \in dead /\ req'[q] = [req[q] EXCEPT !.pc = "failed"]
          \/ q \notin dead /\ req'[q] = req[q]
    BY <1>1
  <2> HIDE DEF dead
  <2>3. \A q \in Requests :
          /\ req'[q].op = req[q].op /\ req'[q].token = req[q].token
          /\ \/ req'[q].pc = "failed" /\ q \in dead
             \/ req'[q].pc = req[q].pc /\ req[q].pc \notin Working \cup {"queued"}
    <3> SUFFICES ASSUME NEW q \in Requests
                 PROVE  /\ req'[q].op = req[q].op /\ req'[q].token = req[q].token
                        /\ \/ req'[q].pc = "failed" /\ q \in dead
                           \/ req'[q].pc = req[q].pc /\ req[q].pc \notin Working \cup {"queued"}
      OBVIOUS
    <3>1. req[q] \in Request
      BY RowsAreNumbers
    <3> QED BY <2>1, <2>2, <3>1 DEF Request
  <2>4. missed \subseteq missed'
    BY <1>1
  <2>5. \A q \in Requests : req[q].pc = "refresh" /\ req[q].token \in rows => req[q].token \in missed'
    BY <1>1, <2>1 DEF Working
  <2>6. tk \in Requests \cup {None}
    BY RowsAreNumbers
  <2>7. InOrder'
    BY <1>1, <2>3 DEF NewestInv, InOrder, Newest, Working
  <2>8. Awaited'
    BY <1>1, <2>3, <2>4, <2>6 DEF NewestInv, Awaited
  <2>9. Arrives'
    BY <1>1, <2>0, <2>3, <2>4, <2>5, <2>6 DEF NewestInv, Arrives, Newest, Taken, OnItsWay, Working
  <2> QED BY <2>7, <2>8, <2>9 DEF NewestInv
<1> QED BY <1>3, <1>4

\* The launcher stops waiting; it misses what the server has stored for it.
LEMMA EndsKeep ==
  ASSUME LicenceInv, NewestInv, NotConfirmed \/ GivesUp
  PROVE  NewestInv'
<1>1. /\ tk \in Requests /\ tk' = None /\ UNCHANGED <<fields, saved, req, env, rows, given>>
      /\ UNCHANGED boot /\ missed \subseteq missed'
      /\ req[tk].pc = "refresh" /\ req[tk].token \in rows => req[tk].token \in missed'
      /\ req[tk].pc # "replied"
  BY RowsAreNumbers DEF NotConfirmed, GivesUp, vars, memory, Working
<1>2. InOrder'
  BY <1>1 DEF NewestInv, InOrder, Newest
<1>3. Awaited'
  BY <1>1 DEF NewestInv, Awaited
<1>4. Arrives'
  BY <1>1 DEF NewestInv, Arrives, InOrder, Newest, Taken, OnItsWay
<1> QED BY <1>2, <1>3, <1>4 DEF NewestInv

LEMMA ConfirmsKeep ==
  ASSUME LicenceInv, NewestInv, NEW q \in Requests, Confirm(q)
  PROVE  NewestInv'
<1> DEFINE x == [NoRequest EXCEPT !.op = "authorize", !.pc = "queued", !.licence = fields.licence]
<1>1. /\ req' = [req EXCEPT ![q] = x] /\ tk = None /\ tk' = q
      /\ UNCHANGED <<fields, saved, env, rows, given, missed, boot>>
  BY DEF Confirm, Send, vars, memory
<1>2. fields.licence \in Licences
  BY DEF Confirm, LicenceInv, LicenceTypes, Licensed
<1>3. x.op = "authorize" /\ x.pc = "queued"
  BY DEF NoRequest
<1> HIDE DEF x
<1>4. req'[q] = x /\ \A r \in Requests : r # q => req'[r] = req[r]
  BY <1>1, RowsAreNumbers
<1>5. InOrder'
  BY <1>1, <1>3, <1>4, RowsAreNumbers DEF NewestInv, InOrder, Newest
<1>6. Awaited'
  BY <1>1, <1>3, <1>4 DEF NewestInv, Awaited
<1>7. Arrives'
  BY <1>1 DEF NewestInv, Arrives, Newest, Taken, OnItsWay
<1> QED BY <1>5, <1>6, <1>7 DEF NewestInv

\* The answer is ok: the newest token that the launcher has not missed is its own.
LEMMA ConfirmedKeeps ==
  ASSUME LicenceInv, NewestInv, Confirmed
  PROVE  NewestInv'
<1>1. /\ tk \in Requests /\ tk # None /\ req[tk].pc = "replied"
      /\ fields' = [fields EXCEPT !.token = req[tk].token] /\ saved' = fields' /\ tk' = None
      /\ req' = [req EXCEPT ![tk].pc = "done"]
      /\ UNCHANGED <<env, rows, given, missed, boot>>
  BY RowsAreNumbers DEF Confirmed, Saved, vars, memory
<1>2. fields'.token = req[tk].token
  BY <1>1, RowsAreNumbers DEF Licensed
<1>3. /\ req'[tk].pc = "done" /\ req'[tk].op = req[tk].op /\ req'[tk].token = req[tk].token
      /\ \A r \in Requests : r # tk => req'[r] = req[r]
  BY <1>1, RequestGoes DEF LicenceInv, Working
<1>4. InOrder'
  BY <1>1, <1>3 DEF NewestInv, InOrder, Newest
<1>5. Awaited'
  BY <1>1, <1>3 DEF NewestInv, Awaited
<1>6. \A t \in rows \ missed : Newest(t) => t = req[tk].token
  <2>1. req[tk].token \in rows
    BY <1>1 DEF NewestInv, Awaited
  <2> SUFFICES ASSUME NEW t \in rows \ missed, Newest(t) PROVE t = req[tk].token
    OBVIOUS
  <2>2. ~ (t.n > req[tk].token.n) /\ req[tk].token.n <= t.n
    BY <1>1, <2>1 DEF NewestInv, Awaited, Newest
  <2>3. t.n = req[tk].token.n
    BY <2>1, <2>2, RowsAreNumbers
  <2> QED BY <2>1, <2>3 DEF NewestInv, InOrder
<1>7. Arrives'
  BY <1>1, <1>2, <1>6 DEF NewestInv, Arrives, Newest, Taken, OnItsWay
<1> QED BY <1>4, <1>5, <1>7 DEF NewestInv

\* A token is given: its number is the next.
LEMMA GivenKeeps ==
  ASSUME LicenceInv, NewestInv, NEW q \in Requests, Bootstraps(q)
  PROVE  NewestInv'
<1> DEFINE t == [licence |-> req[q].licence, n |-> given + 1]
           x == [req[q] EXCEPT !.pc = "store", !.token = t]
<1>1. CASE Fails(q) /\ UNCHANGED given
  BY <1>1, MovesKeep DEF Bootstraps, Fails, Goes2, launcher, Early, vars, memory
<1>2. CASE /\ given < MaxTokens /\ given' = given + 1
           /\ req' = [req EXCEPT ![q].pc = "store", ![q].token = t]
  <2>1. UNCHANGED <<fields, saved, tk, env, rows, missed, boot>> /\ q \in AtWork
    BY DEF Bootstraps, launcher, vars, memory, AtWork, Working
  <2>2. x.pc = "store" /\ x.token = t /\ x.op = req[q].op
    BY RowsAreNumbers DEF Request
  <2>3. req' = [req EXCEPT ![q] = x]
    BY <1>2
  <2>4. t.n = given'
    BY <1>2
  <2> HIDE DEF x, t
  <2>5. req'[q] = x /\ \A r \in Requests : r # q => req'[r] = req[r]
    BY <2>3, RowsAreNumbers
  <2>6. InOrder'
    <3>1. \A u \in rows : u.n < given' /\ u.n <= given'
      BY <1>2, RowsAreNumbers DEF NewestInv, InOrder
    <3>2. \A r \in Requests : r # q => req[r].pc \notin {"store", "refresh"}
      BY <2>1 DEF LicenceInv, LicenceTypes, AtWork, Working
    <3>3. given' <= given'
      BY <1>2, RowsAreNumbers
    <3> QED BY <2>1, <2>2, <2>4, <2>5, <3>1, <3>2, <3>3 DEF NewestInv, InOrder
  <2>7. Awaited'
    BY <2>1, <2>2, <2>5, RowsAreNumbers DEF NewestInv, Awaited
  <2>8. Arrives'
    <3>1. req[q].pc = "bootstrap"
      BY DEF Bootstraps
    <3> QED BY <2>1, <2>2, <2>5, <3>1, RowsAreNumbers DEF NewestInv, Arrives, Newest, Taken, OnItsWay
  <2> QED BY <2>6, <2>7, <2>8 DEF NewestInv
<1> QED BY <1>1, <1>2 DEF Bootstraps

\* It becomes the newest row.
LEMMA StoredKeeps ==
  ASSUME LicenceInv, NewestInv, NEW q \in Requests, Stores(q)
  PROVE  NewestInv'
<1> PICK t : t = req[q].token
  OBVIOUS
<1>0. UNCHANGED <<fields, saved, tk, env, given, boot>> /\ req[q].pc = "store" /\ q \in AtWork
  BY DEF Stores, launcher, vars, memory, AtWork, Working
<1>1. CASE Fails(q) /\ UNCHANGED <<rows, terms, missed>>
  BY <1>0, <1>1, MovesKeep DEF Fails, Goes2, Early
<1>2. CASE /\ rows' = WithToken(q)
           /\ missed' = IF tk = q THEN missed ELSE missed \cup {t}
           /\ Goes2(q, "refresh")
  <2>1. /\ req'[q].pc = "refresh" /\ req'[q].op = req[q].op /\ req'[q].token = t
        /\ \A r \in Requests : r # q => req'[r] = req[r]
    BY <1>2, RequestGoes DEF Goes2, Working, LicenceInv
  <2>2. /\ t \in Tokens /\ t.n \in Nat /\ t.n <= given /\ rows' = rows \cup {t}
        /\ \A u \in rows : u.n < t.n /\ u.n \in Nat
    BY <1>0, <1>2, RowsAreNumbers DEF NewestInv, InOrder, WithToken
  <2>3. Newest(t)' /\ \A u \in rows' : Newest(u)' => u = t
    BY <2>2 DEF Newest
  <2>4. \A r \in Requests : r # q => req[r].pc \notin {"store", "refresh"}
    BY <1>0 DEF LicenceInv, LicenceTypes, AtWork, Working
  <2>5. tk = q \/ t \in missed'
    BY <1>2
  <2>6. InOrder'
    <3>1. \A u, v \in rows' : u.n = v.n => u = v
      BY <2>2 DEF NewestInv, InOrder
    <3>2. \A u \in rows' : u.n <= given'
      BY <1>0, <2>2 DEF NewestInv, InOrder
    <3> QED BY <1>0, <2>1, <2>3, <2>4, <2>5, <3>1, <3>2 DEF NewestInv, InOrder
  <2>7. Awaited'
    <3>1. \A r \in Requests : req'[r].op = "authorize" /\ req'[r].pc = "replied" => req'[r].token \in rows'
      BY <2>1, <2>2 DEF NewestInv, Awaited
    <3>2. tk # None => req'[tk].op = "authorize" /\ req'[tk].pc # "new"
      BY <2>1, RowsAreNumbers DEF NewestInv, Awaited
    <3>3. ASSUME tk # None, req'[tk].pc = "replied", NEW u \in rows', u.n > req'[tk].token.n
          PROVE  u \in missed'
      <4>1. tk # q /\ req'[tk] = req[tk]
        BY <2>1, <3>3, RowsAreNumbers
      <4>2. missed' = missed \cup {t}
        BY <1>2, <4>1
      <4> QED BY <2>2, <3>3, <4>1, <4>2 DEF NewestInv, Awaited
    <3> QED BY <1>0, <3>1, <3>2, <3>3 DEF Awaited
  <2>8. Arrives'
    <3>1. ASSUME t \notin missed' PROVE OnItsWay(t)'
      BY <1>0, <2>1, <2>5, <3>1, LicensingAssumption DEF OnItsWay
    <3> QED BY <2>3, <3>1 DEF Arrives
  <2> QED BY <2>6, <2>7, <2>8 DEF NewestInv
<1> QED BY <1>1, <1>2 DEF Stores

\* The main process takes it up, and the launcher is answered.
LEMMA TakenUpKeeps ==
  ASSUME LicenceInv, NewestInv, NEW q \in Requests, Refreshes(q)
  PROVE  NewestInv'
<1> DEFINE t == req[q].token
<1>0. UNCHANGED <<fields, saved, tk, given, rows, missed, boot>> /\ req[q].pc = "refresh"
  BY DEF Refreshes, launcher, vars, memory
<1>1. /\ req'[q].pc = "replied" /\ req'[q].op = req[q].op /\ req'[q].token = t
      /\ \A r \in Requests : r # q => req'[r] = req[r]
  BY RequestGoes DEF Refreshes, Goes2, Working, LicenceInv
<1>2. env'[Main].token = t
  <2>1. env' = [env EXCEPT ![Main] = [licence |-> req[q].licence, token |-> t]] /\ Main \in Procs
    BY LicensingAssumption DEF Refreshes, Refreshed
  <2>2. env'[Main] = [licence |-> req[q].licence, token |-> t]
    BY <2>1, RowsAreNumbers
  <2> QED BY <2>2
<1> HIDE DEF t
<1>3. Newest(t) /\ (tk = q \/ t \in missed)
  BY <1>0 DEF t, NewestInv, InOrder
<1>4. \A u \in rows : Newest(u) => u = t
  <2> SUFFICES ASSUME NEW u \in rows, Newest(u) PROVE u = t
    OBVIOUS
  <2>1. u.n <= t.n /\ t.n <= u.n
    BY <1>3 DEF Newest
  <2>2. u.n = t.n
    BY <1>3, <2>1, RowsAreNumbers DEF Newest
  <2> QED BY <1>3, <2>2 DEF NewestInv, InOrder, Newest
<1>5. InOrder'
  BY <1>0, <1>1 DEF NewestInv, InOrder, Newest
<1>6. Awaited'
  <2>1. \A u \in rows : ~ (u.n > t.n)
    BY <1>3, RowsAreNumbers DEF Newest
  <2> QED BY <1>0, <1>1, <1>3, <2>1, RowsAreNumbers DEF NewestInv, Awaited, Newest
<1>7. Arrives'
  BY <1>0, <1>1, <1>2, <1>3, <1>4, LicensingAssumption DEF Arrives, Newest, OnItsWay
<1> QED BY <1>5, <1>6, <1>7 DEF NewestInv

LEMMA HandlingKeeps ==
  ASSUME LicenceInv, NewestInv, NEW q \in Requests, Handles(q)
  PROVE  NewestInv'
<1> USE DEF Goes2, Fails, launcher, Early, vars, memory
<1>1. CASE Begins(q)
  BY <1>1, MovesKeep DEF Begins
<1>2. CASE Redeems(q)
  <2>1. req[q].pc \in Early /\ UNCHANGED <<fields, saved, tk, env, rows, given, missed>> /\ boot' = boot
    BY <1>2 DEF Redeems
  <2>2. CASE Fails(q)
    BY <2>1, <2>2, MovesKeep
  <2>3. CASE Goes2(q, "replied")
    <3> DEFINE x == [req[q] EXCEPT !.pc = "replied"]
    <3>1. x \in Request /\ x.pc = "replied" /\ x.op = "redeem"
      BY <1>2, RowsAreNumbers DEF Request, Redeems
    <3>2. req' = [req EXCEPT ![q] = x]
      BY <2>3
    <3>3. tk # q
      BY <1>2, RowsAreNumbers DEF Redeems, NewestInv, Awaited
    <3> HIDE DEF x
    <3> QED BY <2>1, <3>1, <3>2, <3>3, OthersKeep
  <2> QED BY <1>2, <2>2, <2>3 DEF Redeems
<1>3. CASE Authorizes(q)
  <2>1. CASE Fails(q)
    BY <1>3, <2>1, MovesKeep DEF Authorizes
  <2>2. CASE Goes2(q, "bootstrap")
    BY <1>3, <2>2, MovesKeep DEF Authorizes
  <2>3. CASE Goes2(q, "pem")
    BY <1>3, <2>3, MovesKeep DEF Authorizes
  <2> QED BY <1>3, <2>1, <2>2, <2>3 DEF Authorizes
<1>4. CASE WritesPem(q)
  BY <1>4, MovesKeep DEF WritesPem, PemWrites
<1>5. CASE InstallsPem(q)
  BY <1>5, MovesKeep DEF InstallsPem, PemInstalls
<1>6. CASE Bootstraps(q)
  BY <1>6, GivenKeeps
<1>7. CASE Stores(q)
  BY <1>7, StoredKeeps
<1>8. CASE Refreshes(q)
  BY <1>8, TakenUpKeeps
<1> QED BY <1>1, <1>2, <1>3, <1>4, <1>5, <1>6, <1>7, <1>8 DEF Handles

LEMMA NewestStep ==
  ASSUME LicenceInv, TypeOK, NewestInv, [LicenceNext]_<<vars, licence>>
  PROVE  NewestInv'
<1>0. Main \in Procs
  BY LicensingAssumption
<1>1. CASE Works /\ UNCHANGED licence
  <2>1. boot'[Main] # "off" => boot[Main] # "off"
    BY <1>0, <1>1 DEF Works, Generate, GraceEnds, Boots, BootLoads, BootMisses, BootTruncates,
       BootWrites, Started, Rotate, SavesOld, WritesTmp, Replaces, Announces, Switches, Shows,
       RotationBegins, memory, TypeOK
  <2> QED BY <1>1, <2>1, LaunchersKeep DEF licence, launcher
<1>2. CASE LicensedLaunch
  BY <1>2, LaunchersKeep DEF LicensedLaunch, Environment
<1>3. CASE Reopens
  BY <1>3, LaunchersKeep DEF Reopens, vars, memory
<1>4. CASE LicensedStop
  BY <1>4, CutsKeep DEF LicensedStop, Stop
<1>5. CASE \E p \in Procs : LicensedCrash(p)
  BY <1>5, CutsKeep DEF LicensedCrash, Crash
<1>6. CASE Confirmed \/ NotConfirmed \/ GivesUp
  BY <1>6, ConfirmedKeeps, EndsKeep
<1>7. CASE \E q \in Requests : Handles(q) \/ Confirm(q)
  BY <1>7, HandlingKeeps, ConfirmsKeep
<1>8. ASSUME NEW q \in Requests, Redeemed(q) PROVE NewestInv'
  <2> DEFINE x == [req[q] EXCEPT !.pc = "done"]
  <2>1. x \in Request /\ x.pc = "done"
    BY RowsAreNumbers DEF Request
  <2>2. /\ req' = [req EXCEPT ![q] = x] /\ tk # q /\ fields'.token = fields.token
        /\ UNCHANGED <<saved, tk, env, rows, given, missed>> /\ boot' = boot
    BY <1>8, RowsAreNumbers DEF Redeemed, vars, memory, Licensed
  <2> HIDE DEF x
  <2> QED BY <2>1, <2>2, OthersKeep
<1>9. ASSUME NEW q \in Requests, NEW l \in Licences, Redeem(q, l) PROVE NewestInv'
  <2> DEFINE x == [NoRequest EXCEPT !.op = "redeem", !.pc = "queued", !.licence = l]
  <2>1. x \in Request /\ x.pc = "queued"
    BY DEF Request, NoRequest
  <2>2. /\ req' = [req EXCEPT ![q] = x] /\ tk # q
        /\ UNCHANGED <<fields, saved, tk, env, rows, given, missed>> /\ boot' = boot
    BY <1>9, RowsAreNumbers DEF Redeem, Send, launcher, vars, memory, NewestInv, Awaited
  <2> HIDE DEF x
  <2> QED BY <2>1, <2>2, OthersKeep
<1>10. CASE UNCHANGED <<vars, licence>>
  BY <1>10, LaunchersKeep DEF vars, memory, licence, launcher
<1> QED BY <1>1, <1>2, <1>3, <1>4, <1>5, <1>6, <1>7, <1>8, <1>9, <1>10 DEF LicenceNext

\* The launcher, its configuration and the process that pushes have the newest token
\* that the server could tell the launcher of, whatever requests the launcher has
\* given up, whichever processes have ended, and whatever was confirmed before.
THEOREM NewestTokenIsKept == LicenceSpec => []NewestIsKept
<1>1. Init /\ LicenceInit => NewestInv
  <2> SUFFICES ASSUME LicenceInit PROVE NewestInv
    OBVIOUS
  <2>1. \A q \in Requests : req[q].pc \in {"new", "done"}
    BY DEF LicenceInit, LicenceInitWith, NoRequest
  <2> QED BY <2>1 DEF LicenceInit, LicenceInitWith, NewestInv, InOrder, Awaited, Arrives
<1>2. LicenceInv /\ TypeOK /\ NewestInv /\ [LicenceNext]_<<vars, licence>> => NewestInv'
  BY NewestStep
<1>3. NewestInv => NewestIsKept
  <2> SUFFICES ASSUME NewestInv, AtWork = {}, tk = None, NEW t \in rows \ missed,
                      \A u \in rows : u.n <= t.n
               PROVE  saved.token = t /\ (boot[Main] = "up" => env[Main].token = t)
    BY DEF NewestIsKept
  <2>1. Taken(t)
    BY DEF NewestInv, Arrives, Newest, OnItsWay
  <2> QED BY <2>1 DEF Taken
<1> QED BY <1>1, <1>2, <1>3, LicenceInvariant, LicensingKeepsIdentity, IdentityTypeCorrect, PTL
     DEF LicenceSpec
=============================================================================
