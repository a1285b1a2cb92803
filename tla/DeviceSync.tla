------------------------------ MODULE DeviceSync ------------------------------
(***************************************************************************)
(* Attachment device profiles and the sync envelopes that the devices of   *)
(* one account send each other through the server (legacy_app.py).  A      *)
(* device publishes a key; another one seals an envelope to that key and   *)
(* submits it; the server keeps it under (target device, envelope id),     *)
(* sends it to the target's socket if it has one, and hands it out by      *)
(* pending until it is acknowledged, 30 days are over, or one of the two   *)
(* devices logs in again or is killed.                                     *)
(*                                                                         *)
(* The server is one event loop and awaits nothing between its reads and   *)
(* its commit here, so a request is one step, except that killing a device *)
(* awaits the wipe notice in the middle.                                   *)
(***************************************************************************)
EXTENDS SequenceFilter

CONSTANTS
  Devices,    \* devices of one account
  Mains,      \* those whose session is is_main
  Keys,       \* key ids: a device may publish a new key at any time
  Envelopes,  \* envelope ids, chosen by the clients
  Capacity,   \* rows kept for a target (1000)
  PageSize,   \* rows of a pending response (100)
  NoKey,      \* no profile yet
  NoSession   \* no row in sessions

ASSUME CapacityAssumption == Capacity \in Nat \ {0} /\ PageSize \in Nat \ {0}
ASSUME KeyAssumption == NoKey \notin Keys /\ NoSession \notin Keys \cup {NoKey}

VARIABLES
  profile,    \* attachment_key_id of each device
  queue,      \* attachment_device_envelopes, in the order of the row ids
  lapsed,     \* rows past their expires_at, by target and envelope id
  opening,    \* envelopes a device has got and can open, not yet acknowledged
  killing,    \* a kill_device awaits the wipe notice of a device: "no", "yes",
              \* or "late" when the device has logged in since
  owed        \* history: the rows submitters were told are accepted, until
              \* the target opens them or changes its key, they lapse, or a
              \* login, a kill or a purge withdraws them

sync == <<profile, queue, lapsed, opening, killing, owed>>

Row(s, d, i, k) == [source |-> s, target |-> d, id |-> i, key |-> k]
RowsAt(d) == {n \in DOMAIN queue : queue[n].target = d}
Matches(r, d, i) == r.target = d /\ r.id = i

SyncInit ==
  /\ profile \in [Devices -> {NoKey, NoSession}]
  /\ queue = <<>>
  /\ lapsed = {}
  /\ opening = [d \in Devices |-> {}]
  /\ killing = [d \in Devices |-> "no"]
  /\ owed = {}

LoggedIn(d) == profile[d] # NoSession
HasProfile(d) == profile[d] \in Keys

RowSet == {queue[n] : n \in DOMAIN queue}

\* DELETE ... WHERE expires_at < now, first in a submit and in a pending
Fresh == Drop(queue, lapsed)
FreshRows == RowSet \ lapsed

\* The rows a login or a kill of device d deletes.
Touching(d) == {r \in RowSet : d \in {r.target, r.source}}

\* What is owed without the rows of device d
Withdrawn(d) == {r \in owed : d \notin {r.target, r.source}}

\* DELETE of the rows in S
Deleted(S) == queue' = Drop(queue, S) /\ lapsed' = lapsed \ S

-----------------------------------------------------------------------------
(* Profiles, logins and kills *)

\* POST /chat/attachment_device_profile.  What was sealed to the old key can be
\* opened no more, and its rows stay.
UpdateProfile(d, k) ==
  /\ LoggedIn(d) /\ profile[d] # k
  /\ profile' = [profile EXCEPT ![d] = k]
  /\ opening' = [opening EXCEPT ![d] = {}]
  /\ owed' = {r \in owed : r.target # d}
  /\ UNCHANGED <<queue, lapsed, killing>>

\* POST /chat/login: the device's rows go and its new session has no profile.
Login(d) ==
  /\ profile' = [profile EXCEPT ![d] = NoKey]
  /\ Deleted(Touching(d))
  /\ opening' = [opening EXCEPT ![d] = {}]
  /\ killing' = [killing EXCEPT ![d] = IF @ = "yes" THEN "late" ELSE @]
  /\ owed' = Withdrawn(d)

\* POST /chat/kill_device by a main device: the target has a socket, and the
\* notice to it is awaited with nothing deleted yet.
KillBegins(d) ==
  /\ \E m \in Mains : LoggedIn(m)
  /\ LoggedIn(d) /\ killing[d] = "no"
  /\ killing' = [killing EXCEPT ![d] = "yes"]
  /\ UNCHANGED <<profile, queue, lapsed, opening, owed>>

\* The send raises and the handler ends, or the session that was read before
\* the await is deleted; the rows of the device go with it, also when the
\* device has logged in to another session meanwhile.
KillEnds(d) ==
  /\ killing[d] # "no"
  /\ killing' = [killing EXCEPT ![d] = "no"]
  /\ \/ UNCHANGED <<profile, queue, lapsed, opening, owed>>
     \/ /\ Deleted(Touching(d))
        /\ owed' = Withdrawn(d)
        /\ IF killing[d] = "yes"
             THEN profile' = [profile EXCEPT ![d] = NoSession] /\ opening' = [opening EXCEPT ![d] = {}]
             ELSE UNCHANGED <<profile, opening>>

-----------------------------------------------------------------------------
(* Envelopes *)

\* What device d can open
ByKey(d, rs) == {r \in rs : r.key = profile[d]}

\* A response or a live copy with the rows rs reaches the device.
Opens(d, rs) == opening' = [opening EXCEPT ![d] = @ \cup {r.id : r \in ByKey(d, rs)}]

\* POST /chat/attachment_device_sync: device s, which knows the key of d.  When
\* the target has an envelope of that id the new one is ignored and the old one
\* is sent again, whatever key it is sealed to.  The live copy arrives or not.
Submit(s, d, i) ==
  LET had == {r \in FreshRows : Matches(r, d, i)}
      row == Row(s, d, i, profile[d])
  IN
  /\ HasProfile(s) /\ HasProfile(d)
  /\ had = {} => Cardinality({r \in FreshRows : r.target = d}) < Capacity
  /\ queue' = IF had = {} THEN Append(Fresh, row) ELSE Fresh
  /\ lapsed' = {}
  /\ LET kept == IF had = {} THEN {row} ELSE had
         due == {r \in ByKey(d, kept) : i \notin opening[d]}
     IN \/ Opens(d, kept) /\ owed' = owed \ due
        \/ UNCHANGED opening /\ owed' = owed \cup due
  /\ UNCHANGED <<profile, killing>>

\* mutant: target_key_id is left out of the query
Addressed(d) == {r \in FreshRows : r.target = d}

\* WHERE target_device_id=? AND target_key_id=?
Readable(d) == {r \in FreshRows : r.target = d /\ r.key = profile[d]}

FirstPage(d) ==
  LET K == {n \in DOMAIN queue : queue[n] \in Readable(d)}
  IN {queue[n] : n \in {k \in K : Place(K, k) <= PageSize}}

\* GET /chat/attachment_device_sync/pending
Pending(d) ==
  /\ HasProfile(d)
  /\ queue' = Fresh /\ lapsed' = {}
  /\ \/ Opens(d, FirstPage(d)) /\ owed' = owed \ FirstPage(d)
     \/ UNCHANGED <<opening, owed>>
  /\ UNCHANGED <<profile, killing>>

\* mutant: target_device_id is left out of the DELETE
AckedAnywhere(d) == {r \in RowSet : r.id \in opening[d]}

\* Whatever key they are sealed to
AckedRows(d) == {r \in RowSet : r.target = d /\ r.id \in opening[d]}

\* POST /chat/attachment_device_sync/ack, of what the device has opened
Ack(d) ==
  /\ LoggedIn(d) /\ opening[d] # {}
  /\ Deleted(AckedRows(d))
  /\ opening' = [opening EXCEPT ![d] = {}]
  /\ UNCHANGED <<profile, killing, owed>>

\* The 30 days of a row are over.
EnvelopeLapses(r) ==
  /\ lapsed' = lapsed \cup {r}
  /\ owed' = owed \ {r}
  /\ UNCHANGED <<profile, queue, opening, killing>>

\* DELETE of the account, or its reset: every session and row goes.
PurgeDevices ==
  /\ profile' = [d \in Devices |-> NoSession]
  /\ queue' = <<>> /\ lapsed' = {}
  /\ opening' = [d \in Devices |-> {}]
  /\ owed' = {}
  /\ UNCHANGED killing

\* A kill that was under way is forgotten.
SyncCrash ==
  /\ killing' = [d \in Devices |-> "no"]
  /\ UNCHANGED <<profile, queue, lapsed, opening, owed>>

EnvelopeNext ==
  \/ \E d \in Devices, k \in Keys : UpdateProfile(d, k)
  \/ \E d \in Devices : Pending(d) \/ Ack(d)
  \/ \E s, d \in Devices, i \in Envelopes : Submit(s, d, i)
  \/ \E r \in RowSet \ lapsed : EnvelopeLapses(r)

SyncNext == EnvelopeNext \/ \E d \in Devices : Login(d) \/ KillBegins(d) \/ KillEnds(d)

\* A device that polls gets what it has not got, and acknowledges it.
SyncFairness ==
  \A d \in Devices : SF_sync(Pending(d) /\ opening' # opening) /\ WF_sync(Ack(d))

SyncSpec == SyncInit /\ [][SyncNext \/ PurgeDevices \/ SyncCrash]_sync /\ SyncFairness

-----------------------------------------------------------------------------
(* Properties *)

SyncTypeOK ==
  /\ profile \in [Devices -> Keys \cup {NoKey, NoSession}]
  /\ RowSet \subseteq [source : Devices, target : Devices, id : Envelopes, key : Keys]
  /\ lapsed \subseteq RowSet
  /\ opening \in [Devices -> SUBSET Envelopes]
  /\ killing \in [Devices -> {"no", "yes", "late"}]
  /\ owed \subseteq [source : Devices, target : Devices, id : Envelopes, key : Keys]

\* An envelope the submitter was told is accepted stays in the table until its
\* target has opened it, while neither device is replaced and its key and its
\* time hold: no other device's acknowledgement, and no expiry of another row,
\* takes it.
EnvelopeIsKept == owed \subseteq RowSet

\* It is opened in the end: neither the page limit nor rows sealed to a key
\* the device has given up keep it back.
Waits(d, i) == \E r \in owed : Matches(r, d, i)
EnvelopeArrives == \A d \in Devices, i \in Envelopes : Waits(d, i) ~> ~ Waits(d, i)
=============================================================================
