---------------------------- MODULE MCAccountData ----------------------------
(* Small instances of AccountData for TLC: a scene in which one of its parts *)
(* is at work, with accounts that go and processes that stop.                *)
EXTENDS AccountData, TLC

CONSTANTS e2, s2, d1, i1, c1, c2, l1, user1, user2, ip, node1, node2, p1, p2

MCAccount == (c1 :> user1) @@ (c2 :> user1) @@ (l1 :> user2)
MCUserOf == [x \in {user1, user2} |-> x]
MCAddress == [c \in Clients |-> ip]
MCUserCap == ("pending_fetch" :> 2) @@ ("login" :> 1)
MCIpLimit == ("pending_fetch" :> 3) @@ ("login" :> 2)
MCSessionCap == ("pending_fetch" :> 1) @@ ("login" :> 1)

\* The filter of SequenceFilter is that of the module Sequences.
ASSUME FilterIsSelectSeq ==
  \A q \in UNION {[1 .. n -> 1 .. 3] : n \in 0 .. 4}, S \in SUBSET (1 .. 3) :
    /\ Select(q, S) = SelectSeq(q, LAMBDA x : x \in S)
    /\ Drop(q, S) = SelectSeq(q, LAMBDA x : x \notin S)

VARIABLE scene

\* Who asks for what: two sessions that fetch, or one and a login.
Asking(r) == \/ scene = "fetches" /\ r \in {c1, c2} \X {"pending_fetch"}
             \/ scene = "login" /\ r \in {<<c1, "pending_fetch">>, <<l1, "login">>}

\* The devices of an account are logged in where envelopes are.
MCInit ==
  /\ AccountInit
  /\ scene \in {"events", "sockets", "envelopes", "devices", "donations", "fetches", "login",
                "nodes", "screens"}
  /\ \A d \in Devices : profile[d] = IF scene = "envelopes" THEN NoKey ELSE NoSession

MCStep ==
  \/ scene \in {"events", "sockets"} /\ EventStep
  \/ scene = "envelopes" /\ EnvelopeNext /\ UNCHANGED <<lifecycle, money, guards, reach>>
  \/ scene = "devices" /\ EnvelopeStep
  \/ scene = "donations" /\ DonationStep
  \/ /\ scene \in {"fetches", "login"}
     /\ \/ \E r \in Clients \X Heavy : Asking(r) /\ Request(r[1], r[2])
        \/ Tick
        \/ ForgetCalls
     /\ UNCHANGED <<lifecycle, sync, money, reach>>
  \/ scene \in {"nodes", "screens"} /\ OutreachStep
  \/ scene \in {"events", "sockets", "devices", "screens"} /\ AccountGone
  \/ scene \in {"events", "sockets", "devices", "fetches", "nodes", "screens"} /\ ProcessStops

MCNext ==
  /\ UNCHANGED scene
  /\ MCStep
  /\ scene = "login" => now' < MaxTime  \* a tick less, for more requests
  \* one socket with two events, or one event with two sockets
  /\ scene = "events" => s2 \notin online'
  /\ scene = "sockets" => entry'[e2] = Absent
  \* two envelopes to one device at most, one to the other, none to itself
  /\ \A r \in RowSet' :
       r.source # r.target /\ (r.target = d1 \/ scene = "devices" => r.id = i1)
  \* one process routes; a session that moves to the other one, or two sessions
  \* that report what they show, with Redis up
  /\ channel'[node1] = {} /\ jobs'[node2] = <<>>
  /\ scene = "nodes" =>
       p2 \notin registry'[node1] \cup registry'[node2] /\ p1 \notin shown'[node1] \cup shown'[node2]
  /\ scene = "screens" =>
       registry'[node2] = {} /\ presence' = registry'[node1] /\ redis'

MCSpec == MCInit /\ [][MCNext]_<<accountVars, scene>> /\ SyncFairness
=============================================================================
