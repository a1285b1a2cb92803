-------------------------- MODULE MCMessageDelivery --------------------------
(* Small instances of MessageDelivery for TLC. *)
EXTENDS MessageDelivery, TLC

CONSTANTS alice, bob, a1, a2, a3, b1, b2, ab, ba, note

\* devices a1, a2, a3 belong to alice, b1 and b2 to bob
OwnerOf == [d \in Devices |-> IF d \in {b1, b2} THEN bob ELSE alice]

\* ab is sent by a1 to bob, ba by b1 to alice, note by a1 to its own user
AuthorOf == [m \in Msgs |-> IF m = ba THEN b1 ELSE a1]
DestOf == [m \in Msgs |-> IF m = ab THEN bob ELSE alice]

\* The connections that this scenario opens; messages it leaves out count as sent.
Opening(cs) == [c \in Conns |-> IF c \in cs THEN "new" ELSE "down"]
Once(ds) == ds \X {1}

\* Traffic: a1 and b1, each with one connection, send all the messages.
Traffic == InitWith(Opening(Once({a1, b1})), {}, "running")

\* Reconnects: only ab is sent; the recipient connects twice, or a device of the
\* sender does.
Reconnects ==
  \E d \in {a1, a2, b1} :
    InitWith(Opening(Once({a1, a2, b1}) \cup {<<d, 2>>}), Msgs \ {ab}, "running")

\* Mounted: the same traffic under new_main:app, where no worker runs
Mounted == InitWith(Opening(Once({a1, b1})), Msgs \ {ab, note}, "off")

MCInit == Traffic \/ Reconnects \/ Mounted
MCSpec == MCInit /\ [][Next]_vars /\ Fairness
=============================================================================
