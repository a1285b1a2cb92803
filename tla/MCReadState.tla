---------------------------- MODULE MCReadState ----------------------------
(* Small instances of ReadState for TLC. *)
EXTENDS ReadState

CONSTANTS alice, bob, a1, a2, b1, m1, m2

\* bob writes to alice, who reads on two devices.
OwnerOf == [d \in Devices |-> IF d = b1 THEN bob ELSE alice]
FromBob == [m \in Msgs |-> bob]
ToAlice == [m \in Msgs |-> alice]
\* Each writes to the other.
FromEach == [m \in Msgs |-> IF m = m1 THEN bob ELSE alice]
ToEach == [m \in Msgs |-> IF m = m1 THEN alice ELSE bob]

RankOf == [m \in Msgs |-> IF m = m1 THEN 1 ELSE 2]
=============================================================================
