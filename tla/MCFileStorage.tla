--------------------------- MODULE MCFileStorage ---------------------------
(* Small instances of FileStorage for TLC. *)
EXTENDS FileStorage

CONSTANTS alice, bob, u1, d1, d2

\* Everything is alice's but d2.
OwnerOf == [i \in Items |-> IF i = d2 THEN bob ELSE alice]
=============================================================================
