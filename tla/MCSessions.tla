----------------------------- MODULE MCSessions -----------------------------
(* Small instances of Sessions for TLC. *)
EXTENDS Sessions, TLC

CONSTANTS u1, u2, a1, a2, b1

OwnerOf == [d \in Devices |-> IF d = b1 THEN u2 ELSE u1]

\* No property distinguishes the secrets.
Interchangeable == Permutations(Secrets)
=============================================================================
