--------------------------- MODULE MCPendingMailbox ---------------------------
(* Small instances of PendingMailbox for TLC. *)
EXTENDS PendingMailbox, TLC

CONSTANTS alice, bob, a1, a2, b1

\* devices a1 and a2 belong to alice, b1 to bob
OwnerOf == [s \in Sessions |-> IF s = b1 THEN bob ELSE alice]

TokenSymmetry == Permutations(Tokens)
=============================================================================
