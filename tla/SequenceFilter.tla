---------------------------- MODULE SequenceFilter ----------------------------
(***************************************************************************)
(* The part of a list, or of a table in the order of its row ids, that a   *)
(* condition keeps, in the same order: what a list comprehension with an   *)
(* if, a DELETE ... WHERE and a SELECT ... ORDER BY id leave (auth.py,     *)
(* storm_guard.py, legacy_app.py).  SelectSeq of the module Sequences is   *)
(* the same, but it is recursive and has no facts to prove with; here an   *)
(* entry goes to the place that its position has among the positions kept. *)
(***************************************************************************)
EXTENDS Naturals, Sequences, FiniteSets

\* How many of the positions K are n or before
Place(K, n) == Cardinality({k \in K : k <= n})

\* The entries of q at the positions K
Pick(q, K) == [m \in 1 .. Cardinality(K) |-> q[CHOOSE n \in K : Place(K, n) = m]]

\* The entries of q that are in S, and those that are not
Select(q, S) == Pick(q, {n \in DOMAIN q : q[n] \in S})
Drop(q, S) == Pick(q, {n \in DOMAIN q : q[n] \notin S})
=============================================================================
