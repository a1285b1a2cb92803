----------------------------- MODULE MCLicensing -----------------------------
(* Small instances of Licensing, and of ServerIdentity within it, for TLC. *)
EXTENDS Licensing, TLC

CONSTANTS main, admin, r1, r2, l1, l2, q1, q2, q3

MCInit ==
  \/ InitWith(Rotations, MaxKeys) /\ LicenceInitWith({})
  \/ InitWith({r1}, 2) /\ LicenceInitWith(Requests)
MCSpec == MCInit /\ [][LicenceNext]_<<vars, licence>>

\* Requests are alike, and so are licences.
Alike == Permutations(Requests) \cup Permutations(Licences)
=============================================================================
