---------------------------- MODULE MCTPMHandles ----------------------------
(***************************************************************************)
(* The instances of TPMHandles that TLC checks: two processes, one handle  *)
(* for the storage root key, keys of two algorithms, and two transient     *)
(* handles for each process.                                               *)
(***************************************************************************)
EXTENDS TPMHandles, TLC

CONSTANTS p1, p2, rsa, ecdsa, h1, h2

Symmetry == Permutations({p1, p2}) \cup Permutations({rsa, ecdsa}) \cup Permutations({h1, h2})
=============================================================================
