----------------------- MODULE MCCredentialActivation -----------------------
(***************************************************************************)
(* The instance of CredentialActivation that TLC checks: two TPMs 2.0 and  *)
(* one 1.2, two key pairs, and public areas of four kinds: an AK, an       *)
(* application key, one that is too small, and a key that can be exported. *)
(***************************************************************************)
EXTENDS CredentialActivation, TLC

CONSTANTS t1, t2, t3

MCFormat == t1 :> "2.0" @@ t2 :> "2.0" @@ t3 :> "tcsd"

Area(i, a, s, f) == [id |-> i, alg |-> a, secure |-> s, flags |-> f]
MCPublic ==
  UNION { { Area(i, "rsa", TRUE, SignerDefault),
            Area(i, "rsa", TRUE, SignerDefault \ {"restricted"}),
            Area(i, "rsa", FALSE, SignerDefault \ {"restricted"}),
            Area(i, "rsa", TRUE, {"sensitiveDataOrigin", "restricted"}) } : i \in Id }

Symmetry == Permutations({t1, t2}) \cup Permutations(Id) \cup Permutations(Session)
=============================================================================
