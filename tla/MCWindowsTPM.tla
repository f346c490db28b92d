---------------------------- MODULE MCWindowsTPM ----------------------------
(***************************************************************************)
(* Two processes, two names, and stored keys from elsewhere.               *)
(***************************************************************************)
EXTENDS WindowsTPM, TLC

CONSTANTS p1, p2, h1, h2, h3, n1, n2

MCForeign == {[encoding |-> "encrypted", version |-> "2.0", name |-> n, key |-> 0] : n \in {n1, n2}}
             \cup {[encoding |-> "os", version |-> "1.2", name |-> n, key |-> 0] : n \in {n1, n2}}

Symmetry == Permutations({p1, p2}) \cup Permutations({h1, h2, h3}) \cup Permutations({n1, n2})
=============================================================================
