--------------------------- MODULE MCQuoteVerify ---------------------------
(***************************************************************************)
(* The instance of QuoteVerify that TLC checks: a TPM with two registers,  *)
(* a SHA1 and a SHA256 bank, quoted in two states for two nonces; quotes   *)
(* over one register, by another key, of another type and of a bank that   *)
(* the code has no hash for; and slices that are complete, partial, torn   *)
(* between the two states, unsorted, or have a register twice.             *)
(***************************************************************************)
EXTENDS QuoteVerify, TLC

MCHashID == "sha1" :> 4 @@ "sha256" :> 11 @@ "sha384" :> 12 @@ "vendor" :> 267
MCBank == DOMAIN MCHashID
MCDigest == {"a0", "a1", "b0", "b1", "c0"}

\* The value of a register: register 0 changes between the two states.
Value(b, i, t) ==
  IF i = 0 /\ t = 2 THEN "c0"
  ELSE IF b = "sha1" THEN (IF i = 0 THEN "a0" ELSE "a1")
  ELSE (IF i = 0 THEN "b0" ELSE "b1")

MCQuote(v, n, b, I, t) ==
  [version |-> v, signer |-> "ak", typ |-> "quote", nonce |-> n, bank |-> b,
   vals |-> [i \in I |-> Value(b, i, t)]]

Good == MCQuote(20, "n1", "sha1", {0, 1}, 1)

MCQuotes ==
  {MCQuote(20, n, b, {0, 1}, 1) : n \in {"n1", "n2"}, b \in {"sha1", "sha256"}}
    \cup {MCQuote(20, "n1", b, {0, 1}, 2) : b \in {"sha1", "sha384"}}
    \cup {MCQuote(20, "n2", "sha1", {0}, 1)}
    \cup {MCQuote(12, "n1", "sha1", {0, 1}, 1), MCQuote(12, "n1", "sha1", {0}, 2)}
    \cup {[Good EXCEPT !.signer = "other"],
          [MCQuote(20, "n1", "vendor", {0, 1}, 1) EXCEPT !.signer = "other"],
          [Good EXCEPT !.typ = "certify"],
          [Good EXCEPT !.version = 0]}

Register(b, i, t) ==
  [index |-> i, alg |-> b, digest |-> Value(b, i, t), quoteVerified |-> FALSE]

MCSlices ==
  { << Register("sha1", 0, 1), Register("sha1", 1, 1) >>,
    << Register("sha1", 1, 1), Register("sha1", 0, 2) >>,
    << Register("sha1", 0, 1) >>,
    << Register("sha1", 1, 1), Register("sha256", 1, 1), Register("sha1", 0, 1),
       Register("sha256", 0, 1) >>,
    << Register("sha1", 0, 2), Register("sha1", 0, 1), Register("sha1", 1, 1) >> }
=============================================================================
