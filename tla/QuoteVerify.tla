----------------------------- MODULE QuoteVerify -----------------------------
(***************************************************************************)
(* AKPublic.Verify and AKPublic.VerifyAll (attest.go) with                 *)
(* validate20Quote and validate12Quote (eventlog.go): calls, one after the *)
(* other, on one slice of PCRs.  They leave marks on the caller's slice:   *)
(* the quoteVerified bits, which stay set whatever a later call returns,   *)
(* and its order, which validate12Quote sorts.                             *)
(*                                                                         *)
(* A signature is free: a quote has a signer.  Hashing is free: a digest   *)
(* over registers is the sequence of their values.  A digest has the size  *)
(* of its algorithm, so a sequence of digests is determined by its bytes;  *)
(* the code does not check the sizes.                                      *)
(***************************************************************************)
EXTENDS Integers, Sequences, FiniteSets, SequencesExt

CONSTANTS
  PCRIndex,  (* the registers of a bank                                      *)
  Bank,      (* hash algorithms                                              *)
  HashID,    (* the TPM's identifier of each                                 *)
  Digest,    (* values of registers                                          *)
  Nonce,     (* nonces that are passed to Verify, NoNonce among them         *)
  NoNonce,   (* the nonce of length 0                                        *)
  Quotes,    (* the quotes there are, signed by the AK or by another key     *)
  Slices,    (* the slices of PCRs a caller has                              *)
  KeyTypes,  (* the types of AKPublic.Public                                 *)
  MaxCalls,  (* bound: calls on one slice                                    *)
  MaxQuotes  (* bound: quotes in a call of VerifyAll                         *)

PCRs == [index : PCRIndex, alg : {"sha1", "sha256"}, digest : Digest, quoteVerified : BOOLEAN]

ASSUME PCRsAssumption ==
  /\ IsFiniteSet(PCRIndex) /\ PCRIndex \subseteq Nat
  /\ Slices \subseteq Seq(PCRs)
  /\ \A s \in Slices : \A k \in DOMAIN s : ~s[k].quoteVerified

ASSUME HashIDAssumption ==
  /\ {"sha1", "sha256"} \subseteq Bank
  /\ HashID \in [Bank -> Nat]
  /\ HashID["sha1"] = 4 /\ HashID["sha256"] = 11
  /\ \A a, b \in Bank : HashID[a] = HashID[b] => a = b

\* The TPM has banks of algorithms in the TCG's registry, where all identifiers of
\* hash algorithms are below 256; a quote that no TPM made can have any.
ASSUME QuotesAssumption ==
  \A q \in Quotes :
    /\ q.bank \in Bank
    /\ q.signer = "ak" => HashID[q.bank] < 256
    /\ q.version \in {12, 20, 0}
    /\ DOMAIN q.vals \subseteq PCRIndex /\ DOMAIN q.vals # {}
    /\ q.vals \in [DOMAIN q.vals -> Digest]

VARIABLES
  keyType,  \* the type of the AK's public key
  pcrs,     \* the caller's slice
  shown,    \* the quotes the calls got together with their nonce
  calls,    \* number of calls
  pc,       \* where the call is
  all,      \* the call is one of VerifyAll
  quotes,   \* its quotes
  next,     \* the quote it verifies next
  nonce,    \* its nonce
  given,    \* the slice when it was called
  result    \* what the last call returned

callVars == <<all, quotes, nonce, given>>
vars == <<keyType, pcrs, shown, calls, pc, callVars, next, result>>

Init ==
  /\ keyType \in KeyTypes
  /\ pcrs \in Slices
  /\ shown = {}
  /\ calls = 0
  /\ pc = "idle"
  /\ all = FALSE
  /\ quotes = << >>
  /\ next = 1
  /\ nonce = NoNonce
  /\ given = pcrs
  /\ result = "none"

-----------------------------------------------------------------------------
(***************************************************************************)
(* What a quote is compared with.                                          *)
(***************************************************************************)

\* HashAlg has eight bits, to which validate20Quote cuts the identifier in the quote
\* (eventlog.go:360).
cryptoHash(b) ==
  LET a == HashID[b] % 256
  IN  IF a = 4 THEN "sha1" ELSE IF a = 11 THEN "sha256" ELSE "none"

\* The values of f in the order of the registers.
Nth(S, k) == CHOOSE i \in S : Cardinality({j \in S : j <= i}) = k
Concat(f) == [k \in 1 .. Cardinality(DOMAIN f) |-> f[Nth(DOMAIN f, k)]]

\* The registers of the slice s that have algorithm a, by index: the last one
\* of an index counts.
pcrByIndex(s, a) ==
  LET At(i) == {k \in DOMAIN s : s[k].alg = a /\ s[k].index = i}
      idx   == {s[k].index : k \in {j \in DOMAIN s : s[j].alg = a}}
  IN  [i \in idx |-> s[CHOOSE k \in At(i) : \A j \in At(i) : j <= k].digest]

Signed(q) == keyType = "rsa" /\ q.signer = "ak" /\ q.typ = "quote" /\ q.nonce = nonce

\* validate20Quote returns nil: the quote is signed and has the nonce, is over
\* exactly the registers given for its bank, and their values hash to its digest.
Quoted20(q, s) ==
  LET f == pcrByIndex(s, cryptoHash(q.bank))
  IN  /\ Signed(q)
      /\ DOMAIN q.vals \subseteq DOMAIN f
      /\ DOMAIN f \subseteq DOMAIN q.vals
      /\ Concat(q.vals) = Concat(f)

\* Mutant: every register of the slice is marked.
MarkAll20(q, s) == [k \in DOMAIN s |-> [s[k] EXCEPT !.quoteVerified = TRUE]]

\* The slice with the registers marked that the quote is over.
Mark20(q, s) ==
  [k \in DOMAIN s |->
     IF s[k].index \in DOMAIN q.vals /\ s[k].alg = cryptoHash(q.bank)
       THEN [s[k] EXCEPT !.quoteVerified = TRUE] ELSE s[k]]

\* The slices sort.Slice can make of s: it is not stable.
Sortings(s) ==
  {t \in {[k \in DOMAIN s |-> s[f[k]]] : f \in Bijection(DOMAIN s, DOMAIN s)} :
     \A j, k \in DOMAIN s : j < k => t[j].index <= t[k].index}

\* The composite hash of validate12Quote over the sorted slice: which registers
\* there are, and their values.
Quoted12(q, s) ==
  /\ {s[k].index : k \in DOMAIN s} = DOMAIN q.vals
  /\ [k \in DOMAIN s |-> s[k].digest] = Concat(q.vals)

Mark12(s) == [k \in DOMAIN s |-> [s[k] EXCEPT !.quoteVerified = TRUE]]

-----------------------------------------------------------------------------
(***************************************************************************)
(* The calls.                                                              *)
(***************************************************************************)

Call(isAll, qs, n) ==
  /\ pc = "idle"
  /\ calls < MaxCalls
  /\ calls' = calls + 1
  /\ pc' = "verify"
  /\ all' = isAll
  /\ quotes' = qs
  /\ next' = 1
  /\ nonce' = n
  /\ given' = pcrs
  /\ shown' = shown \cup {q \in ToSet(qs) : q.nonce = n}
  /\ result' = "none"
  /\ UNCHANGED <<keyType, pcrs>>

Verify(q, n) == Call(FALSE, <<q>>, n)

VerifyAll(qs, n) == Call(TRUE, qs, n)

Return(r) == pc' = "idle" /\ result' = r

\* VerifyAll returns an error for no quotes, or no nonce.
Refuse ==
  /\ pc = "verify" /\ next = 1 /\ all
  /\ quotes = << >> \/ nonce = NoNonce
  /\ Return("error")
  /\ UNCHANGED <<keyType, pcrs, shown, calls, callVars, next>>

Verifying ==
  /\ pc = "verify"
  /\ next <= Len(quotes)
  /\ ~(all /\ nonce = NoNonce)

Accepted ==
  /\ next' = next + 1
  /\ IF all THEN UNCHANGED <<pc, result>> ELSE Return("ok")

Rejected ==
  /\ Return("error")
  /\ UNCHANGED next

\* validate20Quote.
validate20Quote ==
  /\ Verifying
  /\ LET q == quotes[next]
     IN  /\ q.version = 20
         /\ IF Quoted20(q, pcrs)
              THEN Accepted /\ pcrs' = Mark20(q, pcrs)
              ELSE Rejected /\ UNCHANGED pcrs
  /\ UNCHANGED <<keyType, shown, calls, callVars>>

\* validate12Quote: a quote that is signed sorts the slice, whatever follows.
validate12Quote ==
  /\ Verifying
  /\ LET q == quotes[next]
     IN  /\ q.version = 12
         /\ \/ ~Signed(q) /\ Rejected /\ UNCHANGED pcrs
            \/ /\ Signed(q)
               /\ \E s \in Sortings(pcrs) :
                    IF Quoted12(q, s)
                      THEN Accepted /\ pcrs' = Mark12(s)
                      ELSE Rejected /\ pcrs' = s
  /\ UNCHANGED <<keyType, shown, calls, callVars>>

\* Verify does not know the version of the quote.
UnknownVersion ==
  /\ Verifying
  /\ quotes[next].version \notin {12, 20}
  /\ Rejected
  /\ UNCHANGED <<keyType, pcrs, shown, calls, callVars>>

\* Mutant: VerifyAll returns without looking for registers no quote is over.
CoveredSkipped ==
  /\ pc = "verify" /\ all /\ quotes # << >> /\ next > Len(quotes)
  /\ Return("ok")
  /\ UNCHANGED <<keyType, pcrs, shown, calls, callVars, next>>

\* VerifyAll went through its quotes: every register must be marked.
Covered ==
  /\ pc = "verify" /\ all /\ quotes # << >> /\ next > Len(quotes)
  /\ Return(IF \A k \in DOMAIN pcrs : pcrs[k].quoteVerified THEN "ok" ELSE "error")
  /\ UNCHANGED <<keyType, pcrs, shown, calls, callVars, next>>

Next ==
  \/ \E q \in Quotes, n \in Nonce : Verify(q, n)
  \/ \E m \in 0 .. MaxQuotes : \E qs \in [1 .. m -> Quotes], n \in Nonce : VerifyAll(qs, n)
  \/ Refuse
  \/ validate20Quote
  \/ validate12Quote
  \/ UnknownVersion
  \/ Covered

Spec == Init /\ [][Next]_vars

-----------------------------------------------------------------------------
(***************************************************************************)
(* Properties.                                                             *)
(***************************************************************************)

\* No two elements of the slice are the same register of the same bank: what
\* AttestPlatform and TPM.PCRs return.
Distinct(s) ==
  \A j, k \in DOMAIN s : s[j].index = s[k].index /\ s[j].alg = s[k].alg => j = k

\* QuoteVerified "returns true if the value of this PCR was previously verified
\* against a Quote": after any sequence of calls, of which some failed halfway
\* and some sorted the slice, a marked register has the value that a quote of
\* the AK shows for it, one that a call got together with its nonce.
MarksAuthentic ==
  Distinct(given) =>
    \A k \in DOMAIN pcrs : pcrs[k].quoteVerified =>
      \E q \in shown :
        /\ q.signer = "ak" /\ q.typ = "quote"
        /\ q.version = 20 => q.bank = pcrs[k].alg
        /\ pcrs[k].index \in DOMAIN q.vals
        /\ q.vals[pcrs[k].index] = pcrs[k].digest

\* The slice as Verifier has it, and the quotes of it.
Values(s) ==
  [a \in {s[k].alg : k \in DOMAIN s} |-> pcrByIndex(s, a)]
Unmarked(s) == \A k \in DOMAIN s : ~s[k].quoteVerified
Genuine(q) == keyType = "rsa" /\ q.signer = "ak" /\ q.typ = "quote" /\ q.version = 20

V == INSTANCE Verifier WITH WorkaroundPCR <- 5, Workarounds <- << >>

\* On a slice that no earlier call has marked, VerifyAll decides what the
\* relation VerifyAll of Verifier says, which is what Attestation uses: it
\* accepts exactly the quotes that were made for this nonce, agree with all the
\* registers of their banks and leave none out; and it reports a register that
\* no quote is over.
DecidesAsSpecified ==
  /\ pc = "idle" /\ result # "none" /\ all
  /\ Distinct(given) /\ Unmarked(given)
  /\ \A q \in ToSet(quotes) : q.version = 20
  => (result = "ok" <=>
        /\ \A q \in ToSet(quotes) : Genuine(q)
        /\ V!VerifyAll(ToSet(quotes), Values(given), nonce))
=============================================================================
