------------------------------ MODULE Verifier ------------------------------
(***************************************************************************)
(* What the verification functions decide, as relations between quotes,    *)
(* PCR values and event logs.  Attestation uses these operators; module    *)
(* QuoteVerify has the loops of AKPublic.Verify and VerifyAll, and module  *)
(* EventLogReplay those of EventLog.Verify, and both are checked against   *)
(* them.                                                                   *)
(*                                                                         *)
(* A quote is [nonce, bank, vals], PCR values p are a function on banks of *)
(* functions on registers, and a log has one chain of digests per          *)
(* register.  Hashing is free: values are equal exactly when the chains    *)
(* that led to them are.                                                   *)
(***************************************************************************)
EXTENDS Integers, Sequences

CONSTANTS
  PCRIndex,      (* the registers of a bank (numPCRs = 24 of them)            *)
  WorkaroundPCR, (* affectedPCR of every entry of eventlogWorkarounds         *)
  Workarounds,   (* the digests each workaround appends, in order of trial    *)
  NoNonce        (* the nonce of length 0                                     *)

\* Mutants: the nonce, or the digest over the values, is not compared.
Validate20QuoteAnyNonce(q, p, n) ==
  /\ q.bank \in DOMAIN p
  /\ q.vals = p[q.bank]

Validate20QuoteNoDigest(q, p, n) ==
  /\ q.nonce = n
  /\ q.bank \in DOMAIN p

\* AKPublic.validate20Quote on the registers p, by bank: the nonce is the
\* expected one, every register of the quote's bank is given and covered, and
\* the values hash to the quoted digest.  Module QuoteVerify has the loops.
Validate20Quote(q, p, n) ==
  /\ q.nonce = n
  /\ q.bank \in DOMAIN p
  /\ q.vals = p[q.bank]

\* Mutant: banks that no quote covers go unnoticed.
VerifyAllUncovered(qs, p, n) ==
  /\ qs # {} /\ n # NoNonce
  /\ \A q \in qs : Validate20Quote(q, p, n)

\* AKPublic.VerifyAll: there are quotes and a nonce, every quote is valid and every
\* bank given is covered.
VerifyAll(qs, p, n) ==
  /\ qs # {} /\ n # NoNonce
  /\ \A q \in qs : Validate20Quote(q, p, n)
  /\ \A b \in DOMAIN p : \E q \in qs : q.bank = b

\* Mutant: the replayed value is not compared with the register.
ReplayPCRNoCompare(events, val) == Len(events) <= Len(val)

\* replayPCR: the log has no event for the register, or its events chain up to
\* the register's value.
ReplayPCR(events, val) == events = << >> \/ events = val

\* Mutant: a register must replay in every bank.
InvalidPCRsAnyBank(log, p) ==
  {i \in PCRIndex : \E b \in DOMAIN p : ~ReplayPCR(log[i], p[b][i])}

\* replayEvents: the registers no bank of p replays.
InvalidPCRs(log, p) ==
  {i \in PCRIndex : \A b \in DOMAIN p : ~ReplayPCR(log[i], p[b][i])}

\* The log after workaround w.
Inject(log, w) == [log EXCEPT ![WorkaroundPCR] = @ \o Workarounds[w]]

\* EventLog.Verify(p) on log returns the events of the log evs: the log as it
\* is, or with the first workaround that makes it replay if the failure
\* affects the register the workarounds are for.
EventLogVerify(log, p, evs) ==
  \/ InvalidPCRs(log, p) = {} /\ evs = log
  \/ /\ WorkaroundPCR \in InvalidPCRs(log, p)
     /\ \E w \in DOMAIN Workarounds :
          /\ InvalidPCRs(Inject(log, w), p) = {}
          /\ \A v \in 1 .. w - 1 : InvalidPCRs(Inject(log, v), p) # {}
          /\ evs = Inject(log, w)
=============================================================================
