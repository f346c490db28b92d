-------------------------- MODULE AttestationProofs --------------------------
(***************************************************************************)
(* Proofs about Attestation, for any registers, banks, nonces, digests,    *)
(* logs and bounds.                                                        *)
(***************************************************************************)
EXTENDS Attestation, FiniteSetTheorems, TLAPS

(***************************************************************************)
(* What a platform step may do to the registers, and the client to the     *)
(* bank it works on.                                                       *)
(***************************************************************************)

\* NextBank keeps the types of what it assigns.
LEMMA NextBankType ==
  ASSUME TypeOK, NEW qs, NextBank(qs)
  PROVE  /\ alg' \in 1 .. Len(Algs)
         /\ pc' \in {"read", "done", "failed"}
         /\ tries' = 0
         /\ out' = NoRegisters
         /\ quote' = NoQuote
  <1>1. Len(Algs) \in Nat
    BY BanksAssumption
  <1> QED
    BY <1>1 DEF NextBank, TypeOK

\* There is at least one register.
LEMMA NumPCRsType == NumPCRs \in Nat /\ NumPCRs >= 1
  <1>1. NumPCRs \in Nat
    BY RegistersAssumption, FS_CardinalityType DEF NumPCRs
  <1>2. NumPCRs # 0
    BY RegistersAssumption, FS_EmptySet DEF NumPCRs
  <1> QED
    BY <1>1, <1>2

\* Extending or resetting a register keeps the types of the banks.
LEMMA ExtendType ==
  ASSUME TypeOK, NEW i \in PCRIndex, NEW d \in Digest, NEW bad
  PROVE  [b \in Bank |->
            [pcr[b] EXCEPT ![i] = Append(@, IF b \in bad THEN Broken ELSE d)]]
           \in [Bank -> BankState]
  <1> SUFFICES ASSUME NEW b \in Bank
               PROVE  [pcr[b] EXCEPT ![i] = Append(@, IF b \in bad THEN Broken ELSE d)]
                        \in BankState
    OBVIOUS
  <1>1. pcr[b] \in [PCRIndex -> Seq(Digest \cup {Broken})]
    BY DEF TypeOK, BankState, PCRValue
  <1>2. Append(pcr[b][i], IF b \in bad THEN Broken ELSE d) \in Seq(Digest \cup {Broken})
    BY <1>1
  <1> QED
    BY <1>1, <1>2 DEF BankState, PCRValue

\* The strengthening that makes TypeOK inductive: while the call reads
\* registers it has a command left, it has a nonce, and the quote it verifies
\* is one.
CallOK ==
  /\ pc \in {"log", "read"} => tries < NumPCRs
  /\ pc # "idle" => nonce \in Nonce
  /\ pc = "verify" => quote \in Quotes

\* The types hold at first.
LEMMA InitType == Init => TypeOK /\ CallOK
  <1> SUFFICES ASSUME Init PROVE TypeOK /\ CallOK
    OBVIOUS
  <1>1. pcr \in [Bank -> BankState]
    BY DEF Init, BankState, PCRValue
  <1>2. history \in Seq([Bank -> BankState])
    BY <1>1 DEF Init
  <1>3. 1 \in 1 .. Len(Algs)
    BY BanksAssumption
  <1>4. IsPartial(NoRegisters, PCRIndex, PCRValue) /\ IsPartial(NoRegisters, Bank, BankState)
    BY DEF IsPartial, NoRegisters
  <1>5. syslog \in EventLogs /\ el \in EventLogs
    BY DEF Init, EventLogs
  <1>6. 0 \in 0 .. NumPCRs /\ 0 < NumPCRs
    BY NumPCRsType
  <1>7. TypeOK
    BY <1>1, <1>2, <1>3, <1>4, <1>5, <1>6 DEF Init, TypeOK
  <1>8. CallOK
    BY <1>6 DEF Init, CallOK
  <1> QED
    BY <1>7, <1>8

\* Every step keeps the types.
LEMMA TypeStep == TypeOK /\ CallOK /\ [Next]_vars => TypeOK' /\ CallOK'
  <1> SUFFICES ASSUME TypeOK, CallOK, [Next]_vars
               PROVE  TypeOK' /\ CallOK'
    OBVIOUS
  <1> USE DEF vars, platformVars, logVars, callVars, remoteVars
  <1>1. ASSUME NEW m \in Measurements, NEW bad \in Bugs, Measure(m[1], m[2], bad)
        PROVE  TypeOK' /\ CallOK'
    <2>1. m[1] \in PCRIndex /\ m[2] \in Digest
      BY DigestAssumption
    <2>2. pcr' \in [Bank -> BankState]
      <3>1. pcr' = [b \in Bank |->
                      [pcr[b] EXCEPT ![m[1]] = Append(@, IF b \in bad THEN Broken ELSE m[2])]]
        BY <1>1 DEF Measure
      <3>2. [b \in Bank |->
               [pcr[b] EXCEPT ![m[1]] = Append(@, IF b \in bad THEN Broken ELSE m[2])]]
              \in [Bank -> BankState]
        BY <2>1, ExtendType
      <3> QED
        BY <3>1, <3>2
    <2>3. history' \in Seq([Bank -> BankState])
      BY <1>1, <2>2 DEF Measure, TypeOK
    <2>4. pending' \subseteq (PCRIndex \ Unlogged) \X Digest
      BY <1>1, <2>1 DEF Measure
    <2> QED
      BY <1>1, <2>2, <2>3, <2>4 DEF Measure, TypeOK, CallOK
  <1>2. CASE LogMeasurement
    <2>1. PICK m \in pending : syslog' = [syslog EXCEPT ![m[1]] = Append(@, m[2])]
      BY <1>2 DEF LogMeasurement
    <2>2. syslog' \in EventLogs
      BY <2>1 DEF TypeOK, EventLogs
    <2> QED
      BY <1>2, <2>2 DEF LogMeasurement, TypeOK, CallOK
  <1>3. CASE ForgetMeasurement
    BY <1>3 DEF ForgetMeasurement, TypeOK, CallOK
  <1>4. ASSUME NEW i \in PCRIndex, ResetPCR(i)
        PROVE  TypeOK' /\ CallOK'
    <2>1. pcr' \in [Bank -> BankState]
      BY <1>4 DEF ResetPCR, TypeOK, BankState, PCRValue
    <2>2. history' \in Seq([Bank -> BankState])
      BY <1>4, <2>1 DEF ResetPCR, TypeOK
    <2> QED
      BY <1>4, <2>1, <2>2 DEF ResetPCR, TypeOK, CallOK
  <1>5. CASE MeasurementLog
    BY <1>5 DEF MeasurementLog, TypeOK, CallOK
  <1>6. ASSUME NEW log \in ConfigLogs, ConfigEventLog(log)
        PROVE  TypeOK' /\ CallOK'
    <2>1. log \in EventLogs
      BY DigestAssumption DEF EventLogs
    <2>2. elSystem' \in BOOLEAN
      BY <1>6, Zenon DEF ConfigEventLog
    <2>3. /\ pc' = "read" /\ el' = log /\ elTime' = Len(history)
          /\ UNCHANGED <<platformVars, issued, nonce, alg, tries, starved, out, quote,
                         quotes, pcrs, lastErr, remoteVars>>
      BY <1>6 DEF ConfigEventLog
    <2> QED
      BY <1>6, <2>1, <2>2, <2>3 DEF ConfigEventLog, TypeOK, CallOK
  <1>7. CASE MeasurementLogFails
    BY <1>7 DEF MeasurementLogFails, TypeOK, CallOK
  <1>8. ASSUME NEW err \in {"command", "short", "mismatch"}, BankError(err), pc # "idle",
               starved' \in BOOLEAN,
               UNCHANGED <<platformVars, issued, nonce, logVars, remoteVars>>
        PROVE  TypeOK' /\ CallOK'
    <2>1. NextBank(quotes)
      BY <1>8 DEF BankError
    <2>2. IsPartial(NoRegisters, PCRIndex, PCRValue)
      BY DEF IsPartial, NoRegisters
    <2>3. 0 \in 0 .. NumPCRs /\ 0 < NumPCRs
      BY NumPCRsType
    <2> QED
      BY <1>8, <2>1, <2>2, <2>3, NextBankType DEF BankError, TypeOK, CallOK
  <1>9. ASSUME NEW R \in SUBSET PCRIndex, ReadPCRs(R)
        PROVE  TypeOK' /\ CallOK'
    <2> DEFINE got == DOMAIN out \cup R
    <2>1. CASE got = PCRIndex \/ tries + 1 < NumPCRs
      <3>1. out' = [i \in got |-> IF i \in R THEN pcr[Algs[alg]][i] ELSE out[i]]
        BY <1>9, <2>1 DEF ReadPCRs, ReadLimit
      <3>2. IsPartial(out', PCRIndex, PCRValue)
        <4>1. pcr[Algs[alg]] \in [PCRIndex -> PCRValue]
          BY BanksAssumption DEF TypeOK, BankState
        <4> QED
          BY <3>1, <4>1 DEF TypeOK, IsPartial
      <3>3. tries' \in 0 .. NumPCRs /\ (pc' = "read" => tries' < NumPCRs)
        BY <1>9, <2>1, NumPCRsType DEF ReadPCRs, ReadLimit, TypeOK, CallOK
      <3> QED
        BY <1>9, <2>1, <3>2, <3>3 DEF ReadPCRs, ReadLimit, TypeOK, CallOK
    <2>2. CASE ~(got = PCRIndex \/ tries + 1 < NumPCRs)
      BY <1>9, <2>2, <1>8 DEF ReadPCRs, ReadLimit, TypeOK
    <2> QED
      BY <2>1, <2>2
  <1>10. CASE Quote
    <2>1. quote' \in Quotes
      BY <1>10, BanksAssumption DEF Quote, TypeOK, CallOK, Quotes
    <2> QED
      BY <1>10, <2>1 DEF Quote, TypeOK, CallOK
  <1>11. CASE CommandFails
    BY <1>11, <1>8 DEF CommandFails, TypeOK
  <1>12. CASE LocalVerify
    <2> DEFINE b == Algs[alg]
    <2>1. CASE Validate20Quote(quote, AddBank(NoRegisters, b, out), nonce)
      <3>1. quote \in Quotes /\ b \in Bank
        BY <1>12, BanksAssumption DEF LocalVerify, CallOK, TypeOK
      <3>2. out = quote.vals
        BY <2>1, <3>1 DEF Validate20Quote, AddBank, NoRegisters
      <3>3. out \in BankState
        BY <3>1, <3>2 DEF Quotes
      <3>4. pcrs' = AddBank(pcrs, b, out) /\ quotes' = quotes \cup {quote}
        BY <1>12, <2>1 DEF LocalVerify
      <3>5. IsPartial(pcrs', Bank, BankState)
        BY <3>1, <3>3, <3>4 DEF TypeOK, IsPartial, AddBank
      <3>6. NextBank(quotes')
        BY <1>12, <2>1 DEF LocalVerify
      <3>7. IsPartial(NoRegisters, PCRIndex, PCRValue)
        BY DEF IsPartial, NoRegisters
      <3>8. 0 \in 0 .. NumPCRs /\ 0 < NumPCRs
        BY NumPCRsType
      <3> QED
        BY <1>12, <2>1, <3>1, <3>4, <3>5, <3>6, <3>7, <3>8, NextBankType
           DEF LocalVerify, TypeOK, CallOK
    <2>2. CASE ~Validate20Quote(quote, AddBank(NoRegisters, b, out), nonce)
      BY <1>12, <2>2, <1>8 DEF LocalVerify, TypeOK
    <2> QED
      BY <2>1, <2>2
  <1>13. ASSUME NEW n \in Nonce, Challenge(n)
         PROVE  TypeOK' /\ CallOK'
    <2>1. Len(history) \in Nat /\ 1 \in 1 .. Len(Algs)
      BY BanksAssumption DEF TypeOK
    <2>2. IsPartial(NoRegisters, PCRIndex, PCRValue) /\ IsPartial(NoRegisters, Bank, BankState)
      BY DEF IsPartial, NoRegisters
    <2>3. 0 \in 0 .. NumPCRs /\ 0 < NumPCRs
      BY NumPCRsType
    <2> QED
      BY <1>13, <2>1, <2>2, <2>3 DEF Challenge, TypeOK, CallOK
  <1>14. ASSUME NEW n \in Nonce, Verify(n)
         PROVE  TypeOK' /\ CallOK'
    <2>0. PICK log \in PresentedLogs :
            \E evs \in {log} \cup {Inject(log, w) : w \in DOMAIN Workarounds} :
              accepted' = accepted \cup {[nonce |-> n, events |-> evs]}
      BY <1>14 DEF Verify
    <2>1. PICK evs \in {log} \cup {Inject(log, w) : w \in DOMAIN Workarounds} :
            accepted' = accepted \cup {[nonce |-> n, events |-> evs]}
      BY <2>0
    <2>2. log \in EventLogs
      BY DigestAssumption DEF EventLogs
    <2>3. ASSUME NEW w \in DOMAIN Workarounds PROVE Inject(log, w) \in EventLogs
      <3>1. Workarounds[w] \in Seq(Digest)
        BY DigestAssumption
      <3>2. log[WorkaroundPCR] \o Workarounds[w] \in Seq(Digest)
        BY <3>1, <2>2, RegistersAssumption DEF EventLogs
      <3> QED
        BY <2>2, <3>2 DEF Inject, EventLogs
    <2>4. evs \in EventLogs
      BY <2>1, <2>2, <2>3
    <2> QED
      BY <1>14, <2>1, <2>4 DEF Verify, TypeOK, CallOK
  <1>15. CASE UNCHANGED vars
    BY <1>15 DEF TypeOK, CallOK
  <1> QED
    BY <1>1, <1>2, <1>3, <1>4, <1>5, <1>6, <1>7, <1>9, <1>10, <1>11, <1>12, <1>13,
       <1>14, <1>15 DEF Next, Platform, AttestPlatform, RemoteParty

\* The types of Attestation, and in particular that readAllPCRs20 sends at most
\* NumPCRs commands for a bank.
THEOREM TypeCorrect == Spec => []TypeOK
  <1>1. Init => TypeOK /\ CallOK
    BY InitType
  <1>2. TypeOK /\ CallOK /\ [Next]_vars => TypeOK' /\ CallOK'
    BY TypeStep
  <1> QED
    BY <1>1, <1>2, PTL DEF Spec

(***************************************************************************)
(* The inductive invariant of the attestation: what the banks went         *)
(* through, where quotes come from, and what the call holds.               *)
(***************************************************************************)

\* The last state in the history is the present one.
HistoryInv ==
  /\ Len(history) >= 1
  /\ history[Len(history)] = pcr
  /\ \A n \in Nonce : nonceTime[n] <= Len(history)
  /\ elTime \in 1 .. Len(history)

\* A quote shows its bank as it was at one moment since its nonce was drawn.
QuoteInv ==
  \A q \in issued :
    /\ nonceTime[q.nonce] # 0
    /\ \E t \in nonceTime[q.nonce] .. Len(history) : q.vals = history[t][q.bank]

\* The call has a nonce that was drawn before it read the log; it holds quotes
\* made with that nonce after it read the log, exactly one for each bank it
\* keeps, with the same values; and the bank it works on is not kept yet.
SessionInv ==
  /\ pc # "idle" => nonce \in Nonce /\ nonceTime[nonce] # 0
  /\ pc = "log" => alg = 1 /\ quotes = {} /\ DOMAIN pcrs = {}
  /\ \A q \in quotes :
       /\ q.nonce = nonce
       /\ q.bank \in DOMAIN pcrs
       /\ pcrs[q.bank] = q.vals
       /\ \E t \in elTime .. Len(history) : q.vals = history[t][q.bank]
  /\ \A b \in DOMAIN pcrs : \E q \in quotes : q.bank = b
  /\ pc \in {"read", "quote", "verify"} =>
       \A b \in DOMAIN pcrs : \E k \in 1 .. alg - 1 : b = Algs[k]
  /\ pc = "verify" =>
       /\ quote.nonce = nonce
       /\ quote.bank = Algs[alg]
       /\ \E t \in elTime .. Len(history) : quote.vals = history[t][quote.bank]
  /\ pc = "done" => quotes # {}

\* While no command came back empty, every command brought a register.
ReadInv ==
  /\ lastErr = "short" => starved
  /\ pc \in {"log", "read"} /\ ~starved => Cardinality(DOMAIN out) >= tries
  /\ pc = "log" => tries = 0 /\ lastErr = "none"
  /\ pc \in {"read", "quote", "verify"} => (quotes # {} \/ alg = 1 \/ lastErr # "none")
  /\ pc = "failed" => lastErr # "none"

\* What was accepted is authentic, and answers a nonce that was drawn.
AcceptedInv ==
  \A a \in accepted : nonceTime[a.nonce] # 0 /\ Authentic(a.nonce, a.events)

IInv == TypeOK /\ CallOK /\ HistoryInv /\ QuoteInv /\ SessionInv /\ ReadInv /\ AcceptedInv

\* The history only grows, and its end is the present state of the banks.
LEMMA HistoryStep ==
  ASSUME TypeOK, HistoryInv, [Next]_vars
  PROVE  /\ Len(history) \in Nat /\ Len(history)' \in Nat
         /\ Len(history) <= Len(history)'
         /\ \A t \in 1 .. Len(history) : history'[t] = history[t]
         /\ history'[Len(history)'] = pcr'
  <1> USE DEF vars, platformVars, logVars, callVars, remoteVars
  <1>0. Len(history) \in Nat
    BY DEF TypeOK
  <1>1. ASSUME history' = Append(history, pcr')
        PROVE  /\ Len(history)' = Len(history) + 1
               /\ \A t \in 1 .. Len(history) : history'[t] = history[t]
               /\ history'[Len(history)'] = pcr'
    BY <1>1 DEF TypeOK
  <1>2. CASE history' = history /\ pcr' = pcr
    BY <1>0, <1>2 DEF HistoryInv
  <1>3. (history' = Append(history, pcr')) \/ (history' = history /\ pcr' = pcr)
    BY DEF Next, Platform, AttestPlatform, RemoteParty, Measure, LogMeasurement,
           ForgetMeasurement, ResetPCR, MeasurementLog, ConfigEventLog,
           MeasurementLogFails, ReadPCRs, Quote, CommandFails, LocalVerify, Challenge,
           Verify
  <1> QED
    BY <1>0, <1>1, <1>2, <1>3

\* A nonce is drawn once.
LEMMA NonceStep ==
  ASSUME TypeOK, [Next]_vars
  PROVE  /\ \A n \in Nonce : nonceTime[n] # 0 => nonceTime'[n] = nonceTime[n]
         /\ \A n \in Nonce : nonceTime'[n] \in {nonceTime[n], Len(history)}
  <1> USE DEF vars, platformVars, logVars, callVars, remoteVars
  <1>1. ASSUME NEW n \in Nonce, Challenge(n)
        PROVE  /\ \A m \in Nonce : nonceTime[m] # 0 => nonceTime'[m] = nonceTime[m]
               /\ \A m \in Nonce : nonceTime'[m] \in {nonceTime[m], Len(history)}
    BY <1>1 DEF Challenge, TypeOK
  <1>2. (\E n \in Nonce : Challenge(n)) \/ nonceTime' = nonceTime
    BY DEF Next, Platform, AttestPlatform, RemoteParty, Measure, LogMeasurement,
           ForgetMeasurement, ResetPCR, MeasurementLog, ConfigEventLog,
           MeasurementLogFails, ReadPCRs, Quote, CommandFails, LocalVerify, Verify
  <1> QED
    BY <1>1, <1>2

\* Every step keeps HistoryInv.
LEMMA HistoryInvStep ==
  ASSUME TypeOK, HistoryInv, [Next]_vars
  PROVE  HistoryInv'
  <1> USE DEF vars, platformVars, logVars, callVars, remoteVars
  <1>1. Len(history)' \in Nat /\ Len(history)' >= 1
    BY HistoryStep DEF HistoryInv
  <1>2. \A n \in Nonce : nonceTime'[n] <= Len(history)'
    BY HistoryStep, NonceStep DEF HistoryInv, TypeOK
  <1>3. elTime' \in {elTime, Len(history)}
    BY DEF Next, Platform, AttestPlatform, RemoteParty, Measure, LogMeasurement,
           ForgetMeasurement, ResetPCR, MeasurementLog, ConfigEventLog,
           MeasurementLogFails, ReadPCRs, Quote, CommandFails, LocalVerify, Challenge,
           Verify
  <1>4. elTime' \in 1 .. Len(history)'
    BY <1>1, <1>3, HistoryStep DEF HistoryInv
  <1> QED
    BY <1>1, <1>2, <1>4, HistoryStep DEF HistoryInv

\* Every step keeps QuoteInv: a quote is of a state after its nonce was chosen.
LEMMA QuoteInvStep ==
  ASSUME TypeOK, CallOK, HistoryInv, QuoteInv, SessionInv, [Next]_vars
  PROVE  QuoteInv'
  <1> USE DEF vars, platformVars, logVars, callVars, remoteVars
  <1>1. ASSUME NEW q \in issued
        PROVE  /\ nonceTime'[q.nonce] # 0
               /\ \E t \in nonceTime'[q.nonce] .. Len(history)' : q.vals = history'[t][q.bank]
    <2>1. q.nonce \in Nonce /\ nonceTime[q.nonce] \in Nat /\ nonceTime[q.nonce] # 0
      BY DEF TypeOK, QuoteInv, Quotes
    <2>2. nonceTime'[q.nonce] = nonceTime[q.nonce]
      BY <2>1, NonceStep
    <2>3. PICK t \in nonceTime[q.nonce] .. Len(history) : q.vals = history[t][q.bank]
      BY DEF QuoteInv
    <2>4. t \in 1 .. Len(history) /\ t \in nonceTime[q.nonce] .. Len(history)'
      BY <2>1, <2>3, HistoryStep
    <2>5. history'[t] = history[t]
      BY <2>4, HistoryStep
    <2> QED
      BY <2>1, <2>2, <2>3, <2>4, <2>5
  <1>2. CASE Quote
    <2>1. /\ issued' = issued \cup {quote'}
          /\ quote' = [nonce |-> nonce, bank |-> Algs[alg], vals |-> pcr[Algs[alg]]]
          /\ history' = history /\ nonceTime' = nonceTime
      BY <1>2 DEF Quote
    <2>2. nonce \in Nonce /\ nonceTime[nonce] # 0 /\ nonceTime[nonce] \in Nat
      BY <1>2 DEF Quote, SessionInv, TypeOK
    <2>3. Len(history) \in nonceTime[nonce] .. Len(history)
      BY <2>2 DEF HistoryInv, TypeOK
    <2>4. quote'.vals = history[Len(history)][quote'.bank]
      BY <2>1 DEF HistoryInv
    <2> QED
      BY <1>1, <2>1, <2>2, <2>3, <2>4 DEF QuoteInv
  <1>3. CASE ~Quote
    <2>1. issued' = issued
      BY <1>3 DEF Next, Platform, AttestPlatform, RemoteParty, Measure, LogMeasurement,
             ForgetMeasurement, ResetPCR, MeasurementLog, ConfigEventLog,
             MeasurementLogFails, ReadPCRs, CommandFails, LocalVerify, Challenge, Verify
    <2> QED
      BY <1>1, <2>1 DEF QuoteInv
  <1> QED
    BY <1>2, <1>3

\* A moment at which a bank was seen stays in the history.
LEMMA SeenStays ==
  ASSUME TypeOK, HistoryInv, [Next]_vars, elTime' = elTime,
         NEW b, NEW v, NEW t \in elTime .. Len(history), v = history[t][b]
  PROVE  t \in elTime' .. Len(history)' /\ v = history'[t][b]
  <1>1. t \in 1 .. Len(history) /\ t \in elTime' .. Len(history)'
    BY HistoryStep DEF HistoryInv
  <1> QED
    BY <1>1, HistoryStep

\* NextBank(qs) moves on from the bank the call works on.
LEMMA NextBankSession ==
  ASSUME TypeOK, NEW qs, NextBank(qs), pcrs' \in [DOMAIN pcrs' -> BankState],
         \A b \in DOMAIN pcrs' : \E k \in 1 .. alg : b = Algs[k]
  PROVE  /\ pc' \in {"read", "done", "failed"}
         /\ pc' = "read" => \A b \in DOMAIN pcrs' : \E k \in 1 .. alg' - 1 : b = Algs[k]
         /\ pc' = "done" => qs # {}
  <1>1. Len(Algs) \in Nat
    BY BanksAssumption
  <1>2. alg \in 1 .. Len(Algs)
    BY DEF TypeOK
  <1>3. pc' = "read" => alg' - 1 = alg
    BY <1>1, <1>2 DEF NextBank
  <1> QED
    BY <1>3, NextBankType DEF NextBank

\* Every step keeps SessionInv.
LEMMA SessionInvStep ==
  ASSUME TypeOK, CallOK, HistoryInv, SessionInv, [Next]_vars
  PROVE  SessionInv'
  <1> USE DEF vars, platformVars, logVars, callVars, remoteVars
  <1>0. ASSUME NEW n \in Nonce, nonceTime[n] # 0 PROVE nonceTime'[n] # 0
    BY <1>0, NonceStep
  <1>1. CASE UNCHANGED callVars
    <2>0. elTime' = elTime
      BY <1>1
    <2>1. ASSUME NEW q \in quotes
          PROVE  \E t \in elTime' .. Len(history)' : q.vals = history'[t][q.bank]
      <3>1. PICK t \in elTime .. Len(history) : q.vals = history[t][q.bank]
        BY DEF SessionInv
      <3> QED
        BY <2>0, <3>1, SeenStays
    <2>2. ASSUME pc = "verify"
          PROVE  \E t \in elTime' .. Len(history)' : quote.vals = history'[t][quote.bank]
      <3>1. PICK t \in elTime .. Len(history) : quote.vals = history[t][quote.bank]
        BY <2>2 DEF SessionInv
      <3> QED
        BY <2>0, <3>1, SeenStays
    <2> QED
      BY <1>0, <1>1, <2>1, <2>2 DEF SessionInv
  <1>2. ASSUME NEW n \in Nonce, Challenge(n)
        PROVE  SessionInv'
    <2>1. Len(history) # 0
      BY DEF HistoryInv, TypeOK
    <2>2. nonceTime'[n] # 0
      BY <1>2, <2>1 DEF Challenge, TypeOK
    <2>3. DOMAIN pcrs' = {}
      BY <1>2 DEF Challenge, NoRegisters
    <2> QED
      BY <1>2, <2>2, <2>3 DEF Challenge, SessionInv
  <1>3. CASE MeasurementLog
    BY <1>3 DEF MeasurementLog, SessionInv
  <1>4. ASSUME NEW log \in ConfigLogs, ConfigEventLog(log)
        PROVE  SessionInv'
    BY <1>4 DEF ConfigEventLog, SessionInv
  <1>5. CASE MeasurementLogFails
    BY <1>5 DEF MeasurementLogFails, SessionInv
  <1>6. ASSUME NEW err, BankError(err), pc \in {"read", "quote", "verify"},
               UNCHANGED <<platformVars, issued, nonce, logVars, remoteVars>>
        PROVE  SessionInv'
    <2>1. NextBank(quotes) /\ UNCHANGED <<quotes, pcrs>>
      BY <1>6 DEF BankError
    <2>2. \A b \in DOMAIN pcrs' : \E k \in 1 .. alg : b = Algs[k]
      BY <1>6, <2>1 DEF SessionInv, TypeOK
    <2>3. /\ pc' \in {"read", "done", "failed"}
          /\ pc' = "read" => \A b \in DOMAIN pcrs' : \E k \in 1 .. alg' - 1 : b = Algs[k]
          /\ pc' = "done" => quotes # {}
      BY <2>1, <2>2, NextBankSession DEF TypeOK, IsPartial
    <2> QED
      BY <1>6, <2>1, <2>3 DEF SessionInv
  <1>7. ASSUME NEW R \in SUBSET PCRIndex, ReadPCRs(R)
        PROVE  SessionInv'
    <2>1. CASE BankError("short")
      BY <1>6, <1>7, <2>1 DEF ReadPCRs
    <2>2. CASE ~BankError("short")
      BY <1>7, <2>2 DEF ReadPCRs, SessionInv
    <2> QED
      BY <2>1, <2>2
  <1>8. CASE Quote
    <2>1. Len(history) \in elTime .. Len(history)
      BY DEF HistoryInv, TypeOK
    <2>2. quote' = [nonce |-> nonce, bank |-> Algs[alg],
                    vals |-> history[Len(history)][Algs[alg]]]
      <3>1. pcr[Algs[alg]] = history[Len(history)][Algs[alg]]
        BY DEF HistoryInv
      <3> QED
        BY <1>8, <3>1 DEF Quote
    <2>3. /\ quote'.nonce = nonce
          /\ quote'.bank = Algs[alg]
          /\ quote'.vals = history[Len(history)][Algs[alg]]
      BY <2>2
    <2>4. \E t \in elTime .. Len(history) : quote'.vals = history[t][quote'.bank]
      BY <2>1, <2>3
    <2> QED
      BY <1>8, <2>3, <2>4 DEF Quote, SessionInv
  <1>9. CASE CommandFails
    BY <1>6, <1>9 DEF CommandFails
  <1>10. CASE LocalVerify
    <2> DEFINE b == Algs[alg]
    <2>1. CASE Validate20Quote(quote, AddBank(NoRegisters, b, out), nonce)
      <3>1. quote.nonce = nonce /\ quote.bank = b /\ quote \in Quotes
        BY <1>10 DEF LocalVerify, SessionInv, CallOK
      <3>2. out = quote.vals
        BY <2>1, <3>1 DEF Validate20Quote, AddBank, NoRegisters
      <3>3. /\ pcrs' = AddBank(pcrs, b, out)
            /\ quotes' = quotes \cup {quote}
            /\ NextBank(quotes')
        BY <1>10, <2>1 DEF LocalVerify
      <3>4. /\ DOMAIN pcrs' = DOMAIN pcrs \cup {b}
            /\ pcrs'[b] = quote.vals
            /\ \A c \in DOMAIN pcrs \ {b} : pcrs'[c] = pcrs[c]
        BY <3>2, <3>3 DEF AddBank
      <3>5. b \notin DOMAIN pcrs
        <4>1. \A c \in DOMAIN pcrs : \E k \in 1 .. alg - 1 : c = Algs[k]
          BY <1>10 DEF LocalVerify, SessionInv
        <4>2. \A k \in 1 .. alg - 1 : Algs[k] # b
          BY BanksAssumption DEF TypeOK
        <4> QED
          BY <4>1, <4>2
      <3>6. \A c \in DOMAIN pcrs' : \E k \in 1 .. alg : c = Algs[k]
        BY <1>10, <3>4 DEF LocalVerify, SessionInv, TypeOK
      <3>7. pcrs' \in [DOMAIN pcrs' -> BankState]
        BY <3>1, <3>2, <3>3 DEF AddBank, TypeOK, IsPartial, Quotes
      <3>8. /\ pc' \in {"read", "done", "failed"}
            /\ pc' = "read" => \A c \in DOMAIN pcrs' : \E k \in 1 .. alg' - 1 : c = Algs[k]
            /\ pc' = "done" => quotes' # {}
        BY <3>3, <3>6, <3>7, NextBankSession
      <3>9. \A q \in quotes' :
              /\ q.nonce = nonce
              /\ q.bank \in DOMAIN pcrs'
              /\ pcrs'[q.bank] = q.vals
              /\ \E t \in elTime .. Len(history) : q.vals = history[t][q.bank]
        BY <1>10, <3>1, <3>3, <3>4, <3>5 DEF LocalVerify, SessionInv
      <3>10. \A c \in DOMAIN pcrs' : \E q \in quotes' : q.bank = c
        BY <3>1, <3>3, <3>4 DEF SessionInv
      <3> QED
        BY <1>10, <3>8, <3>9, <3>10 DEF LocalVerify, SessionInv
    <2>2. CASE ~Validate20Quote(quote, AddBank(NoRegisters, b, out), nonce)
      BY <1>6, <1>10, <2>2 DEF LocalVerify
    <2> QED
      BY <2>1, <2>2
  <1>11. \/ UNCHANGED callVars
         \/ AttestPlatform
         \/ \E n \in Nonce : Challenge(n)
    BY DEF Next, Platform, RemoteParty, Measure, LogMeasurement, ForgetMeasurement,
           ResetPCR, Verify
  <1> QED
    BY <1>1, <1>2, <1>3, <1>4, <1>5, <1>7, <1>8, <1>9, <1>10, <1>11 DEF AttestPlatform

\* A command that brings at least one missing register makes the set grow.
LEMMA OneMoreRegister ==
  ASSUME TypeOK, NEW R \in SUBSET PCRIndex, R # {}, R \cap DOMAIN out = {}
  PROVE  /\ Cardinality(DOMAIN out \cup R) \in Nat
         /\ Cardinality(DOMAIN out) \in Nat
         /\ Cardinality(DOMAIN out \cup R) >= Cardinality(DOMAIN out) + 1
         /\ Cardinality(DOMAIN out \cup R) = NumPCRs => DOMAIN out \cup R = PCRIndex
         /\ Cardinality(DOMAIN out \cup R) <= NumPCRs
  <1> DEFINE D == DOMAIN out
  <1>1. D \in SUBSET PCRIndex /\ D \cup R \in SUBSET PCRIndex
    BY DEF TypeOK, IsPartial
  <1>2. IsFiniteSet(D) /\ IsFiniteSet(D \cup R) /\ IsFiniteSet(R)
    BY <1>1, FS_Subset, RegistersAssumption
  <1>3. /\ Cardinality(D \cup R) <= NumPCRs
        /\ NumPCRs = Cardinality(D \cup R) => PCRIndex = D \cup R
    BY <1>1, FS_Subset, RegistersAssumption DEF NumPCRs
  <1>4. PICK x : x \in R
    OBVIOUS
  <1>5. x \notin D
    BY <1>4
  <1>6. Cardinality(D \cup {x}) = Cardinality(D) + 1
    BY <1>2, <1>5, FS_AddElement
  <1>7. D \cup {x} \in SUBSET (D \cup R)
    BY <1>4
  <1>8. Cardinality(D \cup {x}) <= Cardinality(D \cup R)
    BY <1>2, <1>7, FS_Subset
  <1>9. Cardinality(D) \in Nat /\ Cardinality(D \cup R) \in Nat
    BY <1>2, FS_CardinalityType
  <1> QED
    BY <1>3, <1>6, <1>8, <1>9

\* Every step keeps ReadInv: a command brings a register or comes back empty.
LEMMA ReadInvStep ==
  ASSUME TypeOK, CallOK, SessionInv, ReadInv, [Next]_vars
  PROVE  ReadInv'
  <1> USE DEF vars, platformVars, logVars, callVars, remoteVars
  <1>0. DOMAIN NoRegisters = {} /\ Cardinality({}) = 0
    BY FS_EmptySet DEF NoRegisters
  <1>1. CASE UNCHANGED callVars
    BY <1>1 DEF ReadInv
  <1>2. ASSUME NEW n \in Nonce, Challenge(n)
        PROVE  ReadInv'
    BY <1>0, <1>2 DEF Challenge, ReadInv
  <1>3. CASE MeasurementLog
    BY <1>3 DEF MeasurementLog, ReadInv, SessionInv
  <1>4. ASSUME NEW log \in ConfigLogs, ConfigEventLog(log)
        PROVE  ReadInv'
    BY <1>4 DEF ConfigEventLog, ReadInv, SessionInv
  <1>5. CASE MeasurementLogFails
    BY <1>5 DEF MeasurementLogFails, ReadInv
  <1>6. ASSUME NEW err \in {"command", "short", "mismatch"}, BankError(err),
               err = "short" => starved', starved => starved'
        PROVE  ReadInv'
    <2>1. /\ tries' = 0 /\ out' = NoRegisters
          /\ pc' \in {"read", "done", "failed"}
          /\ lastErr' = err
      BY <1>6, NextBankType DEF BankError
    <2> QED
      BY <1>0, <1>6, <2>1 DEF ReadInv
  <1>7. ASSUME NEW R \in SUBSET PCRIndex, ReadPCRs(R)
        PROVE  ReadInv'
    <2> DEFINE got == DOMAIN out \cup R
    <2>0. pc = "read" /\ R \cap DOMAIN out = {} /\ tries < NumPCRs
      BY <1>7 DEF ReadPCRs, CallOK
    <2>1. starved' = (starved \/ R = {})
      BY <1>7 DEF ReadPCRs
    <2>2. CASE got = PCRIndex \/ tries + 1 < NumPCRs
      <3>1. /\ DOMAIN out' = got
            /\ tries' = tries + 1
            /\ pc' \in {"quote", "read"}
            /\ UNCHANGED <<alg, quotes, lastErr>>
        BY <1>7, <2>2 DEF ReadPCRs, ReadLimit
      <3>2. ~starved' => Cardinality(DOMAIN out') >= tries'
        <4>1. SUFFICES ASSUME ~starved'
                       PROVE  Cardinality(got) >= tries + 1
          BY <3>1
        <4>2. ~starved /\ R # {}
          BY <2>1, <4>1
        <4>3. Cardinality(DOMAIN out) >= tries
          BY <2>0, <4>2 DEF ReadInv
        <4>4. /\ Cardinality(got) \in Nat /\ Cardinality(DOMAIN out) \in Nat
              /\ Cardinality(got) >= Cardinality(DOMAIN out) + 1
          BY <2>0, <4>2, OneMoreRegister
        <4>5. tries \in Nat
          BY NumPCRsType DEF TypeOK
        <4> QED
          BY <4>3, <4>4, <4>5
      <3>3. (lastErr = "short" => starved) /\ (quotes # {} \/ alg = 1 \/ lastErr # "none")
        BY <2>0 DEF ReadInv
      <3> QED
        BY <2>1, <3>1, <3>2, <3>3 DEF ReadInv
    <2>3. CASE ~(got = PCRIndex \/ tries + 1 < NumPCRs)
      <3>1. BankError("short")
        BY <1>7, <2>3 DEF ReadPCRs, ReadLimit
      <3>2. starved'
        <4>1. SUFFICES ASSUME ~starved' PROVE FALSE
          OBVIOUS
        <4>2. ~starved /\ R # {}
          BY <2>1, <4>1
        <4>3. Cardinality(DOMAIN out) >= tries
          BY <2>0, <4>2 DEF ReadInv
        <4>4. Cardinality(got) >= NumPCRs
          BY <2>0, <2>3, <4>2, <4>3, OneMoreRegister, NumPCRsType DEF TypeOK
        <4>5. Cardinality(got) = NumPCRs
          BY <2>0, <4>2, <4>4, OneMoreRegister, NumPCRsType
        <4> QED
          BY <2>0, <2>3, <4>2, <4>5, OneMoreRegister
      <3> QED
        BY <1>6, <3>1, <3>2
    <2> QED
      BY <2>2, <2>3
  <1>8. CASE Quote
    BY <1>8 DEF Quote, ReadInv
  <1>9. CASE CommandFails
    BY <1>6, <1>9 DEF CommandFails
  <1>10. CASE LocalVerify
    <2>1. CASE BankError("mismatch")
      BY <1>6, <1>10, <2>1 DEF LocalVerify
    <2>2. CASE ~BankError("mismatch")
      <3>1. /\ quotes' = quotes \cup {quote}
            /\ NextBank(quotes')
            /\ UNCHANGED <<lastErr, starved>>
        BY <1>10, <2>2 DEF LocalVerify
      <3>2. quotes' # {}
        BY <3>1
      <3>3. /\ tries' = 0 /\ out' = NoRegisters
            /\ pc' \in {"read", "done"}
        BY <3>1, <3>2, NextBankType DEF NextBank
      <3> QED
        BY <1>0, <3>1, <3>2, <3>3 DEF ReadInv
    <2> QED
      BY <2>1, <2>2
  <1>11. \/ UNCHANGED callVars
         \/ AttestPlatform
         \/ \E n \in Nonce : Challenge(n)
    BY DEF Next, Platform, RemoteParty, Measure, LogMeasurement, ForgetMeasurement,
           ResetPCR, Verify
  <1> QED
    BY <1>1, <1>2, <1>3, <1>4, <1>5, <1>7, <1>8, <1>9, <1>10, <1>11 DEF AttestPlatform

\* EventLog.Verify returns the events of a log that replays: each register has
\* no event, or a bank whose value is the chain of its events.
LEMMA VerifiedReplays ==
  ASSUME NEW log, NEW p, NEW evs, EventLogVerify(log, p, evs), NEW i \in PCRIndex
  PROVE  \E b \in DOMAIN p : evs[i] = << >> \/ evs[i] = p[b][i]
  <1>1. InvalidPCRs(evs, p) = {}
    BY DEF EventLogVerify
  <1> QED
    BY <1>1 DEF InvalidPCRs, ReplayPCR

\* What the remote party accepts in a step is authentic.
LEMMA VerifyAuthentic ==
  ASSUME TypeOK, QuoteInv, NEW n \in Nonce, NEW qs \in SUBSET issued, NEW p, NEW log,
         NEW evs, VerifyAll(qs, p, n), EventLogVerify(log, p, evs)
  PROVE  Authentic(n, evs)
  <1> SUFFICES ASSUME NEW i \in PCRIndex, evs[i] # << >>
               PROVE  \E b \in Bank, t \in nonceTime[n] .. Len(history) :
                        evs[i] = history[t][b][i]
    BY DEF Authentic
  <1>1. PICK b \in DOMAIN p : evs[i] = p[b][i]
    BY VerifiedReplays
  <1>2. PICK q \in qs : q.bank = b
    BY <1>1 DEF VerifyAll
  <1>3. q.nonce = n /\ q.vals = p[b]
    BY <1>2 DEF VerifyAll, Validate20Quote
  <1>4. PICK t \in nonceTime[n] .. Len(history) : q.vals = history[t][b]
    BY <1>2, <1>3 DEF QuoteInv
  <1>5. b \in Bank
    BY <1>2 DEF TypeOK, Quotes
  <1> QED
    BY <1>1, <1>3, <1>4, <1>5

\* What is authentic stays so.
LEMMA AuthenticStays ==
  ASSUME TypeOK, HistoryInv, [Next]_vars, NEW n \in Nonce, NEW evs,
         nonceTime[n] # 0, Authentic(n, evs)
  PROVE  Authentic(n, evs)'
  <1> SUFFICES ASSUME NEW i \in PCRIndex, evs[i] # << >>
               PROVE  \E b \in Bank, t \in nonceTime'[n] .. Len(history)' :
                        evs[i] = history'[t][b][i]
    BY DEF Authentic
  <1>1. PICK b \in Bank, t \in nonceTime[n] .. Len(history) : evs[i] = history[t][b][i]
    BY DEF Authentic
  <1>2. nonceTime'[n] = nonceTime[n] /\ nonceTime[n] \in Nat
    BY NonceStep DEF TypeOK
  <1>3. t \in 1 .. Len(history) /\ t \in nonceTime'[n] .. Len(history)'
    BY <1>1, <1>2, HistoryStep
  <1>4. history'[t] = history[t]
    BY <1>3, HistoryStep
  <1> QED
    BY <1>1, <1>3, <1>4

\* Every step keeps AcceptedInv: what was accepted stays authentic.
LEMMA AcceptedInvStep ==
  ASSUME TypeOK, HistoryInv, QuoteInv, AcceptedInv, [Next]_vars
  PROVE  AcceptedInv'
  <1> USE DEF vars, platformVars, logVars, callVars, remoteVars
  <1>1. ASSUME NEW a \in accepted
        PROVE  nonceTime'[a.nonce] # 0 /\ Authentic(a.nonce, a.events)'
    <2>1. a.nonce \in Nonce /\ nonceTime[a.nonce] # 0 /\ Authentic(a.nonce, a.events)
      BY DEF TypeOK, AcceptedInv
    <2> QED
      BY <2>1, NonceStep, AuthenticStays
  <1>2. ASSUME NEW n \in Nonce, Verify(n)
        PROVE  AcceptedInv'
    <2>1. PICK qs \in SUBSET issued, p \in PresentedPCRs, log \in PresentedLogs :
            /\ VerifyAll(qs, p, n)
            /\ \E evs \in {log} \cup {Inject(log, w) : w \in DOMAIN Workarounds} :
                 /\ EventLogVerify(log, p, evs)
                 /\ accepted' = accepted \cup {[nonce |-> n, events |-> evs]}
      BY <1>2 DEF Verify
    <2>2. PICK evs \in {log} \cup {Inject(log, w) : w \in DOMAIN Workarounds} :
            /\ EventLogVerify(log, p, evs)
            /\ accepted' = accepted \cup {[nonce |-> n, events |-> evs]}
      BY <2>1
    <2>3. Authentic(n, evs)
      BY <2>1, <2>2, VerifyAuthentic
    <2>4. nonceTime[n] # 0 /\ nonceTime' = nonceTime /\ history' = history
      BY <1>2 DEF Verify
    <2>5. nonceTime'[n] # 0 /\ Authentic(n, evs)'
      BY <2>3, <2>4 DEF Authentic
    <2> QED
      BY <1>1, <2>2, <2>5 DEF AcceptedInv
  <1>3. (\E n \in Nonce : Verify(n)) \/ accepted' = accepted
    BY DEF Next, Platform, AttestPlatform, RemoteParty, Measure, LogMeasurement,
           ForgetMeasurement, ResetPCR, MeasurementLog, ConfigEventLog,
           MeasurementLogFails, ReadPCRs, Quote, CommandFails, LocalVerify, Challenge
  <1>4. CASE accepted' = accepted
    BY <1>1, <1>4 DEF AcceptedInv
  <1> QED
    BY <1>2, <1>3, <1>4

\* The invariant holds at first.
LEMMA InitIInv == Init => IInv
  <1> SUFFICES ASSUME Init PROVE IInv
    OBVIOUS
  <1>1. TypeOK /\ CallOK
    BY InitType
  <1>2. HistoryInv
    <2>1. Len(history) = 1 /\ history[1] = pcr
      BY DEF Init
    <2> QED
      BY <2>1 DEF Init, HistoryInv
  <1>3. QuoteInv /\ AcceptedInv
    BY DEF Init, QuoteInv, AcceptedInv
  <1>4. SessionInv
    <2>1. DOMAIN pcrs = {}
      BY DEF Init, NoRegisters
    <2> QED
      BY <2>1 DEF Init, SessionInv
  <1>5. ReadInv
    BY DEF Init, ReadInv
  <1> QED
    BY <1>1, <1>2, <1>3, <1>4, <1>5 DEF IInv

\* The invariant of the whole attestation is inductive.
THEOREM Invariance == Spec => []IInv
  <1>1. Init => IInv
    BY InitIInv
  <1>2. IInv /\ [Next]_vars => IInv'
    <2> SUFFICES ASSUME IInv, [Next]_vars PROVE IInv'
      OBVIOUS
    <2> USE DEF IInv
    <2>1. TypeOK' /\ CallOK'
      BY TypeStep
    <2>2. HistoryInv'
      BY HistoryInvStep
    <2>3. QuoteInv'
      BY QuoteInvStep
    <2>4. SessionInv'
      BY SessionInvStep
    <2>5. ReadInv'
      BY ReadInvStep
    <2>6. AcceptedInv'
      BY AcceptedInvStep
    <2> QED
      BY <2>1, <2>2, <2>3, <2>4, <2>5, <2>6
  <1> QED
    BY <1>1, <1>2, PTL DEF Spec

(***************************************************************************)
(* What the invariant gives: the properties the runs check, for any number *)
(* of registers, banks, nonces and measurements.                           *)
(***************************************************************************)

\* The registers of a bank that AttestPlatform returns were never read apart:
\* they are the values the bank had at one moment after the log was read.
THEOREM Snapshots == Spec => []AttestedSnapshot
  <1>1. IInv => AttestedSnapshot
    <2> SUFFICES ASSUME SessionInv, NEW b \in DOMAIN pcrs
                 PROVE  \E t \in elTime .. Len(history) : pcrs[b] = history[t][b]
      BY DEF AttestedSnapshot, IInv
    <2>1. PICK q \in quotes : q.bank = b
      BY DEF SessionInv
    <2> QED
      BY <2>1 DEF SessionInv
  <1> QED
    BY <1>1, Invariance, PTL

\* What AttestPlatform returns without an error, for a nonce that is not empty,
\* passes VerifyAll.
THEOREM ReturnsVerify == Spec => []ReturnedVerifies
  <1>1. IInv => ReturnedVerifies
    BY DEF IInv, SessionInv, ReturnedVerifies, VerifyAll, Validate20Quote
  <1> QED
    BY <1>1, Invariance, PTL

\* Twenty-four commands are enough for readAllPCRs20 to read 24 registers
\* unless the TPM answers one of them with nothing.
THEOREM ReadsSuffice == Spec => []PartialReadsSuffice
  <1>1. IInv => PartialReadsSuffice
    BY DEF IInv, ReadInv, PartialReadsSuffice
  <1> QED
    BY <1>1, Invariance, PTL

\* attestPlatform never returns without a quote and without an error.
THEOREM FailuresHaveCause == Spec => []FailureHasCause
  <1>1. IInv => FailureHasCause
    BY DEF IInv, ReadInv, FailureHasCause
  <1> QED
    BY <1>1, Invariance, PTL

\* The events the remote party accepts for a nonce were measured, all of them
\* and in their order, and were in a PCR bank at one moment since the nonce was
\* drawn.
THEOREM AcceptsAuthentic == Spec => []AcceptedAuthentic
  <1>1. IInv => AcceptedAuthentic
    BY DEF IInv, AcceptedInv, AcceptedAuthentic
  <1> QED
    BY <1>1, Invariance, PTL

(***************************************************************************)
(* The measurement log: the second inductive invariant, on top of the      *)
(* first, about what the log says of the registers.                        *)
(***************************************************************************)

\* The log l can be a log of a register with value v: it has no more events
\* than were measured, and if it has all of them, they are the ones the bank
\* was extended with, except where it has the firmware bug.
Matches(l, v) ==
  /\ Len(l) <= Len(v)
  /\ Len(l) = Len(v) => \A k \in 1 .. Len(l) : v[k] = l[k] \/ v[k] = Broken

\* The digests of register i that the firmware logged or is about to.
ToLog(i, b) ==
  /\ \A m \in pending : m[1] = i => Matches(Append(syslog[i], m[2]), pcr[b][i])
  /\ (\A m \in pending : m[1] # i) => Matches(syslog[i], pcr[b][i])

\* The log of the system matches every bank, with the measurement that is
\* extended and not logged yet, of which there is at most one.
LogInv ==
  /\ \A m, k \in pending : m = k
  /\ \A i \in Unlogged : syslog[i] = << >>
  /\ \A i \in PCRIndex \ Unlogged, b \in Bank : ToLog(i, b)

\* The value v of a register was w before, or w is a beginning of it.
Extends(v, w) ==
  /\ Len(w) <= Len(v)
  /\ \A k \in 1 .. Len(w) : v[k] = w[k]

\* A register that is not reset only ever grows.
GrowInv ==
  \A s, t \in 1 .. Len(history) : s <= t =>
    \A b \in Bank, i \in PCRIndex \ Unlogged : Extends(history[t][b][i], history[s][b][i])

\* The system's log that the call holds matches the banks as they were when it
\* was read.
HeldLogInv ==
  elSystem =>
    /\ \A i \in Unlogged : el[i] = << >>
    /\ \A i \in PCRIndex \ Unlogged, b \in Bank : Matches(el[i], history[elTime][b][i])

LogIInv == IInv /\ LogInv /\ GrowInv /\ HeldLogInv

\* A digest measured and logged keeps log and register matching.
LEMMA MatchesExtended ==
  ASSUME NEW l \in Seq(Digest), NEW v \in PCRValue, NEW d \in Digest,
         NEW x, x = d \/ x = Broken, Matches(l, v)
  PROVE  Matches(Append(l, d), Append(v, x))
  <1>1. Len(l) \in Nat /\ Len(v) \in Nat /\ v \in Seq(Digest \cup {Broken})
    BY DEF PCRValue
  <1>2. x \in Digest \cup {Broken}
    OBVIOUS
  <1>3. /\ Len(Append(l, d)) = Len(l) + 1
        /\ \A k \in 1 .. Len(l) : Append(l, d)[k] = l[k]
        /\ Append(l, d)[Len(l) + 1] = d
    BY <1>1
  <1>4. /\ Len(Append(v, x)) = Len(v) + 1
        /\ \A k \in 1 .. Len(v) : Append(v, x)[k] = v[k]
        /\ Append(v, x)[Len(v) + 1] = x
    BY <1>1, <1>2
  <1>5. Len(l) <= Len(v) /\ (Len(l) = Len(v) => \A k \in 1 .. Len(l) : v[k] = l[k] \/ v[k] = Broken)
    BY DEF Matches
  <1>6. ASSUME Len(l) = Len(v), NEW k \in 1 .. Len(l) + 1
        PROVE  Append(v, x)[k] = Append(l, d)[k] \/ Append(v, x)[k] = Broken
    <2>1. CASE k = Len(l) + 1
      BY <1>3, <1>4, <1>6, <2>1
    <2>2. CASE k \in 1 .. Len(l)
      BY <1>3, <1>4, <1>5, <1>6, <2>2
    <2>3. k = Len(l) + 1 \/ k \in 1 .. Len(l)
      BY <1>1, <1>6
    <2> QED
      BY <2>1, <2>2, <2>3
  <1> QED
    BY <1>1, <1>3, <1>4, <1>5, <1>6 DEF Matches

\* A log that leaves out the last digest still matches.
LEMMA MatchesForgotten ==
  ASSUME NEW l \in Seq(Digest), NEW v \in PCRValue, NEW d \in Digest,
         Matches(Append(l, d), v)
  PROVE  Matches(l, v)
  <1>1. Len(l) \in Nat /\ Len(v) \in Nat /\ Len(Append(l, d)) = Len(l) + 1
    BY DEF PCRValue
  <1> QED
    BY <1>1 DEF Matches

\* A value of a register extends itself.
LEMMA ExtendsRefl ==
  ASSUME NEW v \in PCRValue
  PROVE  Extends(v, v)
  BY DEF Extends, PCRValue

\* A value extends what those it extends do.
LEMMA ExtendsTrans ==
  ASSUME NEW u \in PCRValue, NEW v \in PCRValue, NEW w \in PCRValue,
         Extends(w, v), Extends(v, u)
  PROVE  Extends(w, u)
  <1>1. Len(u) \in Nat /\ Len(v) \in Nat /\ Len(w) \in Nat
    BY DEF PCRValue
  <1> QED
    BY <1>1 DEF Extends

\* A value with one more digest extends the one without it.
LEMMA ExtendsAppend ==
  ASSUME NEW v \in PCRValue, NEW x \in Digest \cup {Broken}
  PROVE  Extends(Append(v, x), v)
  BY DEF Extends, PCRValue

\* A step leaves the registers of the log alone or measures into one of them.
LEMMA RegisterStep ==
  ASSUME TypeOK, [Next]_vars, NEW i \in PCRIndex \ Unlogged, NEW b \in Bank
  PROVE  Extends(pcr'[b][i], pcr[b][i])
  <1> USE DEF vars, platformVars, logVars, callVars, remoteVars
  <1>0. pcr[b] \in [PCRIndex -> PCRValue] /\ pcr[b][i] \in PCRValue
    BY DEF TypeOK, BankState
  <1>1. ASSUME NEW m \in Measurements, NEW bad \in Bugs, Measure(m[1], m[2], bad)
        PROVE  Extends(pcr'[b][i], pcr[b][i])
    <2>1. m[1] \in PCRIndex /\ m[2] \in Digest
      BY DigestAssumption
    <2>2. PICK x \in Digest \cup {Broken} :
            pcr'[b] = [pcr[b] EXCEPT ![m[1]] = Append(pcr[b][m[1]], x)]
      BY <1>0, <1>1, <2>1 DEF Measure
    <2>3. CASE m[1] = i
      BY <1>0, <2>2, <2>3, ExtendsAppend
    <2>4. CASE m[1] # i
      <3>1. pcr'[b][i] = pcr[b][i]
        BY <1>0, <2>1, <2>2, <2>4
      <3> QED
        BY <1>0, <3>1, ExtendsRefl
    <2> QED
      BY <2>3, <2>4
  <1>2. ASSUME NEW j \in PCRIndex, ResetPCR(j)
        PROVE  Extends(pcr'[b][i], pcr[b][i])
    <2>1. j # i /\ pcr'[b] = [pcr[b] EXCEPT ![j] = << >>]
      BY <1>2 DEF ResetPCR
    <2>2. pcr'[b][i] = pcr[b][i]
      BY <1>0, <2>1
    <2> QED
      BY <1>0, <2>2, ExtendsRefl
  <1>3. CASE pcr' = pcr
    BY <1>0, <1>3, ExtendsRefl
  <1>4. \/ \E m \in Measurements, bad \in Bugs : Measure(m[1], m[2], bad)
        \/ \E j \in PCRIndex : ResetPCR(j)
        \/ pcr' = pcr
    BY DEF Next, Platform, AttestPlatform, RemoteParty, LogMeasurement,
           ForgetMeasurement, MeasurementLog, ConfigEventLog,
           MeasurementLogFails, ReadPCRs, Quote, CommandFails, LocalVerify, Challenge,
           Verify
  <1> QED
    BY <1>1, <1>2, <1>3, <1>4

\* Every step keeps GrowInv: registers that are not reset only grow.
LEMMA GrowInvStep ==
  ASSUME TypeOK, TypeOK', HistoryInv, GrowInv, [Next]_vars
  PROVE  GrowInv'
  <1>1. /\ Len(history) \in Nat /\ Len(history)' \in Nat
        /\ Len(history) <= Len(history)'
        /\ \A t \in 1 .. Len(history) : history'[t] = history[t]
        /\ history'[Len(history)'] = pcr'
    BY HistoryStep
  <1>2. Len(history)' <= Len(history) + 1
    <2>1. (history' = Append(history, pcr')) \/ history' = history
      BY DEF Next, Platform, AttestPlatform, RemoteParty, Measure, LogMeasurement,
             ForgetMeasurement, ResetPCR, MeasurementLog, ConfigEventLog,
             MeasurementLogFails, ReadPCRs, Quote, CommandFails, LocalVerify, Challenge,
             Verify, vars, platformVars, logVars, callVars, remoteVars
    <2> QED
      BY <1>1, <2>1 DEF TypeOK
  <1> SUFFICES ASSUME NEW s \in 1 .. Len(history)', NEW t \in 1 .. Len(history)', s <= t,
                      NEW b \in Bank, NEW i \in PCRIndex \ Unlogged
               PROVE  Extends(history'[t][b][i], history'[s][b][i])
    BY DEF GrowInv
  <1>3. \A u \in 1 .. Len(history) : history[u][b][i] \in PCRValue
    BY DEF TypeOK, BankState
  <1>4. pcr'[b][i] \in PCRValue /\ pcr[b][i] \in PCRValue
    BY DEF TypeOK, BankState
  <1>5. CASE t \in 1 .. Len(history)
    BY <1>1, <1>5 DEF GrowInv
  <1>6. CASE t = Len(history)' /\ s \in 1 .. Len(history)
    <2>1. Extends(pcr[b][i], history[s][b][i])
      <3>1. Len(history) \in 1 .. Len(history) /\ s <= Len(history)
        BY <1>1, <1>6
      <3> QED
        BY <1>6, <3>1 DEF GrowInv, HistoryInv
    <2>2. Extends(pcr'[b][i], pcr[b][i])
      BY RegisterStep
    <2>3. Extends(pcr'[b][i], history[s][b][i])
      BY <1>3, <1>4, <1>6, <2>1, <2>2, ExtendsTrans
    <2> QED
      BY <1>1, <1>6, <2>3
  <1>7. CASE s = Len(history)' /\ t = Len(history)'
    BY <1>1, <1>4, <1>7, ExtendsRefl
  <1> QED
    BY <1>1, <1>2, <1>5, <1>6, <1>7

\* Every step keeps LogInv: the system's log has what its registers have.
LEMMA LogInvStep ==
  ASSUME TypeOK, LogInv, [Next]_vars
  PROVE  LogInv'
  <1> USE DEF vars, platformVars, logVars, callVars, remoteVars
  <1>0. ASSUME NEW i \in PCRIndex
        PROVE  /\ syslog[i] \in Seq(Digest)
               /\ \A b \in Bank : pcr[b] \in [PCRIndex -> PCRValue] /\ pcr[b][i] \in PCRValue
    BY DEF TypeOK, EventLogs, BankState
  <1>1. ASSUME NEW r \in Measurements, NEW bad \in Bugs, Measure(r[1], r[2], bad)
        PROVE  LogInv'
    <2>1. r[1] \in PCRIndex /\ r[2] \in Digest
      BY DigestAssumption
    <2>2. /\ pending = {} /\ syslog' = syslog
          /\ pending' = IF r[1] \in Unlogged THEN {} ELSE {<<r[1], r[2]>>}
      BY <1>1 DEF Measure
    <2>3. ASSUME NEW i \in PCRIndex \ Unlogged, NEW b \in Bank
          PROVE  ToLog(i, b)'
      <3>1. Matches(syslog[i], pcr[b][i])
        BY <2>2 DEF LogInv, ToLog
      <3>2. PICK x \in {r[2], Broken} :
              pcr'[b] = [pcr[b] EXCEPT ![r[1]] = Append(pcr[b][r[1]], x)]
        BY <1>0, <1>1, <2>1 DEF Measure
      <3>3. CASE r[1] = i
        <4>1. Matches(Append(syslog[i], r[2]), Append(pcr[b][i], x))
          BY <1>0, <2>1, <3>1, <3>2, MatchesExtended
        <4>2. pcr'[b][i] = Append(pcr[b][i], x)
          BY <1>0, <3>2, <3>3
        <4>3. pending' = {<<i, r[2]>>}
          BY <2>2, <3>3
        <4>4. <<i, r[2]>> \in pending' /\ \A m \in pending' : m[1] = i /\ m[2] = r[2]
          BY <4>3
        <4>5. <<i, r[2]>>[1] = i
          OBVIOUS
        <4> QED
          BY <2>2, <4>1, <4>2, <4>4, <4>5 DEF ToLog
      <3>4. CASE r[1] # i
        <4>1. pcr'[b][i] = pcr[b][i]
          BY <1>0, <2>1, <3>2, <3>4
        <4>2. \A m \in pending' : m[1] # i
          BY <2>2, <3>4
        <4> QED
          BY <2>2, <3>1, <4>1, <4>2 DEF ToLog
      <3> QED
        BY <3>3, <3>4
    <2>4. \A m, k \in pending' : m = k
      BY <2>2
    <2> QED
      BY <2>2, <2>3, <2>4 DEF LogInv
  <1>2. CASE LogMeasurement
    <2>1. PICK m \in pending : /\ syslog' = [syslog EXCEPT ![m[1]] = Append(@, m[2])]
                               /\ pending' = {} /\ pcr' = pcr
      BY <1>2 DEF LogMeasurement
    <2>2. m[1] \in PCRIndex \ Unlogged /\ m[2] \in Digest
      BY DEF TypeOK
    <2>3. syslog \in [PCRIndex -> Seq(Digest)]
      BY DEF TypeOK, EventLogs
    <2>4. ASSUME NEW i \in PCRIndex \ Unlogged, NEW b \in Bank
          PROVE  ToLog(i, b)'
      <3>1. CASE m[1] = i
        <4>1. Matches(Append(syslog[i], m[2]), pcr[b][i])
          BY <3>1 DEF LogInv, ToLog
        <4>2. syslog'[i] = Append(syslog[i], m[2])
          BY <2>1, <2>3, <3>1
        <4> QED
          BY <2>1, <4>1, <4>2 DEF ToLog
      <3>2. CASE m[1] # i
        <4>1. \A k \in pending : k[1] # i
          BY <3>2 DEF LogInv
        <4>2. Matches(syslog[i], pcr[b][i])
          BY <4>1 DEF LogInv, ToLog
        <4>3. syslog'[i] = syslog[i]
          BY <2>1, <2>3, <3>2
        <4> QED
          BY <2>1, <4>2, <4>3 DEF ToLog
      <3> QED
        BY <3>1, <3>2
    <2>5. \A i \in Unlogged : syslog'[i] = << >>
      BY <2>1, <2>2, <2>3, RegistersAssumption DEF LogInv
    <2> QED
      BY <2>1, <2>4, <2>5 DEF LogInv
  <1>3. CASE ForgetMeasurement
    <2>1. pending' = {} /\ pcr' = pcr /\ syslog' = syslog
      BY <1>3 DEF ForgetMeasurement
    <2>2. ASSUME NEW i \in PCRIndex \ Unlogged, NEW b \in Bank
          PROVE  Matches(syslog[i], pcr[b][i])
      <3>1. CASE \A m \in pending : m[1] # i
        BY <3>1 DEF LogInv, ToLog
      <3>2. ASSUME NEW m \in pending, m[1] = i
            PROVE  Matches(syslog[i], pcr[b][i])
        <4>1. Matches(Append(syslog[i], m[2]), pcr[b][i]) /\ m[2] \in Digest
          BY <3>2 DEF LogInv, ToLog, TypeOK
        <4> QED
          BY <1>0, <4>1, MatchesForgotten
      <3> QED
        BY <3>1, <3>2
    <2> QED
      BY <2>1, <2>2 DEF LogInv, ToLog
  <1>4. ASSUME NEW j \in PCRIndex, ResetPCR(j)
        PROVE  LogInv'
    <2>1. /\ j \in Unlogged /\ UNCHANGED <<syslog, pending>>
          /\ \A b \in Bank : pcr'[b] = [pcr[b] EXCEPT ![j] = << >>]
      BY <1>4 DEF ResetPCR
    <2>2. \A b \in Bank, i \in PCRIndex \ Unlogged : pcr'[b][i] = pcr[b][i]
      BY <1>0, <2>1
    <2> QED
      BY <2>1, <2>2 DEF LogInv, ToLog
  <1>5. CASE UNCHANGED <<pcr, syslog, pending>>
    BY <1>5 DEF LogInv, ToLog
  <1>6. \/ Platform
        \/ UNCHANGED <<pcr, syslog, pending>>
    BY DEF Next, AttestPlatform, RemoteParty, MeasurementLog, ConfigEventLog,
           MeasurementLogFails, ReadPCRs, Quote, CommandFails, LocalVerify, Challenge,
           Verify
  <1> QED
    BY <1>1, <1>2, <1>3, <1>4, <1>5, <1>6 DEF Platform

\* Every step keeps HeldLogInv: a log that was read is that of its time.
LEMMA HeldLogInvStep ==
  ASSUME TypeOK, HistoryInv, LogInv, HeldLogInv, [Next]_vars
  PROVE  HeldLogInv'
  <1> USE DEF vars, platformVars, logVars, callVars, remoteVars
  <1>1. CASE MeasurementLog
    <2>1. el' = syslog /\ elTime' = Len(history) /\ history' = history
      BY <1>1 DEF MeasurementLog
    <2>2. ASSUME NEW i \in PCRIndex \ Unlogged, NEW b \in Bank
          PROVE  Matches(syslog[i], pcr[b][i])
      <3>1. CASE \A m \in pending : m[1] # i
        BY <3>1 DEF LogInv, ToLog
      <3>2. ASSUME NEW m \in pending, m[1] = i
            PROVE  Matches(syslog[i], pcr[b][i])
        <4>1. Matches(Append(syslog[i], m[2]), pcr[b][i]) /\ m[2] \in Digest
          BY <3>2 DEF LogInv, ToLog, TypeOK
        <4>2. syslog[i] \in Seq(Digest) /\ pcr[b][i] \in PCRValue
          BY DEF TypeOK, EventLogs, BankState
        <4> QED
          BY <4>1, <4>2, MatchesForgotten
      <3> QED
        BY <3>1, <3>2
    <2> QED
      BY <2>1, <2>2 DEF HeldLogInv, LogInv, HistoryInv
  <1>2. CASE ~elSystem'
    BY <1>2 DEF HeldLogInv
  <1>3. CASE UNCHANGED logVars
    <2>1. history'[elTime] = history[elTime]
      BY HistoryStep DEF HistoryInv
    <2> QED
      BY <1>3, <2>1 DEF HeldLogInv
  <1>4. MeasurementLog \/ ~elSystem' \/ UNCHANGED logVars
    BY DEF Next, Platform, AttestPlatform, RemoteParty, Measure, LogMeasurement,
           ForgetMeasurement, ResetPCR, ConfigEventLog, MeasurementLogFails, ReadPCRs,
           Quote, CommandFails, LocalVerify, Challenge, Verify
  <1> QED
    BY <1>1, <1>2, <1>3, <1>4

\* The log's invariant holds with the attestation's.
LEMMA LogInvariance == Spec => []LogIInv
  <1>1. Init => LogIInv
    <2> SUFFICES ASSUME Init PROVE LogIInv
      OBVIOUS
    <2>1. IInv
      BY InitIInv
    <2>2. ASSUME NEW b \in Bank, NEW i \in PCRIndex
          PROVE  pcr[b][i] = << >> /\ syslog[i] = << >>
      BY DEF Init
    <2>3. Matches(<< >>, << >>) /\ Extends(<< >>, << >>)
      BY DEF Matches, Extends
    <2>4. Len(history) = 1 /\ history[1] = pcr
      BY DEF Init
    <2>5. LogInv
      BY <2>2, <2>3, RegistersAssumption DEF Init, LogInv, ToLog
    <2>6. GrowInv
      BY <2>2, <2>3, <2>4 DEF GrowInv
    <2>7. HeldLogInv
      BY DEF Init, HeldLogInv
    <2> QED
      BY <2>1, <2>5, <2>6, <2>7 DEF LogIInv
  <1>2. LogIInv /\ IInv' /\ [Next]_vars => LogIInv'
    <2> SUFFICES ASSUME LogIInv, IInv', [Next]_vars PROVE LogIInv'
      OBVIOUS
    <2> USE DEF LogIInv, IInv
    <2>1. LogInv'
      BY LogInvStep
    <2>2. GrowInv'
      BY GrowInvStep
    <2>3. HeldLogInv'
      BY HeldLogInvStep
    <2> QED
      BY <2>1, <2>2, <2>3
  <1> QED
    BY <1>1, <1>2, Invariance, PTL DEF Spec

\* Where the log the call returned has an event, it has every event the
\* register had when the log was read, and nothing was measured into the
\* register before the quote: a measurement that races the attestation is
\* never cut off.
THEOREM MeasurementsNotMissed == Spec => []NoMissedMeasurement
  <1>1. LogIInv => NoMissedMeasurement
    <2> SUFFICES ASSUME IInv, GrowInv, HeldLogInv, elSystem,
                        EventLogVerify(el, pcrs, el),
                        NEW i \in PCRIndex, el[i] # << >>
                 PROVE  \E b \in DOMAIN pcrs :
                          /\ pcrs[b][i] = el[i]
                          /\ history[elTime][b][i] = el[i]
      BY DEF LogIInv, NoMissedMeasurement
    <2>1. PICK b \in DOMAIN pcrs : el[i] = pcrs[b][i]
      BY VerifiedReplays
    <2>2. b \in Bank
      BY DEF IInv, TypeOK, IsPartial
    <2>3. PICK t \in elTime .. Len(history) : pcrs[b] = history[t][b]
      <3>1. PICK q \in quotes : q.bank = b
        BY DEF IInv, SessionInv
      <3> QED
        BY <3>1 DEF IInv, SessionInv
    <2>4. i \notin Unlogged /\ Matches(el[i], history[elTime][b][i])
      BY <2>2 DEF HeldLogInv
    <2>5. elTime \in 1 .. Len(history) /\ t \in 1 .. Len(history) /\ elTime <= t
      BY <2>3 DEF IInv, HistoryInv, TypeOK
    <2>6. Extends(el[i], history[elTime][b][i])
      BY <2>1, <2>2, <2>3, <2>4, <2>5 DEF GrowInv
    <2>7. history[elTime][b][i] \in PCRValue /\ pcrs[b][i] \in PCRValue
      BY <2>2, <2>3, <2>5 DEF IInv, TypeOK, BankState
    <2>8. history[elTime][b][i] = el[i]
      BY <2>1, <2>4, <2>6, <2>7 DEF Matches, Extends, PCRValue
    <2> QED
      BY <2>1, <2>8
  <1> QED
    BY <1>1, LogInvariance, PTL

\* A register that one attested bank measured correctly replays, whatever the
\* firmware did to the other banks: two banks with a bug in each still verify.
THEOREM FailoverWorks == Spec => []FailoverSuffices
  <1>1. LogIInv => FailoverSuffices
    <2> SUFFICES ASSUME IInv, HeldLogInv, elSystem,
                        \A i \in PCRIndex : \E b \in DOMAIN pcrs :
                          el[i] = << >> \/ Replayable(b, i)
                 PROVE  EventLogVerify(el, pcrs, el)
      BY DEF LogIInv, FailoverSuffices
    <2>1. ASSUME NEW i \in PCRIndex, NEW b \in DOMAIN pcrs, el[i] # << >>, Replayable(b, i)
          PROVE  el[i] = pcrs[b][i]
      <3>1. b \in Bank /\ pcrs[b][i] \in PCRValue
        BY DEF IInv, TypeOK, IsPartial, BankState
      <3>2. Matches(el[i], pcrs[b][i])
        BY <2>1, <3>1 DEF HeldLogInv, Replayable
      <3>3. el[i] \in Seq(Digest)
        BY DEF IInv, TypeOK, EventLogs
      <3>4. Len(pcrs[b][i]) = Len(el[i]) /\ \A k \in 1 .. Len(el[i]) : pcrs[b][i][k] # Broken
        BY <2>1, <3>1 DEF Replayable, PCRValue
      <3>5. \A k \in 1 .. Len(el[i]) : pcrs[b][i][k] = el[i][k]
        BY <3>2, <3>4 DEF Matches
      <3> QED
        BY <3>1, <3>3, <3>4, <3>5 DEF PCRValue
    <2>2. InvalidPCRs(el, pcrs) = {}
      BY <2>1 DEF InvalidPCRs, ReplayPCR
    <2> QED
      BY <2>2 DEF EventLogVerify
  <1> QED
    BY <1>1, LogInvariance, PTL

\* A step of the attestation is a step of the promise, or none at all.
LEMMA StepRefines ==
  ASSUME IInv, [Next]_vars
  PROVE  [Promise!Next]_(Promise!vars)
  <1> USE DEF vars, platformVars, logVars, callVars, remoteVars, Promise!Next,
              Promise!vars
  <1>1. ASSUME history' = Append(history, pcr'), UNCHANGED remoteVars
        PROVE  Promise!Progress
    BY <1>1 DEF Promise!Progress, IInv, TypeOK
  <1>2. ASSUME NEW n \in Nonce, Challenge(n)
        PROVE  Promise!DrawNonce(n)
    BY <1>2 DEF Challenge, Promise!DrawNonce
  <1>3. ASSUME NEW n \in Nonce, Verify(n)
        PROVE  Promise!Accept(n)
    <2>1. PICK qs \in SUBSET issued, p \in PresentedPCRs, log \in PresentedLogs :
            /\ VerifyAll(qs, p, n)
            /\ \E evs \in {log} \cup {Inject(log, w) : w \in DOMAIN Workarounds} :
                 /\ EventLogVerify(log, p, evs)
                 /\ accepted' = accepted \cup {[nonce |-> n, events |-> evs]}
      BY <1>3 DEF Verify
    <2>2. PICK evs \in {log} \cup {Inject(log, w) : w \in DOMAIN Workarounds} :
            /\ EventLogVerify(log, p, evs)
            /\ accepted' = accepted \cup {[nonce |-> n, events |-> evs]}
      BY <2>1
    <2> DEFINE a == [nonce |-> n, events |-> evs]
    <2>3. Authentic(n, evs)
      BY <2>1, <2>2, VerifyAuthentic DEF IInv
    <2>4. a \in accepted' /\ accepted' = accepted \cup {a} /\ a.nonce = n
      BY <2>2
    <2>5. \A i \in PCRIndex :
            \/ a.events[i] = << >>
            \/ \E b \in Bank, t \in nonceTime[n] .. Len(history) :
                 a.events[i] = Promise!Measured(i, b, t)
      BY <2>3 DEF Authentic, Promise!Measured
    <2>6. nonceTime[n] # 0 /\ UNCHANGED <<history, nonceTime>>
      BY <1>3 DEF Verify
    <2> HIDE DEF a
    <2> QED
      BY <2>4, <2>5, <2>6 DEF Promise!Accept
  <1>4. \/ history' = Append(history, pcr') /\ UNCHANGED remoteVars
        \/ \E n \in Nonce : Challenge(n) \/ Verify(n)
        \/ UNCHANGED <<history, remoteVars>>
    BY DEF Next, Platform, AttestPlatform, RemoteParty, Measure, LogMeasurement,
           ForgetMeasurement, ResetPCR, MeasurementLog, ConfigEventLog,
           MeasurementLogFails, ReadPCRs, Quote, CommandFails, LocalVerify
  <1> QED
    BY <1>1, <1>2, <1>3, <1>4

\* The attestation, with its quotes, partial reads, logs and workarounds,
\* implements AttestationAbstract.
THEOREM Refinement == Spec => KeepsPromise
  <1>1. Init => Promise!Init
    BY DEF Init, Promise!Init
  <1>2. IInv /\ [Next]_vars => [Promise!Next]_(Promise!vars)
    BY StepRefines
  <1> QED
    BY <1>1, <1>2, Invariance, PTL DEF Spec, KeepsPromise, Promise!Spec
=============================================================================
