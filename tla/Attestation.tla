----------------------------- MODULE Attestation -----------------------------
(***************************************************************************)
(* Platform attestation end to end, for a TPM 2.0: the platform measures   *)
(* itself into the TPM's PCR banks and into its event log, a client runs   *)
(* TPM.AttestPlatform (tpm.go) while measurements go on, and a remote      *)
(* party runs AKPublic.VerifyAll (attest.go) and EventLog.Verify           *)
(* (eventlog.go) on what it receives.                                      *)
(*                                                                         *)
(* Hashing is free: the value of a PCR is the sequence of digests it was   *)
(* extended with since it was last reset, so two values are equal exactly  *)
(* when the chains are.  A log is kept as one sequence of digests per      *)
(* register (the order between registers is the subject of module          *)
(* EventLogReplay).  A signature is free too: the only quotes there are,   *)
(* are the ones the TPM issued.                                            *)
(***************************************************************************)
EXTENDS Integers, Sequences, FiniteSets, Verifier

CONSTANTS
  Unlogged,      (* registers of the running OS: not in the firmware's log    *)
  Bank,          (* hash algorithms a TPM can have a PCR bank for             *)
  Algs,          (* the banks attestPlatform goes through, in its order       *)
  Nonce,         (* nonces the remote party draws                             *)
  Digest,        (* digests of events                                         *)
  Measurements,  (* the <<register, digest>> pairs the platform measures      *)
  Broken,        (* what a bank with a firmware bug is extended with instead  *)
  Bugs,          (* the sets of banks that can have the bug at a measurement  *)
  ConfigLogs,    (* the logs a caller passes in PlatformAttestConfig.EventLog *)
  PresentedLogs, (* the logs that may reach the remote party                  *)
  MaxHistory,    (* bound: states of the PCR banks in a behaviour             *)
  MaxAccepted    (* bound: attestations the remote party accepts              *)

NumPCRs == Cardinality(PCRIndex)

ASSUME RegistersAssumption ==
  /\ IsFiniteSet(PCRIndex)
  /\ PCRIndex # {}
  /\ Unlogged \subseteq PCRIndex
  /\ WorkaroundPCR \in PCRIndex \ Unlogged

ASSUME BanksAssumption ==
  /\ Algs \in Seq(Bank)
  /\ Algs # << >>
  /\ \A j, k \in DOMAIN Algs : Algs[j] = Algs[k] => j = k

ASSUME DigestAssumption ==
  /\ Broken \notin Digest
  /\ Measurements \subseteq PCRIndex \X Digest
  /\ Bugs \subseteq SUBSET Bank
  /\ Workarounds \in Seq(Seq(Digest))
  /\ ConfigLogs \subseteq [PCRIndex -> Seq(Digest)]
  /\ PresentedLogs \subseteq [PCRIndex -> Seq(Digest)]
  /\ MaxHistory \in Nat \ {0}
  /\ MaxAccepted \in Nat

VARIABLES
  \* The platform and its TPM.
  pcr,        \* the value of every register of every bank
  syslog,     \* the digests in the measurement log, by register
  pending,    \* the measurement that is extended but not yet logged
  history,    \* every state the PCR banks have been in
  issued,     \* the quotes the TPM has signed
  \* The call of AttestPlatform.
  pc,         \* where the call is
  nonce,      \* the nonce it was called with
  el,         \* the event log it returns
  elTime,     \* Len(history) when it got the log
  elSystem,   \* the log is the system's, not one passed by the caller
  alg,        \* index in Algs of the bank being attested
  tries,      \* commands readAllPCRs20 has sent
  starved,    \* one of the call's commands returned no register
  out,        \* the registers readAllPCRs20 has so far
  quote,      \* the quote attestPCRs is holding
  quotes,     \* PlatformParameters.Quotes
  pcrs,       \* PlatformParameters.PCRs, by bank
  lastErr,    \* lastErr of attestPlatform, or the error of AttestPlatform
  \* The remote party.
  nonceTime,  \* Len(history) when a nonce was drawn, 0 before
  accepted    \* the verified events of every accepted attestation

platformVars == <<pcr, syslog, pending, history>>
logVars      == <<el, elTime, elSystem>>
callVars     == <<pc, nonce, logVars, alg, tries, starved, out, quote, quotes, pcrs,
                  lastErr>>
remoteVars   == <<nonceTime, accepted>>
vars         == <<platformVars, issued, callVars, remoteVars>>

PCRValue  == Seq(Digest \cup {Broken})
BankState == [PCRIndex -> PCRValue]
EventLogs == [PCRIndex -> Seq(Digest)]
Quotes    == [nonce : Nonce, bank : Bank, vals : BankState]
IsPartial(f, S, V) == DOMAIN f \subseteq S /\ f \in [DOMAIN f -> V]

NoRegisters == [i \in {} |-> << >>]
NoQuote     == [nonce |-> "none", bank |-> "none"]

Init ==
  /\ pcr = [b \in Bank |-> [i \in PCRIndex |-> << >>]]
  /\ syslog = [i \in PCRIndex |-> << >>]
  /\ pending = {}
  /\ history = <<pcr>>
  /\ issued = {}
  /\ pc = "idle"
  /\ nonce = "none"
  /\ el = syslog
  /\ elTime = Len(history)
  /\ elSystem = FALSE
  /\ alg = 1
  /\ tries = 0
  /\ starved = FALSE
  /\ out = NoRegisters
  /\ quote = NoQuote
  /\ quotes = {}
  /\ pcrs = NoRegisters
  /\ lastErr = "none"
  /\ nonceTime = [n \in Nonce |-> 0]
  /\ accepted = {}

-----------------------------------------------------------------------------
(***************************************************************************)
(* The platform (external: firmware, boot loader, OS).                     *)
(***************************************************************************)

\* The firmware extends every bank with the digest of an event, then appends
\* the event to the log.  The banks in bad have a firmware bug and get another
\* digest: the "bugs in platform firmware which break replay for one PCR bank"
\* that AttestPlatform attests two banks for.
Measure(i, d, bad) ==
  /\ pending = {}
  /\ Len(history) < MaxHistory
  /\ pcr' = [b \in Bank |->
               [pcr[b] EXCEPT ![i] = Append(@, IF b \in bad THEN Broken ELSE d)]]
  /\ pending' = IF i \in Unlogged THEN {} ELSE {<<i, d>>}
  /\ history' = Append(history, pcr')
  /\ UNCHANGED <<syslog, issued, callVars, remoteVars>>

LogMeasurement ==
  \E m \in pending :
    /\ syslog' = [syslog EXCEPT ![m[1]] = Append(@, m[2])]
    /\ pending' = {}
    /\ UNCHANGED <<pcr, history, issued, callVars, remoteVars>>

\* The quirk the workarounds are for: firmware that measures ExitBootServices
\* and leaves the event out of the log.
ForgetMeasurement ==
  \E m \in pending :
    /\ m[1] = WorkaroundPCR
    /\ \E w \in DOMAIN Workarounds : \E k \in DOMAIN Workarounds[w] :
         m[2] = Workarounds[w][k]
    /\ pending' = {}
    /\ UNCHANGED <<pcr, syslog, history, issued, callVars, remoteVars>>

\* The OS may reset the registers it uses (TPM2_PCR_Reset on PCR 16 and 23).
ResetPCR(i) ==
  /\ i \in Unlogged
  /\ Len(history) < MaxHistory
  /\ pcr' = [b \in Bank |-> [pcr[b] EXCEPT ![i] = << >>]]
  /\ history' = Append(history, pcr')
  /\ UNCHANGED <<syslog, pending, issued, callVars, remoteVars>>

-----------------------------------------------------------------------------
(***************************************************************************)
(* The client: TPM.AttestPlatform.                                         *)
(***************************************************************************)

\* The remote party draws a fresh nonce and AttestPlatform is called with it.
Challenge(n) ==
  /\ pc \in {"idle", "done", "failed"}
  /\ nonceTime[n] = 0
  /\ nonceTime' = [nonceTime EXCEPT ![n] = Len(history)]
  /\ pc' = "log"
  /\ nonce' = n
  /\ alg' = 1
  /\ tries' = 0
  /\ starved' = FALSE
  /\ out' = NoRegisters
  /\ quote' = NoQuote
  /\ quotes' = {}
  /\ pcrs' = NoRegisters
  /\ lastErr' = "none"
  /\ UNCHANGED <<platformVars, issued, logVars, accepted>>

\* AttestPlatform reads the system's measurement log before anything else.
MeasurementLog ==
  /\ pc = "log"
  /\ pc' = "read"
  /\ el' = syslog
  /\ elTime' = Len(history)
  /\ elSystem' = TRUE
  /\ UNCHANGED <<platformVars, issued, nonce, alg, tries, starved, out, quote,
                 quotes, pcrs, lastErr, remoteVars>>

\* The caller passed a log, whatever is in it.
ConfigEventLog(log) ==
  /\ pc = "log"
  /\ pc' = "read"
  /\ el' = log
  /\ elTime' = Len(history)
  /\ elSystem' = FALSE
  /\ UNCHANGED <<platformVars, issued, nonce, alg, tries, starved, out, quote,
                 quotes, pcrs, lastErr, remoteVars>>

\* The log cannot be read, or is shorter than any valid log.
MeasurementLogFails ==
  /\ pc = "log"
  /\ pc' = "failed"
  /\ lastErr' = "log"
  /\ UNCHANGED <<platformVars, issued, nonce, logVars, alg, tries, starved, out,
                 quote, quotes, pcrs, remoteVars>>

\* The end of an iteration of attestPlatform's loop over the banks, with qs the
\* quotes so far: the next bank, or the end of the call, which fails if there
\* is no quote at all.
NextBank(qs) ==
  /\ \/ alg < Len(Algs) /\ alg' = alg + 1 /\ pc' = "read"
     \/ alg = Len(Algs) /\ alg' = alg /\ pc' = IF qs = {} THEN "failed" ELSE "done"
  /\ tries' = 0
  /\ out' = NoRegisters
  /\ quote' = NoQuote

\* Mutants: the error is dropped; the same bank is tried again.
BankErrorDropped(err) ==
  /\ NextBank(quotes)
  /\ UNCHANGED <<quotes, pcrs, lastErr>>

BankErrorRetry(err) ==
  /\ pc' = "read"
  /\ tries' = 0
  /\ out' = NoRegisters
  /\ quote' = NoQuote
  /\ lastErr' = err
  /\ UNCHANGED <<alg, quotes, pcrs>>

\* attestPCRs returned an error: attestPlatform remembers it and continues.
BankError(err) ==
  /\ NextBank(quotes)
  /\ lastErr' = err
  /\ UNCHANGED <<quotes, pcrs>>

\* Mutants: the loop of readAllPCRs20 is off by one.
ReadLimitShort == NumPCRs - 1

ReadLimitLong == NumPCRs + 1

\* The loop of readAllPCRs20 goes on for at most this many commands.
ReadLimit == NumPCRs

\* An iteration of readAllPCRs20: the TPM returns any of the registers that
\* are still missing (none, if it does not have the bank).
ReadPCRs(R) ==
  /\ pc = "read"
  /\ R \subseteq PCRIndex \ DOMAIN out
  /\ starved' = (starved \/ R = {})
  /\ LET got == DOMAIN out \cup R
     IN  IF got = PCRIndex \/ tries + 1 < ReadLimit
           THEN /\ out' = [i \in got |-> IF i \in R THEN pcr[Algs[alg]][i] ELSE out[i]]
                /\ tries' = tries + 1
                /\ pc' = IF got = PCRIndex THEN "quote" ELSE "read"
                /\ UNCHANGED <<alg, quote, quotes, pcrs, lastErr>>
           ELSE BankError("short")
  /\ UNCHANGED <<platformVars, issued, nonce, logVars, remoteVars>>

\* AK.Quote: the TPM signs the values the bank has now, with the nonce.
Quote ==
  /\ pc = "quote"
  /\ pc' = "verify"
  /\ LET b == Algs[alg]
     IN  quote' = [nonce |-> nonce, bank |-> b, vals |-> pcr[b]]
  /\ issued' = issued \cup {quote'}
  /\ UNCHANGED <<platformVars, nonce, logVars, alg, tries, starved, out, quotes,
                 pcrs, lastErr, remoteVars>>

\* TPM2_PCR_Read, TPM2_Quote or ParseAKPublic returned an error.
CommandFails ==
  /\ pc \in {"read", "quote", "verify"}
  /\ BankError("command")
  /\ UNCHANGED <<platformVars, issued, nonce, logVars, starved, remoteVars>>

\* The banks in p and bank b with values v: append(out.PCRs, pcrs...).
AddBank(p, b, v) == [c \in DOMAIN p \cup {b} |-> IF c = b THEN v ELSE p[c]]

\* Mutant: attestPCRs returns without the local verification.
LocalVerifySkipped ==
  /\ pc = "verify"
  /\ quotes' = quotes \cup {quote}
  /\ pcrs' = AddBank(pcrs, Algs[alg], out)
  /\ NextBank(quotes')
  /\ UNCHANGED <<platformVars, issued, nonce, logVars, starved, lastErr, remoteVars>>

\* attestPCRs checks the quote against the registers it read before, and
\* attestPlatform keeps both if they agree.
LocalVerify ==
  /\ pc = "verify"
  /\ LET b == Algs[alg]
     IN  IF Validate20Quote(quote, AddBank(NoRegisters, b, out), nonce)
           THEN /\ quotes' = quotes \cup {quote}
                /\ pcrs' = AddBank(pcrs, b, out)
                /\ NextBank(quotes')
                /\ lastErr' = lastErr
           ELSE BankError("mismatch")
  /\ UNCHANGED <<platformVars, issued, nonce, logVars, starved, remoteVars>>

-----------------------------------------------------------------------------
(***************************************************************************)
(* The remote party.                                                       *)
(***************************************************************************)

\* PCR values that may reach the remote party, with quotes of the TPM in any
\* combination, late, or several times: neither the values nor the log are
\* authentic before they are verified.
PresentedPCRs ==
  UNION {{[b \in B |-> history[t[b]][b]] : t \in [B -> DOMAIN history]} :
           B \in SUBSET Bank}

\* The remote party verifies what it received for nonce n: VerifyAll, then
\* EventLog.Verify on the same PCRs.
Verify(n) ==
  /\ nonceTime[n] # 0
  /\ Cardinality(accepted) < MaxAccepted
  /\ \E qs \in SUBSET issued, p \in PresentedPCRs :
       /\ VerifyAll(qs, p, n)
       /\ \E log \in PresentedLogs :
          \E evs \in {log} \cup {Inject(log, w) : w \in DOMAIN Workarounds} :
            /\ EventLogVerify(log, p, evs)
            /\ accepted' = accepted \cup {[nonce |-> n, events |-> evs]}
  /\ UNCHANGED <<platformVars, issued, callVars, nonceTime>>

-----------------------------------------------------------------------------
Platform ==
  \/ \E m \in Measurements, bad \in Bugs : Measure(m[1], m[2], bad)
  \/ LogMeasurement
  \/ ForgetMeasurement
  \/ \E i \in PCRIndex : ResetPCR(i)

AttestPlatform ==
  \/ MeasurementLog
  \/ \E log \in ConfigLogs : ConfigEventLog(log)
  \/ MeasurementLogFails
  \/ \E R \in SUBSET PCRIndex : ReadPCRs(R)
  \/ Quote
  \/ CommandFails
  \/ LocalVerify

RemoteParty == \E n \in Nonce : Challenge(n) \/ Verify(n)

Next == Platform \/ AttestPlatform \/ RemoteParty

\* A call of AttestPlatform that was made goes on: every TPM command returns.
Fairness == WF_vars(AttestPlatform)

Spec == Init /\ [][Next]_vars /\ Fairness

-----------------------------------------------------------------------------
(***************************************************************************)
(* Properties.                                                             *)
(***************************************************************************)

\* The values of the variables; readAllPCRs20 never sends more commands than
\* it has registers to read.
TypeOK ==
  /\ pcr \in [Bank -> BankState]
  /\ syslog \in EventLogs
  /\ pending \subseteq (PCRIndex \ Unlogged) \X Digest
  /\ history \in Seq([Bank -> BankState])
  /\ issued \subseteq Quotes
  /\ pc \in {"idle", "log", "read", "quote", "verify", "done", "failed"}
  /\ nonce \in Nonce \cup {"none"}
  /\ el \in EventLogs
  /\ elTime \in Nat
  /\ elSystem \in BOOLEAN
  /\ alg \in 1 .. Len(Algs)
  /\ tries \in 0 .. NumPCRs
  /\ starved \in BOOLEAN
  /\ IsPartial(out, PCRIndex, PCRValue)
  /\ quote \in Quotes \cup {NoQuote}
  /\ quotes \subseteq Quotes
  /\ IsPartial(pcrs, Bank, BankState)
  /\ lastErr \in {"none", "log", "command", "short", "mismatch"}
  /\ nonceTime \in [Nonce -> Nat]
  /\ accepted \subseteq [nonce : Nonce, events : EventLogs]

\* The PCR values AttestPlatform returns for a bank are the values the bank had,
\* all at the same moment, after the event log was read: registers read by
\* different TPM2_PCR_Read commands while the platform kept extending them
\* (readAllPCRs20) never leave the client as if they were one state.
AttestedSnapshot ==
  pc = "done" =>
    \A b \in DOMAIN pcrs : \E t \in elTime .. Len(history) :
      pcrs[b] = history[t][b]

\* What AttestPlatform returns without error, for a nonce that is not empty, passes
\* VerifyAll at the remote party, whatever subset of the banks could be attested:
\* this is what attestPCRs verifies every quote locally for.
ReturnedVerifies ==
  pc = "done" /\ nonce # NoNonce => VerifyAll(quotes, pcrs, nonce)

\* readAllPCRs20 runs out of commands only if the TPM returned nothing at all
\* for one of them: one register per command is enough to end with all of them.
PartialReadsSuffice ==
  lastErr = "short" => starved

\* attestPlatform, which returns (nil, lastErr) when it has no quote, never
\* returns (nil, nil).
FailureHasCause ==
  pc = "failed" => lastErr # "none"

\* If EventLog.Verify accepts the log that AttestPlatform returned as it is, with
\* no workaround, the events of a register that the log has events of are all the
\* events it had when the log was read, and it had not changed by the time it was
\* quoted: a measurement that races the attestation makes the replay fail, it is
\* never cut off.
NoMissedMeasurement ==
  pc = "done" /\ elSystem =>
    (EventLogVerify(el, pcrs, el) =>
       \A i \in PCRIndex : el[i] # << >> =>
         \E b \in DOMAIN pcrs :
           /\ pcrs[b][i] = el[i]
           /\ history[elTime][b][i] = el[i])

\* Register i was measured correctly in bank b up to the moment the log was
\* read, and quoted before anything else was measured into it.
Replayable(b, i) ==
  /\ pcrs[b][i] = history[elTime][b][i]
  /\ Len(pcrs[b][i]) = Len(el[i])
  /\ \A k \in DOMAIN pcrs[b][i] : pcrs[b][i][k] # Broken

\* Attesting two banks mitigates "bugs in platform firmware which break replay
\* for one PCR bank": if every register has one attested bank, not the same one
\* for all, in which it is replayable, the log verifies.
FailoverSuffices ==
  pc = "done" /\ elSystem =>
    ((\A i \in PCRIndex : \E b \in DOMAIN pcrs :
        el[i] = << >> \/ Replayable(b, i))
       => EventLogVerify(el, pcrs, el))

\* The events of register i are the ones that some bank had been extended with
\* at a moment since the nonce was drawn, all of them and in their order, or
\* the log has no event for the register.
Authentic(n, events) ==
  \A i \in PCRIndex :
    \/ events[i] = << >>
    \/ \E b \in Bank, t \in nonceTime[n] .. Len(history) : events[i] = history[t][b][i]

\* "The digests contained in the event log can be considered authentic if" the
\* quotes verify and EventLog.Verify returns no error (PlatformParameters): no
\* combination of a quote made for another nonce, stale PCR values and a log
\* that was changed gets events accepted that were not measured.
AcceptedAuthentic ==
  \A a \in accepted : Authentic(a.nonce, a.events)

\* A call of AttestPlatform returns, whatever the TPM answers.
AttestPlatformReturns ==
  pc = "log" ~> pc \in {"done", "failed"}

\* Attestation implements its promise: whatever the TPM, the client and the
\* transport do, the remote party's decisions are steps of AttestationAbstract.
Promise == INSTANCE AttestationAbstract
KeepsPromise == Promise!Spec
=============================================================================
