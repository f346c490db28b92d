--------------------------- MODULE EventLogReplay ---------------------------
(***************************************************************************)
(* EventLog.Verify (eventlog.go): the replay of a measurement log against  *)
(* PCR values, register by register, with the workarounds for firmware     *)
(* that leaves the ExitBootServices events out of the log                  *)
(* (eventlog_workarounds.go).                                              *)
(*                                                                         *)
(* The platform (external) boots first: it measures events into its banks  *)
(* and logs them, with the firmware's quirks, and the log may be changed   *)
(* before it is parsed.  Then Verify runs.  Hashing is free: the value of  *)
(* a register is its initial value, the startup locality, followed by the  *)
(* digests it was extended with.                                           *)
(***************************************************************************)
EXTENDS Integers, Sequences, FiniteSets, SequencesExt, Verifier

CONSTANTS
  LocalityPCR,  (* PCR 0: its initial value is the startup locality         *)
  Localities,   (* localities TPM2_Startup is issued from                   *)
  Bank,         (* hash algorithms a TPM can have a PCR bank for            *)
  LogAlgs,      (* the algorithms a log can declare (EventLog.Algs)         *)
  Digest,       (* digests of events                                        *)
  Measurements, (* the <<register, digest>> pairs the platform measures     *)
  Forged,       (* digests that are put into the log by someone else        *)
  Broken,       (* what a bank with a firmware bug is extended with instead *)
  Bugs,         (* the sets of banks that can have the bug at a measurement *)
  ShortDigest,  (* a digest whose length is not the register's              *)
  Selections,   (* the orders in which <<bank, register>> pairs are given   *)
  MaxEvents     (* bound: events in the log                                 *)

\* The digests of events have the length of the registers, and the workarounds
\* add events like any other.
ASSUME LogAssumption ==
  /\ LocalityPCR \in PCRIndex /\ WorkaroundPCR \in PCRIndex
  /\ Localities \subseteq Nat
  /\ LogAlgs \subseteq Seq(Bank)
  /\ Measurements \subseteq PCRIndex \X Digest
  /\ ShortDigest \notin Digest
  /\ Workarounds \in Seq(Seq(Digest))
  /\ Selections \subseteq Seq(Bank \X PCRIndex)

VARIABLES
  \* The platform.
  startup,    \* the locality TPM2_Startup was issued from
  bank,       \* the value of every register of every bank
  log,        \* the measurement log, before it is parsed
  forgotten,  \* the digests measured into WorkaroundPCR and not logged
  tampered,   \* the log is not the one the platform wrote
  \* EventLog and the call of Verify.
  algs,       \* EventLog.Algs
  rawEvents,  \* EventLog.rawEvents
  pcrs,       \* the argument of Verify
  pc,         \* where the call is
  el,         \* the events being replayed: rawEvents, or a clone with a workaround
  wkrd,       \* the workaround that was applied, 0 for none
  replays,    \* the results in allPCRReplays, for each element of pcrs
  todo,       \* the keys of allPCRReplays its loop has not visited
  verified,   \* verifiedEvents
  invalid,    \* invalidReplays
  rErr,       \* InvalidPCRs of the error that Verify got for the log as it is
  events      \* the events that Verify returns

platformVars == <<startup, bank, log, forgotten, tampered>>
inputVars    == <<algs, rawEvents, pcrs>>
replayVars   == <<replays, todo, verified, invalid>>
vars == <<platformVars, inputVars, pc, el, wkrd, replayVars, rErr, events>>

NoLocality == -1

\* A parsed event: no action, or a measurement with a digest d for every
\* algorithm in the sequence as.
NoActionEvent(i, l) == [index |-> i, typ |-> "noaction", locality |-> l, digests |-> << >>]
Digests(as, d) == [k \in DOMAIN as |-> [hash |-> as[k], data |-> d]]
Measured(i, as, d) ==
  [index |-> i, typ |-> "event", locality |-> NoLocality, digests |-> Digests(as, d)]

Init ==
  /\ startup \in Localities
  /\ bank = [b \in Bank |-> [i \in PCRIndex |-> IF i = LocalityPCR THEN <<startup>> ELSE <<0>>]]
  /\ log = IF startup = 0 THEN << >> ELSE <<NoActionEvent(LocalityPCR, startup)>>
  /\ forgotten = << >>
  /\ tampered = FALSE
  /\ algs \in LogAlgs
  /\ rawEvents = << >>
  /\ pcrs = << >>
  /\ pc = "boot"
  /\ el = << >>
  /\ wkrd = 0
  /\ replays = << >>
  /\ todo = {}
  /\ verified = << >>
  /\ invalid = {}
  /\ rErr = {}
  /\ events = << >>

-----------------------------------------------------------------------------
(***************************************************************************)
(* The platform (external).                                                *)
(***************************************************************************)

ExtendBanks(i, d, bad) ==
  bank' = [b \in Bank |-> [bank[b] EXCEPT ![i] = Append(@, IF b \in bad THEN Broken ELSE d)]]

\* An event is measured and logged; the banks in bad have the firmware bug.
Measure(i, d, bad) ==
  /\ pc = "boot" /\ ~tampered /\ forgotten = << >> /\ Len(log) < MaxEvents
  /\ ExtendBanks(i, d, bad)
  /\ log' = Append(log, Measured(i, algs, d))
  /\ UNCHANGED <<startup, forgotten, tampered, inputVars, pc, el, wkrd, replayVars, rErr, events>>

\* The firmware measures an ExitBootServices event, the last thing it does, and
\* does not log it.
Forget(d) ==
  /\ pc = "boot" /\ ~tampered
  /\ \E w \in DOMAIN Workarounds : IsPrefix(Append(forgotten, d), Workarounds[w])
  /\ ExtendBanks(WorkaroundPCR, d, {})
  /\ forgotten' = Append(forgotten, d)
  /\ UNCHANGED <<startup, log, tampered, inputVars, pc, el, wkrd, replayVars, rErr, events>>

\* An event that extends nothing is logged, for any register.
Inform(i) ==
  /\ pc = "boot" /\ ~tampered /\ forgotten = << >> /\ Len(log) < MaxEvents
  /\ log' = Append(log, NoActionEvent(i, NoLocality))
  /\ UNCHANGED <<startup, bank, forgotten, tampered, inputVars, pc, el, wkrd, replayVars,
                 rErr, events>>

\* One change of the log that the platform did not make: an event is removed,
\* moved or altered, or another one is added in front of it.
Changes(k) ==
  {RemoveAt(log, k), InsertAt(log, k, NoActionEvent(LocalityPCR, 4))}
    \cup {[log EXCEPT ![k] = log[j], ![j] = log[k]] : j \in 1 .. k - 1}
    \cup {InsertAt(log, k, Measured(log[k].index, algs, d)) : d \in Forged}
    \cup {[log EXCEPT ![k].digests = Digests(as, d)] :
            as \in {<< >>, algs} \cup {<<algs[j]>> : j \in DOMAIN algs},
            d \in Forged \cup {ShortDigest}}

Tamper ==
  /\ pc = "boot" /\ ~tampered
  /\ \E k \in DOMAIN log : log' \in Changes(k)
  /\ tampered' = TRUE
  /\ UNCHANGED <<startup, bank, forgotten, inputVars, pc, el, wkrd, replayVars, rErr, events>>

-----------------------------------------------------------------------------
(***************************************************************************)
(* EventLog.Verify.                                                        *)
(***************************************************************************)

\* ParseEventLog numbers the events in the order of the log.
ParseEventLog(l) ==
  [k \in DOMAIN l |-> [sequence |-> k, index |-> l[k].index, typ |-> l[k].typ,
                       locality |-> l[k].locality, digests |-> l[k].digests]]

\* The registers that were given to Verify.
Provided == {p.index : p \in ToSet(pcrs)}

\* The loop of replayEvents starts over, with the log l.
StartReplay(l) ==
  /\ pc' = "replay"
  /\ el' = l
  /\ replays' = << >>
  /\ todo' = {}
  /\ verified' = << >>
  /\ invalid' = {}

\* The log is parsed and Verify is called with the values of some registers.
Verify(sel) ==
  /\ pc = "boot"
  /\ rawEvents' = ParseEventLog(log)
  /\ pcrs' = [k \in DOMAIN sel |->
                [index |-> sel[k][2], alg |-> sel[k][1], digest |-> bank[sel[k][1]][sel[k][2]]]]
  /\ StartReplay(rawEvents')
  /\ UNCHANGED <<platformVars, algs, wkrd, rErr, events>>

\* extend: the first digest of e for the register's algorithm, if it has the
\* register's length, is what the register is extended with.
Matching(p, e) == {k \in DOMAIN e.digests : e.digests[k].hash = p.alg}
DigestFor(p, e) == e.digests[Min(Matching(p, e))].data
CanExtend(p, e) == Matching(p, e) # {} /\ DigestFor(p, e) # ShortDigest

extend(p, replay, e, locality) ==
  Append(IF replay # << >> THEN replay ELSE <<locality>>, DigestFor(p, e))

\* An event of the loop of replayPCR, with st what the loop has so far.
ReplayEvent(p, st, e) ==
  IF ~st.ok \/ e.index # p.index THEN st
  ELSE IF e.typ = "noaction"
    THEN IF p.index = LocalityPCR /\ e.locality # NoLocality
           THEN [st EXCEPT !.locality = e.locality]
           ELSE st
  ELSE IF CanExtend(p, e)
    THEN [st EXCEPT !.replay = extend(p, @, e, st.locality),
                    !.events = Append(@, [sequence |-> e.sequence, index |-> p.index,
                                          digest |-> DigestFor(p, e)])]
    ELSE [st EXCEPT !.ok = FALSE]

\* The loop of replayPCR.
ReplayLoop(l, p) ==
  LET st[n \in 0 .. Len(l)] ==
        IF n = 0 THEN [ok |-> TRUE, replay |-> << >>, locality |-> 0, events |-> << >>]
        ELSE ReplayEvent(p, st[n - 1], l[n])
  IN  st[Len(l)]

\* Mutants: an empty replay is compared as well; only the length is.
replayPCREmpty(l, p) ==
  LET st == ReplayLoop(l, p)
  IN  [events |-> st.events, successful |-> st.ok /\ st.replay = p.digest]

replayPCRNoCompare(l, p) ==
  LET st == ReplayLoop(l, p)
  IN  [events |-> st.events, successful |-> st.ok /\ Len(st.replay) <= Len(p.digest)]

\* replayPCR: the events of the register, and whether they lead to its value.
replayPCR(l, p) ==
  LET st == ReplayLoop(l, p)
      ok == st.ok /\ (st.events = << >> \/ st.replay = p.digest)
  IN  [events |-> IF ok THEN st.events ELSE << >>, successful |-> ok]

\* replayEvents replays the log for every element of pcrs.
Replay ==
  /\ pc = "replay"
  /\ pc' = "collect"
  /\ replays' = [k \in DOMAIN pcrs |-> replayPCR(el, pcrs[k])]
  /\ todo' = Provided
  /\ UNCHANGED <<platformVars, inputVars, el, wkrd, verified, invalid, rErr, events>>

\* allPCRReplays[i]: the elements of pcrs for register i.
ReplaysOf(i) == {k \in DOMAIN pcrs : pcrs[k].index = i}

\* Mutant: the register is valid only if it replays in every bank given.
CollectEvery(i) ==
  /\ pc = "collect" /\ i \in todo
  /\ todo' = todo \ {i}
  /\ IF \A k \in ReplaysOf(i) : replays[k].successful
       THEN verified' = verified \o replays[Min(ReplaysOf(i))].events /\ invalid' = invalid
       ELSE invalid' = invalid \cup {i} /\ verified' = verified
  /\ UNCHANGED <<platformVars, inputVars, pc, el, wkrd, replays, rErr, events>>

\* An iteration of pcrLoop, over a map: the registers come in any order.  The
\* first successful replay of the register gives its events.
Collect(i) ==
  /\ pc = "collect" /\ i \in todo
  /\ todo' = todo \ {i}
  /\ LET good == {k \in ReplaysOf(i) : replays[k].successful}
     IN  IF good # {}
           THEN verified' = verified \o replays[Min(good)].events /\ invalid' = invalid
           ELSE invalid' = invalid \cup {i} /\ verified' = verified
  /\ UNCHANGED <<platformVars, inputVars, pc, el, wkrd, replays, rErr, events>>

\* Mutant: replayEvents returns the events in the order of the map.
SortBySequenceNot(evs) == {evs}

\* The outcomes of sort.Slice by the number of the event.
SortBySequence(evs) ==
  {s \in {[k \in DOMAIN evs |-> evs[f[k]]] : f \in Bijection(DOMAIN evs, DOMAIN evs)} :
     \A j, k \in DOMAIN evs : j < k => s[j].sequence <= s[k].sequence}

\* Mutant: the error of the last replay is returned.
CollectedLastError ==
  /\ pc = "collect" /\ todo = {}
  /\ pc' = IF invalid = {} THEN "done" ELSE "workaround"
  /\ events' \in IF invalid = {} THEN SortBySequence(verified) ELSE {<< >>}
  /\ rErr' = invalid
  /\ UNCHANGED <<platformVars, inputVars, el, wkrd, replayVars>>

\* replayEvents returns, and so does Verify if every register replayed.
\* Otherwise Verify keeps the error it got for the log as it is.
Collected ==
  /\ pc = "collect" /\ todo = {}
  /\ pc' = IF invalid = {} THEN "done" ELSE "workaround"
  /\ events' \in IF invalid = {} THEN SortBySequence(verified) ELSE {<< >>}
  /\ rErr' = IF invalid # {} /\ wkrd = 0 THEN invalid ELSE rErr
  /\ UNCHANGED <<platformVars, inputVars, el, wkrd, replayVars>>

\* inject: the event goes to the end of the log, numbered after the last one.
inject(l, d) ==
  Append(l, [sequence |-> l[Len(l)].sequence + 1, index |-> WorkaroundPCR, typ |-> "event",
             locality |-> NoLocality, digests |-> Digests(algs, d)])

\* The workaround injects its events one after the other.
apply(l, w) ==
  LET ds == Workarounds[w]
      injected[n \in 0 .. Len(ds)] == IF n = 0 THEN l ELSE inject(injected[n - 1], ds[n])
  IN  injected[Len(ds)]

\* Mutant: the first workaround is tried until it works.
WorkaroundAgain ==
  /\ pc = "workaround"
  /\ WorkaroundPCR \in rErr
  /\ wkrd < Len(Workarounds)
  /\ wkrd' = 1
  /\ StartReplay(apply(rawEvents, wkrd'))
  /\ UNCHANGED <<platformVars, inputVars, rErr, events>>

\* Verify tries the next workaround for a register that did not replay, on a
\* clone of the log.
Workaround ==
  /\ pc = "workaround"
  /\ WorkaroundPCR \in rErr
  /\ wkrd < Len(Workarounds)
  /\ wkrd' = wkrd + 1
  /\ StartReplay(apply(rawEvents, wkrd'))
  /\ UNCHANGED <<platformVars, inputVars, rErr, events>>

\* No workaround is left, or none is for a register that did not replay.
VerifyFails ==
  /\ pc = "workaround"
  /\ WorkaroundPCR \notin rErr \/ wkrd = Len(Workarounds)
  /\ pc' = "failed"
  /\ UNCHANGED <<platformVars, inputVars, el, wkrd, replayVars, rErr, events>>

-----------------------------------------------------------------------------
Platform ==
  \/ \E m \in Measurements, bad \in Bugs : Measure(m[1], m[2], bad)
  \/ \E d \in Digest : Forget(d)
  \/ \E i \in PCRIndex : Inform(i)
  \/ Tamper

VerifyCall ==
  \/ \E sel \in Selections : Verify(sel)
  \/ Replay
  \/ \E i \in PCRIndex : Collect(i)
  \/ Collected
  \/ Workaround
  \/ VerifyFails

Next == Platform \/ VerifyCall

\* Verify runs to its end once it is called.
Spec == Init /\ [][Next]_vars /\ WF_vars(VerifyCall)

-----------------------------------------------------------------------------
(***************************************************************************)
(* Properties.                                                             *)
(***************************************************************************)

\* The events Verify returns for a register are what one bank of the TPM was
\* extended with since startup, all of it and in that order, whatever was done
\* to the log and whatever workaround was applied: no event is removed, added,
\* moved or altered.
EventsOf(i) == {k \in DOMAIN events : events[k].index = i}

VerifiedAuthentic ==
  pc = "done" =>
    \A i \in PCRIndex :
      EventsOf(i) # {} =>
        \E b \in Bank :
          /\ Len(bank[b][i]) = Cardinality(EventsOf(i)) + 1
          /\ \A k \in EventsOf(i) :
               events[k].digest = bank[b][i][Cardinality({j \in EventsOf(i) : j <= k}) + 1]

\* Verify returns every measured event of the registers that were given to it,
\* of the log or of the log with one workaround, in the order of the log,
\* although replayEvents collects them register by register from a map.
Wanted == {k \in DOMAIN el : el[k].index \in Provided /\ el[k].typ # "noaction"}

InLogOrder ==
  pc = "done" =>
    /\ {<<events[k].sequence, events[k].index>> : k \in DOMAIN events}
         = {<<k, el[k].index>> : k \in Wanted}
    /\ \A j, k \in DOMAIN events : j < k => events[j].sequence < events[k].sequence
    /\ IsPrefix(rawEvents, el)
    /\ Len(el) = Len(rawEvents) + IF wkrd = 0 THEN 0 ELSE Len(Workarounds[wkrd])

\* A log that the platform wrote verifies if every register that is given has
\* a bank without the firmware bug that the log has digests for, not the same
\* one for all, and what the firmware forgot to log is what a workaround adds.
Intact(p) == p.alg \in ToSet(algs) /\ \A k \in DOMAIN p.digest : p.digest[k] # Broken

HonestLogVerifies ==
  /\ pc = "failed" /\ ~tampered
  /\ forgotten = << >> \/ forgotten \in ToSet(Workarounds)
  => \E i \in Provided : \A p \in ToSet(pcrs) : p.index = i => ~Intact(p)

\* inject reads the last event of the log, which is there: a log without
\* events never fails to replay.
InjectHasEvent ==
  pc = "workaround" /\ WorkaroundPCR \in rErr => rawEvents # << >>

\* Verify returns, after at most one replay for each workaround.
VerifyReturns ==
  pc = "replay" ~> pc \in {"done", "failed"}

\* The places of the measurements of register i, and the k-th element of a set.
Places(l, i) == {k \in DOMAIN l : l[k].index = i /\ l[k].typ # "noaction"}
Nth(S, k) == CHOOSE n \in S : Cardinality({j \in S : j <= n}) = k

\* The startup locality that the log declares: the last one before the first
\* measurement of the register.
DeclaredLocality(l) ==
  LET decl == {k \in DOMAIN l : /\ l[k].index = LocalityPCR
                                /\ l[k].locality # NoLocality
                                /\ \A m \in Places(l, LocalityPCR) : k < m}
  IN  IF decl = {} THEN 0 ELSE l[Max(decl)].locality

\* The log and the values as Verifier has them.
Chains(l) ==
  [i \in PCRIndex |->
     IF Places(l, i) = {} THEN << >>
     ELSE <<IF i = LocalityPCR THEN DeclaredLocality(l) ELSE 0>>
            \o [k \in 1 .. Cardinality(Places(l, i)) |-> l[Nth(Places(l, i), k)].digests[1].data]]

Banks == {p.alg : p \in ToSet(pcrs)}

\* There are banks, given with all their registers, and every event has a digest,
\* and the same one, for each of them: the case that Verifier speaks of.
Comparable ==
  /\ Banks # {}
  /\ \A b \in Banks, i \in PCRIndex : \E p \in ToSet(pcrs) : p.alg = b /\ p.index = i
  /\ Banks \subseteq ToSet(algs)
  /\ \A e \in ToSet(rawEvents) :
       e.typ # "noaction" =>
         \E d \in Digest : e.digests = Digests(algs, d)

\* The loops of Verify decide what the relation EventLogVerify says, which is
\* what Attestation uses; and its error names the registers that the log as it
\* is fails to replay for, not those of a workaround that was tried.
DecidesAsSpecified ==
  pc \in {"done", "failed"} /\ Comparable =>
    LET l == Chains(rawEvents)
        v == [b \in Banks |-> bank[b]]
    IN  /\ pc = "done" => EventLogVerify(l, v, Chains(el))
        /\ pc = "failed" => /\ rErr = InvalidPCRs(l, v)
                            /\ \A evs \in {Chains(apply(rawEvents, w)) :
                                             w \in DOMAIN Workarounds} :
                                 ~EventLogVerify(l, v, evs)
=============================================================================
