--------------------------- MODULE EventLogParse ---------------------------
(***************************************************************************)
(* ParseEventLog and AppendEvents (eventlog.go): the remote party parses   *)
(* the base log and the additional ones, writes their events after those   *)
(* of the base log, and parses what AppendEvents returned.                 *)
(*                                                                         *)
(* The bytes of a log are a sequence of cells.  Each field of the formats  *)
(* that has a fixed size is one cell, also the digest of the TPM 1.2       *)
(* format and the signature and version of a spec ID event; digests of the *)
(* crypto agile format and data have as many cells as their size says.     *)
(***************************************************************************)
EXTENDS Integers, SequencesExt

CONSTANT Inputs  (* what AppendEvents is called with: a base log and others *)

VARIABLES
  input,      \* the arguments, as they were written (see Cells)
  cur,        \* the log that is parsed, Len(input) + 1 for the combined one
  phase,      \* what comes next in its parsing
  r,          \* the buffer: what is left of the log
  specID,     \* the algorithms of its spec ID event, <<>> for a TPM 1.2 log
  parsed,     \* the events of its EventLog so far
  sequence,   \* the number of its next event
  event,      \* the event that is parsed
  logs,       \* the EventLogs that were returned
  out,        \* the buffer that AppendEvents returns
  result      \* "none", "ok" or "error"

parseVars == <<input, cur, phase, r, specID, parsed, sequence, event, logs, out, result>>

AlgSHA1 == 4
AlgSHA256 == 11

\* HashAlg has eight bits, the ID in a log sixteen.
cryptoHash(id) ==
  LET a == id % 256
  IN  IF a = AlgSHA1 THEN "SHA1" ELSE IF a = AlgSHA256 THEN "SHA256" ELSE "none"

eventTypeNoAction == 3
SpecIDSignature == 99  \* the signature and the version that parseSpecIDEvent wants

From(s, i) == SubSeq(s, i, Len(s))

(***************************************************************************)
(* What firmware writes.  A log has a spec ID event with algorithms `algs` *)
(* unless it is in the TPM 1.2 format (`algs` is empty), and of its cells  *)
(* the first `cut` are left.                                               *)
(***************************************************************************)
AlgCells(a) == <<a.ID, a.Size>>
SpecIDData(decl) ==
  <<SpecIDSignature, Len(decl)>> \o FlattenSeq([i \in DOMAIN decl |-> AlgCells(decl[i])]) \o <<0>>
SpecIDCells(decl) ==
  LET d == SpecIDData(decl) IN <<0, eventTypeNoAction, 0, Len(d)>> \o d

DigestCells(d) == <<d.ID>> \o d.data
EventCells(v, agile) ==
  (IF agile
     THEN <<v.index, v.typ, Len(v.digests)>>
          \o FlattenSeq([i \in DOMAIN v.digests |-> DigestCells(v.digests[i])])
     ELSE <<v.index, v.typ, v.digests[1].data[1]>>)
  \o <<Len(v.data)>> \o v.data

\* The cells of the first n events of a log.
CellsOf(w, n) ==
  (IF w.algs = << >> THEN << >> ELSE SpecIDCells(w.algs))
  \o FlattenSeq([i \in 1 .. n |-> EventCells(w.events[i], w.algs # << >>)])

Cells(w) == SubSeq(CellsOf(w, Len(w.events)), 1, w.cut)

\* An event of a log in the TPM 1.2 format has a SHA-1 digest, one of a crypto agile
\* log has digests of algorithms that the spec ID event declares, of their sizes.
WrittenAs(v, decl) ==
  IF decl = << >>
    THEN Len(v.digests) = 1 /\ v.digests[1].ID = AlgSHA1 /\ Len(v.digests[1].data) = 1
    ELSE \A i \in DOMAIN v.digests :
           \E j \in DOMAIN decl :
             decl[j] = [ID |-> v.digests[i].ID, Size |-> Len(v.digests[i].data)]

\* No digest is empty, and a log in the TPM 1.2 format does not start like one with a
\* spec ID event.
IsLog(w) ==
  /\ w \in [algs : Seq([ID : Nat, Size : Nat \ {0}]),
           events : Seq([index : Nat, typ : Nat, data : Seq(Nat),
                         digests : Seq([ID : Nat, data : Seq(Nat)])]),
           cut : Nat]
  /\ \A k \in DOMAIN w.events : WrittenAs(w.events[k], w.algs)
  /\ w.algs = << >> /\ w.events # << >> =>
       w.events[1].typ # eventTypeNoAction \/ Len(w.events[1].data) < 2
  /\ w.cut <= Len(CellsOf(w, Len(w.events)))

ASSUME InputsAssumption ==
  \A s \in Inputs :
    s # << >> /\ s \in Seq({s[i] : i \in DOMAIN s}) /\ \A i \in DOMAIN s : IsLog(s[i])

-----------------------------------------------------------------------------

NoEvent == [left |-> 0]

ParseInit ==
  /\ input \in Inputs
  /\ cur = 1 /\ phase = "first" /\ r = Cells(input[1])
  /\ specID = << >> /\ parsed = << >> /\ sequence = 1 /\ event = NoEvent
  /\ logs = << >> /\ out = << >> /\ result = "none"

Running(at) == result = "none" /\ phase = at

Fail ==
  /\ result' = "error"
  /\ UNCHANGED <<input, cur, phase, r, specID, parsed, sequence, event, logs, out>>

(***************************************************************************)
(* ParseEventLog.                                                          *)
(***************************************************************************)

\* parseRawEvent: an event in the TPM 1.2 format.
RawEventFits == Len(r) >= 4 /\ r[4] <= Len(r) - 4
RawEventOf(seq) ==
  [sequence |-> seq, index |-> r[1], typ |-> r[2], data |-> SubSeq(r, 5, 4 + r[4]),
   digests |-> <<[hash |-> "SHA1", data |-> <<r[3]>>]>>]

\* parseSpecIDEvent.
SpecIDParses(d) ==
  /\ d[1] = SpecIDSignature
  /\ LET end == 3 + 2 * d[2]
     IN  Len(d) >= end /\ Len(d) - end = d[end]
SpecAlgs(d) == [i \in 1 .. d[2] |-> [ID |-> d[1 + 2 * i], Size |-> d[2 + 2 * i]]]

FirstSequence == 1

\* The first event decides on the format.
ParseFirst ==
  /\ Running("first")
  /\ IF ~RawEventFits THEN Fail
     ELSE LET v    == RawEventOf(0)
              spec == v.typ = eventTypeNoAction /\ Len(v.data) >= 2
              decl == SpecAlgs(v.data)
          IN  IF spec /\ (~SpecIDParses(v.data)
                          \/ \A i \in DOMAIN decl : decl[i].ID \notin {AlgSHA1, AlgSHA256})
                THEN Fail
                ELSE /\ specID' = IF spec THEN decl ELSE << >>
                     /\ parsed' = IF spec THEN << >> ELSE <<v>>
                     /\ sequence' = FirstSequence
                     /\ r' = From(r, 5 + r[4])
                     /\ phase' = "loop"
                     /\ UNCHANGED <<input, cur, event, logs, out, result>>

AddEvent(v, rest) ==
  /\ parsed' = Append(parsed, v)
  /\ sequence' = sequence + 1
  /\ r' = rest
  /\ phase' = "loop"
  /\ event' = NoEvent
  /\ UNCHANGED <<input, cur, specID, logs, out, result>>

ParseRawEvent ==
  /\ Running("loop") /\ r # << >> /\ specID = << >>
  /\ IF RawEventFits THEN AddEvent(RawEventOf(sequence), From(r, 5 + r[4])) ELSE Fail

\* Mutant: an event is taken to have a digest of every algorithm of the log.
NumDigestsOfSpec == Len(specID)

NumDigests == r[3]

\* parseRawEvent2: the header, each digest, the data.
ParseHeader ==
  /\ Running("loop") /\ r # << >> /\ specID # << >>
  /\ IF Len(r) < 3 THEN Fail
     ELSE /\ event' = [index |-> r[1], typ |-> r[2], digests |-> << >>, left |-> NumDigests]
          /\ r' = From(r, 4)
          /\ phase' = "digests"
          /\ UNCHANGED <<input, cur, specID, parsed, sequence, logs, out, result>>

\* Every algorithm with the ID must fit, and the size of the last one counts.
ParseDigest ==
  /\ Running("digests") /\ event.left > 0
  /\ IF r = << >> THEN Fail
     ELSE LET of   == {i \in DOMAIN specID : specID[i].ID = r[1]}
              size == specID[CHOOSE i \in of : \A j \in of : j <= i].Size
          IN  IF of = {} \/ (\E i \in of : specID[i].Size > Len(r) - 1) \/ size = 0 THEN Fail
              ELSE /\ event' = [event EXCEPT
                        !.left = @ - 1,
                        !.digests = Append(@, [hash |-> cryptoHash(r[1]),
                                               data |-> SubSeq(r, 2, 1 + size)])]
                   /\ r' = From(r, 2 + size)
                   /\ UNCHANGED <<input, cur, phase, specID, parsed, sequence>>
                   /\ UNCHANGED <<logs, out, result>>

ParseData ==
  /\ Running("digests") /\ event.left = 0
  /\ IF r = << >> \/ r[1] > Len(r) - 1 THEN Fail
     ELSE AddEvent([sequence |-> sequence, index |-> event.index, typ |-> event.typ,
                    data |-> SubSeq(r, 2, 1 + r[1]), digests |-> event.digests],
                   From(r, 2 + r[1]))

-----------------------------------------------------------------------------
(***************************************************************************)
(* AppendEvents.                                                           *)
(***************************************************************************)

\* Mutant: the sizes of the digests are not compared.
AlgInBaseByID(alg) == \E i \in DOMAIN logs[1].specID : logs[1].specID[i].ID = alg.ID

AlgInBase(alg) == \E i \in DOMAIN logs[1].specID : logs[1].specID[i] = alg

\* Parse the next log, or the combined one.
Parse(c) ==
  /\ cur' = c
  /\ phase' = "first"
  /\ r' = IF c <= Len(input) THEN Cells(input[c]) ELSE out'
  /\ specID' = << >> /\ parsed' = << >> /\ sequence' = 1 /\ event' = NoEvent
  /\ UNCHANGED <<input, result>>

ParsedBase ==
  /\ Running("loop") /\ r = << >> /\ cur = 1
  /\ logs' = <<[specID |-> specID, rawEvents |-> parsed]>>
  /\ IF specID = << >>
       THEN /\ result' = "error"
            /\ UNCHANGED <<input, cur, phase, r, specID, parsed, sequence, event, out>>
       ELSE out' = Cells(input[1]) /\ Parse(2)

ParsedAdditional ==
  /\ Running("loop") /\ r = << >> /\ cur \in 2 .. Len(input)
  /\ logs' = Append(logs, [specID |-> specID, rawEvents |-> parsed])
  /\ IF specID = << >> \/ \E i \in DOMAIN specID : ~AlgInBase(specID[i])
       THEN /\ result' = "error"
            /\ UNCHANGED <<input, cur, phase, r, specID, parsed, sequence, event, out>>
       ELSE phase' = "append"
            /\ UNCHANGED <<input, cur, r, specID, parsed, sequence, event, out, result>>

algID(hash) == IF hash = "SHA256" THEN AlgSHA256 ELSE AlgSHA1

\* The events are written one after the other (parsed has the ones that are left).
AppendEvent ==
  /\ Running("append") /\ parsed # << >>
  /\ LET v == Head(parsed)
     IN  IF \E i \in DOMAIN v.digests : v.digests[i].hash = "none" THEN Fail
         ELSE /\ out' = out \o EventCells(
                          [v EXCEPT !.digests = [i \in DOMAIN v.digests |->
                             [ID |-> algID(v.digests[i].hash), data |-> v.digests[i].data]]],
                          TRUE)
              /\ parsed' = Tail(parsed)
              /\ UNCHANGED <<input, cur, phase, r, specID, sequence, event, logs, result>>

Appended ==
  /\ Running("append") /\ parsed = << >>
  /\ UNCHANGED <<logs, out>>
  /\ Parse(cur + 1)

\* The caller has parsed the combined log.
ParsedCombined ==
  /\ Running("loop") /\ r = << >> /\ cur = Len(input) + 1
  /\ logs' = Append(logs, [specID |-> specID, rawEvents |-> parsed])
  /\ result' = "ok"
  /\ UNCHANGED <<input, cur, phase, r, specID, parsed, sequence, event, out>>

ParseNext ==
  \/ ParseFirst \/ ParseRawEvent \/ ParseHeader \/ ParseDigest \/ ParseData
  \/ ParsedBase \/ ParsedAdditional \/ AppendEvent \/ Appended \/ ParsedCombined

ParseSpec == ParseInit /\ [][ParseNext]_parseVars

-----------------------------------------------------------------------------
\* The event that ParseEventLog returns for one that was written.
ReturnedEvent(v, seq) ==
  [sequence |-> seq, index |-> v.index, typ |-> v.typ, data |-> v.data,
   digests |-> [i \in DOMAIN v.digests |->
                  [hash |-> cryptoHash(v.digests[i].ID), data |-> v.digests[i].data]]]

\* How many events of a log are left of it, if it ends with an event.
Whole(w) == {n \in 0 .. Len(w.events) : Len(CellsOf(w, n)) = w.cut}

\* The spec ID event has each algorithm once and one that the library has.
ProperSpec(w) ==
  w.algs # << >> =>
    /\ \A i, j \in DOMAIN w.algs : w.algs[i].ID = w.algs[j].ID => i = j
    /\ \E i \in DOMAIN w.algs : w.algs[i].ID \in {AlgSHA1, AlgSHA256}

\* ParseEventLog returns the events that were written: all of those that are left,
\* in order, numbered from 1 after a spec ID event and from 0 without one, with
\* digests of any of the algorithms.  A log that was cut elsewhere than after an
\* event, and only such a log, is refused.
ParsesAsWritten ==
  \A i \in 1 .. Len(input) :
    LET w     == input[i]
        first == IF w.algs = << >> THEN 0 ELSE 1
    IN  ProperSpec(w) =>
          /\ i <= Len(logs) =>
               /\ \E n \in Whole(w) :
                    logs[i].rawEvents = [k \in 1 .. n |-> ReturnedEvent(w.events[k], k - 1 + first)]
               /\ logs[i].specID = w.algs
          /\ result = "error" /\ i = cur /\ i > Len(logs) =>
               Whole(w) = {} \/ w.cut = 0

\* The algorithms of a log are told apart by eight bits.
ShortIDs(w) == \A i \in DOMAIN w.algs : w.algs[i].ID < 256

\* AppendEvents combines logs into a single sequence of events: if it returns a
\* log, this parses, and to the events of the base log followed by those of each
\* additional log, with the digests they had and new numbers.  This needs the
\* comparison of the algorithms with their sizes.
AppendKeepsEvents ==
  (\A i \in DOMAIN input : ProperSpec(input[i]) /\ ShortIDs(input[i])) =>
    /\ cur = Len(input) + 1 => result # "error"
    /\ result = "ok" =>
         LET Events(i) == logs[i].rawEvents
             all == FlattenSeq([i \in 1 .. Len(input) |-> Events(i)])
         IN  Last(logs).rawEvents = [k \in DOMAIN all |-> [all[k] EXCEPT !.sequence = k]]
=============================================================================
