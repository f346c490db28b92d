------------------------- MODULE EventLogProofs -------------------------
(***************************************************************************)
(* Proofs about EventLogReplay, for any registers, banks, digests,         *)
(* workarounds and logs, and, from "What FlattenSeq computes" on, about    *)
(* EventLogParse, for any logs that AppendEvents is called with.           *)
(***************************************************************************)
EXTENDS EventLogReplay, EventLogParse, FiniteSetTheorems, SequenceTheorems,
        WellFoundedInduction, TLAPS

-----------------------------------------------------------------------------
(***************************************************************************)
(* Induction over the events of a log.                                     *)
(***************************************************************************)

\* Every set of naturals that is not empty has a least element.
LEMMA Least ==
  ASSUME NEW T, T \subseteq Nat, T # {}
  PROVE  \E n \in T : \A m \in T : n <= m
  <1> DEFINE R == OpToRel(<, Nat)
  <1>1. IsWellFoundedOn(R, Nat)
    BY NatLessThanWellFounded
  <1>2. \A x, y \in Nat : <<x, y>> \in R <=> x < y
    BY DEF OpToRel
  <1> HIDE DEF R
  <1>3. PICK x \in T : \A y \in T : ~(<<y, x>> \in R)
    BY <1>1, WFMin
  <1>4. \A y \in T : x \in Nat /\ y \in Nat /\ ~(y < x)
    BY <1>2, <1>3
  <1> QED
    BY <1>4

\* A set that has 0, and n + 1 whenever it has n, has every natural number.
LEMMA SetInduction ==
  ASSUME NEW S, 0 \in S, \A n \in Nat : n \in S => n + 1 \in S
  PROVE  Nat \subseteq S
  <1> DEFINE T == Nat \ S
  <1> SUFFICES ASSUME T # {} PROVE FALSE
    OBVIOUS
  <1>1. PICK n \in T : \A m \in T : n <= m
    BY Least
  <1>2. n # 0 /\ n \in Nat
    BY <1>1
  <1>3. n - 1 \in Nat /\ ~(n <= n - 1)
    BY <1>2
  <1>4. n - 1 \in S
    BY <1>1, <1>3
  <1> QED
    BY <1>3, <1>4, <1>1

\* What replayPCR has before the first event.
Start == [ok |-> TRUE, replay |-> << >>, locality |-> 0, events |-> << >>]

\* st is what the loop of replayPCR has after each of the first m events of l.
LoopTo(st, l, p, m) ==
  st = [n \in 0 .. m |-> IF n = 0 THEN Start ELSE ReplayEvent(p, st[n - 1], l[n])]

\* The loop of replayPCR can be run over any number of events.
LEMMA LoopExists ==
  ASSUME NEW l, NEW p, NEW m \in Nat
  PROVE  \E st : LoopTo(st, l, p, m)
  <1> DEFINE S == {n \in Nat : \E st : LoopTo(st, l, p, n)}
  <1>1. 0 \in S
    <2> DEFINE st == [n \in 0 .. 0 |-> Start]
    <2>1. LoopTo(st, l, p, 0)
      <3>1. \A n \in 0 .. 0 : n = 0
        OBVIOUS
      <3> QED
        BY <3>1 DEF LoopTo
    <2> QED
      BY <2>1
  <1>2. ASSUME NEW n \in Nat, n \in S PROVE n + 1 \in S
    <2>1. PICK st : LoopTo(st, l, p, n)
      BY <1>2
    <2> DEFINE nx == [k \in 0 .. n + 1 |->
                        IF k <= n THEN st[k] ELSE ReplayEvent(p, st[n], l[n + 1])]
               rh == [k \in 0 .. n + 1 |->
                        IF k = 0 THEN Start ELSE ReplayEvent(p, nx[k - 1], l[k])]
    <2>2. \A k \in 0 .. n : st[k] = IF k = 0 THEN Start ELSE ReplayEvent(p, st[k - 1], l[k])
      BY <2>1 DEF LoopTo
    <2>3. \A k \in 0 .. n + 1 : nx[k] = rh[k]
      <3> SUFFICES ASSUME NEW k \in 0 .. n + 1 PROVE nx[k] = rh[k]
        OBVIOUS
      <3>1. CASE k = n + 1
        <4>1. nx[k] = ReplayEvent(p, st[n], l[n + 1]) /\ nx[k - 1] = st[n] /\ k # 0
          BY <3>1
        <4> HIDE DEF nx
        <4> QED
          BY <3>1, <4>1
      <3>2. CASE k # n + 1
        <4>1. k \in 0 .. n /\ nx[k] = st[k] /\ (k # 0 => nx[k - 1] = st[k - 1])
          BY <3>2
        <4> HIDE DEF nx
        <4> QED
          BY <2>2, <4>1
      <3> QED
        BY <3>1, <3>2
    <2>4. nx = rh
      BY <2>3
    <2>5. LoopTo(nx, l, p, n + 1)
      BY <2>4 DEF LoopTo
    <2> QED
      BY <2>5
  <1> HIDE DEF S
  <1>3. Nat \subseteq S
    BY <1>1, <1>2, SetInduction
  <1> QED
    BY <1>3 DEF S

\* ReplayLoop is what the loop has after the last event.
LEMMA LoopResult ==
  ASSUME NEW l, Len(l) \in Nat, NEW p
  PROVE  \E st : LoopTo(st, l, p, Len(l)) /\ ReplayLoop(l, p) = st[Len(l)]
  <1> DEFINE st == CHOOSE g : LoopTo(g, l, p, Len(l))
  <1>1. LoopTo(st, l, p, Len(l))
    BY LoopExists
  <1>2. ReplayLoop(l, p) = st[Len(l)]
    BY DEF ReplayLoop, LoopTo, Start
  <1> QED
    BY <1>1, <1>2

\* Two runs of the loop agree on the events they have in common.
LEMMA LoopAgrees ==
  ASSUME NEW l, NEW m, NEW p, NEW a \in Nat, NEW b \in Nat, NEW s, NEW t,
         LoopTo(s, l, p, a), LoopTo(t, m, p, b), a <= b, \A n \in 1 .. a : l[n] = m[n]
  PROVE  s[a] = t[a]
  <1> DEFINE S == {n \in Nat : n <= a => s[n] = t[n]}
  <1>1. /\ \A n \in 0 .. a : s[n] = IF n = 0 THEN Start ELSE ReplayEvent(p, s[n - 1], l[n])
        /\ \A n \in 0 .. b : t[n] = IF n = 0 THEN Start ELSE ReplayEvent(p, t[n - 1], m[n])
    BY DEF LoopTo
  <1>2. 0 \in S
    BY <1>1
  <1>3. ASSUME NEW n \in Nat, n \in S PROVE n + 1 \in S
    <2> SUFFICES ASSUME n + 1 <= a PROVE s[n + 1] = t[n + 1]
      OBVIOUS
    <2>1. s[n] = t[n] /\ n + 1 \in 0 .. a /\ n + 1 \in 0 .. b /\ n + 1 # 0 /\ n + 1 \in 1 .. a
          /\ n + 1 - 1 = n
      BY <1>3
    <2>2. s[n + 1] = ReplayEvent(p, s[n], l[n + 1])
      BY <1>1, <2>1
    <2>3. t[n + 1] = ReplayEvent(p, t[n], m[n + 1])
      BY <1>1, <2>1
    <2> QED
      BY <2>1, <2>2, <2>3
  <1> HIDE DEF S
  <1>4. Nat \subseteq S
    BY <1>2, <1>3, SetInduction
  <1> QED
    BY <1>4 DEF S

\* Replaying nothing gives nothing.
LEMMA LoopEmpty ==
  ASSUME NEW p
  PROVE  ReplayLoop(<< >>, p) = Start
  <1>1. Len(<< >>) = 0
    OBVIOUS
  <1>2. PICK st : LoopTo(st, << >>, p, 0) /\ ReplayLoop(<< >>, p) = st[0]
    BY <1>1, LoopResult
  <1>3. st[0] = Start
    BY <1>2 DEF LoopTo
  <1> QED
    BY <1>2, <1>3

\* Replaying one more event is a step of the loop.
LEMMA LoopAppend ==
  ASSUME NEW E, NEW l \in Seq(E), NEW e, NEW p
  PROVE  ReplayLoop(Append(l, e), p) = ReplayEvent(p, ReplayLoop(l, p), e)
  <1> DEFINE m == Append(l, e)
             k == Len(l)
  <1>1. /\ k \in Nat /\ Len(m) = k + 1 /\ m[k + 1] = e
        /\ \A n \in 1 .. k : m[n] = l[n]
    <2>1. l \in Seq(E \cup {e}) /\ e \in E \cup {e}
      BY SeqMonotonic
    <2> QED
      BY <2>1, AppendProperties
  <1> HIDE DEF m, k
  <1>2. PICK s : LoopTo(s, l, p, k) /\ ReplayLoop(l, p) = s[k]
    BY <1>1, LoopResult DEF k
  <1>3. PICK t : LoopTo(t, m, p, k + 1) /\ ReplayLoop(m, p) = t[k + 1]
    BY <1>1, LoopResult
  <1>4. s[k] = t[k]
    BY <1>1, <1>2, <1>3, LoopAgrees
  <1>5. t[k + 1] = ReplayEvent(p, t[k], m[k + 1])
    BY <1>1, <1>3 DEF LoopTo
  <1> QED
    BY <1>1, <1>2, <1>3, <1>4, <1>5 DEF m

-----------------------------------------------------------------------------
(***************************************************************************)
(* What replayPCR returns.                                                 *)
(***************************************************************************)

Data  == Digest \cup Forged \cup {Broken, ShortDigest}
Value == Data \cup Int

LogEvent == [index : PCRIndex, typ : {"noaction", "event"}, locality : Int,
             digests : Seq([hash : Bank, data : Data])]
RawEvent == [sequence : Nat, index : PCRIndex, typ : {"noaction", "event"}, locality : Int,
             digests : Seq([hash : Bank, data : Data])]
PCR      == [index : PCRIndex, alg : Bank, digest : Seq(Value)]
Event    == [sequence : Nat, index : PCRIndex, digest : Data]
Loop     == [ok : BOOLEAN, replay : Seq(Value), locality : Int, events : Seq(Event)]

\* Events are numbered by their place in the log.
Numbered(l) == \A k \in DOMAIN l : l[k].sequence = k

\* The event is a measurement of register i.
Measures(e, i) == e.index = i /\ e.typ # "noaction"

Ascending(evs) == \A j, k \in DOMAIN evs : j < k => evs[j].sequence < evs[k].sequence

\* The loop has the measurements of the register among the first n events, in
\* their order, and has extended its value with their digests.
MeasuredSoFar(st, l, p, n) ==
  /\ Ascending(st.events)
  /\ \A j \in DOMAIN st.events :
       /\ st.events[j].index = p.index
       /\ st.events[j].sequence \in 1 .. n
       /\ Measures(l[st.events[j].sequence], p.index)
  /\ st.ok => \A k \in 1 .. n :
                Measures(l[k], p.index) => \E j \in DOMAIN st.events : st.events[j].sequence = k

ExtendedSoFar(st) ==
  /\ st.events = << >> => st.replay = << >>
  /\ st.events # << >> => /\ Len(st.replay) = Len(st.events) + 1
                          /\ \A j \in DOMAIN st.events : st.replay[j + 1] = st.events[j].digest

\* The least element of a set of naturals that is not empty.
LEMMA MinDoes ==
  ASSUME NEW T, T \subseteq Nat, T # {}
  PROVE  Min(T) \in T /\ \A n \in T : Min(T) <= n
  BY Least DEF Min

\* The digest that extend takes is one of the event's.
LEMMA DigestType ==
  ASSUME NEW e, e.digests \in Seq([hash : Bank, data : Data]), NEW p, Matching(p, e) # {}
  PROVE  /\ Min(Matching(p, e)) \in Matching(p, e)
         /\ DigestFor(p, e) \in Data
  <1>1. Matching(p, e) \subseteq Nat /\ Matching(p, e) \subseteq DOMAIN e.digests
    BY DEF Matching
  <1>2. Min(Matching(p, e)) \in Matching(p, e)
    BY <1>1, MinDoes
  <1>3. e.digests[Min(Matching(p, e))] \in [hash : Bank, data : Data]
    BY <1>1, <1>2, ElementOfSeq, LenProperties
  <1> QED
    BY <1>2, <1>3 DEF DigestFor

\* What the loop does with a measurement of the register that it can extend
\* with.
LEMMA ExtendDoes ==
  ASSUME NEW p \in PCR, NEW st \in Loop, NEW e \in RawEvent, st.ok,
         Measures(e, p.index), CanExtend(p, e)
  PROVE  LET nx == ReplayEvent(p, st, e)
             ev == [sequence |-> e.sequence, index |-> p.index, digest |-> DigestFor(p, e)]
         IN  /\ nx \in Loop /\ nx.ok /\ nx.locality = st.locality
             /\ nx.events = Append(st.events, ev) /\ ev \in Event
             /\ nx.replay = Append(IF st.replay # << >> THEN st.replay ELSE <<st.locality>>,
                                   DigestFor(p, e))
  <1> DEFINE d  == DigestFor(p, e)
             ev == [sequence |-> e.sequence, index |-> p.index, digest |-> d]
             rp  == IF st.replay # << >> THEN st.replay ELSE <<st.locality>>
  <1>1. d \in Data
    BY DigestType DEF CanExtend, RawEvent
  <1>2. ReplayEvent(p, st, e) = [st EXCEPT !.replay = Append(rp, d), !.events = Append(@, ev)]
    BY DEF ReplayEvent, extend, Measures, Loop
  <1> HIDE DEF d
  <1>3. ev \in Event
    BY <1>1 DEF Event, RawEvent, PCR
  <1>4. rp \in Seq(Value) /\ d \in Value
    <2>1. st.replay \in Seq(Value) /\ st.locality \in Value /\ d \in Value
      BY <1>1 DEF Loop, Value
    <2> QED
      BY <2>1
  <1> HIDE DEF rp, ev
  <1>5. Append(rp, d) \in Seq(Value) /\ Append(st.events, ev) \in Seq(Event)
    BY <1>3, <1>4, AppendProperties DEF Loop
  <1> QED
    BY <1>2, <1>3, <1>5 DEF Loop, d, rp, ev

\* What the loop does with every other event: it keeps the events and the
\* value, and stops at a measurement that it cannot extend with.
LEMMA SkipDoes ==
  ASSUME NEW p \in PCR, NEW st \in Loop, NEW e \in RawEvent,
         ~(st.ok /\ Measures(e, p.index) /\ CanExtend(p, e))
  PROVE  LET nx == ReplayEvent(p, st, e)
         IN  /\ nx \in Loop /\ nx.events = st.events /\ nx.replay = st.replay
             /\ nx.ok => st.ok /\ ~Measures(e, p.index)
  <1>1. CASE ~st.ok \/ e.index # p.index
    BY <1>1 DEF ReplayEvent, Measures
  <1>2. CASE st.ok /\ e.index = p.index /\ e.typ = "noaction"
    <2>1. ReplayEvent(p, st, e) = [st EXCEPT !.locality = e.locality] \/ ReplayEvent(p, st, e) = st
      BY <1>2 DEF ReplayEvent
    <2> QED
      BY <1>2, <2>1 DEF Loop, RawEvent, Measures
  <1>3. CASE st.ok /\ e.index = p.index /\ e.typ # "noaction"
    <2>1. ReplayEvent(p, st, e) = [st EXCEPT !.ok = FALSE]
      BY <1>3 DEF ReplayEvent, Measures
    <2> QED
      BY <1>3, <2>1 DEF Loop
  <1> QED
    BY <1>1, <1>2, <1>3

\* Places and elements of a sequence with one more element.
LEMMA AppendPlaces ==
  ASSUME NEW E, NEW s \in Seq(E), NEW x \in E
  PROVE  /\ Len(Append(s, x)) = Len(s) + 1 /\ Len(s) \in Nat
         /\ DOMAIN s = 1 .. Len(s)
         /\ DOMAIN Append(s, x) = 1 .. Len(s) + 1
         /\ Append(s, x)[Len(s) + 1] = x
         /\ \A k \in 1 .. Len(s) : Append(s, x)[k] = s[k]
  BY AppendProperties, LenProperties

\* An event of the log keeps what the loop has so far.
LEMMA LoopStep ==
  ASSUME NEW l \in Seq(RawEvent), Numbered(l), NEW p \in PCR, NEW st \in Loop,
         NEW n \in Nat, n + 1 \in DOMAIN l, MeasuredSoFar(st, l, p, n), ExtendedSoFar(st)
  PROVE  LET nx == ReplayEvent(p, st, l[n + 1])
         IN  nx \in Loop /\ MeasuredSoFar(nx, l, p, n + 1) /\ ExtendedSoFar(nx)
  <1> DEFINE e  == l[n + 1]
             nx == ReplayEvent(p, st, e)
  <1>1. e \in RawEvent /\ e.sequence = n + 1
    BY ElementOfSeq, LenProperties DEF Numbered
  <1>2. \A k \in 1 .. n + 1 : k = n + 1 \/ k \in 1 .. n
    OBVIOUS
  <1>3. CASE ~(st.ok /\ Measures(e, p.index) /\ CanExtend(p, e))
    <2>1. /\ nx \in Loop /\ nx.events = st.events /\ nx.replay = st.replay
          /\ nx.ok => st.ok /\ ~Measures(e, p.index)
      BY <1>1, <1>3, SkipDoes
    <2> HIDE DEF nx
    <2>2. MeasuredSoFar(nx, l, p, n + 1)
      <3>1. 1 .. n \subseteq 1 .. n + 1
        OBVIOUS
      <3> QED
        BY <1>2, <2>1, <3>1 DEF MeasuredSoFar
    <2>3. ExtendedSoFar(nx)
      BY <2>1 DEF ExtendedSoFar
    <2> QED
      BY <2>1, <2>2, <2>3 DEF nx
  <1>4. CASE st.ok /\ Measures(e, p.index) /\ CanExtend(p, e)
    <2> DEFINE ev == [sequence |-> e.sequence, index |-> p.index, digest |-> DigestFor(p, e)]
               rp  == IF st.replay # << >> THEN st.replay ELSE <<st.locality>>
    <2>1. /\ nx \in Loop /\ nx.ok /\ nx.events = Append(st.events, ev) /\ ev \in Event
          /\ nx.replay = Append(rp, DigestFor(p, e))
      BY <1>1, <1>4, ExtendDoes
    <2>2. ev.sequence = n + 1 /\ ev.index = p.index /\ ev.digest = DigestFor(p, e)
      BY <1>1
    <2>3. st.events \in Seq(Event) /\ st.replay \in Seq(Value) /\ st.locality \in Value
      BY DEF Loop, Value
    <2>4. rp \in Seq(Value) /\ DigestFor(p, e) \in Value /\ Len(rp) = Len(st.events) + 1
      <3>1. DigestFor(p, e) \in Value
        BY <2>1, <2>2 DEF Event, Value
      <3>2. CASE st.replay = << >>
        <4>1. rp = <<st.locality>>
          BY <3>2
        <4>2. st.events = << >>
          <5> SUFFICES ASSUME st.events # << >> PROVE FALSE
            OBVIOUS
          <5>1. Len(st.replay) = Len(st.events) + 1 /\ Len(st.replay) = 0 /\ Len(st.events) \in Nat
            BY <2>3, <3>2 DEF ExtendedSoFar
          <5> QED
            BY <5>1
        <4>3. Len(st.events) = 0 /\ Len(<<st.locality>>) = 1 /\ <<st.locality>> \in Seq(Value)
          BY <2>3, <4>2
        <4> HIDE DEF rp
        <4> QED
          BY <3>1, <4>1, <4>3
      <3>3. CASE st.replay # << >>
        BY <2>3, <3>1, <3>3 DEF ExtendedSoFar
      <3> QED
        BY <3>2, <3>3
    <2>5. \A j \in DOMAIN st.events : rp[j + 1] = st.events[j].digest
      <3>1. st.events # << >> => rp = st.replay
        BY <2>3 DEF ExtendedSoFar
      <3> HIDE DEF rp
      <3> QED
        BY <2>3, <3>1 DEF ExtendedSoFar
    <2> HIDE DEF ev, rp, nx, e
    <2>6. /\ Len(nx.events) = Len(st.events) + 1 /\ Len(st.events) \in Nat
          /\ DOMAIN st.events = 1 .. Len(st.events)
          /\ DOMAIN nx.events = 1 .. Len(st.events) + 1
          /\ nx.events[Len(st.events) + 1] = ev
          /\ \A k \in 1 .. Len(st.events) : nx.events[k] = st.events[k]
      BY <2>1, <2>3, AppendPlaces
    <2>7. /\ Len(nx.replay) = Len(st.events) + 2
          /\ nx.replay[Len(st.events) + 2] = DigestFor(p, e)
          /\ \A k \in 1 .. Len(st.events) + 1 : nx.replay[k] = rp[k]
      <3> DEFINE d == DigestFor(p, e)
      <3>1. /\ Len(Append(rp, d)) = Len(rp) + 1 /\ Append(rp, d)[Len(rp) + 1] = d
            /\ \A k \in 1 .. Len(rp) : Append(rp, d)[k] = rp[k]
        <4> HIDE DEF d
        <4> QED
          BY <2>4, AppendPlaces DEF d
      <3>2. Len(rp) + 1 = Len(st.events) + 2
        BY <2>4, <2>6
      <3> HIDE DEF d
      <3> QED
        BY <2>1, <2>4, <3>1, <3>2 DEF d
    <2> DEFINE m == Len(st.events)
    <2>8. m \in Nat /\ (\A j \in 1 .. m + 1 : j = m + 1 \/ j \in 1 .. m)
      BY <2>6
    <2>9. MeasuredSoFar(nx, l, p, n + 1)
      <3>1. Ascending(nx.events)
        <4> SUFFICES ASSUME NEW j \in 1 .. m + 1, NEW k \in 1 .. m + 1, j < k
                     PROVE  nx.events[j].sequence < nx.events[k].sequence
          BY <2>6 DEF Ascending
        <4>1. j \in 1 .. m /\ nx.events[j] = st.events[j] /\ st.events[j].sequence \in 1 .. n
          BY <2>6, <2>8 DEF MeasuredSoFar
        <4>2. CASE k = m + 1
          BY <2>2, <2>6, <4>1, <4>2
        <4>3. CASE k \in 1 .. m
          BY <2>6, <4>1, <4>3 DEF MeasuredSoFar, Ascending
        <4> QED
          BY <2>8, <4>2, <4>3
      <3>2. ASSUME NEW j \in DOMAIN nx.events
            PROVE  /\ nx.events[j].index = p.index
                   /\ nx.events[j].sequence \in 1 .. n + 1
                   /\ Measures(l[nx.events[j].sequence], p.index)
        <4>1. CASE j = m + 1
          <5>1. n + 1 \in 1 .. n + 1 /\ nx.events[j] = ev /\ Measures(l[n + 1], p.index)
            BY <1>4, <2>6, <4>1 DEF e
          <5> QED
            BY <2>2, <5>1
        <4>2. CASE j \in 1 .. m
          <5>1. /\ nx.events[j] = st.events[j] /\ st.events[j].sequence \in 1 .. n
                /\ st.events[j].index = p.index /\ Measures(l[st.events[j].sequence], p.index)
            BY <2>6, <4>2 DEF MeasuredSoFar
          <5>2. 1 .. n \subseteq 1 .. n + 1
            OBVIOUS
          <5> QED
            BY <5>1, <5>2
        <4> QED
          BY <2>6, <2>8, <3>2, <4>1, <4>2
      <3>3. ASSUME NEW k \in 1 .. n + 1, Measures(l[k], p.index)
            PROVE  \E j \in DOMAIN nx.events : nx.events[j].sequence = k
        <4>1. CASE k = n + 1
          <5>1. m + 1 \in DOMAIN nx.events /\ nx.events[m + 1].sequence = n + 1
            BY <2>2, <2>6
          <5> QED
            BY <4>1, <5>1, Zenon
        <4>2. CASE k \in 1 .. n
          <5>1. PICK j \in DOMAIN st.events : st.events[j].sequence = k
            BY <1>4, <3>3, <4>2 DEF MeasuredSoFar
          <5>2. j \in DOMAIN nx.events /\ nx.events[j] = st.events[j]
            BY <2>6, <5>1
          <5> QED
            BY <5>1, <5>2
        <4> QED
          BY <1>2, <4>1, <4>2
      <3> QED
        BY <3>1, <3>2, <3>3 DEF MeasuredSoFar
    <2>10. ExtendedSoFar(nx)
      <3>1. nx.events # << >>
        BY <2>1, <2>6, <2>3
      <3>2. ASSUME NEW j \in DOMAIN nx.events PROVE nx.replay[j + 1] = nx.events[j].digest
        <4>1. CASE j = m + 1
          <5>1. j + 1 = Len(st.events) + 2
            BY <2>8, <4>1
          <5> QED
            BY <2>2, <2>6, <2>7, <4>1, <5>1
        <4>2. CASE j \in 1 .. m
          <5>1. j + 1 \in 1 .. Len(st.events) + 1
            BY <2>8, <4>2
          <5> QED
            BY <2>5, <2>6, <2>7, <4>2, <5>1
        <4> QED
          BY <2>6, <2>8, <3>2, <4>1, <4>2
      <3>3. Len(nx.replay) = Len(nx.events) + 1
        BY <2>6, <2>7
      <3> QED
        BY <3>1, <3>2, <3>3 DEF ExtendedSoFar
    <2> QED
      BY <2>1, <2>9, <2>10 DEF nx, e
  <1> QED
    BY <1>3, <1>4

\* What the loop of replayPCR has at its end.
LEMMA LoopDoes ==
  ASSUME NEW l \in Seq(RawEvent), Numbered(l), NEW p \in PCR
  PROVE  LET st == ReplayLoop(l, p)
         IN  st \in Loop /\ MeasuredSoFar(st, l, p, Len(l)) /\ ExtendedSoFar(st)
  <1>1. Len(l) \in Nat /\ DOMAIN l = 1 .. Len(l)
    BY LenProperties
  <1>2. PICK st : LoopTo(st, l, p, Len(l)) /\ ReplayLoop(l, p) = st[Len(l)]
    BY <1>1, LoopResult
  <1> DEFINE Fine(n) == st[n] \in Loop /\ MeasuredSoFar(st[n], l, p, n) /\ ExtendedSoFar(st[n])
             S == {n \in Nat : n <= Len(l) => Fine(n)}
  <1>3. \A n \in 0 .. Len(l) :
          st[n] = IF n = 0 THEN Start ELSE ReplayEvent(p, st[n - 1], l[n])
    BY <1>2 DEF LoopTo
  <1>4. 0 \in S
    <2>1. st[0] = Start
      BY <1>1, <1>3
    <2>2. Start \in Loop /\ Start.events = << >> /\ Start.replay = << >>
      <3>1. << >> \in Seq(Value) /\ << >> \in Seq(Event)
        OBVIOUS
      <3> QED
        BY <3>1 DEF Start, Loop
    <2>3. DOMAIN Start.events = {} /\ 1 .. 0 = {}
      BY <2>2
    <2> QED
      BY <2>1, <2>2, <2>3 DEF MeasuredSoFar, ExtendedSoFar, Ascending
  <1>5. ASSUME NEW n \in Nat, n \in S PROVE n + 1 \in S
    <2> SUFFICES ASSUME n + 1 <= Len(l) PROVE Fine(n + 1)
      OBVIOUS
    <2>1. Fine(n) /\ n + 1 \in DOMAIN l /\ n + 1 \in 0 .. Len(l) /\ n + 1 # 0 /\ n + 1 - 1 = n
      BY <1>1, <1>5
    <2>2. st[n + 1] = ReplayEvent(p, st[n], l[n + 1])
      BY <1>3, <2>1
    <2> QED
      BY <2>1, <2>2, LoopStep
  <1> HIDE DEF S
  <1>6. Nat \subseteq S
    BY <1>4, <1>5, SetInduction
  <1>7. Fine(Len(l))
    BY <1>1, <1>6 DEF S
  <1> QED
    BY <1>2, <1>7

\* evs are the measurements of the register, all of them and in their order, and
\* what they are extended to is the register's value.
Replayed(evs, l, p) ==
  /\ evs \in Seq(Event)
  /\ Ascending(evs)
  /\ \A j \in DOMAIN evs : evs[j].index = p.index
  /\ {evs[j].sequence : j \in DOMAIN evs} = {k \in DOMAIN l : Measures(l[k], p.index)}
  /\ evs # << >> => /\ Len(p.digest) = Len(evs) + 1
                    /\ \A j \in DOMAIN evs : p.digest[j + 1] = evs[j].digest

\* That is what a successful replay returns.
LEMMA ReplayDoes ==
  ASSUME NEW l \in Seq(RawEvent), Numbered(l), NEW p \in PCR, replayPCR(l, p).successful
  PROVE  Replayed(replayPCR(l, p).events, l, p)
  <1> DEFINE st == ReplayLoop(l, p)
  <1>1. st \in Loop /\ MeasuredSoFar(st, l, p, Len(l)) /\ ExtendedSoFar(st)
    BY LoopDoes
  <1>2. DOMAIN l = 1 .. Len(l) /\ st.events \in Seq(Event)
    BY <1>1, LenProperties DEF Loop
  <1>3. st.ok /\ (st.events = << >> \/ st.replay = p.digest) /\ replayPCR(l, p).events = st.events
    BY DEF replayPCR
  <1> HIDE DEF st
  <1>4. {st.events[j].sequence : j \in DOMAIN st.events} = {k \in DOMAIN l : Measures(l[k], p.index)}
    BY <1>1, <1>2, <1>3 DEF MeasuredSoFar
  <1> QED
    BY <1>1, <1>2, <1>3, <1>4 DEF Replayed, MeasuredSoFar, ExtendedSoFar

\* A log without events replays.
LEMMA EmptyReplays ==
  ASSUME NEW p
  PROVE  replayPCR(<< >>, p).successful
  <1>1. ReplayLoop(<< >>, p).ok /\ ReplayLoop(<< >>, p).events = << >>
    BY LoopEmpty DEF Start
  <1> QED
    BY <1>1 DEF replayPCR

-----------------------------------------------------------------------------
(***************************************************************************)
(* What a workaround does to the log.                                      *)
(***************************************************************************)

\* g is the log after each of the first m events of a workaround.
InjectTo(g, l, ds, m) ==
  g = [n \in 0 .. m |-> IF n = 0 THEN l ELSE inject(g[n - 1], ds[n])]

\* Any number of events can be injected.
LEMMA InjectExists ==
  ASSUME NEW l, NEW ds, NEW m \in Nat
  PROVE  \E g : InjectTo(g, l, ds, m)
  <1> DEFINE S == {n \in Nat : \E g : InjectTo(g, l, ds, n)}
  <1>1. 0 \in S
    <2> DEFINE g == [n \in 0 .. 0 |-> l]
    <2>1. InjectTo(g, l, ds, 0)
      <3>1. \A n \in 0 .. 0 : n = 0
        OBVIOUS
      <3> QED
        BY <3>1 DEF InjectTo
    <2> QED
      BY <2>1
  <1>2. ASSUME NEW n \in Nat, n \in S PROVE n + 1 \in S
    <2>1. PICK g : InjectTo(g, l, ds, n)
      BY <1>2
    <2> DEFINE nx == [k \in 0 .. n + 1 |-> IF k <= n THEN g[k] ELSE inject(g[n], ds[n + 1])]
               rh == [k \in 0 .. n + 1 |-> IF k = 0 THEN l ELSE inject(nx[k - 1], ds[k])]
    <2>2. \A k \in 0 .. n : g[k] = IF k = 0 THEN l ELSE inject(g[k - 1], ds[k])
      BY <2>1 DEF InjectTo
    <2>3. \A k \in 0 .. n + 1 : nx[k] = rh[k]
      <3> SUFFICES ASSUME NEW k \in 0 .. n + 1 PROVE nx[k] = rh[k]
        OBVIOUS
      <3>1. CASE k = n + 1
        <4>1. nx[k] = inject(g[n], ds[n + 1]) /\ nx[k - 1] = g[n] /\ k # 0
          BY <3>1
        <4> HIDE DEF nx
        <4> QED
          BY <3>1, <4>1
      <3>2. CASE k # n + 1
        <4>1. k \in 0 .. n /\ nx[k] = g[k] /\ (k # 0 => nx[k - 1] = g[k - 1])
          BY <3>2
        <4> HIDE DEF nx
        <4> QED
          BY <2>2, <4>1
      <3> QED
        BY <3>1, <3>2
    <2>4. nx = rh
      BY <2>3
    <2>5. InjectTo(nx, l, ds, n + 1)
      BY <2>4 DEF InjectTo
    <2> QED
      BY <2>5
  <1> HIDE DEF S
  <1>3. Nat \subseteq S
    BY <1>1, <1>2, SetInduction
  <1> QED
    BY <1>3 DEF S

\* The event that inject adds to a log of n events, with digest d.
Injected(n, d) == [sequence |-> n + 1, index |-> WorkaroundPCR, typ |-> "event",
                   locality |-> NoLocality, digests |-> Digests(algs, d)]

\* l is a parsed log with events.
Parsed(l) == l \in Seq(RawEvent) /\ Numbered(l) /\ l # << >>

\* The digests of an event that has d for every algorithm of as.
LEMMA DigestsType ==
  ASSUME NEW as \in Seq(Bank), NEW d \in Data
  PROVE  /\ Digests(as, d) \in Seq([hash : Bank, data : Data])
         /\ DOMAIN Digests(as, d) = DOMAIN as
         /\ \A k \in DOMAIN as : Digests(as, d)[k].hash = as[k] /\ Digests(as, d)[k].data = d
  <1> DEFINE D == [hash : Bank, data : Data]
             f == [k \in 1 .. Len(as) |-> [hash |-> as[k], data |-> d]]
  <1>1. Len(as) \in Nat /\ DOMAIN as = 1 .. Len(as) /\ \A k \in 1 .. Len(as) : as[k] \in Bank
    BY LenProperties, ElementOfSeq
  <1>2. Digests(as, d) = f
    BY <1>1 DEF Digests
  <1>3. f \in [1 .. Len(as) -> D]
    BY <1>1
  <1>4. DOMAIN f = DOMAIN as /\ \A k \in DOMAIN as : f[k].hash = as[k] /\ f[k].data = d
    BY <1>1
  <1> HIDE DEF f, D
  <1>5. f \in Seq(D)
    BY <1>1, <1>3, SeqDef
  <1> QED
    BY <1>2, <1>4, <1>5 DEF D

\* extend finds d among them.
LEMMA DigestsDo ==
  ASSUME algs \in Seq(Bank), NEW d \in Data
  PROVE  /\ Digests(algs, d) \in Seq([hash : Bank, data : Data])
         /\ \A p, e : e.digests = Digests(algs, d) /\ p.alg \in ToSet(algs) =>
              Matching(p, e) # {} /\ DigestFor(p, e) = d
  <1> DEFINE f == Digests(algs, d)
  <1>1. /\ f \in Seq([hash : Bank, data : Data]) /\ DOMAIN f = DOMAIN algs
        /\ \A k \in DOMAIN algs : f[k].hash = algs[k] /\ f[k].data = d
    BY DigestsType
  <1> HIDE DEF f
  <1>2. ASSUME NEW p, NEW e, e.digests = f, p.alg \in ToSet(algs)
        PROVE  Matching(p, e) # {} /\ DigestFor(p, e) = d
    <2>1. PICK k \in DOMAIN algs : algs[k] = p.alg
      BY <1>2 DEF ToSet
    <2>2. k \in Matching(p, e)
      BY <1>1, <1>2, <2>1 DEF Matching
    <2>3. Min(Matching(p, e)) \in Matching(p, e)
      BY <1>1, <1>2, <2>2, DigestType
    <2>4. Min(Matching(p, e)) \in DOMAIN algs
      BY <1>1, <1>2, <2>3 DEF Matching
    <2> QED
      BY <1>1, <1>2, <2>2, <2>4 DEF DigestFor
  <1> QED
    BY <1>1, <1>2 DEF f

\* An injected event continues a parsed log.
LEMMA InjectDoes ==
  ASSUME algs \in Seq(Bank), NEW d \in Digest, NEW l, Parsed(l)
  PROVE  /\ inject(l, d) = Append(l, Injected(Len(l), d))
         /\ Injected(Len(l), d) \in RawEvent
         /\ Parsed(inject(l, d))
  <1>1. Len(l) \in Nat /\ Len(l) # 0 /\ DOMAIN l = 1 .. Len(l)
    BY LenProperties, EmptySeq DEF Parsed
  <1>2. l[Len(l)].sequence = Len(l)
    BY <1>1 DEF Parsed, Numbered
  <1>3. inject(l, d) = Append(l, Injected(Len(l), d))
    BY <1>2 DEF inject, Injected
  <1>4. Injected(Len(l), d) \in RawEvent
    <2>0. d \in Data
      BY DEF Data
    <2>1. Digests(algs, d) \in Seq([hash : Bank, data : Data])
      BY <2>0, DigestsDo
    <2>2. NoLocality \in Int /\ WorkaroundPCR \in PCRIndex
      BY LogAssumption DEF NoLocality
    <2> QED
      BY <1>1, <2>1, <2>2 DEF Injected, RawEvent
  <1>5. Parsed(inject(l, d))
    <2> DEFINE x == Injected(Len(l), d)
               m == Append(l, x)
    <2>1. x.sequence = Len(l) + 1
      BY DEF Injected
    <2> HIDE DEF x
    <2>2. /\ m \in Seq(RawEvent) /\ DOMAIN m = 1 .. Len(l) + 1 /\ m[Len(l) + 1] = x
          /\ \A k \in 1 .. Len(l) : m[k] = l[k]
      BY <1>4, AppendPlaces, AppendProperties DEF Parsed, x
    <2> HIDE DEF m
    <2>3. Numbered(m)
      <3> SUFFICES ASSUME NEW k \in 1 .. Len(l) + 1 PROVE m[k].sequence = k
        BY <2>2 DEF Numbered
      <3>1. CASE k = Len(l) + 1
        BY <2>1, <2>2, <3>1
      <3>2. CASE k \in 1 .. Len(l)
        BY <1>1, <2>2, <3>2 DEF Parsed, Numbered
      <3> QED
        BY <1>1, <3>1, <3>2
    <2>4. m # << >>
      BY <1>1, <2>2
    <2> QED
      BY <1>3, <2>2, <2>3, <2>4 DEF Parsed, m, x
  <1> QED
    BY <1>3, <1>4, <1>5

\* The value that the loop has extended the register to.
Held(st) == IF st.replay # << >> THEN st.replay ELSE <<st.locality>>

\* A sequence with one more element is not empty.
LEMMA AppendNotEmpty ==
  ASSUME NEW E, NEW s \in Seq(E), NEW x \in E
  PROVE  Append(s, x) # << >>
  BY AppendProperties

\* The value is a sequence.
LEMMA HeldType ==
  ASSUME NEW st \in Loop
  PROVE  Held(st) \in Seq(Value)
  <1>1. st.replay \in Seq(Value) /\ st.locality \in Value
    BY DEF Loop, Value
  <1>2. <<st.locality>> \in Seq(Value)
    BY <1>1
  <1> QED
    BY <1>1, <1>2 DEF Held

\* A measurement with digest d for every algorithm of the log extends the
\* register it is for, and no other.
LEMMA MeasurementReplay ==
  ASSUME algs \in Seq(Bank), NEW d \in Digest, NEW p \in PCR, NEW st \in Loop,
         NEW e \in RawEvent, e.typ = "event", e.digests = Digests(algs, d)
  PROVE  LET nx == ReplayEvent(p, st, e)
         IN  /\ p.index # e.index => nx = st
             /\ p.index = e.index /\ p.alg \in ToSet(algs) /\ st.ok =>
                  nx \in Loop /\ nx.ok /\ Held(nx) = Append(Held(st), d)
  <1> DEFINE nx == ReplayEvent(p, st, e)
  <1>1. e.typ # "noaction" /\ e.digests = Digests(algs, d)
    OBVIOUS
  <1>2. p.index # e.index => nx = st
    BY <1>1 DEF ReplayEvent
  <1>3. ASSUME p.index = e.index, p.alg \in ToSet(algs), st.ok
        PROVE  nx \in Loop /\ nx.ok /\ Held(nx) = Append(Held(st), d)
    <2>0. d \in Data /\ d # ShortDigest
      BY LogAssumption DEF Data
    <2>1. Matching(p, e) # {} /\ DigestFor(p, e) = d
      BY <1>1, <1>3, <2>0, DigestsDo
    <2>2. CanExtend(p, e) /\ Measures(e, p.index)
      BY <1>1, <1>3, <2>0, <2>1 DEF CanExtend, Measures
    <2>3. nx \in Loop /\ nx.ok /\ nx.replay = Append(Held(st), DigestFor(p, e))
      BY <1>3, <2>2, ExtendDoes DEF Held
    <2>4. Held(st) \in Seq(Value) /\ d \in Value
      <3>1. d \in Value
        BY <2>0 DEF Value
      <3> QED
        BY <3>1, HeldType
    <2>5. Append(Held(st), d) # << >>
      BY <2>4, AppendNotEmpty
    <2> HIDE DEF nx
    <2> QED
      BY <2>1, <2>3, <2>5 DEF Held
  <1> QED
    BY <1>2, <1>3

\* A sequence, a prefix of another and its next element.
LEMMA ConcatNext ==
  ASSUME NEW E, NEW s \in Seq(E), NEW t \in Seq(E), NEW n \in Nat, n + 1 <= Len(t)
  PROVE  Append(s \o SubSeq(t, 1, n), t[n + 1]) = s \o SubSeq(t, 1, n + 1)
  OBVIOUS

\* m is the parsed log l with the digests ds injected: the replay of the register
\* they are for goes on with them, and every other replay is as before.
Continues(m, l, ds) ==
  /\ Parsed(m)
  /\ Len(m) = Len(l) + Len(ds)
  /\ \A k \in 1 .. Len(l) : m[k] = l[k]
  /\ \A k \in Len(l) + 1 .. Len(m) : \E d \in Digest : m[k].digests = Digests(algs, d)
  /\ \A p \in PCR : p.index # WorkaroundPCR => ReplayLoop(m, p) = ReplayLoop(l, p)
  /\ \A p \in PCR :
       p.index = WorkaroundPCR /\ p.alg \in ToSet(algs) /\ ReplayLoop(l, p).ok =>
         /\ ReplayLoop(m, p).ok
         /\ Held(ReplayLoop(m, p)) = Held(ReplayLoop(l, p)) \o ds

\* inject continues a log by one digest.
LEMMA InjectContinues ==
  ASSUME algs \in Seq(Bank), NEW l, Parsed(l), NEW ds \in Seq(Digest), NEW n \in Nat,
         n + 1 <= Len(ds), NEW m, Continues(m, l, SubSeq(ds, 1, n))
  PROVE  Continues(inject(m, ds[n + 1]), l, SubSeq(ds, 1, n + 1))
  <1> DEFINE d == ds[n + 1]
             x == Injected(Len(m), d)
             o == inject(m, d)
  <1>0. d \in Digest /\ ds \in Seq(Value) /\ Len(ds) \in Nat
    <2>1. Digest \subseteq Value
      BY DEF Value, Data
    <2>2. n + 1 \in 1 .. Len(ds) /\ Len(ds) \in Nat
      BY LenProperties
    <2> QED
      BY <2>1, <2>2, ElementOfSeq, SeqMonotonic
  <1>1. Parsed(m) /\ Len(m) = Len(l) + n /\ \A k \in 1 .. Len(l) : m[k] = l[k]
    <2>1. Len(SubSeq(ds, 1, n)) = n
      BY <1>0
    <2> QED
      BY <2>1 DEF Continues
  <1>2. o = Append(m, x) /\ x \in RawEvent /\ Parsed(o)
    BY <1>0, <1>1, InjectDoes
  <1>3. x.index = WorkaroundPCR /\ x.typ = "event" /\ x.digests = Digests(algs, d)
    BY DEF Injected
  <1>4. m \in Seq(RawEvent) /\ Numbered(m) /\ l \in Seq(RawEvent) /\ Numbered(l)
        /\ Len(l) \in Nat /\ Len(m) \in Nat
    BY <1>1, LenProperties DEF Parsed
  <1>5. ASSUME NEW p \in PCR PROVE ReplayLoop(o, p) = ReplayEvent(p, ReplayLoop(m, p), x)
    BY <1>2, <1>4, LoopAppend
  <1>6. \A p \in PCR : ReplayLoop(m, p) \in Loop /\ ReplayLoop(l, p) \in Loop
    BY <1>4, LoopDoes
  <1> HIDE DEF o, x
  <1>7. Len(o) = Len(l) + Len(SubSeq(ds, 1, n + 1))
    <2>1. Len(SubSeq(ds, 1, n + 1)) = n + 1
      BY <1>0
    <2>2. Len(o) = Len(m) + 1
      BY <1>2, <1>4, AppendPlaces
    <2> QED
      BY <1>1, <1>4, <2>1, <2>2
  <1>8. \A k \in 1 .. Len(l) : o[k] = l[k]
    <2>1. \A k \in 1 .. Len(m) : o[k] = m[k]
      BY <1>2, <1>4, AppendPlaces
    <2>2. 1 .. Len(l) \subseteq 1 .. Len(m)
      BY <1>1, <1>4
    <2> QED
      BY <1>1, <2>1, <2>2
  <1>9. ASSUME NEW p \in PCR, p.index # WorkaroundPCR PROVE ReplayLoop(o, p) = ReplayLoop(l, p)
    <2>1. ReplayEvent(p, ReplayLoop(m, p), x) = ReplayLoop(m, p)
      BY <1>0, <1>2, <1>6, <1>9, <1>3, MeasurementReplay
    <2> QED
      BY <1>5, <1>9, <2>1 DEF Continues
  <1>10. ASSUME NEW p \in PCR, p.index = WorkaroundPCR, p.alg \in ToSet(algs), ReplayLoop(l, p).ok
        PROVE  /\ ReplayLoop(o, p).ok
               /\ Held(ReplayLoop(o, p)) = Held(ReplayLoop(l, p)) \o SubSeq(ds, 1, n + 1)
    <2>1. /\ ReplayLoop(m, p).ok
          /\ Held(ReplayLoop(m, p)) = Held(ReplayLoop(l, p)) \o SubSeq(ds, 1, n)
      BY <1>10 DEF Continues
    <2>2. LET nx == ReplayEvent(p, ReplayLoop(m, p), x)
          IN  nx.ok /\ Held(nx) = Append(Held(ReplayLoop(m, p)), d)
      <3> HIDE DEF d
      <3> DEFINE st == ReplayLoop(m, p)
      <3>1. st \in Loop /\ st.ok /\ p.index = x.index
        BY <1>6, <1>10, <1>3, <2>1
      <3> HIDE DEF st
      <3> QED
        BY <1>0, <1>2, <1>10, <1>3, <3>1, MeasurementReplay DEF st
    <2>3. Held(ReplayLoop(l, p)) \in Seq(Value)
      BY <1>6, HeldType
    <2>4. Append(Held(ReplayLoop(l, p)) \o SubSeq(ds, 1, n), d)
            = Held(ReplayLoop(l, p)) \o SubSeq(ds, 1, n + 1)
      BY <1>0, <2>3, ConcatNext
    <2> QED
      BY <1>5, <2>1, <2>2, <2>4
  <1>11. ASSUME NEW k \in Len(l) + 1 .. Len(o)
         PROVE  \E c \in Digest : o[k].digests = Digests(algs, c)
    <2>1. /\ Len(o) = Len(m) + 1 /\ o[Len(m) + 1] = x
          /\ \A j \in 1 .. Len(m) : o[j] = m[j]
      BY <1>2, <1>4, AppendPlaces
    <2>2. CASE k = Len(m) + 1
      BY <1>0, <1>3, <2>1, <2>2
    <2>3. CASE k # Len(m) + 1
      <3>1. k \in Len(l) + 1 .. Len(m) /\ k \in 1 .. Len(m)
        BY <1>4, <2>1, <2>3
      <3> QED
        BY <2>1, <3>1 DEF Continues
    <2> QED
      BY <2>2, <2>3
  <1> QED
    BY <1>2, <1>7, <1>8, <1>9, <1>10, <1>11 DEF Continues, o

\* apply injects the digests of the workaround.
LEMMA ApplyContinues ==
  ASSUME algs \in Seq(Bank), NEW l, Parsed(l), NEW w \in DOMAIN Workarounds
  PROVE  Continues(apply(l, w), l, Workarounds[w])
  <1> DEFINE ds == Workarounds[w]
             g  == CHOOSE h : InjectTo(h, l, ds, Len(ds))
             S  == {n \in Nat : n <= Len(ds) => Continues(g[n], l, SubSeq(ds, 1, n))}
  <1>1. ds \in Seq(Digest) /\ Len(ds) \in Nat
    BY LogAssumption, ElementOfSeq, LenProperties
  <1>2. InjectTo(g, l, ds, Len(ds))
    BY <1>1, InjectExists
  <1>3. apply(l, w) = g[Len(ds)]
    BY DEF apply, InjectTo
  <1>4. \A n \in 0 .. Len(ds) : g[n] = IF n = 0 THEN l ELSE inject(g[n - 1], ds[n])
    BY <1>2 DEF InjectTo
  <1> HIDE DEF g, ds
  <1>5. Continues(l, l, << >>)
    <2>1. l \in Seq(RawEvent) /\ Numbered(l) /\ Len(l) \in Nat /\ Len(<< >>) = 0
      BY LenProperties DEF Parsed
    <2>2. \A p \in PCR : Held(ReplayLoop(l, p)) \o << >> = Held(ReplayLoop(l, p))
      BY <2>1, LoopDoes, HeldType, ConcatEmptySeq
    <2>3. Len(l) + 1 .. Len(l) = {}
      BY <2>1
    <2> QED
      BY <2>1, <2>2, <2>3 DEF Continues
  <1>6. 0 \in S
    <2>1. SubSeq(ds, 1, 0) = << >> /\ g[0] = l
      BY <1>1, <1>4
    <2> QED
      BY <1>5, <2>1
  <1>7. ASSUME NEW n \in Nat, n \in S PROVE n + 1 \in S
    <2> SUFFICES ASSUME n + 1 <= Len(ds) PROVE Continues(g[n + 1], l, SubSeq(ds, 1, n + 1))
      OBVIOUS
    <2>1. /\ Continues(g[n], l, SubSeq(ds, 1, n)) /\ n + 1 \in 0 .. Len(ds) /\ n + 1 # 0
          /\ n + 1 - 1 = n
      BY <1>1, <1>7
    <2>2. g[n + 1] = inject(g[n], ds[n + 1])
      BY <1>4, <2>1
    <2> QED
      BY <1>1, <2>1, <2>2, InjectContinues
  <1> HIDE DEF S
  <1>8. Nat \subseteq S
    BY <1>6, <1>7, SetInduction
  <1>9. Continues(g[Len(ds)], l, SubSeq(ds, 1, Len(ds)))
    BY <1>1, <1>8 DEF S
  <1>10. SubSeq(ds, 1, Len(ds)) = ds
    BY <1>1
  <1> QED
    BY <1>3, <1>9, <1>10 DEF ds

-----------------------------------------------------------------------------
(***************************************************************************)
(* The events of a register among all the events of a call.                *)
(***************************************************************************)

\* The events of register i among evs, and their places.
PlacesOf(evs, i) == {k \in DOMAIN evs : evs[k].index = i}
OfPCR(evs, i) == {evs[k] : k \in PlacesOf(evs, i)}

\* f takes 1 .. m to the places P in their order.
Enumerates(f, m, P) ==
  /\ f \in [1 .. m -> P]
  /\ \A a, b \in 1 .. m : a < b => f[a] < f[b]
  /\ \A k \in P : \E a \in 1 .. m : f[a] = k

\* Then the a-th place has a places up to it.
LEMMA Rank ==
  ASSUME NEW m \in Nat, NEW P, P \subseteq Nat, NEW f, Enumerates(f, m, P)
  PROVE  /\ Cardinality(P) = m
         /\ \A a \in 1 .. m : Cardinality({j \in P : j <= f[a]}) = a
  <1>0. /\ f \in [1 .. m -> P]
        /\ \A a, b \in 1 .. m : a < b => f[a] < f[b]
        /\ \A k \in P : \E a \in 1 .. m : f[a] = k
    BY DEF Enumerates
  <1>1. \A a \in 1 .. m : f[a] \in P /\ f[a] \in Nat
    BY <1>0
  <1>2. \A a, b \in 1 .. m : f[a] = f[b] => a = b
    <2> SUFFICES ASSUME NEW a \in 1 .. m, NEW b \in 1 .. m, f[a] = f[b], a # b PROVE FALSE
      OBVIOUS
    <2>1. a < b \/ b < a
      OBVIOUS
    <2>2. f[a] \in Nat /\ f[b] \in Nat
      BY <1>1
    <2> QED
      BY <1>0, <2>1, <2>2
  <1>3. Cardinality(P) = m
    <2>1. f \in Bijection(1 .. m, P)
      BY <1>0, <1>2 DEF Bijection, Injection, Surjection, IsInjective
    <2>2. ExistsBijection(1 .. m, P)
      BY <2>1 DEF ExistsBijection
    <2>3. IsFiniteSet(1 .. m) /\ Cardinality(1 .. m) = m
      BY FS_Interval
    <2> QED
      BY <2>2, <2>3, FS_Bijection
  <1>4. ASSUME NEW a \in 1 .. m PROVE Cardinality({j \in P : j <= f[a]}) = a
    <2> DEFINE R == {j \in P : j <= f[a]}
               h == [b \in 1 .. a |-> f[b]]
    <2>1. h \in [1 .. a -> R]
      <3> SUFFICES ASSUME NEW b \in 1 .. a PROVE f[b] \in R
        OBVIOUS
      <3>1. b \in 1 .. m /\ (b < a \/ b = a)
        OBVIOUS
      <3>2. f[b] \in P /\ f[b] \in Nat /\ f[a] \in Nat
        BY <1>1, <3>1
      <3>3. f[b] <= f[a]
        BY <1>0, <3>1, <3>2
      <3> QED
        BY <3>2, <3>3
    <2>2. \A b, c \in 1 .. a : h[b] = h[c] => b = c
      BY <1>2
    <2>3. ASSUME NEW rp \in R PROVE \E b \in 1 .. a : h[b] = rp
      <3>1. rp \in P /\ rp <= f[a]
        OBVIOUS
      <3>2. PICK b \in 1 .. m : f[b] = rp
        BY <1>0, <3>1
      <3>3. ~(a < b)
        <4> SUFFICES ASSUME a < b PROVE FALSE
          OBVIOUS
        <4>1. f[a] < f[b] /\ f[a] \in Nat /\ f[b] \in Nat
          BY <1>0, <1>1
        <4> QED
          BY <3>1, <3>2, <4>1
      <3> QED
        BY <3>2, <3>3
    <2>4. ExistsBijection(1 .. a, R)
      <3>1. h \in Bijection(1 .. a, R)
        BY <2>1, <2>2, <2>3 DEF Bijection, Injection, Surjection, IsInjective
      <3> QED
        BY <3>1 DEF ExistsBijection
    <2>5. IsFiniteSet(1 .. a) /\ Cardinality(1 .. a) = a
      BY FS_Interval
    <2> QED
      BY <2>4, <2>5, FS_Bijection
  <1> QED
    BY <1>3, <1>4

\* The events of evs for register i are those of blk, and both are in the order
\* of the log: the events of i are at the places of blk, in its order.
LEMMA SameEvents ==
  ASSUME NEW evs \in Seq(Event), Ascending(evs), NEW blk \in Seq(Event), Ascending(blk), NEW i,
         OfPCR(evs, i) = {blk[a] : a \in DOMAIN blk}
  PROVE  /\ Cardinality(PlacesOf(evs, i)) = Len(blk)
         /\ \A k \in PlacesOf(evs, i) :
              LET rp == Cardinality({j \in PlacesOf(evs, i) : j <= k})
              IN  rp \in DOMAIN blk /\ evs[k] = blk[rp]
  <1> DEFINE P == PlacesOf(evs, i)
             m == Len(blk)
             f == [a \in 1 .. m |-> CHOOSE k \in P : evs[k] = blk[a]]
  <1>1. /\ m \in Nat /\ DOMAIN blk = 1 .. m
        /\ DOMAIN evs = 1 .. Len(evs) /\ P \subseteq DOMAIN evs /\ P \subseteq Nat
    BY LenProperties DEF PlacesOf
  <1>2. \A k \in DOMAIN evs : evs[k].sequence \in Nat
    <2>1. \A k \in DOMAIN evs : evs[k] \in Event
      BY <1>1, ElementOfSeq
    <2> QED
      BY <2>1 DEF Event
  <1>3. \A a \in 1 .. m : \E k \in P : evs[k] = blk[a]
    BY <1>1 DEF OfPCR
  <1>4. \A a \in 1 .. m : f[a] \in P /\ evs[f[a]] = blk[a]
    BY <1>3
  <1>5. \A j, k \in P : evs[j] = evs[k] => j = k
    <2> SUFFICES ASSUME NEW j \in P, NEW k \in P, evs[j] = evs[k], j # k PROVE FALSE
      OBVIOUS
    <2>1. (j < k \/ k < j) /\ j \in DOMAIN evs /\ k \in DOMAIN evs
      BY <1>1
    <2> QED
      BY <1>2, <2>1 DEF Ascending
  <1>6. f \in [1 .. m -> P]
    BY <1>4
  <1> HIDE DEF f, P, m
  <1>7. \A k \in P : \E a \in 1 .. m : f[a] = k
    <2> SUFFICES ASSUME NEW k \in P PROVE \E a \in 1 .. m : f[a] = k
      OBVIOUS
    <2>1. PICK a \in 1 .. m : blk[a] = evs[k]
      BY <1>1 DEF OfPCR, P
    <2>2. f[a] = k
      BY <1>4, <1>5, <2>1
    <2> QED
      BY <2>2
  <1>8. ASSUME NEW a \in 1 .. m, NEW b \in 1 .. m, a < b PROVE f[a] < f[b]
    <2>1. /\ f[a] \in DOMAIN evs /\ f[b] \in DOMAIN evs /\ f[a] \in Nat /\ f[b] \in Nat
          /\ evs[f[a]] = blk[a] /\ evs[f[b]] = blk[b]
      BY <1>1, <1>4
    <2>2. evs[f[a]].sequence < evs[f[b]].sequence
      BY <1>1, <1>8, <2>1 DEF Ascending
    <2>3. f[b] < f[a] => evs[f[b]].sequence < evs[f[a]].sequence
      BY <2>1 DEF Ascending
    <2>4. evs[f[a]].sequence \in Nat /\ evs[f[b]].sequence \in Nat
      BY <1>2, <2>1
    <2>5. f[a] # f[b]
      BY <2>2, <2>4
    <2> QED
      BY <2>1, <2>2, <2>3, <2>4, <2>5
  <1>9. /\ Cardinality(P) = m
        /\ \A a \in 1 .. m : Cardinality({j \in P : j <= f[a]}) = a
    <2>1. Enumerates(f, m, P)
      BY <1>6, <1>7, <1>8 DEF Enumerates
    <2> QED
      BY <1>1, <2>1, Rank
  <1>10. ASSUME NEW k \in P
         PROVE  LET rp == Cardinality({j \in P : j <= k}) IN rp \in 1 .. m /\ evs[k] = blk[rp]
    <2>1. PICK a \in 1 .. m : f[a] = k
      BY <1>7
    <2>2. Cardinality({j \in P : j <= k}) = a
      BY <1>9, <2>1
    <2> QED
      BY <1>4, <2>1, <2>2
  <1> QED
    BY <1>1, <1>9, <1>10 DEF P, m

\* What sort.Slice makes of the collected events, no two of which have the same
\* number: the same events, in the order of the log.
LEMMA SortDoes ==
  ASSUME NEW evs \in Seq(Event), NEW s \in SortBySequence(evs),
         \A j, k \in DOMAIN evs : j # k => evs[j].sequence # evs[k].sequence
  PROVE  /\ s \in Seq(Event) /\ Ascending(s)
         /\ \A i : OfPCR(s, i) = OfPCR(evs, i)
         /\ {s[k] : k \in DOMAIN s} = {evs[k] : k \in DOMAIN evs}
  <1> DEFINE D == DOMAIN evs
  <1>1. PICK f \in Bijection(D, D) : s = [k \in D |-> evs[f[k]]]
    BY DEF SortBySequence
  <1>2. \A j, k \in D : j < k => s[j].sequence <= s[k].sequence
    BY DEF SortBySequence
  <1>3. /\ f \in [D -> D] /\ \A j, k \in D : f[j] = f[k] => j = k
        /\ \A k \in D : \E j \in D : f[j] = k
    BY DEF Bijection, Injection, Surjection, IsInjective
  <1>4. Len(evs) \in Nat /\ D = 1 .. Len(evs) /\ \A k \in D : evs[k] \in Event
    BY LenProperties, ElementOfSeq
  <1> HIDE DEF D
  <1>5. DOMAIN s = D /\ \A k \in D : s[k] = evs[f[k]] /\ f[k] \in D /\ s[k] \in Event
    BY <1>1, <1>3, <1>4
  <1>6. s \in Seq(Event)
    <2>1. s \in [1 .. Len(evs) -> Event]
      BY <1>1, <1>4, <1>5
    <2> QED
      BY <1>4, <2>1, SeqDef
  <1>7. Ascending(s)
    <2> SUFFICES ASSUME NEW j \in D, NEW k \in D, j < k PROVE s[j].sequence < s[k].sequence
      BY <1>5 DEF Ascending
    <2>1. s[j].sequence <= s[k].sequence
      BY <1>2
    <2>2. f[j] # f[k] /\ f[j] \in D /\ f[k] \in D
      BY <1>3, <1>4, <1>5
    <2>3. s[j].sequence # s[k].sequence
      <3>1. evs[f[j]].sequence # evs[f[k]].sequence
        BY <2>2, Zenon DEF D
      <3>2. s[j] = evs[f[j]] /\ s[k] = evs[f[k]]
        BY <1>5, Zenon
      <3> QED
        BY <3>1, <3>2, Zenon
    <2>4. s[j].sequence \in Nat /\ s[k].sequence \in Nat
      BY <1>5 DEF Event
    <2> QED
      BY <2>1, <2>3, <2>4
  <1>8. ASSUME NEW x PROVE (\E k \in DOMAIN s : s[k] = x) <=> (\E k \in D : evs[k] = x)
    <2>1. ASSUME NEW k \in DOMAIN s, s[k] = x PROVE \E j \in D : evs[j] = x
      BY <1>5, <2>1
    <2>2. ASSUME NEW k \in D, evs[k] = x PROVE \E j \in DOMAIN s : s[j] = x
      <3>1. PICK j \in D : f[j] = k
        BY <1>3
      <3> QED
        BY <1>5, <2>2, <3>1
    <2> QED
      BY <2>1, <2>2
  <1>9. ASSUME NEW i PROVE OfPCR(s, i) = OfPCR(evs, i)
    <2>1. ASSUME NEW x PROVE x \in OfPCR(s, i) <=> x.index = i /\ \E k \in DOMAIN s : s[k] = x
      BY DEF OfPCR, PlacesOf
    <2>2. ASSUME NEW x PROVE x \in OfPCR(evs, i) <=> x.index = i /\ \E k \in D : evs[k] = x
      BY DEF OfPCR, PlacesOf, D
    <2> QED
      BY <1>8, <2>1, <2>2
  <1>10. {s[k] : k \in DOMAIN s} = {evs[k] : k \in DOMAIN evs}
    <2>1. ASSUME NEW x
          PROVE  x \in {s[k] : k \in DOMAIN s} <=> x \in {evs[k] : k \in DOMAIN evs}
      <3>1. x \in {s[k] : k \in DOMAIN s} <=> \E k \in DOMAIN s : s[k] = x
        OBVIOUS
      <3>2. x \in {evs[k] : k \in DOMAIN evs} <=> \E k \in D : evs[k] = x
        BY DEF D
      <3> QED
        BY <1>8, <3>1, <3>2, Zenon
    <2> QED
      BY <2>1
  <1> QED
    BY <1>6, <1>7, <1>9, <1>10

-----------------------------------------------------------------------------
(***************************************************************************)
(* The inductive invariant.                                                *)
(***************************************************************************)

Types ==
  /\ startup \in Localities
  /\ bank \in [Bank -> [PCRIndex -> Seq(Value)]]
  /\ log \in Seq(LogEvent)
  /\ forgotten \in Seq(Digest)
  /\ tampered \in BOOLEAN
  /\ algs \in Seq(Bank)
  /\ rawEvents \in Seq(RawEvent)
  /\ pcrs \in Seq(PCR)
  /\ pc \in {"boot", "replay", "collect", "workaround", "done", "failed"}
  /\ wkrd \in 0 .. Len(Workarounds)
  /\ verified \in Seq(Event)
  /\ events \in Seq(Event)

\* The value of register i of bank b, as it is given to Verify.
Register(b, i) == [index |-> i, alg |-> b, digest |-> bank[b][i]]

\* The log that Verify replays after workaround w, and the registers for which
\* no replay of the log l succeeds.
LogWith(w) == IF w = 0 THEN rawEvents ELSE apply(rawEvents, w)
FailsFor(l) ==
  {i \in Provided : \A k \in ReplaysOf(i) : ~replayPCR(l, pcrs[k]).successful}

\* Verify replays the parsed log, or the log with the workaround it is at; it has
\* the registers of the TPM.
CallInv ==
  IF pc = "boot" THEN wkrd = 0
  ELSE /\ Numbered(rawEvents)
       /\ wkrd # 0 => rawEvents # << >>
       /\ el = LogWith(wkrd)
       /\ \A k \in DOMAIN pcrs : pcrs[k] = Register(pcrs[k].alg, pcrs[k].index)

\* The logs that were tried before all failed, and the error that Verify kept is
\* that of the log as it is.
TriedInv ==
  /\ pc \in {"replay", "collect", "done"} => \A w \in 0 .. wkrd - 1 : FailsFor(LogWith(w)) # {}
  /\ pc \in {"workaround", "failed"} => \A w \in 0 .. wkrd : FailsFor(LogWith(w)) # {}
  /\ pc \in {"workaround", "failed"} \/ (pc # "boot" /\ wkrd # 0) => rErr = FailsFor(rawEvents)
  /\ pc # "boot" /\ wkrd # 0 => WorkaroundPCR \in rErr
  /\ pc = "failed" => WorkaroundPCR \notin rErr \/ wkrd = Len(Workarounds)

\* The events of register i among evs are those that a replay of l for it, with
\* one of the values ps, returned.
Gives(l, ps, evs, i) ==
  \E k \in DOMAIN ps :
    LET rp == replayPCR(l, ps[k])
    IN  /\ ps[k].index = i
        /\ rp.successful
        /\ OfPCR(evs, i) = {rp.events[a] : a \in DOMAIN rp.events}

Returned(evs, i) == Gives(el, pcrs, evs, i)

\* pcrLoop has the events of the registers it has visited, or has recorded that
\* they did not replay.
CollectInv ==
  /\ pc = "replay" => verified = << >> /\ invalid = {}
  /\ pc = "collect" =>
       /\ replays = [k \in DOMAIN pcrs |-> replayPCR(el, pcrs[k])]
       /\ todo \subseteq Provided
       /\ invalid = FailsFor(el) \ todo
       /\ \A n \in DOMAIN verified :
            verified[n].index \in Provided \ todo /\ verified[n].index \notin invalid
       /\ \A j, k \in DOMAIN verified : j # k => verified[j].sequence # verified[k].sequence
       /\ \A i \in Provided \ todo : i \notin invalid => Returned(verified, i)

\* What Verify returns.
DoneInv ==
  pc = "done" =>
    /\ Ascending(events)
    /\ \A k \in DOMAIN events : events[k].index \in Provided
    /\ \A i \in Provided : Returned(events, i)

\* The register p, of a log that the platform wrote, has the value that the log l
\* leads to, followed by what the firmware forgot to log.
Accounted(l, p) ==
  LET st == ReplayLoop(l, p)
  IN  /\ st.ok
      /\ p.digest = Held(st) \o (IF p.index = WorkaroundPCR THEN forgotten ELSE << >>)

HonestInv ==
  ~tampered =>
    \A b \in ToSet(algs), i \in PCRIndex :
      Intact(Register(b, i)) =>
        Accounted(IF pc = "boot" THEN ParseEventLog(log) ELSE rawEvents, Register(b, i))

IInv == Types /\ CallInv /\ TriedInv /\ CollectInv /\ DoneInv /\ HonestInv

\* What depends only on the arguments of the call.
LEMMA SameCall ==
  ASSUME UNCHANGED <<algs, rawEvents, pcrs>>
  PROVE  /\ Provided' = Provided
         /\ \A i : ReplaysOf(i)' = ReplaysOf(i)
         /\ \A w : LogWith(w)' = LogWith(w)
         /\ \A l : FailsFor(l)' = FailsFor(l)
  <1>1. Provided' = Provided
    BY DEF Provided
  <1>2. \A i : ReplaysOf(i)' = ReplaysOf(i)
    BY DEF ReplaysOf
  <1>3. \A w : LogWith(w)' = LogWith(w)
    BY DEF LogWith, apply, inject, Digests
  <1>4. \A l : FailsFor(l)' = FailsFor(l)
    BY <1>1, <1>2 DEF FailsFor
  <1> QED
    BY <1>1, <1>2, <1>3, <1>4

-----------------------------------------------------------------------------
(***************************************************************************)
(* The platform.                                                           *)
(***************************************************************************)

\* The k-th event of the log, parsed.
ParsedEvent(k, e) == [sequence |-> k, index |-> e.index, typ |-> e.typ,
                      locality |-> e.locality, digests |-> e.digests]

\* A parsed event is a raw event.
LEMMA ParsedEventType ==
  ASSUME NEW k \in Nat, NEW e \in LogEvent
  PROVE  ParsedEvent(k, e) \in RawEvent
  BY DEF ParsedEvent, LogEvent, RawEvent

\* ParseEventLog numbers the events.
LEMMA ParseDoes ==
  ASSUME NEW l \in Seq(LogEvent)
  PROVE  /\ ParseEventLog(l) \in Seq(RawEvent)
         /\ Numbered(ParseEventLog(l))
         /\ \A e \in LogEvent :
              ParseEventLog(Append(l, e)) = Append(ParseEventLog(l), ParsedEvent(Len(l) + 1, e))
  <1> DEFINE n == Len(l)
             s == ParseEventLog(l)
  <1>1. n \in Nat /\ DOMAIN l = 1 .. n /\ \A k \in 1 .. n : l[k] \in LogEvent
    BY LenProperties, ElementOfSeq
  <1>2. s = [k \in 1 .. n |-> ParsedEvent(k, l[k])]
    BY <1>1 DEF ParseEventLog, ParsedEvent
  <1>3. \A k \in 1 .. n : ParsedEvent(k, l[k]) \in RawEvent
    BY <1>1, ParsedEventType
  <1>4. s \in [1 .. n -> RawEvent]
    BY <1>2, <1>3
  <1>5. s \in Seq(RawEvent) /\ Len(s) = n
    <2>1. s \in Seq(RawEvent)
      BY <1>1, <1>4, SeqDef
    <2> QED
      BY <1>1, <1>4, <2>1, LenProperties
  <1>6. Numbered(s)
    BY <1>1, <1>2 DEF Numbered, ParsedEvent
  <1>7. ASSUME NEW e \in LogEvent
        PROVE  ParseEventLog(Append(l, e)) = Append(s, ParsedEvent(n + 1, e))
    <2> DEFINE m == Append(l, e)
               x == ParsedEvent(n + 1, e)
    <2>1. DOMAIN m = 1 .. n + 1 /\ m[n + 1] = e /\ \A k \in 1 .. n : m[k] = l[k]
      BY AppendPlaces
    <2>2. x \in RawEvent
      BY <1>1, ParsedEventType
    <2> HIDE DEF m, n, s
    <2>3. ParseEventLog(m) = [k \in 1 .. n + 1 |-> ParsedEvent(k, m[k])]
      BY <2>1 DEF ParseEventLog, ParsedEvent
    <2> HIDE DEF x
    <2> DEFINE z == Append(s, x)
    <2>4. /\ z \in Seq(RawEvent) /\ DOMAIN z = 1 .. n + 1
          /\ z[n + 1] = x /\ \A k \in 1 .. n : z[k] = s[k]
      BY <1>5, <2>2, AppendPlaces, AppendProperties
    <2> HIDE DEF z
    <2>5. ASSUME NEW k \in 1 .. n + 1 PROVE z[k] = ParsedEvent(k, m[k])
      <3>1. CASE k = n + 1
        BY <2>1, <2>4, <3>1 DEF x
      <3>2. CASE k \in 1 .. n
        BY <1>2, <2>1, <2>4, <3>2
      <3>3. n \in Nat
        BY <1>1
      <3>4. k = n + 1 \/ k \in 1 .. n
        BY <3>3
      <3> QED
        BY <3>1, <3>2, <3>4
    <2>6. z = [k \in 1 .. n + 1 |-> z[k]]
      BY <2>4
    <2>7. z = [k \in 1 .. n + 1 |-> ParsedEvent(k, m[k])]
      BY <2>5, <2>6
    <2> QED
      BY <2>3, <2>7 DEF m, x, z
  <1> QED
    BY <1>5, <1>6, <1>7

\* The events of the platform's log.
LEMMA LogEvents ==
  ASSUME Types
  PROVE  /\ \A i \in PCRIndex, l \in Int : NoActionEvent(i, l) \in LogEvent
         /\ \A i \in PCRIndex, d \in Data : Measured(i, algs, d) \in LogEvent
  <1>1. \A d \in Data : Digests(algs, d) \in Seq([hash : Bank, data : Data])
    BY DigestsDo DEF Types
  <1>2. << >> \in Seq([hash : Bank, data : Data]) /\ NoLocality \in Int
    BY DEF NoLocality
  <1> QED
    BY <1>1, <1>2 DEF NoActionEvent, Measured, LogEvent

\* A replay depends on which register it is for, not on its value.
LEMMA SameRegister ==
  ASSUME NEW l, Len(l) \in Nat, NEW p, NEW q, p.index = q.index, p.alg = q.alg
  PROVE  ReplayLoop(l, p) = ReplayLoop(l, q)
  <1>1. ASSUME NEW st, NEW e PROVE ReplayEvent(p, st, e) = ReplayEvent(q, st, e)
    <2>1. Matching(p, e) = Matching(q, e)
      BY DEF Matching
    <2> QED
      BY <2>1 DEF ReplayEvent, CanExtend, DigestFor, extend
  <1>2. PICK s : LoopTo(s, l, p, Len(l)) /\ ReplayLoop(l, p) = s[Len(l)]
    BY LoopResult
  <1>3. PICK t : LoopTo(t, l, q, Len(l)) /\ ReplayLoop(l, q) = t[Len(l)]
    BY LoopResult
  <1>4. LoopTo(t, l, p, Len(l))
    BY <1>1, <1>3 DEF LoopTo
  <1> QED
    BY <1>2, <1>3, <1>4, LoopAgrees

\* The registers of the TPM can be given to Verify.
LEMMA RegisterType ==
  ASSUME Types, NEW b \in Bank, NEW i \in PCRIndex
  PROVE  /\ Register(b, i) \in PCR /\ Register(b, i).index = i /\ Register(b, i).alg = b
         /\ Register(b, i).digest = bank[b][i] /\ bank[b][i] \in Seq(Value)
  BY DEF Types, Register, PCR

\* The platform leaves the call alone.
LEMMA BootKeeps ==
  ASSUME IInv, pc = "boot", pc' = "boot", wkrd' = wkrd
  PROVE  CallInv' /\ TriedInv' /\ CollectInv' /\ DoneInv'
  BY DEF IInv, CallInv, TriedInv, CollectInv, DoneInv

\* Initially the log has the startup locality, if it is not 0.
LEMMA InitIInv == Init => IInv
  <1> SUFFICES ASSUME Init PROVE IInv
    OBVIOUS
  <1>1. Types
    <2>1. Localities \subseteq Value /\ 0 \in Value /\ Localities \subseteq Int
      BY LogAssumption DEF Value
    <2>2. <<startup>> \in Seq(Value) /\ <<0>> \in Seq(Value)
      BY <2>1 DEF Init
    <2>3. bank \in [Bank -> [PCRIndex -> Seq(Value)]]
      BY <2>2 DEF Init
    <2>4. NoActionEvent(LocalityPCR, startup) \in LogEvent
      <3>1. << >> \in Seq([hash : Bank, data : Data])
        OBVIOUS
      <3> QED
        BY <2>1, <3>1, LogAssumption DEF NoActionEvent, LogEvent, Init
    <2>5. << >> \in Seq(LogEvent) /\ <<NoActionEvent(LocalityPCR, startup)>> \in Seq(LogEvent)
      BY <2>4
    <2>6. log \in Seq(LogEvent)
      BY <2>5 DEF Init
    <2>7. algs \in Seq(Bank) /\ Len(Workarounds) \in Nat
      BY LogAssumption, LenProperties DEF Init
    <2>8. wkrd \in 0 .. Len(Workarounds)
      BY <2>7 DEF Init
    <2>9. /\ forgotten \in Seq(Digest) /\ rawEvents \in Seq(RawEvent) /\ pcrs \in Seq(PCR)
          /\ verified \in Seq(Event) /\ events \in Seq(Event)
      BY DEF Init
    <2> QED
      BY <2>3, <2>6, <2>7, <2>8, <2>9 DEF Init, Types
  <1>2. CallInv /\ TriedInv /\ CollectInv /\ DoneInv
    BY DEF Init, CallInv, TriedInv, CollectInv, DoneInv
  <1>3. HonestInv
    <2> SUFFICES ASSUME NEW b \in ToSet(algs), NEW i \in PCRIndex
                 PROVE  Accounted(ParseEventLog(log), Register(b, i))
      BY DEF HonestInv, Init
    <2> DEFINE p  == Register(b, i)
               st == ReplayLoop(ParseEventLog(log), p)
    <2>1. b \in Bank /\ forgotten = << >>
      BY <1>1, ElementOfSeq, LenProperties DEF Types, ToSet, Init
    <2>2. /\ p \in PCR /\ p.index = i
          /\ p.digest = IF i = LocalityPCR THEN <<startup>> ELSE <<0>>
      BY <1>1, <2>1, RegisterType DEF Init
    <2>3. startup \in Nat /\ startup # NoLocality /\ startup \in Int
      BY LogAssumption DEF Init, NoLocality
    <2> HIDE DEF p
    <2>4. st.ok /\ st.replay = << >> /\ st.locality = IF i = LocalityPCR THEN startup ELSE 0
      <3>1. CASE startup = 0
        <4>1. ParseEventLog(log) = << >>
          BY <3>1 DEF Init, ParseEventLog
        <4>2. st = Start
          BY <4>1, LoopEmpty
        <4> QED
          BY <3>1, <4>2 DEF Start
      <3>2. CASE startup # 0
        <4> DEFINE x == NoActionEvent(LocalityPCR, startup)
                   e == ParsedEvent(1, x)
        <4>1. << >> \in Seq(LogEvent) /\ Len(<< >>) = 0 /\ log = Append(<< >>, x)
          BY <3>2 DEF Init
        <4>2. ParseEventLog(<< >>) = << >>
          BY DEF ParseEventLog
        <4>3. x \in LogEvent
          BY <1>1, <2>3, LogEvents, LogAssumption
        <4>4. ParseEventLog(log) = Append(<< >>, e)
          <5>1. 0 + 1 = 1
            OBVIOUS
          <5> HIDE DEF x
          <5>2. ParseEventLog(Append(<< >>, x))
                  = Append(ParseEventLog(<< >>), ParsedEvent(Len(<< >>) + 1, x))
            BY <4>1, <4>3, ParseDoes
          <5> QED
            BY <4>1, <4>2, <5>1, <5>2
        <4>5. /\ e.index = LocalityPCR /\ e.typ = "noaction" /\ e.locality = startup
          BY DEF ParsedEvent, NoActionEvent
        <4> HIDE DEF e
        <4>6. st = ReplayEvent(p, Start, e)
          <5>1. << >> \in Seq({})
            OBVIOUS
          <5> QED
            BY <4>4, <5>1, LoopAppend, LoopEmpty
        <4>7. Start.ok /\ Start.replay = << >> /\ Start.locality = 0
          BY DEF Start
        <4>8. CASE i # LocalityPCR
          BY <2>2, <4>5, <4>6, <4>7, <4>8 DEF ReplayEvent
        <4>9. CASE i = LocalityPCR
          <5>1. st = [Start EXCEPT !.locality = startup]
            BY <2>2, <2>3, <4>5, <4>6, <4>7, <4>9 DEF ReplayEvent
          <5> QED
            BY <4>9, <5>1 DEF Start
        <4> QED
          BY <4>8, <4>9
      <3> QED
        BY <3>1, <3>2
    <2> HIDE DEF st
    <2>5. Held(st) = p.digest
      BY <2>2, <2>4 DEF Held
    <2>6. p.digest \o << >> = p.digest
      BY <2>2, ConcatEmptySeq DEF PCR
    <2> QED
      BY <2>1, <2>4, <2>5, <2>6 DEF Accounted, st, p
  <1> QED
    BY <1>1, <1>2, <1>3 DEF IInv

\* A measurement leads the register of an intact bank to its new value.
LEMMA MeasureStep ==
  ASSUME IInv, NEW i \in PCRIndex, NEW d \in Digest, NEW bad, Measure(i, d, bad)
  PROVE  IInv'
  <1>1. /\ pc = "boot" /\ pc' = "boot" /\ wkrd' = wkrd /\ algs' = algs /\ rawEvents' = rawEvents
        /\ pcrs' = pcrs /\ startup' = startup /\ ~tampered /\ tampered' = tampered
        /\ forgotten = << >> /\ forgotten' = forgotten
        /\ verified' = verified /\ events' = events
        /\ log' = Append(log, Measured(i, algs, d))
    BY DEF Measure, inputVars, replayVars
  <1>2. Types /\ d \in Data /\ d \in Value /\ Broken \in Value
    BY DEF IInv, Value, Data
  <1>3. bank' = [b \in Bank |->
                   [bank[b] EXCEPT ![i] = Append(@, IF b \in bad THEN Broken ELSE d)]]
    BY DEF Measure, ExtendBanks
  <1>4. \A b \in Bank, j \in PCRIndex : bank[b][j] \in Seq(Value) /\ DOMAIN bank[b] = PCRIndex
    BY <1>2 DEF Types
  <1>5. ASSUME NEW b \in Bank
        PROVE  /\ bank'[b][i] = Append(bank[b][i], IF b \in bad THEN Broken ELSE d)
               /\ \A j \in PCRIndex : j # i => bank'[b][j] = bank[b][j]
    BY <1>3, <1>4
  <1>6. Types'
    <2>1. log' \in Seq(LogEvent)
      <3>1. Measured(i, algs, d) \in LogEvent /\ log \in Seq(LogEvent)
        BY <1>2, LogEvents DEF Types
      <3> QED
        BY <1>1, <3>1, AppendProperties
    <2>2. bank' \in [Bank -> [PCRIndex -> Seq(Value)]]
      <3>1. ASSUME NEW b \in Bank
            PROVE  [bank[b] EXCEPT ![i] = Append(@, IF b \in bad THEN Broken ELSE d)]
                     \in [PCRIndex -> Seq(Value)]
        <4>1. bank[b] \in [PCRIndex -> Seq(Value)] /\ (IF b \in bad THEN Broken ELSE d) \in Value
          BY <1>2 DEF Types
        <4>2. Append(bank[b][i], IF b \in bad THEN Broken ELSE d) \in Seq(Value)
          BY <1>4, <4>1, AppendProperties
        <4> QED
          BY <4>1, <4>2
      <3> QED
        BY <1>3, <3>1
    <2> QED
      BY <1>1, <1>2, <2>1, <2>2 DEF Types
  <1>7. HonestInv'
    <2> SUFFICES ASSUME NEW b \in ToSet(algs), NEW j \in PCRIndex, Intact(Register(b, j))'
                 PROVE  Accounted(ParseEventLog(log), Register(b, j))'
      BY <1>1 DEF HonestInv, ToSet
    <2> DEFINE e == ParsedEvent(Len(log) + 1, Measured(i, algs, d))
               l == ParseEventLog(log)
               p == Register(b, j)
               q == [index |-> j, alg |-> b, digest |-> bank'[b][j]]
    <2>0. b \in Bank /\ q = Register(b, j)'
      BY <1>1, <1>2, ElementOfSeq, LenProperties DEF Types, ToSet, Register
    <2>1. l \in Seq(RawEvent) /\ Numbered(l) /\ e \in RawEvent /\ ParseEventLog(log') = Append(l, e)
      <3>1. Measured(i, algs, d) \in LogEvent /\ log \in Seq(LogEvent) /\ Len(log) + 1 \in Nat
        BY <1>2, LogEvents, LenProperties DEF Types
      <3> QED
        BY <1>1, <3>1, ParseDoes, ParsedEventType
    <2>2. e.index = i /\ e.typ = "event" /\ e.digests = Digests(algs, d)
      BY DEF ParsedEvent, Measured
    <2>3. p \in PCR /\ p.index = j /\ p.alg = b /\ p.digest = bank[b][j]
      BY <1>2, <2>0, RegisterType
    <2>4. q.index = j /\ q.alg = b /\ q.digest = bank'[b][j]
      OBVIOUS
    <2> HIDE DEF e, l, p, q
    <2> DEFINE st == ReplayLoop(l, p)
               nx == ReplayLoop(Append(l, e), q)
    <2>5. nx = ReplayEvent(p, st, e)
      <3>1. Append(l, e) \in Seq(RawEvent)
        BY <2>1, AppendProperties
      <3>2. nx = ReplayLoop(Append(l, e), p)
        BY <2>3, <2>4, <3>1, SameRegister, LenProperties
      <3> QED
        BY <2>1, <3>2, LoopAppend
    <2>6. st \in Loop
      BY <2>1, <2>3, LoopDoes
    <2> SUFFICES nx.ok /\ q.digest = Held(nx)
      <3> HIDE DEF nx
      <3>1. q.digest \in Seq(Value)
        BY <1>6, <2>0, <2>4 DEF Types
      <3>2. q.digest \o << >> = q.digest
        BY <3>1, ConcatEmptySeq
      <3>3. Accounted(ParseEventLog(log), Register(b, j))'
              <=> nx.ok /\ q.digest = Held(nx) \o (IF q.index = WorkaroundPCR THEN forgotten' ELSE << >>)
        BY <2>0, <2>1 DEF Accounted, nx
      <3> QED
        BY <1>1, <3>2, <3>3
    <2>7. Intact(p) => st.ok /\ p.digest = Held(st)
      <3>1. Intact(p) => Accounted(l, p)
        BY <1>1 DEF IInv, HonestInv, p, l
      <3>2. Held(st) \o << >> = Held(st)
        BY <2>6, HeldType, ConcatEmptySeq
      <3> QED
        BY <1>1, <3>1, <3>2 DEF Accounted
    <2>8. Intact(q)
      BY <1>1, <2>0 DEF Intact, ToSet
    <2> HIDE DEF st, nx
    <2>9. CASE j # i
      <3>1. nx = st
        BY <1>2, <2>1, <2>2, <2>3, <2>5, <2>6, <2>9, MeasurementReplay DEF Types
      <3>2. q.digest = p.digest
        BY <1>5, <2>0, <2>3, <2>4, <2>9
      <3>3. Intact(p)
        BY <2>3, <2>4, <2>8, <3>2 DEF Intact
      <3> QED
        BY <2>7, <3>1, <3>2, <3>3
    <2>10. CASE j = i
      <3> DEFINE a == IF b \in bad THEN Broken ELSE d
      <3>1. q.digest = Append(p.digest, a) /\ p.digest \in Seq(Value) /\ a \in Value
        BY <1>2, <1>4, <1>5, <2>0, <2>3, <2>4, <2>10
      <3> HIDE DEF a
      <3>2. /\ DOMAIN q.digest = 1 .. Len(p.digest) + 1 /\ DOMAIN p.digest = 1 .. Len(p.digest)
            /\ q.digest[Len(p.digest) + 1] = a /\ Len(p.digest) \in Nat
            /\ \A k \in 1 .. Len(p.digest) : q.digest[k] = p.digest[k]
        BY <3>1, AppendPlaces
      <3>3. a # Broken /\ Intact(p)
        BY <2>3, <2>4, <2>8, <3>2 DEF Intact
      <3>4. a = d
        BY <3>3 DEF a
      <3>5. nx.ok /\ Held(nx) = Append(Held(st), d)
        BY <1>2, <2>1, <2>2, <2>3, <2>5, <2>6, <2>7, <2>10, <3>3, MeasurementReplay DEF Types
      <3> QED
        BY <2>7, <3>1, <3>3, <3>4, <3>5
    <2> QED
      BY <2>9, <2>10
  <1> QED
    BY <1>1, <1>6, <1>7, BootKeeps DEF IInv

\* What the firmware forgets to log is the end of the register's value.
LEMMA ForgetStep ==
  ASSUME IInv, NEW d \in Digest, Forget(d)
  PROVE  IInv'
  <1>1. /\ pc = "boot" /\ pc' = "boot" /\ wkrd' = wkrd /\ algs' = algs /\ rawEvents' = rawEvents
        /\ pcrs' = pcrs /\ startup' = startup /\ ~tampered /\ tampered' = tampered
        /\ forgotten' = Append(forgotten, d)
        /\ verified' = verified /\ events' = events /\ log' = log
    BY DEF Forget, inputVars, replayVars
  <1>2. Types /\ d \in Data /\ d \in Value /\ WorkaroundPCR \in PCRIndex
    BY LogAssumption DEF IInv, Value, Data
  <1>3. bank' = [b \in Bank |-> [bank[b] EXCEPT ![WorkaroundPCR] = Append(@, d)]]
    BY DEF Forget, ExtendBanks
  <1>4. \A b \in Bank, j \in PCRIndex : bank[b][j] \in Seq(Value) /\ DOMAIN bank[b] = PCRIndex
    BY <1>2 DEF Types
  <1>5. ASSUME NEW b \in Bank
        PROVE  /\ bank'[b][WorkaroundPCR] = Append(bank[b][WorkaroundPCR], d)
               /\ \A j \in PCRIndex : j # WorkaroundPCR => bank'[b][j] = bank[b][j]
    BY <1>2, <1>3, <1>4
  <1>6. Types'
    <2>1. bank' \in [Bank -> [PCRIndex -> Seq(Value)]]
      <3>1. ASSUME NEW b \in Bank
            PROVE  [bank[b] EXCEPT ![WorkaroundPCR] = Append(@, d)] \in [PCRIndex -> Seq(Value)]
        <4>1. bank[b] \in [PCRIndex -> Seq(Value)]
          BY <1>2 DEF Types
        <4>2. Append(bank[b][WorkaroundPCR], d) \in Seq(Value)
          BY <1>2, <1>4, AppendProperties
        <4> QED
          BY <4>1, <4>2
      <3> QED
        BY <1>3, <3>1
    <2>2. forgotten' \in Seq(Digest)
      BY <1>1, <1>2, AppendProperties DEF Types
    <2> QED
      BY <1>1, <1>2, <2>1, <2>2 DEF Types
  <1>7. HonestInv'
    <2> SUFFICES ASSUME NEW b \in ToSet(algs), NEW j \in PCRIndex, Intact(Register(b, j))'
                 PROVE  Accounted(ParseEventLog(log), Register(b, j))'
      BY <1>1 DEF HonestInv, ToSet
    <2> DEFINE l == ParseEventLog(log)
               p == Register(b, j)
               q == [index |-> j, alg |-> b, digest |-> bank'[b][j]]
    <2>0. b \in Bank /\ q = Register(b, j)'
      BY <1>1, <1>2, ElementOfSeq, LenProperties DEF Types, ToSet, Register
    <2>1. l \in Seq(RawEvent) /\ Numbered(l) /\ ParseEventLog(log') = l
      BY <1>1, <1>2, ParseDoes DEF Types
    <2>2. p \in PCR /\ p.index = j /\ p.alg = b /\ p.digest = bank[b][j] /\ p.digest \in Seq(Value)
      BY <1>2, <2>0, RegisterType
    <2>3. q.index = j /\ q.alg = b /\ q.digest = bank'[b][j]
      OBVIOUS
    <2>4. Intact(q)
      BY <1>1, <2>0 DEF Intact, ToSet
    <2> HIDE DEF l, p, q
    <2> DEFINE st == ReplayLoop(l, p)
    <2>5. ReplayLoop(l, q) = st /\ st \in Loop
      BY <2>1, <2>2, <2>3, SameRegister, LenProperties, LoopDoes
    <2> HIDE DEF st
    <2> SUFFICES /\ st.ok
                 /\ q.digest = Held(st) \o (IF j = WorkaroundPCR THEN forgotten' ELSE << >>)
      BY <2>0, <2>1, <2>3, <2>5 DEF Accounted
    <2>6. Intact(p) => /\ st.ok
                       /\ p.digest = Held(st) \o (IF j = WorkaroundPCR THEN forgotten ELSE << >>)
      <3>1. Intact(p) => Accounted(l, p)
        BY <1>1 DEF IInv, HonestInv, p, l
      <3> QED
        BY <2>2, <3>1 DEF Accounted, st
    <2>7. CASE j # WorkaroundPCR
      <3>1. q.digest = p.digest
        BY <1>5, <2>0, <2>2, <2>3, <2>7
      <3>2. Intact(p)
        BY <2>2, <2>3, <2>4, <3>1 DEF Intact
      <3> QED
        BY <2>6, <2>7, <3>1, <3>2
    <2>8. CASE j = WorkaroundPCR
      <3>1. q.digest = Append(p.digest, d)
        BY <1>5, <2>0, <2>2, <2>3, <2>8
      <3>2. /\ DOMAIN q.digest = 1 .. Len(p.digest) + 1 /\ DOMAIN p.digest = 1 .. Len(p.digest)
            /\ Len(p.digest) \in Nat
            /\ \A k \in 1 .. Len(p.digest) : q.digest[k] = p.digest[k]
        BY <1>2, <2>2, <3>1, AppendPlaces
      <3>3. Intact(p)
        BY <2>2, <2>3, <2>4, <3>2 DEF Intact
      <3>4. forgotten \in Seq(Value) /\ Held(st) \in Seq(Value)
        <4>1. Digest \subseteq Value
          BY DEF Value, Data
        <4> QED
          BY <1>2, <2>5, <4>1, SeqMonotonic, HeldType DEF Types
      <3>5. Append(Held(st) \o forgotten, d) = Held(st) \o Append(forgotten, d)
        <4> DEFINE h == Held(st)
        <4>1. h \in Seq(Value) /\ forgotten \in Seq(Value) /\ d \in Value
          BY <1>2, <3>4
        <4> HIDE DEF h
        <4>2. \A s, t \in Seq(Value), x \in Value : Append(s \o t, x) = s \o Append(t, x)
          OBVIOUS
        <4>3. Append(h \o forgotten, d) = h \o Append(forgotten, d)
          BY <4>1, <4>2, Zenon
        <4> QED
          BY <4>3 DEF h
      <3> QED
        BY <1>1, <2>6, <2>8, <3>1, <3>3, <3>5
    <2> QED
      BY <2>7, <2>8
  <1> QED
    BY <1>1, <1>6, <1>7, BootKeeps DEF IInv

\* An event that extends nothing does not change a replay.
LEMMA InformStep ==
  ASSUME IInv, NEW i \in PCRIndex, Inform(i)
  PROVE  IInv'
  <1>1. /\ pc = "boot" /\ pc' = "boot" /\ wkrd' = wkrd /\ algs' = algs /\ rawEvents' = rawEvents
        /\ pcrs' = pcrs /\ startup' = startup /\ ~tampered /\ tampered' = tampered
        /\ forgotten' = forgotten /\ bank' = bank
        /\ verified' = verified /\ events' = events
        /\ log' = Append(log, NoActionEvent(i, NoLocality))
    BY DEF Inform, inputVars, replayVars
  <1>2. /\ Types /\ NoActionEvent(i, NoLocality) \in LogEvent
        /\ log \in Seq(LogEvent) /\ Len(log) + 1 \in Nat
    <2>1. Types /\ NoLocality \in Int
      BY DEF IInv, NoLocality
    <2> QED
      BY <2>1, LogEvents, LenProperties DEF Types
  <1>3. Types'
    <2>1. log' \in Seq(LogEvent)
      BY <1>1, <1>2, AppendProperties
    <2> QED
      BY <1>1, <1>2, <2>1 DEF Types
  <1>4. HonestInv'
    <2> SUFFICES ASSUME NEW b \in ToSet(algs), NEW j \in PCRIndex, Intact(Register(b, j))'
                 PROVE  Accounted(ParseEventLog(log), Register(b, j))'
      BY <1>1 DEF HonestInv, ToSet
    <2> DEFINE e == ParsedEvent(Len(log) + 1, NoActionEvent(i, NoLocality))
               l == ParseEventLog(log)
               p == Register(b, j)
    <2>1. p' = p /\ Intact(p)
      BY <1>1 DEF Register, Intact, ToSet
    <2>2. l \in Seq(RawEvent) /\ ParseEventLog(log') = Append(l, e)
      BY <1>1, <1>2, ParseDoes
    <2>3. e.typ = "noaction" /\ e.locality = NoLocality
      BY DEF ParsedEvent, NoActionEvent
    <2>4. Accounted(l, p)
      BY <1>1, <2>1 DEF IInv, HonestInv
    <2> HIDE DEF e, l, p
    <2>5. ReplayLoop(Append(l, e), p) = ReplayEvent(p, ReplayLoop(l, p), e)
      BY <2>2, LoopAppend
    <2>6. ReplayEvent(p, ReplayLoop(l, p), e) = ReplayLoop(l, p)
      BY <2>3 DEF ReplayEvent
    <2>7. Accounted(Append(l, e), p)
      BY <2>4, <2>5, <2>6 DEF Accounted
    <2> QED
      BY <1>1, <2>1, <2>2, <2>7 DEF Accounted, p
  <1> QED
    BY <1>1, <1>3, <1>4, BootKeeps DEF IInv

\* Whatever is done to the log, it is a log.
LEMMA TamperStep ==
  ASSUME IInv, Tamper
  PROVE  IInv'
  <1>1. /\ pc = "boot" /\ pc' = "boot" /\ wkrd' = wkrd /\ algs' = algs /\ rawEvents' = rawEvents
        /\ pcrs' = pcrs /\ startup' = startup /\ tampered' = TRUE
        /\ forgotten' = forgotten /\ bank' = bank
        /\ verified' = verified /\ events' = events
    BY DEF Tamper, inputVars, replayVars
  <1>2. Types
    BY DEF IInv
  <1>3. log' \in Seq(LogEvent)
    <2>1. PICK k \in DOMAIN log : log' \in Changes(k)
      BY DEF Tamper
    <2>2. /\ log \in Seq(LogEvent) /\ DOMAIN log = 1 .. Len(log) /\ Len(log) \in Nat
          /\ \A j \in DOMAIN log : log[j] \in LogEvent
      BY <1>2, LenProperties, ElementOfSeq DEF Types
    <2>3. ASSUME NEW x \in LogEvent PROVE InsertAt(log, k, x) \in Seq(LogEvent)
      BY <2>2 DEF InsertAt
    <2>4. RemoveAt(log, k) \in Seq(LogEvent)
      BY <2>2 DEF RemoveAt
    <2>5. NoActionEvent(LocalityPCR, 4) \in LogEvent
      BY <1>2, LogEvents, LogAssumption
    <2>6. ASSUME NEW d \in Forged PROVE Measured(log[k].index, algs, d) \in LogEvent
      <3>1. d \in Data /\ log[k].index \in PCRIndex
        BY <2>2 DEF Data, LogEvent
      <3> QED
        BY <1>2, <3>1, LogEvents
    <2>7. ASSUME NEW j \in 1 .. k - 1
          PROVE  [log EXCEPT ![k] = log[j], ![j] = log[k]] \in Seq(LogEvent)
      <3>1. j \in DOMAIN log
        BY <2>2
      <3>2. log \in [1 .. Len(log) -> LogEvent]
        BY <2>2
      <3>3. [log EXCEPT ![k] = log[j], ![j] = log[k]] \in [1 .. Len(log) -> LogEvent]
        BY <2>2, <3>1, <3>2
      <3> QED
        BY <2>2, <3>3, SeqDef
    <2>8. ASSUME NEW as \in {<< >>, algs} \cup {<<algs[j]>> : j \in DOMAIN algs},
                 NEW d \in Forged \cup {ShortDigest}
          PROVE  [log EXCEPT ![k].digests = Digests(as, d)] \in Seq(LogEvent)
      <3>1. as \in Seq(Bank) /\ d \in Data
        <4>1. algs \in Seq(Bank) /\ \A j \in DOMAIN algs : algs[j] \in Bank
          BY <1>2, LenProperties, ElementOfSeq DEF Types
        <4>2. << >> \in Seq(Bank) /\ \A j \in DOMAIN algs : <<algs[j]>> \in Seq(Bank)
          BY <4>1
        <4> QED
          BY <4>1, <4>2 DEF Data
      <3>2. Digests(as, d) \in Seq([hash : Bank, data : Data])
        BY <3>1, DigestsType
      <3>3. [log[k] EXCEPT !.digests = Digests(as, d)] \in LogEvent
        BY <2>2, <3>2 DEF LogEvent
      <3>4. log \in [1 .. Len(log) -> LogEvent]
        BY <2>2
      <3>5. [log EXCEPT ![k].digests = Digests(as, d)] \in [1 .. Len(log) -> LogEvent]
        BY <2>2, <3>3, <3>4
      <3> QED
        BY <2>2, <3>5, SeqDef
    <2>9. \/ log' = RemoveAt(log, k)
          \/ log' = InsertAt(log, k, NoActionEvent(LocalityPCR, 4))
          \/ \E j \in 1 .. k - 1 : log' = [log EXCEPT ![k] = log[j], ![j] = log[k]]
          \/ \E d \in Forged : log' = InsertAt(log, k, Measured(log[k].index, algs, d))
          \/ \E as \in {<< >>, algs} \cup {<<algs[j]>> : j \in DOMAIN algs},
                d \in Forged \cup {ShortDigest} :
               log' = [log EXCEPT ![k].digests = Digests(as, d)]
      BY <2>1 DEF Changes
    <2> QED
      BY <2>3, <2>4, <2>5, <2>6, <2>7, <2>8, <2>9
  <1>4. Types'
    BY <1>1, <1>2, <1>3 DEF Types
  <1>5. HonestInv'
    BY <1>1 DEF HonestInv
  <1> QED
    BY <1>1, <1>4, <1>5, BootKeeps DEF IInv

-----------------------------------------------------------------------------
(***************************************************************************)
(* The call of Verify.                                                     *)
(***************************************************************************)

\* Verify gets the registers of the TPM and the parsed log.
LEMMA VerifyStep ==
  ASSUME IInv, NEW sel \in Selections, Verify(sel)
  PROVE  IInv'
  <1>1. /\ pc = "boot" /\ pc' = "replay" /\ wkrd' = wkrd /\ algs' = algs
        /\ rawEvents' = ParseEventLog(log) /\ el' = rawEvents'
        /\ startup' = startup /\ tampered' = tampered /\ forgotten' = forgotten /\ bank' = bank
        /\ verified' = << >> /\ invalid' = {} /\ events' = events /\ log' = log
        /\ pcrs' = [k \in DOMAIN sel |->
                      [index |-> sel[k][2], alg |-> sel[k][1],
                       digest |-> bank[sel[k][1]][sel[k][2]]]]
    BY DEF Verify, StartReplay, platformVars
  <1>2. Types /\ wkrd = 0
    BY <1>1 DEF IInv, CallInv
  <1>3. /\ Len(sel) \in Nat /\ DOMAIN sel = 1 .. Len(sel)
        /\ \A k \in DOMAIN sel : sel[k][1] \in Bank /\ sel[k][2] \in PCRIndex
    <2>1. sel \in Seq(Bank \X PCRIndex)
      BY LogAssumption
    <2> QED
      BY <2>1, LenProperties, ElementOfSeq
  <1>4. /\ DOMAIN pcrs' = DOMAIN sel
        /\ \A k \in DOMAIN sel : pcrs'[k] = Register(sel[k][1], sel[k][2]) /\ pcrs'[k] \in PCR
    <2>1. \A k \in DOMAIN sel : Register(sel[k][1], sel[k][2]) \in PCR
      BY <1>2, <1>3, RegisterType
    <2> QED
      BY <1>1, <2>1 DEF Register
  <1>5. rawEvents' \in Seq(RawEvent) /\ Numbered(ParseEventLog(log))
    BY <1>1, <1>2, ParseDoes DEF Types
  <1>6. Types'
    <2>1. pcrs' \in Seq(PCR)
      <3>1. pcrs' \in [1 .. Len(sel) -> PCR]
        BY <1>1, <1>3, <1>4
      <3> QED
        BY <1>3, <3>1, SeqDef
    <2>2. verified' \in Seq(Event)
      BY <1>1
    <2> QED
      BY <1>1, <1>2, <1>5, <2>1, <2>2 DEF Types
  <1>7. CallInv'
    <2>1. Numbered(rawEvents)'
      BY <1>1, <1>5 DEF Numbered
    <2>2. LogWith(wkrd)' = rawEvents'
      BY <1>1, <1>2 DEF LogWith
    <2>3. \A k \in DOMAIN pcrs' : (pcrs[k] = Register(pcrs[k].alg, pcrs[k].index))'
      <3> SUFFICES ASSUME NEW k \in DOMAIN pcrs'
                   PROVE  (pcrs[k] = Register(pcrs[k].alg, pcrs[k].index))'
        OBVIOUS
      <3>1. /\ pcrs'[k] = [index |-> sel[k][2], alg |-> sel[k][1],
                           digest |-> bank[sel[k][1]][sel[k][2]]]
        BY <1>1, <1>4
      <3> QED
        BY <1>1, <3>1 DEF Register
    <2> QED
      BY <1>1, <1>2, <2>1, <2>2, <2>3 DEF CallInv
  <1>8. TriedInv'
    <2>1. wkrd' = 0 /\ 0 .. 0 - 1 = {}
      BY <1>1, <1>2
    <2> QED
      BY <1>1, <2>1 DEF TriedInv
  <1>9. CollectInv' /\ DoneInv'
    BY <1>1 DEF CollectInv, DoneInv
  <1>10. HonestInv'
    <2> SUFFICES ASSUME ~tampered, NEW b \in ToSet(algs), NEW i \in PCRIndex,
                        Intact(Register(b, i))'
                 PROVE  Accounted(rawEvents, Register(b, i))'
      BY <1>1 DEF HonestInv, ToSet
    <2>1. Register(b, i)' = Register(b, i)
      BY <1>1 DEF Register
    <2>2. Intact(Register(b, i))
      BY <1>1, <2>1 DEF Intact, ToSet
    <2>3. Accounted(ParseEventLog(log), Register(b, i))
      BY <1>1, <2>2 DEF IInv, HonestInv
    <2> QED
      BY <1>1, <2>1, <2>3 DEF Accounted
  <1> QED
    BY <1>6, <1>7, <1>8, <1>9, <1>10 DEF IInv

\* The steps of a call leave the platform and the arguments alone.
CallStep ==
  /\ UNCHANGED <<platformVars, inputVars>>
  /\ pc # "boot" /\ pc' # "boot"

\* They keep what HonestInv says.
LEMMA HonestKept ==
  ASSUME IInv, CallStep
  PROVE  HonestInv'
  <1>1. /\ algs' = algs /\ bank' = bank /\ rawEvents' = rawEvents /\ forgotten' = forgotten
        /\ tampered' = tampered /\ pc # "boot" /\ pc' # "boot"
    BY DEF CallStep, platformVars, inputVars
  <1> SUFFICES ASSUME ~tampered, NEW b \in ToSet(algs), NEW i \in PCRIndex, Intact(Register(b, i))'
               PROVE  Accounted(rawEvents, Register(b, i))'
    BY <1>1 DEF HonestInv, ToSet
  <1>2. Register(b, i)' = Register(b, i)
    BY <1>1 DEF Register
  <1>3. Intact(Register(b, i))
    BY <1>1, <1>2 DEF Intact, ToSet
  <1>4. Accounted(rawEvents, Register(b, i))
    BY <1>1, <1>3 DEF IInv, HonestInv
  <1> QED
    BY <1>1, <1>2, <1>4 DEF Accounted

\* The log that is replayed is a parsed log.
LEMMA ReplayedLog ==
  ASSUME IInv, pc # "boot"
  PROVE  /\ el \in Seq(RawEvent) /\ Numbered(el)
         /\ \A k \in DOMAIN pcrs : pcrs[k] \in PCR
  <1>1. /\ Types /\ Numbered(rawEvents) /\ (wkrd # 0 => rawEvents # << >>) /\ el = LogWith(wkrd)
    BY DEF IInv, CallInv
  <1>2. CASE wkrd = 0
    BY <1>1, <1>2, LenProperties, ElementOfSeq DEF LogWith, Types
  <1>3. CASE wkrd # 0
    <2>1. Parsed(rawEvents)
      BY <1>1, <1>3 DEF Parsed, Types
    <2>2. wkrd \in DOMAIN Workarounds
      <3>1. DOMAIN Workarounds = 1 .. Len(Workarounds) /\ Len(Workarounds) \in Nat
        BY LogAssumption, LenProperties
      <3> QED
        BY <1>1, <1>3, <3>1 DEF Types
    <2>3. Parsed(apply(rawEvents, wkrd))
      BY <1>1, <2>1, <2>2, ApplyContinues DEF Continues, Types
    <2> QED
      BY <1>1, <1>3, <2>3, LenProperties, ElementOfSeq DEF LogWith, Parsed, Types
  <1> QED
    BY <1>2, <1>3

\* A step of the call at the same workaround keeps what the call is about.
LEMMA CallKept ==
  ASSUME IInv, CallStep, wkrd' = wkrd, el' = el
  PROVE  /\ CallInv'
         /\ Provided' = Provided
         /\ \A i : ReplaysOf(i)' = ReplaysOf(i)
         /\ \A l : FailsFor(l)' = FailsFor(l)
         /\ FailsFor(el)' = FailsFor(el)
         /\ FailsFor(rawEvents)' = FailsFor(rawEvents)
         /\ \A w : FailsFor(LogWith(w))' = FailsFor(LogWith(w))
         /\ HonestInv'
  <1>1. UNCHANGED <<platformVars, inputVars>> /\ pc # "boot" /\ pc' # "boot"
    BY DEF CallStep
  <1>2. /\ Provided' = Provided
        /\ \A i : ReplaysOf(i)' = ReplaysOf(i)
        /\ \A w : LogWith(w)' = LogWith(w)
        /\ \A l : FailsFor(l)' = FailsFor(l)
    BY <1>1, SameCall DEF inputVars
  <1>3. CallInv'
    <2>1. LogWith(wkrd)' = LogWith(wkrd)
      BY <1>1, <1>2 DEF LogWith, apply, inject, Digests, inputVars
    <2> QED
      BY <1>1, <2>1 DEF IInv, CallInv, Numbered, Register, platformVars, inputVars
  <1>4. \A w : FailsFor(LogWith(w))' = FailsFor(LogWith(w))
    BY <1>2 DEF FailsFor
  <1>5. FailsFor(rawEvents)' = FailsFor(rawEvents) /\ FailsFor(el)' = FailsFor(el)
    BY <1>1, <1>2 DEF FailsFor, inputVars
  <1> QED
    BY <1>2, <1>3, <1>4, <1>5, HonestKept

\* replayEvents replays the log for every register.
LEMMA ReplayStep ==
  ASSUME IInv, Replay
  PROVE  IInv'
  <1>1. /\ pc = "replay" /\ pc' = "collect" /\ wkrd' = wkrd /\ el' = el
        /\ rErr' = rErr /\ verified' = verified /\ invalid' = invalid /\ events' = events
        /\ todo' = Provided /\ replays' = [k \in DOMAIN pcrs |-> replayPCR(el, pcrs[k])]
        /\ UNCHANGED <<platformVars, inputVars>>
    BY DEF Replay
  <1>2. CallStep
    BY <1>1 DEF CallStep
  <1>3. /\ CallInv' /\ HonestInv'
        /\ Provided' = Provided
        /\ FailsFor(el)' = FailsFor(el)
        /\ FailsFor(rawEvents)' = FailsFor(rawEvents)
        /\ \A w : FailsFor(LogWith(w))' = FailsFor(LogWith(w))
    BY <1>1, <1>2, CallKept
  <1>4. Types'
    BY <1>1 DEF IInv, Types, platformVars, inputVars
  <1>5. TriedInv'
    BY <1>1, <1>3 DEF IInv, TriedInv
  <1>6. CollectInv'
    <2>1. verified' = << >> /\ invalid' = {} /\ DOMAIN verified' = {}
      BY <1>1 DEF IInv, CollectInv
    <2>2. FailsFor(el)' \ todo' = {}
      BY <1>1, <1>3 DEF FailsFor
    <2>3. Provided' \ todo' = {}
      BY <1>1, <1>3
    <2> QED
      BY <1>1, <1>3, <2>1, <2>2, <2>3 DEF CollectInv, inputVars
  <1>7. DoneInv'
    BY <1>1 DEF DoneInv
  <1> QED
    BY <1>3, <1>4, <1>5, <1>6, <1>7 DEF IInv

\* The first successful replay of a register gives its events, whose numbers no
\* event has that was collected for another register.
LEMMA CollectStep ==
  ASSUME IInv, NEW i, Collect(i)
  PROVE  IInv'
  <1> DEFINE good == {k \in ReplaysOf(i) : replays[k].successful}
  <1>1. /\ pc = "collect" /\ pc' = pc /\ wkrd' = wkrd /\ el' = el /\ replays' = replays
        /\ rErr' = rErr /\ events' = events /\ i \in todo /\ todo' = todo \ {i}
        /\ good # {} => verified' = verified \o replays[Min(good)].events /\ invalid' = invalid
        /\ good = {} => invalid' = invalid \cup {i} /\ verified' = verified
        /\ UNCHANGED <<platformVars, inputVars>>
    BY DEF Collect
  <1>2. CallStep
    BY <1>1 DEF CallStep
  <1>3. /\ CallInv' /\ HonestInv'
        /\ Provided' = Provided
        /\ \A j : ReplaysOf(j)' = ReplaysOf(j)
        /\ FailsFor(el)' = FailsFor(el)
        /\ FailsFor(rawEvents)' = FailsFor(rawEvents)
        /\ \A w : FailsFor(LogWith(w))' = FailsFor(LogWith(w))
    BY <1>1, <1>2, CallKept
  <1>4. TriedInv' /\ DoneInv'
    BY <1>1, <1>3 DEF IInv, TriedInv, DoneInv
  <1>5. /\ replays = [k \in DOMAIN pcrs |-> replayPCR(el, pcrs[k])]
        /\ todo \subseteq Provided
        /\ invalid = FailsFor(el) \ todo
        /\ \A n \in DOMAIN verified :
             verified[n].index \in Provided \ todo /\ verified[n].index \notin invalid
        /\ \A j, k \in DOMAIN verified : j # k => verified[j].sequence # verified[k].sequence
        /\ \A j \in Provided \ todo : j \notin invalid => Returned(verified, j)
    BY <1>1 DEF IInv, CollectInv
  <1>6. el \in Seq(RawEvent) /\ Numbered(el) /\ \A k \in DOMAIN pcrs : pcrs[k] \in PCR
    BY <1>1, ReplayedLog
  <1>7. replays' = [k \in DOMAIN pcrs |-> replayPCR(el, pcrs[k])]' /\ pcrs' = pcrs
    BY <1>1, <1>5 DEF inputVars
  <1>8. \A k \in ReplaysOf(i) : k \in DOMAIN pcrs /\ pcrs[k].index = i
                                /\ replays[k] = replayPCR(el, pcrs[k])
    BY <1>5 DEF ReplaysOf
  <1>9. CASE good = {}
    <2>1. i \in FailsFor(el)
      BY <1>1, <1>5, <1>8, <1>9 DEF FailsFor
    <2>2. /\ invalid' = invalid \cup {i} /\ verified' = verified
      BY <1>1, <1>9
    <2>3. invalid' = FailsFor(el) \ todo'
      BY <1>1, <1>5, <2>1, <2>2
    <2>4. \A n \in DOMAIN verified :
            verified[n].index \in Provided \ todo' /\ verified[n].index \notin invalid'
      BY <1>1, <1>5, <2>2
    <2>5. \A j \in Provided \ todo' : j \notin invalid' => Returned(verified, j)
      BY <1>1, <1>5, <2>2
    <2>6. \A j : Returned(verified, j)' <=> Returned(verified, j)
      BY <1>1, <1>3, <2>2 DEF Returned, inputVars
    <2>7. CollectInv'
      BY <1>1, <1>3, <1>5, <1>7, <2>2, <2>3, <2>4, <2>5, <2>6 DEF CollectInv
    <2>8. Types'
      BY <1>1, <2>2 DEF IInv, Types, platformVars, inputVars
    <2> QED
      BY <1>3, <1>4, <2>7, <2>8 DEF IInv
  <1>10. CASE good # {}
    <2> DEFINE m   == Min(good)
               evs == replayPCR(el, pcrs[m]).events
    <2>1. m \in good
      <3>1. good \subseteq Nat
        BY LenProperties DEF ReplaysOf, IInv, Types
      <3> QED
        BY <1>10, <3>1, MinDoes
    <2>2. /\ m \in ReplaysOf(i) /\ m \in DOMAIN pcrs /\ pcrs[m].index = i /\ pcrs[m] \in PCR
          /\ replayPCR(el, pcrs[m]).successful /\ replays[m].events = evs
      BY <1>6, <1>8, <2>1
    <2>3. Replayed(evs, el, pcrs[m])
      BY <1>6, <2>2, ReplayDoes
    <2>4. /\ verified' = verified \o evs /\ invalid' = invalid
      BY <1>1, <1>10, <2>2
    <2> HIDE DEF good, m
    <2>5. /\ evs \in Seq(Event) /\ Ascending(evs) /\ \A a \in DOMAIN evs : evs[a].index = i
          /\ \A a \in DOMAIN evs : evs[a].sequence \in DOMAIN el
                                    /\ Measures(el[evs[a].sequence], i)
      BY <2>2, <2>3 DEF Replayed
    <2>6. \A n \in DOMAIN verified : el[verified[n].sequence].index # i
      <3> SUFFICES ASSUME NEW n \in DOMAIN verified PROVE el[verified[n].sequence].index # i
        OBVIOUS
      <3> DEFINE j == verified[n].index
      <3>1. j # i /\ Returned(verified, j)
        BY <1>1, <1>5
      <3>2. PICK k \in ReplaysOf(j) :
              /\ replayPCR(el, pcrs[k]).successful
              /\ OfPCR(verified, j) = {replayPCR(el, pcrs[k]).events[a] :
                                         a \in DOMAIN replayPCR(el, pcrs[k]).events}
        BY <3>1 DEF Returned, Gives, ReplaysOf
      <3>3. k \in DOMAIN pcrs /\ pcrs[k].index = j /\ pcrs[k] \in PCR
        BY <1>6, <3>2 DEF ReplaysOf
      <3>4. Replayed(replayPCR(el, pcrs[k]).events, el, pcrs[k])
        BY <1>6, <3>2, <3>3, ReplayDoes
      <3>5. verified[n] \in OfPCR(verified, j)
        BY DEF OfPCR, PlacesOf
      <3>6. PICK a \in DOMAIN replayPCR(el, pcrs[k]).events :
              verified[n] = replayPCR(el, pcrs[k]).events[a]
        BY <3>2, <3>5
      <3>7. Measures(el[verified[n].sequence], j)
        BY <3>3, <3>4, <3>6 DEF Replayed
      <3> QED
        BY <3>1, <3>7 DEF Measures
    <2> HIDE DEF evs
    <2> DEFINE v == verified
               u == Len(verified)
               z == verified \o evs
    <2>7. v \in Seq(Event) /\ u \in Nat /\ DOMAIN v = 1 .. u
          /\ DOMAIN evs = 1 .. Len(evs) /\ Len(evs) \in Nat
      BY <2>5, LenProperties DEF IInv, Types
    <2>8. /\ z \in Seq(Event) /\ DOMAIN z = 1 .. u + Len(evs)
          /\ \A n \in 1 .. u : z[n] = v[n]
          /\ \A n \in 1 .. Len(evs) : z[u + n] = evs[n]
      BY <2>5, <2>7, ConcatProperties, LenProperties
    <2> HIDE DEF z, u, v
    <2>9. ASSUME NEW n \in DOMAIN z
          PROVE  \/ n \in DOMAIN v /\ z[n] = v[n]
                 \/ n - u \in DOMAIN evs /\ z[n] = evs[n - u]
      <3>1. n \in 1 .. u \/ (n - u \in 1 .. Len(evs) /\ u + (n - u) = n)
        BY <2>7, <2>8
      <3> QED
        BY <2>7, <2>8, <3>1
    <2>10. ASSUME NEW j \in DOMAIN z, NEW k \in DOMAIN z, j # k
           PROVE  z[j].sequence # z[k].sequence
      <3>1. CASE j \in DOMAIN v /\ z[j] = v[j] /\ k \in DOMAIN v /\ z[k] = v[k]
        BY <1>5, <2>10, <3>1 DEF v
      <3>2. CASE j - u \in DOMAIN evs /\ z[j] = evs[j - u] /\ k - u \in DOMAIN evs /\ z[k] = evs[k - u]
        <4>1. j - u < k - u \/ k - u < j - u
          BY <2>7, <2>8, <2>10
        <4>2. evs[j - u].sequence \in Nat /\ evs[k - u].sequence \in Nat
          <5>1. evs[j - u] \in Event /\ evs[k - u] \in Event
            BY <2>5, <2>7, <3>2, ElementOfSeq
          <5> QED
            BY <5>1 DEF Event
        <4> QED
          BY <2>5, <3>2, <4>1, <4>2 DEF Ascending
      <3>3. CASE j \in DOMAIN v /\ z[j] = v[j] /\ k - u \in DOMAIN evs /\ z[k] = evs[k - u]
        BY <2>5, <2>6, <3>3 DEF Measures, v
      <3>4. CASE j - u \in DOMAIN evs /\ z[j] = evs[j - u] /\ k \in DOMAIN v /\ z[k] = v[k]
        BY <2>5, <2>6, <3>4 DEF Measures, v
      <3> QED
        BY <2>9, <3>1, <3>2, <3>3, <3>4
    <2>11. ASSUME NEW j \in Provided, j # i PROVE OfPCR(z, j) = OfPCR(v, j)
      <3>1. ASSUME NEW n \in DOMAIN z, z[n].index = j PROVE n \in DOMAIN v /\ z[n] = v[n]
        BY <2>5, <2>9, <2>11, <3>1
      <3>2. ASSUME NEW n \in DOMAIN v PROVE n \in DOMAIN z /\ z[n] = v[n]
        BY <2>7, <2>8
      <3> QED
        BY <3>1, <3>2 DEF OfPCR, PlacesOf
    <2>12. OfPCR(z, i) = {evs[a] : a \in DOMAIN evs}
      <3>1. \A n \in DOMAIN v : v[n].index # i
        BY <1>1, <1>5 DEF v
      <3>2. ASSUME NEW n \in DOMAIN z, z[n].index = i PROVE \E a \in DOMAIN evs : z[n] = evs[a]
        BY <2>9, <3>1, <3>2
      <3>3. ASSUME NEW a \in DOMAIN evs
            PROVE  u + a \in DOMAIN z /\ z[u + a] = evs[a] /\ z[u + a].index = i
        BY <2>5, <2>7, <2>8
      <3> QED
        BY <3>2, <3>3 DEF OfPCR, PlacesOf
    <2>13. Returned(z, i)
      BY <2>2, <2>12 DEF Returned, Gives, evs
    <2>14. ASSUME NEW j \in Provided \ todo', j \notin invalid' PROVE Returned(z, j)
      <3>1. CASE j = i
        BY <2>13, <3>1
      <3>2. CASE j # i
        <4>1. Returned(v, j) /\ OfPCR(z, j) = OfPCR(v, j)
          BY <1>1, <1>5, <2>4, <2>11, <2>14, <3>2 DEF v
        <4> QED
          BY <4>1 DEF Returned, Gives
      <3> QED
        BY <3>1, <3>2
    <2>15. verified' = z
      BY <2>4 DEF z
    <2>16. i \notin FailsFor(el) /\ i \in Provided
      BY <1>1, <1>5, <2>2 DEF FailsFor
    <2>17. invalid' = FailsFor(el) \ todo'
      BY <1>1, <1>5, <2>4, <2>16
    <2>18. \A n \in DOMAIN z : z[n].index \in Provided \ todo' /\ z[n].index \notin invalid'
      <3> SUFFICES ASSUME NEW n \in DOMAIN z
                   PROVE  z[n].index \in Provided \ todo' /\ z[n].index \notin invalid'
        OBVIOUS
      <3>1. CASE n \in DOMAIN v /\ z[n] = v[n]
        BY <1>1, <1>5, <2>4, <3>1 DEF v
      <3>2. CASE n - u \in DOMAIN evs /\ z[n] = evs[n - u]
        BY <1>1, <2>5, <2>16, <2>17, <3>2
      <3> QED
        BY <2>9, <3>1, <3>2
    <2>19. \A j : Returned(verified, j)' <=> Returned(z, j)
      BY <1>1, <1>3, <2>15 DEF Returned, inputVars
    <2>20. CollectInv'
      BY <1>1, <1>3, <1>5, <1>7, <2>10, <2>14, <2>15, <2>17, <2>18, <2>19 DEF CollectInv
    <2>21. Types'
      BY <1>1, <2>8, <2>15 DEF IInv, Types, platformVars, inputVars
    <2> QED
      BY <1>3, <1>4, <2>20, <2>21 DEF IInv
  <1> QED
    BY <1>9, <1>10

\* replayEvents returns the events in the order of the log, or the registers for
\* which the log it replayed fails.
LEMMA CollectedStep ==
  ASSUME IInv, Collected
  PROVE  IInv'
  <1>1. /\ pc = "collect" /\ todo = {} /\ wkrd' = wkrd /\ el' = el
        /\ pc' = (IF invalid = {} THEN "done" ELSE "workaround")
        /\ rErr' = (IF invalid # {} /\ wkrd = 0 THEN invalid ELSE rErr)
        /\ verified' = verified
        /\ invalid = {} => events' \in SortBySequence(verified)
        /\ invalid # {} => events' = << >>
        /\ UNCHANGED <<platformVars, inputVars>>
    BY DEF Collected, replayVars
  <1>2. CallStep
    BY <1>1 DEF CallStep
  <1>3. /\ CallInv' /\ HonestInv'
        /\ Provided' = Provided
        /\ FailsFor(el)' = FailsFor(el)
        /\ FailsFor(rawEvents)' = FailsFor(rawEvents)
        /\ \A w : FailsFor(LogWith(w))' = FailsFor(LogWith(w))
    BY <1>1, <1>2, CallKept
  <1>4. CollectInv'
    BY <1>1 DEF CollectInv
  <1>5. /\ invalid = FailsFor(el)
        /\ \A n \in DOMAIN verified : verified[n].index \in Provided
        /\ \A j, k \in DOMAIN verified : j # k => verified[j].sequence # verified[k].sequence
        /\ \A i \in Provided : i \notin invalid => Returned(verified, i)
    BY <1>1 DEF IInv, CollectInv
  <1>6. Types /\ verified \in Seq(Event) /\ wkrd \in Nat /\ el = LogWith(wkrd)
    BY <1>1 DEF IInv, CallInv, Types
  <1>7. CASE invalid = {}
    <2>1. /\ events' \in Seq(Event) /\ Ascending(events')
          /\ \A i : OfPCR(events', i) = OfPCR(verified, i)
          /\ {events'[k] : k \in DOMAIN events'} = {verified[k] : k \in DOMAIN verified}
      BY <1>1, <1>5, <1>6, <1>7, SortDoes
    <2>2. \A k \in DOMAIN events' : events'[k].index \in Provided
      BY <1>5, <2>1
    <2>3. ASSUME NEW i \in Provided PROVE Returned(events, i)'
      <3>1. Gives(el, pcrs, verified, i)
        BY <1>5, <1>7 DEF Returned
      <3>2. Gives(el, pcrs, events', i)
        BY <2>1, <3>1 DEF Gives
      <3> QED
        BY <1>1, <3>2 DEF Returned, inputVars
    <2>4. DoneInv'
      <3>1. Ascending(events)'
        BY <2>1 DEF Ascending
      <3> QED
        BY <1>3, <2>2, <2>3, <3>1 DEF DoneInv
    <2>5. TriedInv'
      BY <1>1, <1>3, <1>7 DEF IInv, TriedInv
    <2>6. Types'
      BY <1>1, <1>7, <2>1 DEF IInv, Types, platformVars, inputVars
    <2> QED
      BY <1>3, <1>4, <2>4, <2>5, <2>6 DEF IInv
  <1>8. CASE invalid # {}
    <2>1. pc' = "workaround" /\ events' = << >>
      BY <1>1, <1>8
    <2>2. DoneInv'
      BY <2>1 DEF DoneInv
    <2>3. Types'
      BY <1>1, <2>1 DEF IInv, Types, platformVars, inputVars
    <2>4. \A w \in 0 .. wkrd : FailsFor(LogWith(w)) # {}
      <3> SUFFICES ASSUME NEW w \in 0 .. wkrd PROVE FailsFor(LogWith(w)) # {}
        OBVIOUS
      <3>1. CASE w = wkrd
        BY <1>5, <1>6, <1>8, <3>1
      <3>2. CASE w # wkrd
        <4>1. w \in 0 .. wkrd - 1
          BY <1>6, <3>2
        <4> QED
          BY <1>1, <4>1 DEF IInv, TriedInv
      <3> QED
        BY <3>1, <3>2
    <2>5. rErr' = FailsFor(rawEvents)
      <3>1. CASE wkrd = 0
        BY <1>1, <1>5, <1>6, <1>8, <3>1 DEF LogWith
      <3>2. CASE wkrd # 0
        BY <1>1, <3>2 DEF IInv, TriedInv
      <3> QED
        BY <3>1, <3>2
    <2>6. TriedInv'
      <3>1. wkrd # 0 => WorkaroundPCR \in rErr'
        BY <1>1 DEF IInv, TriedInv
      <3> QED
        BY <1>1, <1>3, <2>1, <2>4, <2>5, <3>1 DEF TriedInv
    <2> QED
      BY <1>3, <1>4, <2>2, <2>3, <2>6 DEF IInv
  <1> QED
    BY <1>7, <1>8

\* A register that fails was given, and the log has events.
LEMMA FailureHasEvents ==
  ASSUME NEW i, i \in FailsFor(rawEvents)
  PROVE  rawEvents # << >> /\ \E k \in DOMAIN pcrs : pcrs[k].index = i
  <1>1. PICK k \in DOMAIN pcrs : pcrs[k].index = i
    BY DEF FailsFor, Provided, ToSet
  <1>2. ~replayPCR(rawEvents, pcrs[k]).successful
    BY <1>1 DEF FailsFor, ReplaysOf
  <1> QED
    BY <1>1, <1>2, EmptyReplays

\* The next workaround is tried on the parsed log.
LEMMA WorkaroundStep ==
  ASSUME IInv, Workaround
  PROVE  IInv'
  <1>1. /\ pc = "workaround" /\ WorkaroundPCR \in rErr /\ wkrd < Len(Workarounds)
        /\ wkrd' = wkrd + 1 /\ pc' = "replay" /\ el' = apply(rawEvents, wkrd')
        /\ verified' = << >> /\ invalid' = {} /\ rErr' = rErr /\ events' = events
        /\ UNCHANGED <<platformVars, inputVars>>
    BY DEF Workaround, StartReplay
  <1>2. CallStep
    BY <1>1 DEF CallStep
  <1>3. /\ \A w : LogWith(w)' = LogWith(w)
        /\ \A l : FailsFor(l)' = FailsFor(l)
    BY <1>1, SameCall DEF inputVars
  <1>4. /\ Types /\ wkrd \in Nat /\ Len(Workarounds) \in Nat /\ wkrd' \in Nat /\ wkrd' # 0
    BY <1>1, LogAssumption, LenProperties DEF IInv, Types
  <1>5. Types'
    <2>1. wkrd' \in 0 .. Len(Workarounds) /\ verified' \in Seq(Event)
      BY <1>1, <1>4
    <2> QED
      BY <1>1, <1>4, <2>1 DEF Types, platformVars, inputVars
  <1>6. rErr = FailsFor(rawEvents) /\ \A w \in 0 .. wkrd : FailsFor(LogWith(w)) # {}
    BY <1>1 DEF IInv, TriedInv
  <1>7. CallInv'
    <2>1. rawEvents # << >>
      BY <1>1, <1>6, FailureHasEvents
    <2>2. LogWith(wkrd)' = apply(rawEvents, wkrd')
      <3>1. algs' = algs /\ rawEvents' = rawEvents
        BY <1>1 DEF inputVars
      <3> QED
        BY <1>4, <3>1 DEF LogWith, apply, inject, Digests
    <2>3. Numbered(rawEvents)'
      BY <1>1 DEF IInv, CallInv, Numbered, inputVars
    <2>4. \A k \in DOMAIN pcrs' : (pcrs[k] = Register(pcrs[k].alg, pcrs[k].index))'
      BY <1>1 DEF IInv, CallInv, Register, inputVars, platformVars
    <2> QED
      BY <1>1, <2>1, <2>2, <2>3, <2>4 DEF CallInv, inputVars
  <1>8. TriedInv'
    <2>1. \A w : FailsFor(LogWith(w))' = FailsFor(LogWith(w))
      BY <1>3 DEF FailsFor
    <2>2. FailsFor(rawEvents)' = FailsFor(rawEvents)
      BY <1>1, <1>3 DEF FailsFor, inputVars
    <2>3. wkrd' - 1 = wkrd
      BY <1>1, <1>4
    <2> QED
      BY <1>1, <1>6, <2>1, <2>2, <2>3 DEF TriedInv
  <1>9. CollectInv' /\ DoneInv'
    BY <1>1 DEF CollectInv, DoneInv
  <1> QED
    BY <1>2, <1>5, <1>7, <1>8, <1>9, HonestKept DEF IInv

\* No workaround is left.
LEMMA VerifyFailsStep ==
  ASSUME IInv, VerifyFails
  PROVE  IInv'
  <1>1. /\ pc = "workaround" /\ pc' = "failed" /\ wkrd' = wkrd /\ el' = el
        /\ rErr' = rErr /\ verified' = verified /\ events' = events
        /\ WorkaroundPCR \notin rErr \/ wkrd = Len(Workarounds)
        /\ UNCHANGED <<platformVars, inputVars>>
    BY DEF VerifyFails, replayVars
  <1>2. CallStep
    BY <1>1 DEF CallStep
  <1>3. /\ CallInv' /\ HonestInv'
        /\ FailsFor(rawEvents)' = FailsFor(rawEvents)
        /\ \A w : FailsFor(LogWith(w))' = FailsFor(LogWith(w))
    BY <1>1, <1>2, CallKept
  <1>4. TriedInv'
    BY <1>1, <1>3 DEF IInv, TriedInv
  <1>5. Types'
    BY <1>1 DEF IInv, Types, platformVars, inputVars
  <1>6. CollectInv' /\ DoneInv'
    BY <1>1 DEF CollectInv, DoneInv
  <1> QED
    BY <1>3, <1>4, <1>5, <1>6 DEF IInv

\* A step that changes nothing.
LEMMA StutterStep ==
  ASSUME IInv, UNCHANGED vars
  PROVE  IInv'
  <1>1. /\ UNCHANGED <<platformVars, inputVars>> /\ pc' = pc /\ wkrd' = wkrd /\ el' = el
        /\ rErr' = rErr /\ verified' = verified /\ events' = events /\ replays' = replays
        /\ todo' = todo /\ invalid' = invalid
    BY DEF vars, replayVars
  <1>2. CASE pc = "boot"
    <2>1. Types'
      BY <1>1 DEF IInv, Types, platformVars, inputVars
    <2>2. HonestInv'
      <3> SUFFICES ASSUME ~tampered, NEW b \in ToSet(algs), NEW i \in PCRIndex,
                          Intact(Register(b, i))'
                   PROVE  Accounted(ParseEventLog(log), Register(b, i))'
        BY <1>1, <1>2 DEF HonestInv, ToSet, platformVars, inputVars
      <3>1. Register(b, i)' = Register(b, i) /\ ParseEventLog(log)' = ParseEventLog(log)
            /\ forgotten' = forgotten /\ algs' = algs
        BY <1>1 DEF Register, ParseEventLog, platformVars, inputVars
      <3>2. Intact(Register(b, i))
        BY <3>1 DEF Intact, ToSet
      <3>3. Accounted(ParseEventLog(log), Register(b, i))
        BY <1>2, <3>2 DEF IInv, HonestInv
      <3> QED
        BY <3>1, <3>3 DEF Accounted
    <2> QED
      BY <1>1, <1>2, <2>1, <2>2, BootKeeps DEF IInv
  <1>3. CASE pc # "boot"
    <2>1. CallStep
      BY <1>1, <1>3 DEF CallStep
    <2>2. /\ CallInv' /\ HonestInv'
          /\ Provided' = Provided
          /\ FailsFor(el)' = FailsFor(el)
          /\ FailsFor(rawEvents)' = FailsFor(rawEvents)
          /\ \A w : FailsFor(LogWith(w))' = FailsFor(LogWith(w))
      BY <1>1, <2>1, CallKept
    <2>3. Types'
      BY <1>1 DEF IInv, Types, platformVars, inputVars
    <2>4. TriedInv'
      BY <1>1, <2>2 DEF IInv, TriedInv
    <2>5. /\ \A i : Returned(verified, i)' <=> Returned(verified, i)
          /\ \A i : Returned(events, i)' <=> Returned(events, i)
      BY <1>1 DEF Returned, inputVars
    <2>6. CollectInv'
      BY <1>1, <2>2, <2>5 DEF IInv, CollectInv, inputVars
    <2>7. DoneInv'
      BY <1>1, <2>2, <2>5 DEF IInv, DoneInv, Ascending
    <2> QED
      BY <2>2, <2>3, <2>4, <2>6, <2>7 DEF IInv
  <1> QED
    BY <1>2, <1>3

\* The invariant holds in every state.
LEMMA Invariance == Spec => []IInv
  <1>1. ASSUME IInv, [Next]_vars PROVE IInv'
    <2>1. ASSUME NEW m \in Measurements, NEW bad \in Bugs, Measure(m[1], m[2], bad) PROVE IInv'
      <3>1. m[1] \in PCRIndex /\ m[2] \in Digest
        BY LogAssumption
      <3> QED
        BY <1>1, <2>1, <3>1, MeasureStep
    <2>2. ASSUME NEW d \in Digest, Forget(d) PROVE IInv'
      BY <1>1, <2>2, ForgetStep
    <2>3. ASSUME NEW i \in PCRIndex, Inform(i) PROVE IInv'
      BY <1>1, <2>3, InformStep
    <2>4. CASE Tamper
      BY <1>1, <2>4, TamperStep
    <2>5. ASSUME NEW sel \in Selections, Verify(sel) PROVE IInv'
      BY <1>1, <2>5, VerifyStep
    <2>6. CASE Replay
      BY <1>1, <2>6, ReplayStep
    <2>7. ASSUME NEW i \in PCRIndex, Collect(i) PROVE IInv'
      BY <1>1, <2>7, CollectStep
    <2>8. CASE Collected
      BY <1>1, <2>8, CollectedStep
    <2>9. CASE Workaround
      BY <1>1, <2>9, WorkaroundStep
    <2>10. CASE VerifyFails
      BY <1>1, <2>10, VerifyFailsStep
    <2>11. CASE UNCHANGED vars
      BY <1>1, <2>11, StutterStep
    <2> QED
      BY <1>1, <2>1, <2>2, <2>3, <2>4, <2>5, <2>6, <2>7, <2>8, <2>9, <2>10, <2>11
         DEF Next, Platform, VerifyCall
  <1> QED
    BY <1>1, InitIInv, PTL DEF Spec

-----------------------------------------------------------------------------
(***************************************************************************)
(* The theorems.                                                           *)
(***************************************************************************)

\* inject reads the last event of the log, and there is one: a register that
\* fails to replay has events, and the log without any replays for every
\* register (inject in eventlog_workarounds.go indexes the slice unchecked).
THEOREM InjectIsSafe == Spec => []InjectHasEvent
  <1>1. IInv => InjectHasEvent
    <2> SUFFICES ASSUME IInv, pc = "workaround", WorkaroundPCR \in rErr PROVE rawEvents # << >>
      BY DEF InjectHasEvent
    <2>1. rErr = FailsFor(rawEvents)
      BY DEF IInv, TriedInv
    <2> QED
      BY <2>1, FailureHasEvents
  <1> QED
    BY <1>1, Invariance, PTL

\* The events that Verify returns for a register are those of one replay of it.
LEMMA ReturnedEvents ==
  ASSUME IInv, pc = "done", NEW i \in Provided
  PROVE  \E k, blk :
           /\ k \in DOMAIN pcrs /\ pcrs[k].index = i /\ pcrs[k] \in PCR
           /\ Replayed(blk, el, pcrs[k])
           /\ OfPCR(events, i) = {blk[a] : a \in DOMAIN blk}
  <1>1. Gives(el, pcrs, events, i)
    BY DEF IInv, DoneInv, Returned
  <1>2. PICK k \in DOMAIN pcrs :
          LET rp == replayPCR(el, pcrs[k])
          IN  /\ pcrs[k].index = i
              /\ rp.successful
              /\ OfPCR(events, i) = {rp.events[a] : a \in DOMAIN rp.events}
    BY <1>1 DEF Gives
  <1>3. el \in Seq(RawEvent) /\ Numbered(el) /\ pcrs[k] \in PCR
    BY <1>2, ReplayedLog
  <1> DEFINE blk == replayPCR(el, pcrs[k]).events
  <1>4. Replayed(blk, el, pcrs[k])
    BY <1>2, <1>3, ReplayDoes
  <1>5. k \in DOMAIN pcrs /\ pcrs[k].index = i /\ OfPCR(events, i) = {blk[a] : a \in DOMAIN blk}
    BY <1>2
  <1> HIDE DEF blk
  <1> WITNESS k, blk
  <1> QED
    BY <1>3, <1>4, <1>5

\* What Verify returns for a register is what one bank of the TPM was extended
\* with, all of it and in that order, for any log and any workarounds.
THEOREM VerifiedIsAuthentic == Spec => []VerifiedAuthentic
  <1>1. IInv => VerifiedAuthentic
    <2> SUFFICES ASSUME IInv, pc = "done", NEW i \in PCRIndex, EventsOf(i) # {}
                 PROVE  \E b \in Bank :
                          /\ Len(bank[b][i]) = Cardinality(EventsOf(i)) + 1
                          /\ \A k \in EventsOf(i) :
                               events[k].digest
                                 = bank[b][i][Cardinality({j \in EventsOf(i) : j <= k}) + 1]
      BY DEF VerifiedAuthentic
    <2> DEFINE P == PlacesOf(events, i)
    <2>1. EventsOf(i) = P
      BY DEF EventsOf, PlacesOf
    <2>2. i \in Provided /\ events \in Seq(Event) /\ Ascending(events)
      BY <2>1 DEF IInv, Types, DoneInv, PlacesOf
    <2>3. PICK n, blk :
            /\ n \in DOMAIN pcrs /\ pcrs[n].index = i /\ pcrs[n] \in PCR
            /\ Replayed(blk, el, pcrs[n])
            /\ OfPCR(events, i) = {blk[a] : a \in DOMAIN blk}
      BY <2>2, ReturnedEvents
    <2> DEFINE b == pcrs[n].alg
    <2>4. b \in Bank /\ pcrs[n].digest = bank[b][i]
      <3>1. pcrs[n] = Register(b, i)
        BY <2>3 DEF IInv, CallInv
      <3> QED
        BY <2>3, <3>1 DEF PCR, Register
    <2>5. blk \in Seq(Event) /\ Ascending(blk) /\ DOMAIN blk # {}
      <3>1. OfPCR(events, i) # {}
        BY <2>1 DEF OfPCR
      <3> QED
        BY <2>3, <3>1 DEF Replayed
    <2>6. /\ Len(bank[b][i]) = Len(blk) + 1
          /\ \A a \in DOMAIN blk : bank[b][i][a + 1] = blk[a].digest
      <3>1. blk # << >>
        BY <2>5
      <3> QED
        BY <2>3, <2>4, <3>1 DEF Replayed
    <2>7. /\ Cardinality(P) = Len(blk)
          /\ \A k \in P : LET rp == Cardinality({j \in P : j <= k})
                          IN  rp \in DOMAIN blk /\ events[k] = blk[rp]
      BY <2>2, <2>3, <2>5, SameEvents
    <2> HIDE DEF P, b
    <2>8. \A k \in P : events[k].digest = bank[b][i][Cardinality({j \in P : j <= k}) + 1]
      BY <2>6, <2>7
    <2> QED
      BY <2>1, <2>4, <2>6, <2>7, <2>8
  <1> QED
    BY <1>1, Invariance, PTL

\* Verify returns every measurement of the registers it was given, of the log or
\* of the log with one workaround, in the order of the log.
THEOREM VerifiedInOrder == Spec => []InLogOrder
  <1>1. IInv => InLogOrder
    <2> SUFFICES ASSUME IInv, pc = "done" PROVE InLogOrder
      BY DEF InLogOrder
    <2>1. el \in Seq(RawEvent) /\ Numbered(el) /\ DOMAIN el = 1 .. Len(el)
      BY ReplayedLog, LenProperties
    <2>2. \A j, k \in DOMAIN events : j < k => events[j].sequence < events[k].sequence
      BY DEF IInv, DoneInv, Ascending
    <2>3. ASSUME NEW k \in DOMAIN events
          PROVE  /\ events[k].sequence \in Wanted
                 /\ events[k].index = el[events[k].sequence].index
      <3> DEFINE i == events[k].index
      <3>1. i \in Provided
        BY DEF IInv, DoneInv
      <3>2. PICK n, blk :
              /\ n \in DOMAIN pcrs /\ pcrs[n].index = i /\ pcrs[n] \in PCR
              /\ Replayed(blk, el, pcrs[n])
              /\ OfPCR(events, i) = {blk[a] : a \in DOMAIN blk}
        BY <3>1, ReturnedEvents
      <3>3. events[k] \in OfPCR(events, i)
        BY DEF OfPCR, PlacesOf
      <3>4. PICK a \in DOMAIN blk : events[k] = blk[a]
        BY <3>2, <3>3
      <3>5. events[k].sequence \in DOMAIN el /\ Measures(el[events[k].sequence], i)
        BY <3>2, <3>4 DEF Replayed
      <3> QED
        BY <3>1, <3>5 DEF Wanted, Measures
    <2>4. ASSUME NEW k \in Wanted
          PROVE  \E n \in DOMAIN events : events[n].sequence = k /\ events[n].index = el[k].index
      <3> DEFINE i == el[k].index
      <3>1. k \in DOMAIN el /\ i \in Provided /\ Measures(el[k], i)
        BY DEF Wanted, Measures
      <3>2. PICK n, blk :
              /\ n \in DOMAIN pcrs /\ pcrs[n].index = i /\ pcrs[n] \in PCR
              /\ Replayed(blk, el, pcrs[n])
              /\ OfPCR(events, i) = {blk[a] : a \in DOMAIN blk}
        BY <3>1, ReturnedEvents
      <3>3. PICK a \in DOMAIN blk : blk[a].sequence = k
        BY <3>1, <3>2 DEF Replayed
      <3>4. blk[a] \in OfPCR(events, i)
        BY <3>2
      <3>5. PICK m \in DOMAIN events : events[m].index = i /\ events[m] = blk[a]
        BY <3>4 DEF OfPCR, PlacesOf
      <3> QED
        BY <3>3, <3>5
    <2>5. {<<events[k].sequence, events[k].index>> : k \in DOMAIN events}
            = {<<k, el[k].index>> : k \in Wanted}
      BY <2>3, <2>4
    <2>6. /\ IsPrefix(rawEvents, el)
          /\ Len(el) = Len(rawEvents) + IF wkrd = 0 THEN 0 ELSE Len(Workarounds[wkrd])
      <3>1. /\ Types /\ Numbered(rawEvents) /\ (wkrd # 0 => rawEvents # << >>) /\ el = LogWith(wkrd)
            /\ rawEvents \in Seq(RawEvent)
        BY DEF IInv, CallInv, Types
      <3>2. Len(rawEvents) \in Nat
        BY <3>1, LenProperties
      <3>3. CASE wkrd = 0
        BY <3>1, <3>2, <3>3 DEF LogWith, IsPrefix
      <3>4. CASE wkrd # 0
        <4>1. Parsed(rawEvents)
          BY <3>1, <3>4 DEF Parsed
        <4>2. wkrd \in DOMAIN Workarounds
          <5>1. DOMAIN Workarounds = 1 .. Len(Workarounds) /\ Len(Workarounds) \in Nat
            BY LogAssumption, LenProperties
          <5> QED
            BY <3>1, <3>4, <5>1 DEF Types
        <4>3. /\ Len(el) = Len(rawEvents) + Len(Workarounds[wkrd])
              /\ \A k \in 1 .. Len(rawEvents) : el[k] = rawEvents[k]
          BY <3>1, <3>4, <4>1, <4>2, ApplyContinues DEF Continues, LogWith, Types
        <4>4. Len(Workarounds[wkrd]) \in Nat
          BY <4>2, LogAssumption, ElementOfSeq, LenProperties
        <4>5. Len(rawEvents) <= Len(el)
          BY <3>2, <4>3, <4>4
        <4>6. SubSeq(rawEvents, 1, Len(rawEvents)) = SubSeq(el, 1, Len(rawEvents))
          BY <2>1, <3>1, <3>2, <4>3, <4>5
        <4> QED
          BY <3>4, <4>3, <4>5, <4>6 DEF IsPrefix
      <3> QED
        BY <3>3, <3>4
    <2> QED
      BY <2>2, <2>5, <2>6 DEF InLogOrder
  <1> QED
    BY <1>1, Invariance, PTL

\* A log that the platform wrote, that lacks at most what one workaround adds,
\* is rejected only if some register given has no bank that the log accounts for.
THEOREM HonestLogsVerify == Spec => []HonestLogVerifies
  <1>1. IInv => HonestLogVerifies
    <2> SUFFICES ASSUME IInv, pc = "failed", ~tampered,
                        forgotten = << >> \/ forgotten \in ToSet(Workarounds)
                 PROVE  \E i \in Provided : \A p \in ToSet(pcrs) : p.index = i => ~Intact(p)
      BY DEF HonestLogVerifies
    <2> DEFINE Mine(i) == IF i = WorkaroundPCR THEN forgotten ELSE << >>
    <2>1. /\ Types /\ Numbered(rawEvents) /\ rawEvents \in Seq(RawEvent) /\ algs \in Seq(Bank)
          /\ forgotten \in Seq(Digest) /\ (wkrd # 0 => rawEvents # << >>)
      BY DEF IInv, CallInv, Types
    <2>2. /\ rErr = FailsFor(rawEvents) /\ wkrd \in 0 .. Len(Workarounds)
          /\ \A w \in 0 .. wkrd : FailsFor(LogWith(w)) # {}
          /\ WorkaroundPCR \notin rErr \/ wkrd = Len(Workarounds)
      BY DEF IInv, TriedInv, Types
    <2>3. ASSUME NEW p \in ToSet(pcrs), Intact(p)
          PROVE  /\ p \in PCR /\ p.alg \in ToSet(algs)
                 /\ ReplayLoop(rawEvents, p).ok
                 /\ p.digest = Held(ReplayLoop(rawEvents, p)) \o Mine(p.index)
      <3>1. PICK k \in DOMAIN pcrs : p = pcrs[k]
        BY DEF ToSet
      <3>2. p \in PCR /\ p = Register(p.alg, p.index)
        BY <3>1, ReplayedLog DEF IInv, CallInv
      <3>3. p.alg \in ToSet(algs) /\ p.index \in PCRIndex
        BY <2>3, <3>2 DEF Intact, PCR
      <3>4. Accounted(rawEvents, p)
        BY <2>3, <3>2, <3>3 DEF IInv, HonestInv
      <3> QED
        BY <3>2, <3>3, <3>4 DEF Accounted
    <2>4. ASSUME NEW p \in ToSet(pcrs), NEW l \in Seq(RawEvent), Numbered(l), p \in PCR,
                 ReplayLoop(l, p).ok, p.digest = Held(ReplayLoop(l, p))
          PROVE  replayPCR(l, p).successful
      <3> DEFINE st == ReplayLoop(l, p)
      <3>1. st \in Loop /\ ExtendedSoFar(st)
        BY <2>4, LoopDoes
      <3>2. st.events # << >> => st.replay # << >>
        <4> SUFFICES ASSUME st.events # << >>, st.replay = << >> PROVE FALSE
          OBVIOUS
        <4>1. Len(st.replay) = Len(st.events) + 1 /\ Len(st.replay) = 0 /\ Len(st.events) \in Nat
          BY <3>1, LenProperties DEF ExtendedSoFar, Loop
        <4> QED
          BY <4>1
      <3> HIDE DEF st
      <3>3. st.ok /\ (st.events = << >> \/ st.replay = p.digest)
        BY <2>4, <3>2 DEF Held, st
      <3> QED
        BY <3>3 DEF replayPCR, st
    <2>5. ASSUME NEW l \in Seq(RawEvent), Numbered(l), NEW i \in FailsFor(l),
                 \A p \in ToSet(pcrs) :
                   p.index = i /\ Intact(p) =>
                     ReplayLoop(l, p).ok /\ p.digest = Held(ReplayLoop(l, p))
          PROVE  \E j \in Provided : \A p \in ToSet(pcrs) : p.index = j => ~Intact(p)
      <3>1. i \in Provided
        BY DEF FailsFor
      <3>2. ASSUME NEW p \in ToSet(pcrs), p.index = i, Intact(p) PROVE FALSE
        <4>1. PICK k \in DOMAIN pcrs : p = pcrs[k]
          BY DEF ToSet
        <4>2. ~replayPCR(l, p).successful
          BY <3>2, <4>1 DEF FailsFor, ReplaysOf
        <4>3. p \in PCR
          BY <2>3, <3>2
        <4>4. ReplayLoop(l, p).ok /\ p.digest = Held(ReplayLoop(l, p))
          BY <2>5, <3>2
        <4> QED
          BY <2>4, <2>5, <4>2, <4>3, <4>4
      <3> QED
        BY <3>1, <3>2
    <2>6. \A p \in PCR : Held(ReplayLoop(rawEvents, p)) \o << >> = Held(ReplayLoop(rawEvents, p))
      BY <2>1, LoopDoes, HeldType, ConcatEmptySeq
    <2>7. CASE forgotten = << >> \/ (WorkaroundPCR \notin rErr)
      <3>1. PICK i \in FailsFor(rawEvents) : i # WorkaroundPCR \/ forgotten = << >>
        <4>1. 0 \in 0 .. wkrd
          BY <2>2
        <4>2. FailsFor(LogWith(0)) # {} /\ LogWith(0) = rawEvents
          BY <2>2, <4>1 DEF LogWith
        <4> QED
          BY <2>2, <2>7, <4>2
      <3>2. ASSUME NEW p \in ToSet(pcrs), p.index = i, Intact(p)
            PROVE  ReplayLoop(rawEvents, p).ok /\ p.digest = Held(ReplayLoop(rawEvents, p))
        BY <2>3, <2>6, <3>1, <3>2
      <3> QED
        BY <2>1, <2>5, <3>1, <3>2
    <2>8. CASE forgotten # << >> /\ WorkaroundPCR \in rErr
      <3>1. wkrd = Len(Workarounds) /\ rawEvents # << >>
        BY <2>2, <2>8, FailureHasEvents
      <3>2. PICK w \in DOMAIN Workarounds : Workarounds[w] = forgotten
        BY <2>8 DEF ToSet
      <3>3. w # 0 /\ w \in 0 .. wkrd
        <4>1. DOMAIN Workarounds = 1 .. Len(Workarounds) /\ Len(Workarounds) \in Nat
          BY LogAssumption, LenProperties
        <4> QED
          BY <3>1, <3>2, <4>1
      <3> DEFINE l == apply(rawEvents, w)
      <3>4. LogWith(w) = l /\ Continues(l, rawEvents, forgotten)
        <4>1. Parsed(rawEvents)
          BY <2>1, <3>1 DEF Parsed
        <4> QED
          BY <2>1, <3>2, <3>3, <4>1, ApplyContinues DEF LogWith
      <3> HIDE DEF l
      <3>5. PICK i : i \in FailsFor(l)
        BY <2>2, <3>3, <3>4
      <3>6. l \in Seq(RawEvent) /\ Numbered(l)
        BY <3>4 DEF Continues, Parsed
      <3>7. ASSUME NEW p \in ToSet(pcrs), p.index = i, Intact(p)
            PROVE  ReplayLoop(l, p).ok /\ p.digest = Held(ReplayLoop(l, p))
        <4>1. /\ p \in PCR /\ p.alg \in ToSet(algs) /\ ReplayLoop(rawEvents, p).ok
              /\ p.digest = Held(ReplayLoop(rawEvents, p)) \o Mine(p.index)
          BY <2>3, <3>7
        <4>2. CASE p.index = WorkaroundPCR
          BY <3>4, <4>1, <4>2 DEF Continues
        <4>3. CASE p.index # WorkaroundPCR
          <5>1. ReplayLoop(l, p) = ReplayLoop(rawEvents, p)
            BY <3>4, <4>1, <4>3 DEF Continues
          <5> QED
            BY <2>6, <4>1, <4>3, <5>1
        <4> QED
          BY <4>2, <4>3
      <3> QED
        BY <2>5, <3>5, <3>6, <3>7
    <2> QED
      BY <2>7, <2>8
  <1> QED
    BY <1>1, Invariance, PTL

-----------------------------------------------------------------------------
(***************************************************************************)
(* What Verifier says of a log.                                            *)
(***************************************************************************)

\* Every measurement has a digest, and the same one, for each algorithm.
Uniform(l) ==
  \A k \in DOMAIN l : l[k].typ # "noaction" => \E d \in Digest : l[k].digests = Digests(algs, d)

\* The places among the first n where the log declares a startup locality before
\* the first measurement of the register, and what the register starts from then.
DeclaredTo(l, n) ==
  {k \in 1 .. n : /\ l[k].index = LocalityPCR
                  /\ l[k].locality # NoLocality
                  /\ \A m \in Places(l, LocalityPCR) : k < m}
StartsFrom(l, n, i) ==
  IF i = LocalityPCR /\ DeclaredTo(l, n) # {} THEN l[Max(DeclaredTo(l, n))].locality ELSE 0

\* The loop has not failed, has extended with the digests that Chains takes, and
\* started from the locality declared so far.
ChainedSoFar(st, l, p, n) ==
  /\ st.ok
  /\ \A j \in DOMAIN st.events : st.events[j].digest = l[st.events[j].sequence].digests[1].data
  /\ Held(st)[1] = StartsFrom(l, n, p.index)

\* The greatest element of a set of numbers up to n that has n.
LEMMA MaxDoes ==
  ASSUME NEW n \in Nat, NEW T, T \subseteq 0 .. n, n \in T
  PROVE  Max(T) = n
  <1>1. n \in T /\ \A y \in T : n >= y
    OBVIOUS
  <1>2. Max(T) \in T /\ \A y \in T : Max(T) >= y
    BY <1>1 DEF Max
  <1>3. Max(T) \in 0 .. n /\ Max(T) >= n
    BY <1>2
  <1> QED
    BY <1>3

\* The first digest of a uniform measurement is the one for every algorithm.
LEMMA FirstDigest ==
  ASSUME algs \in Seq(Bank), NEW d \in Digest, NEW e, e.digests = Digests(algs, d),
         NEW p, p.alg \in ToSet(algs)
  PROVE  CanExtend(p, e) /\ DigestFor(p, e) = d /\ e.digests[1].data = d
  <1>1. d \in Data /\ d # ShortDigest
    BY LogAssumption DEF Data
  <1>2. Matching(p, e) # {} /\ DigestFor(p, e) = d
    BY <1>1, DigestsDo
  <1>3. 1 \in DOMAIN algs
    <2>1. Len(algs) \in Nat /\ DOMAIN algs = 1 .. Len(algs) /\ DOMAIN algs # {}
      BY LenProperties DEF ToSet
    <2> QED
      BY <2>1
  <1>4. e.digests[1].data = d
    BY <1>1, <1>3, DigestsType
  <1> QED
    BY <1>1, <1>2, <1>4 DEF CanExtend

\* An event that does not declare a locality leaves the one declared so far.
LEMMA DeclaredSame ==
  ASSUME NEW l, NEW n \in Nat, n + 1 \notin DeclaredTo(l, n + 1)
  PROVE  DeclaredTo(l, n + 1) = DeclaredTo(l, n)
  <1>1. \A k : k \in 1 .. n + 1 <=> k = n + 1 \/ k \in 1 .. n
    OBVIOUS
  <1> QED
    BY <1>1 DEF DeclaredTo

\* An event of a uniform log keeps that.
LEMMA ChainStep ==
  ASSUME algs \in Seq(Bank), NEW l \in Seq(RawEvent), Numbered(l), Uniform(l),
         NEW p \in PCR, p.alg \in ToSet(algs), NEW st \in Loop, NEW n \in Nat, n + 1 \in DOMAIN l,
         MeasuredSoFar(st, l, p, n), ExtendedSoFar(st), ChainedSoFar(st, l, p, n)
  PROVE  ChainedSoFar(ReplayEvent(p, st, l[n + 1]), l, p, n + 1)
  <1> DEFINE e  == l[n + 1]
             nx == ReplayEvent(p, st, e)
  <1>1. e \in RawEvent /\ e.sequence = n + 1 /\ DOMAIN l = 1 .. Len(l) /\ Len(l) \in Nat
    BY ElementOfSeq, LenProperties DEF Numbered
  <1>2. /\ st.ok /\ Held(st)[1] = StartsFrom(l, n, p.index)
        /\ \A j \in DOMAIN st.events : st.events[j].digest = l[st.events[j].sequence].digests[1].data
    BY DEF ChainedSoFar
  <1>3. CASE Measures(e, p.index)
    <2> DEFINE d  == DigestFor(p, e)
               ev == [sequence |-> e.sequence, index |-> p.index, digest |-> d]
    <2>1. CanExtend(p, e) /\ d = e.digests[1].data
      <3>1. PICK c \in Digest : e.digests = Digests(algs, c)
        BY <1>3 DEF Uniform, Measures
      <3> QED
        BY <3>1, FirstDigest
    <2>2. /\ nx.ok /\ nx.events = Append(st.events, ev) /\ ev \in Event
          /\ nx.replay = Append(Held(st), d) /\ nx \in Loop
      BY <1>1, <1>2, <1>3, <2>1, ExtendDoes DEF Held
    <2>3. ev.sequence = n + 1 /\ ev.digest = l[n + 1].digests[1].data /\ d \in Value
      BY <1>1, <2>1, <2>2 DEF Event, Value
    <2> HIDE DEF nx, d, ev, e
    <2>4. \A j \in DOMAIN nx.events : nx.events[j].digest = l[nx.events[j].sequence].digests[1].data
      <3>1. /\ DOMAIN nx.events = 1 .. Len(st.events) + 1 /\ Len(st.events) \in Nat
            /\ DOMAIN st.events = 1 .. Len(st.events)
            /\ nx.events[Len(st.events) + 1] = ev
            /\ \A k \in 1 .. Len(st.events) : nx.events[k] = st.events[k]
        BY <2>2, AppendPlaces DEF Loop
      <3>2. \A j \in 1 .. Len(st.events) + 1 : j = Len(st.events) + 1 \/ j \in 1 .. Len(st.events)
        BY <3>1
      <3> QED
        BY <1>2, <2>3, <3>1, <3>2
    <2>5. Held(nx)[1] = Held(st)[1]
      <3>1. Held(st) \in Seq(Value)
        BY HeldType
      <3>2. Held(st) # << >>
        <4>1. <<st.locality>> # << >>
          OBVIOUS
        <4> QED
          BY <4>1 DEF Held
      <3>3. Len(Held(st)) \in Nat /\ Len(Held(st)) # 0 /\ 1 \in 1 .. Len(Held(st))
        BY <3>1, <3>2, EmptySeq, LenProperties
      <3>4. Append(Held(st), d)[1] = Held(st)[1] /\ Append(Held(st), d) # << >>
        BY <2>3, <3>1, <3>3, AppendPlaces, AppendNotEmpty
      <3> QED
        BY <2>2, <3>4 DEF Held
    <2>6. StartsFrom(l, n + 1, p.index) = StartsFrom(l, n, p.index)
      <3>1. CASE p.index = LocalityPCR
        <4>1. n + 1 \in Places(l, LocalityPCR)
          BY <1>3, <3>1 DEF Places, Measures, e
        <4>2. n + 1 \notin DeclaredTo(l, n + 1)
          BY <4>1 DEF DeclaredTo
        <4> QED
          BY <4>2, DeclaredSame DEF StartsFrom
      <3> QED
        BY <3>1 DEF StartsFrom
    <2> QED
      BY <1>2, <2>2, <2>4, <2>5, <2>6 DEF ChainedSoFar, nx, e
  <1>4. CASE ~Measures(e, p.index)
    <2>1. /\ nx \in Loop /\ nx.events = st.events /\ nx.replay = st.replay
      BY <1>1, <1>4, SkipDoes
    <2> DEFINE declares == e.index = p.index /\ p.index = LocalityPCR /\ e.locality # NoLocality
    <2>2. /\ nx.ok
          /\ nx.locality = IF declares THEN e.locality ELSE st.locality
      <3>1. CASE e.index # p.index
        BY <1>2, <3>1 DEF ReplayEvent
      <3>2. CASE e.index = p.index
        <4>1. e.typ = "noaction"
          BY <1>4, <3>2 DEF Measures
        <4>2. CASE declares
          <5>1. nx = [st EXCEPT !.locality = e.locality]
            BY <1>2, <4>1, <4>2 DEF ReplayEvent
          <5> QED
            BY <1>2, <4>2, <5>1 DEF Loop
        <4>3. CASE ~declares
          <5>1. nx = st
            BY <1>2, <3>2, <4>1, <4>3 DEF ReplayEvent
          <5> QED
            BY <1>2, <4>3, <5>1
        <4> QED
          BY <4>2, <4>3
      <3> QED
        BY <3>1, <3>2
    <2> HIDE DEF nx
    <2>3. Held(nx)[1] = StartsFrom(l, n + 1, p.index)
      <3>1. CASE st.replay # << >>
        <4>1. Held(nx)[1] = Held(st)[1]
          BY <2>1, <3>1 DEF Held
        <4>2. CASE p.index = LocalityPCR
          <5>1. st.events # << >> /\ 1 \in DOMAIN st.events
            <6>1. st.events # << >> /\ st.events \in Seq(Event)
              BY <3>1 DEF ExtendedSoFar, Loop
            <6> QED
              BY <6>1, LenProperties, EmptySeq
          <5> DEFINE m == st.events[1].sequence
          <5>2. m \in 1 .. n /\ Measures(l[m], p.index)
            BY <5>1 DEF MeasuredSoFar
          <5>3. m \in Places(l, LocalityPCR) /\ ~(n + 1 < m)
            BY <1>1, <4>2, <5>2 DEF Places, Measures
          <5>4. n + 1 \notin DeclaredTo(l, n + 1)
            BY <5>3 DEF DeclaredTo
          <5> QED
            BY <1>2, <4>1, <5>4, DeclaredSame DEF StartsFrom
        <4> QED
          BY <1>2, <4>1, <4>2 DEF StartsFrom
      <3>2. CASE st.replay = << >>
        <4>1. Held(nx)[1] = nx.locality /\ Held(st)[1] = st.locality
          BY <2>1, <3>2 DEF Held
        <4>2. CASE ~declares
          <5>1. CASE p.index = LocalityPCR
            <6>1. n + 1 \notin DeclaredTo(l, n + 1)
              BY <4>2, <5>1 DEF DeclaredTo
            <6> QED
              BY <1>2, <2>2, <4>1, <4>2, <6>1, DeclaredSame DEF StartsFrom
          <5> QED
            BY <1>2, <2>2, <4>1, <4>2, <5>1 DEF StartsFrom
        <4>3. CASE declares
          <5>1. \A m \in Places(l, LocalityPCR) : n + 1 < m
            <6> SUFFICES ASSUME NEW m \in Places(l, LocalityPCR) PROVE n + 1 < m
              OBVIOUS
            <6>1. m \in 1 .. Len(l) /\ Measures(l[m], p.index)
              BY <1>1, <4>3 DEF Places, Measures
            <6>2. m # n + 1
              BY <1>4, <6>1
            <6>3. DOMAIN st.events = {}
              <7>1. st.events = << >>
                <8> SUFFICES ASSUME st.events # << >> PROVE FALSE
                  OBVIOUS
                <8>1. Len(st.replay) = Len(st.events) + 1 /\ Len(st.replay) = 0
                      /\ Len(st.events) \in Nat
                  BY <3>2 DEF ExtendedSoFar, Loop
                <8> QED
                  BY <8>1
              <7> QED
                BY <7>1
            <6>4. m \notin 1 .. n
              BY <1>2, <6>1, <6>3 DEF MeasuredSoFar
            <6> QED
              BY <6>1, <6>2, <6>4
          <5>2. n + 1 \in DeclaredTo(l, n + 1)
            BY <4>3, <5>1 DEF DeclaredTo
          <5>3. Max(DeclaredTo(l, n + 1)) = n + 1
            <6>1. DeclaredTo(l, n + 1) \subseteq 0 .. n + 1 /\ n + 1 \in Nat
              BY DEF DeclaredTo
            <6> QED
              BY <5>2, <6>1, MaxDoes
          <5> QED
            BY <2>2, <4>1, <4>3, <5>2, <5>3 DEF StartsFrom
        <4> QED
          BY <4>2, <4>3
      <3> QED
        BY <3>1, <3>2
    <2> QED
      BY <1>2, <2>1, <2>2, <2>3 DEF ChainedSoFar, nx
  <1> QED
    BY <1>3, <1>4

\* What the loop has at the end of a uniform log.
LEMMA ChainLoop ==
  ASSUME algs \in Seq(Bank), NEW l \in Seq(RawEvent), Numbered(l), Uniform(l),
         NEW p \in PCR, p.alg \in ToSet(algs)
  PROVE  ChainedSoFar(ReplayLoop(l, p), l, p, Len(l))
  <1>1. Len(l) \in Nat /\ DOMAIN l = 1 .. Len(l)
    BY LenProperties
  <1>2. PICK st : LoopTo(st, l, p, Len(l)) /\ ReplayLoop(l, p) = st[Len(l)]
    BY <1>1, LoopResult
  <1> DEFINE Fine(n) == /\ st[n] \in Loop /\ MeasuredSoFar(st[n], l, p, n) /\ ExtendedSoFar(st[n])
                        /\ ChainedSoFar(st[n], l, p, n)
             S == {n \in Nat : n <= Len(l) => Fine(n)}
  <1>3. \A n \in 0 .. Len(l) :
          st[n] = IF n = 0 THEN Start ELSE ReplayEvent(p, st[n - 1], l[n])
    BY <1>2 DEF LoopTo
  <1>4. 0 \in S
    <2>1. st[0] = Start
      BY <1>1, <1>3
    <2>2. /\ Start \in Loop /\ Start.events = << >> /\ Start.replay = << >>
          /\ Start.ok /\ Start.locality = 0
      <3>1. << >> \in Seq(Value) /\ << >> \in Seq(Event)
        OBVIOUS
      <3> QED
        BY <3>1 DEF Start, Loop
    <2>3. DOMAIN Start.events = {} /\ 1 .. 0 = {}
      BY <2>2
    <2>4. MeasuredSoFar(Start, l, p, 0) /\ ExtendedSoFar(Start)
      BY <2>2, <2>3 DEF MeasuredSoFar, ExtendedSoFar, Ascending
    <2>5. Held(Start)[1] = 0
      BY <2>2 DEF Held
    <2>6. DeclaredTo(l, 0) = {}
      BY <2>3 DEF DeclaredTo
    <2>7. ChainedSoFar(Start, l, p, 0)
      BY <2>2, <2>3, <2>5, <2>6 DEF ChainedSoFar, StartsFrom
    <2> QED
      BY <2>1, <2>2, <2>4, <2>7
  <1>5. ASSUME NEW n \in Nat, n \in S PROVE n + 1 \in S
    <2> SUFFICES ASSUME n + 1 <= Len(l) PROVE Fine(n + 1)
      OBVIOUS
    <2>1. Fine(n) /\ n + 1 \in DOMAIN l /\ n + 1 \in 0 .. Len(l) /\ n + 1 # 0 /\ n + 1 - 1 = n
      BY <1>1, <1>5
    <2>2. st[n + 1] = ReplayEvent(p, st[n], l[n + 1])
      BY <1>3, <2>1
    <2> QED
      BY <2>1, <2>2, LoopStep, ChainStep
  <1> HIDE DEF S
  <1>6. Nat \subseteq S
    BY <1>4, <1>5, SetInduction
  <1>7. Fine(Len(l))
    BY <1>1, <1>6 DEF S
  <1> QED
    BY <1>2, <1>7

\* The k-th element of a set of numbers that f enumerates.
LEMMA NthDoes ==
  ASSUME NEW m \in Nat, NEW P, P \subseteq Nat, NEW f, Enumerates(f, m, P)
  PROVE  \A k \in 1 .. m : Nth(P, k) = f[k]
  <1> SUFFICES ASSUME NEW k \in 1 .. m PROVE Nth(P, k) = f[k]
    OBVIOUS
  <1>1. \A a \in 1 .. m : Cardinality({j \in P : j <= f[a]}) = a
    BY Rank
  <1>2. f[k] \in P /\ \A n \in P : \E a \in 1 .. m : f[a] = n
    BY DEF Enumerates
  <1>3. \A n \in P : Cardinality({j \in P : j <= n}) = k => n = f[k]
    BY <1>1, <1>2
  <1> QED
    BY <1>1, <1>2, <1>3 DEF Nth

\* A sequence after a first element.
LEMMA ConsPlaces ==
  ASSUME NEW E, NEW x \in E, NEW c \in Seq(E)
  PROVE  /\ <<x>> \o c \in Seq(E) /\ Len(<<x>> \o c) = Len(c) + 1
         /\ (<<x>> \o c)[1] = x
         /\ \A k \in 1 .. Len(c) : (<<x>> \o c)[k + 1] = c[k]
  <1>1. <<x>> \o c \in Seq(E) /\ Len(<<x>> \o c) = Len(c) + 1
    OBVIOUS
  <1>2. (<<x>> \o c)[1] = x
    OBVIOUS
  <1>3. \A k \in 1 .. Len(c) : (<<x>> \o c)[k + 1] = c[k]
    OBVIOUS
  <1> QED
    BY <1>1, <1>2, <1>3

\* The chain of a register is the value that the loop of replayPCR has extended it
\* to, if it has events.
LEMMA ChainIs ==
  ASSUME algs \in Seq(Bank), NEW l \in Seq(RawEvent), Numbered(l), Uniform(l),
         NEW p \in PCR, p.alg \in ToSet(algs)
  PROVE  LET st == ReplayLoop(l, p)
         IN  /\ st \in Loop /\ st.ok
             /\ st.events = << >> => Chains(l)[p.index] = << >>
             /\ st.events # << >> => /\ Chains(l)[p.index] = Held(st)
                                     /\ Chains(l)[p.index] = st.replay
                                     /\ st.replay # << >>
  <1> DEFINE st == ReplayLoop(l, p)
             i  == p.index
             P  == Places(l, i)
             m  == Len(st.events)
             f  == [a \in 1 .. m |-> st.events[a].sequence]
             c  == [k \in 1 .. Cardinality(P) |-> l[Nth(P, k)].digests[1].data]
             x  == IF i = LocalityPCR THEN DeclaredLocality(l) ELSE 0
  <1>1. st \in Loop /\ MeasuredSoFar(st, l, p, Len(l)) /\ ExtendedSoFar(st)
    BY LoopDoes
  <1>2. ChainedSoFar(st, l, p, Len(l))
    BY ChainLoop
  <1>3. /\ Len(l) \in Nat /\ DOMAIN l = 1 .. Len(l) /\ st.events \in Seq(Event)
        /\ st.replay \in Seq(Value) /\ m \in Nat /\ DOMAIN st.events = 1 .. m
    BY <1>1, LenProperties DEF Loop
  <1>4. i \in PCRIndex
    BY DEF PCR
  <1>5. Chains(l)[i] = IF P = {} THEN << >> ELSE <<x>> \o c
    BY <1>4 DEF Chains
  <1> HIDE DEF st
  <1>6. P \subseteq Nat /\ P = {k \in 1 .. Len(l) : Measures(l[k], i)}
    BY <1>3 DEF Places, Measures
  <1> HIDE DEF P
  <1>7. Enumerates(f, m, P)
    <2>1. \A a \in 1 .. m : st.events[a].sequence \in P
      BY <1>1, <1>3, <1>6 DEF MeasuredSoFar
    <2>2. \A a, b \in 1 .. m : a < b => f[a] < f[b]
      BY <1>1, <1>3 DEF MeasuredSoFar, Ascending
    <2>3. \A k \in P : \E a \in 1 .. m : f[a] = k
      BY <1>1, <1>2, <1>3, <1>6 DEF MeasuredSoFar, ChainedSoFar
    <2> QED
      BY <2>1, <2>2, <2>3 DEF Enumerates
  <1>8. Cardinality(P) = m /\ \A k \in 1 .. m : Nth(P, k) = f[k]
    <2> HIDE DEF f, m
    <2>1. Cardinality(P) = m
      BY <1>3, <1>6, <1>7, Rank
    <2>2. m \in Nat /\ P \subseteq Nat
      BY <1>3, <1>6
    <2>3. \A k \in 1 .. m : Nth(P, k) = f[k]
      BY <1>7, <2>2, NthDoes, Zenon
    <2> QED
      BY <2>1, <2>3
  <1>9. x = Held(st)[1]
    <2>1. DeclaredTo(l, Len(l)) = {k \in DOMAIN l : /\ l[k].index = LocalityPCR
                                                    /\ l[k].locality # NoLocality
                                                    /\ \A n \in Places(l, LocalityPCR) : k < n}
      BY <1>3 DEF DeclaredTo
    <2>2. DeclaredLocality(l) = IF DeclaredTo(l, Len(l)) = {} THEN 0
                                ELSE l[Max(DeclaredTo(l, Len(l)))].locality
      BY <2>1 DEF DeclaredLocality
    <2> QED
      BY <1>2, <2>2 DEF ChainedSoFar, StartsFrom
  <1> HIDE DEF x
  <1>10. CASE st.events = << >>
    <2>1. m = 0 /\ 1 .. m = {}
      BY <1>10
    <2>2. P = {}
      BY <1>7, <2>1 DEF Enumerates
    <2> QED
      BY <1>1, <1>2, <1>5, <1>10, <2>2 DEF ChainedSoFar, st
  <1>11. CASE st.events # << >>
    <2>1. /\ m # 0 /\ Len(st.replay) = m + 1
          /\ \A j \in 1 .. m : st.replay[j + 1] = st.events[j].digest
      BY <1>1, <1>3, <1>11, EmptySeq DEF ExtendedSoFar
    <2>2. st.replay # << >> /\ Held(st) = st.replay
      BY <1>3, <2>1 DEF Held
    <2>3. c = [k \in 1 .. m |-> st.events[k].digest]
      <3>1. \A k \in 1 .. m : l[Nth(P, k)].digests[1].data = st.events[k].digest
        BY <1>2, <1>3, <1>8 DEF ChainedSoFar
      <3> QED
        BY <1>8, <3>1
    <2>4. P # {}
      <3>1. 1 \in 1 .. m
        BY <1>3, <2>1
      <3> HIDE DEF f, m, P, c
      <3> QED
        BY <1>7, <3>1 DEF Enumerates
    <2>5. <<x>> \o c = st.replay
      <3> HIDE DEF c, m
      <3>1. x \in Value
        <4>1. 1 \in 1 .. Len(st.replay)
          BY <1>3, <2>1
        <4> QED
          BY <1>3, <1>9, <2>2, <4>1, ElementOfSeq
      <3>2. c \in Seq(Value) /\ Len(c) = m /\ \A k \in 1 .. m : c[k] = st.events[k].digest
        <4>1. \A k \in 1 .. m : st.events[k].digest \in Value
          <5>1. \A k \in 1 .. m : st.events[k] \in Event
            BY <1>3, ElementOfSeq DEF m
          <5> QED
            BY <5>1 DEF Event, Value
        <4>2. c \in [1 .. m -> Value]
          BY <2>3, <4>1
        <4>3. c \in Seq(Value)
          BY <1>3, <4>2, SeqDef
        <4>4. Len(c) = m
          BY <1>3, <4>2, <4>3, LenProperties
        <4> QED
          BY <2>3, <4>3, <4>4
      <3> DEFINE z == <<x>> \o c
      <3>4. /\ z \in Seq(Value) /\ Len(z) = m + 1
            /\ z[1] = x /\ \A k \in 1 .. m : z[k + 1] = c[k]
        BY <3>1, <3>2, ConsPlaces
      <3> HIDE DEF z
      <3>5. \A k \in 1 .. Len(z) : z[k] = st.replay[k]
        <4> SUFFICES ASSUME NEW k \in 1 .. m + 1 PROVE z[k] = st.replay[k]
          BY <3>4
        <4>1. CASE k = 1
          BY <1>9, <2>2, <3>4, <4>1
        <4>2. CASE k # 1
          <5>1. k - 1 \in 1 .. m /\ (k - 1) + 1 = k
            BY <1>3, <4>2
          <5> QED
            BY <2>1, <3>2, <3>4, <5>1
        <4> QED
          BY <4>1, <4>2
      <3>6. z = st.replay
        BY <1>3, <2>1, <3>4, <3>5, SeqEqual
      <3> QED
        BY <3>6 DEF z
    <2> QED
      BY <1>1, <1>2, <1>5, <1>11, <2>2, <2>4, <2>5 DEF ChainedSoFar, st
  <1> QED
    BY <1>10, <1>11

\* The case that Verifier speaks of, on a call that was made.
Compared ==
  /\ Types
  /\ \A k \in DOMAIN pcrs : pcrs[k] = Register(pcrs[k].alg, pcrs[k].index)
  /\ Numbered(rawEvents)
  /\ Comparable

\* Then the log is uniform, and there is a bank that the log has digests for.
LEMMA ComparedDoes ==
  ASSUME Compared
  PROVE  /\ Uniform(rawEvents)
         /\ Provided = PCRIndex
         /\ \E b \in Bank : b \in ToSet(algs)
         /\ \A k \in DOMAIN pcrs : pcrs[k] \in PCR /\ pcrs[k].alg \in Banks
         /\ \A b \in Banks : b \in ToSet(algs) /\ b \in Bank
         /\ \A b \in Banks, i \in PCRIndex :
              \E k \in DOMAIN pcrs : pcrs[k].alg = b /\ pcrs[k].index = i
  <1>1. Types /\ Comparable
    BY DEF Compared
  <1>2. \A k \in DOMAIN pcrs : pcrs[k] \in PCR
    BY <1>1, LenProperties, ElementOfSeq DEF Types
  <1>3. \A k \in DOMAIN pcrs : pcrs[k].alg \in Banks /\ pcrs[k].index \in Provided
    BY DEF Banks, Provided, ToSet
  <1>4. \A b \in Banks : b \in ToSet(algs) /\ b \in Bank
    <2>1. \A b \in Banks : \E k \in DOMAIN pcrs : b = pcrs[k].alg
      BY DEF Banks, ToSet
    <2>2. \A b \in Banks : b \in Bank
      BY <1>2, <2>1 DEF PCR
    <2> QED
      BY <1>1, <2>2 DEF Comparable
  <1>5. \A b \in Banks, i \in PCRIndex :
          \E k \in DOMAIN pcrs : pcrs[k].alg = b /\ pcrs[k].index = i
    BY <1>1 DEF Comparable, ToSet
  <1>6. PICK c : c \in Banks
    BY <1>1 DEF Comparable
  <1>7. Provided = PCRIndex
    <2>1. ASSUME NEW i \in PCRIndex PROVE i \in Provided
      BY <1>3, <1>5, <1>6
    <2>2. ASSUME NEW i \in Provided PROVE i \in PCRIndex
      <3>1. PICK k \in DOMAIN pcrs : pcrs[k].index = i
        BY DEF Provided, ToSet
      <3> QED
        BY <1>2, <3>1 DEF PCR
    <2> QED
      BY <2>1, <2>2
  <1>8. Uniform(rawEvents)
    BY <1>1 DEF Comparable, Uniform, ToSet
  <1> QED
    BY <1>2, <1>3, <1>4, <1>5, <1>6, <1>7, <1>8

\* The registers for which no replay of a uniform log succeeds are those that
\* Verifier calls invalid.
LEMMA FailsAreInvalid ==
  ASSUME Compared, NEW l \in Seq(RawEvent), Numbered(l), Uniform(l)
  PROVE  FailsFor(l) = InvalidPCRs(Chains(l), [b \in Banks |-> bank[b]])
  <1> DEFINE v == [b \in Banks |-> bank[b]]
  <1>1. /\ Provided = PCRIndex
        /\ \A k \in DOMAIN pcrs : pcrs[k] \in PCR /\ pcrs[k].alg \in Banks
        /\ \A b \in Banks : b \in ToSet(algs) /\ b \in Bank
        /\ \A b \in Banks, i \in PCRIndex :
             \E k \in DOMAIN pcrs : pcrs[k].alg = b /\ pcrs[k].index = i
    BY ComparedDoes
  <1>2. algs \in Seq(Bank)
    BY DEF Compared, Types
  <1>3. ASSUME NEW k \in DOMAIN pcrs
        PROVE  replayPCR(l, pcrs[k]).successful
                 <=> ReplayPCR(Chains(l)[pcrs[k].index], v[pcrs[k].alg][pcrs[k].index])
    <2> DEFINE p  == pcrs[k]
               st == ReplayLoop(l, p)
               c  == Chains(l)[p.index]
    <2>1. p \in PCR /\ p.alg \in ToSet(algs) /\ p.alg \in Banks
      BY <1>1
    <2>2. p.digest = v[p.alg][p.index]
      <3>1. p.digest = bank[p.alg][p.index]
        BY DEF Compared, Register
      <3> QED
        BY <2>1, <3>1
    <2>3. /\ st.ok
          /\ st.events = << >> => c = << >>
          /\ st.events # << >> => c = st.replay /\ st.replay # << >>
      <3> HIDE DEF p
      <3> QED
        BY <1>2, <2>1, ChainIs
    <2>4. replayPCR(l, p).successful <=> st.ok /\ (st.events = << >> \/ st.replay = p.digest)
      BY DEF replayPCR
    <2> HIDE DEF p, st, c, v
    <2>5. replayPCR(l, p).successful <=> c = << >> \/ c = p.digest
      BY <2>3, <2>4
    <2> QED
      BY <2>2, <2>5 DEF ReplayPCR, p, c
  <1>4. DOMAIN v = Banks
    OBVIOUS
  <1> HIDE DEF v
  <1>5. ASSUME NEW i \in PCRIndex
        PROVE  i \in FailsFor(l) <=> i \in InvalidPCRs(Chains(l), v)
    <2>1. ASSUME i \in FailsFor(l), NEW b \in Banks PROVE ~ReplayPCR(Chains(l)[i], v[b][i])
      <3>1. PICK k \in DOMAIN pcrs : pcrs[k].alg = b /\ pcrs[k].index = i
        BY <1>1
      <3>2. k \in ReplaysOf(i)
        BY <3>1 DEF ReplaysOf
      <3> QED
        BY <1>3, <2>1, <3>1, <3>2 DEF FailsFor
    <2>2. ASSUME \A b \in Banks : ~ReplayPCR(Chains(l)[i], v[b][i]), NEW k \in ReplaysOf(i)
          PROVE  ~replayPCR(l, pcrs[k]).successful
      <3>1. k \in DOMAIN pcrs /\ pcrs[k].index = i
        BY DEF ReplaysOf
      <3> QED
        BY <1>1, <1>3, <2>2, <3>1
    <2> QED
      BY <1>1, <1>4, <2>1, <2>2 DEF FailsFor, InvalidPCRs
  <1>6. FailsFor(l) \subseteq PCRIndex /\ InvalidPCRs(Chains(l), v) \subseteq PCRIndex
    BY <1>1 DEF FailsFor, InvalidPCRs
  <1> QED
    BY <1>5, <1>6 DEF v

\* A workaround keeps a log uniform and continues the chain of its register, which
\* must have one.
LEMMA InjectChains ==
  ASSUME Compared, rawEvents # << >>, Chains(rawEvents)[WorkaroundPCR] # << >>,
         NEW w \in DOMAIN Workarounds
  PROVE  LET m == apply(rawEvents, w)
         IN  /\ m \in Seq(RawEvent) /\ Numbered(m) /\ Uniform(m)
             /\ Chains(m) = Inject(Chains(rawEvents), w)
  <1> DEFINE l  == rawEvents
             m  == apply(l, w)
             ds == Workarounds[w]
  <1>1. algs \in Seq(Bank) /\ Parsed(l) /\ l \in Seq(RawEvent) /\ Numbered(l)
    BY DEF Compared, Types, Parsed
  <1>2. Continues(m, l, ds)
    BY <1>1, ApplyContinues
  <1>3. m \in Seq(RawEvent) /\ Numbered(m)
    BY <1>2 DEF Continues, Parsed
  <1>4. Uniform(l) /\ \E b \in Bank : b \in ToSet(algs)
    BY ComparedDoes
  <1> HIDE DEF m
  <1>5. Uniform(m)
    <2> SUFFICES ASSUME NEW k \in DOMAIN m, m[k].typ # "noaction"
                 PROVE  \E d \in Digest : m[k].digests = Digests(algs, d)
      BY DEF Uniform
    <2>1. DOMAIN m = 1 .. Len(m) /\ DOMAIN l = 1 .. Len(l) /\ Len(l) \in Nat /\ Len(m) \in Nat
      BY <1>1, <1>3, LenProperties
    <2>2. k \in 1 .. Len(l) \/ k \in Len(l) + 1 .. Len(m)
      BY <2>1
    <2> QED
      BY <1>2, <1>4, <2>1, <2>2 DEF Continues, Uniform
  <1>6. PICK b \in Bank : b \in ToSet(algs)
    BY <1>4
  <1>7. ASSUME NEW i \in PCRIndex
        PROVE  Chains(m)[i] = IF i = WorkaroundPCR THEN Chains(l)[i] \o ds ELSE Chains(l)[i]
    <2> DEFINE p == [index |-> i, alg |-> b, digest |-> << >>]
               s == ReplayLoop(l, p)
               t == ReplayLoop(m, p)
    <2>1. p \in PCR /\ p.alg \in ToSet(algs) /\ p.index = i
      <3>1. << >> \in Seq(Value)
        OBVIOUS
      <3> QED
        BY <1>6, <3>1 DEF PCR
    <2> HIDE DEF p
    <2>2. /\ s \in Loop /\ s.ok
          /\ s.events = << >> => Chains(l)[i] = << >>
          /\ s.events # << >> => Chains(l)[i] = Held(s) /\ Held(s) = s.replay
      <3>1. /\ s \in Loop /\ s.ok
            /\ s.events = << >> => Chains(l)[p.index] = << >>
            /\ s.events # << >> => Chains(l)[p.index] = Held(s) /\ Chains(l)[p.index] = s.replay
        BY <1>1, <1>4, <2>1, ChainIs
      <3> HIDE DEF s
      <3> QED
        BY <2>1, <3>1
    <2>3. /\ t \in Loop
          /\ t.events = << >> => Chains(m)[i] = << >>
          /\ t.events # << >> => Chains(m)[i] = Held(t)
      <3>1. /\ t \in Loop
            /\ t.events = << >> => Chains(m)[p.index] = << >>
            /\ t.events # << >> => Chains(m)[p.index] = Held(t)
        BY <1>1, <1>3, <1>5, <2>1, ChainIs
      <3> HIDE DEF t
      <3> QED
        BY <2>1, <3>1
    <2>4. CASE i # WorkaroundPCR
      <3>1. t = s
        BY <1>2, <2>1, <2>4 DEF Continues
      <3> HIDE DEF s, t
      <3> QED
        BY <2>2, <2>3, <2>4, <3>1
    <2>5. CASE i = WorkaroundPCR
      <3>1. Held(t) = Held(s) \o ds
        BY <1>2, <2>1, <2>2, <2>5 DEF Continues
      <3>2. ExtendedSoFar(s) /\ ExtendedSoFar(t)
        BY <1>1, <1>3, <2>1, LoopDoes
      <3> HIDE DEF s, t, ds
      <3>3. s.events # << >> /\ Chains(l)[i] = Held(s) /\ Held(s) = s.replay
        BY <2>2, <2>5
      <3>4. Len(Held(s)) = Len(s.events) + 1 /\ Len(s.events) \in Nat /\ Len(s.events) # 0
        BY <2>2, <3>2, <3>3, EmptySeq, LenProperties DEF ExtendedSoFar, Loop
      <3>5. Len(Held(s) \o ds) = Len(Held(s)) + Len(ds) /\ Len(ds) \in Nat
        <4>1. ds \in Seq(Value)
          <5>1. ds \in Seq(Digest) /\ Digest \subseteq Value
            BY LogAssumption, ElementOfSeq, LenProperties DEF Value, Data, ds
          <5> QED
            BY <5>1, SeqMonotonic
        <4> QED
          BY <2>2, <4>1, HeldType, ConcatProperties, LenProperties
      <3>6. t.events # << >>
        <4> SUFFICES ASSUME t.events = << >> PROVE FALSE
          OBVIOUS
        <4>1. Held(t) = <<t.locality>>
          BY <3>2 DEF ExtendedSoFar, Held
        <4>2. Len(Held(t)) = 1
          BY <4>1
        <4> QED
          BY <3>1, <3>4, <3>5, <4>2
      <3> QED
        BY <2>3, <2>5, <3>1, <3>3, <3>6
    <2> QED
      BY <2>4, <2>5
  <1>8. Chains(m) = Inject(Chains(l), w)
    <2>1. DOMAIN Chains(l) = PCRIndex /\ DOMAIN Chains(m) = PCRIndex
          /\ Chains(m) = [i \in PCRIndex |-> Chains(m)[i]]
      BY DEF Chains
    <2>2. Inject(Chains(l), w) =
            [i \in PCRIndex |-> IF i = WorkaroundPCR THEN Chains(l)[i] \o ds ELSE Chains(l)[i]]
      BY <2>1 DEF Inject
    <2> HIDE DEF ds
    <2> QED
      BY <1>7, <2>1, <2>2
  <1> QED
    BY <1>3, <1>5, <1>8 DEF m

\* If the register of the workarounds is invalid, the log has a chain for it, and
\* with workaround w it fails as Verifier says.
LEMMA WorkaroundCompared ==
  ASSUME Compared, WorkaroundPCR \in FailsFor(rawEvents), NEW w \in DOMAIN Workarounds
  PROVE  LET l == Chains(rawEvents)
             v == [b \in Banks |-> bank[b]]
         IN  /\ Chains(apply(rawEvents, w)) = Inject(l, w)
             /\ FailsFor(apply(rawEvents, w)) = InvalidPCRs(Inject(l, w), v)
  <1> DEFINE l == Chains(rawEvents)
             m == apply(rawEvents, w)
             v == [b \in Banks |-> bank[b]]
  <1>1. Uniform(rawEvents) /\ rawEvents \in Seq(RawEvent) /\ Numbered(rawEvents) /\ Banks # {}
    BY ComparedDoes DEF Compared, Types, Comparable
  <1>2. FailsFor(rawEvents) = InvalidPCRs(l, v)
    BY <1>1, FailsAreInvalid
  <1>3. l[WorkaroundPCR] # << >>
    <2>1. DOMAIN v = Banks /\ \E b : b \in Banks
      BY <1>1
    <2> HIDE DEF v, l
    <2>2. \A b \in DOMAIN v : ~ReplayPCR(l[WorkaroundPCR], v[b][WorkaroundPCR])
      BY <1>2 DEF InvalidPCRs
    <2> QED
      BY <2>1, <2>2 DEF ReplayPCR
  <1>4. rawEvents # << >>
    BY FailureHasEvents
  <1>5. m \in Seq(RawEvent) /\ Numbered(m) /\ Uniform(m) /\ Chains(m) = Inject(l, w)
    BY <1>3, <1>4, InjectChains
  <1> HIDE DEF m
  <1>6. FailsFor(m) = InvalidPCRs(Chains(m), v)
    BY <1>5, FailsAreInvalid
  <1> QED
    BY <1>5, <1>6 DEF m

\* EventLog.Verify decides as the relation that Attestation uses says, for every
\* log, selection of registers and order of the map in pcrLoop: it returns the
\* events of the log, or of the first workaround that replays for a failure that
\* affects the workarounds' register; and its error is that of the log as it is.
THEOREM VerifyDecides == Spec => []DecidesAsSpecified
  <1>1. IInv => DecidesAsSpecified
    <2> DEFINE l == Chains(rawEvents)
               v == [b \in Banks |-> bank[b]]
    <2> SUFFICES ASSUME IInv, pc \in {"done", "failed"}, Comparable
                 PROVE  /\ pc = "done" => EventLogVerify(l, v, Chains(el))
                        /\ pc = "failed" =>
                             /\ rErr = InvalidPCRs(l, v)
                             /\ \A evs \in {Chains(apply(rawEvents, w)) : w \in DOMAIN Workarounds} :
                                  ~EventLogVerify(l, v, evs)
      BY DEF DecidesAsSpecified
    <2>1. Compared /\ el = LogWith(wkrd) /\ Types
      BY DEF IInv, CallInv, Compared
    <2>2. FailsFor(rawEvents) = InvalidPCRs(l, v)
      <3>1. Uniform(rawEvents) /\ rawEvents \in Seq(RawEvent) /\ Numbered(rawEvents)
        BY <2>1, ComparedDoes DEF Compared, Types
      <3> QED
        BY <2>1, <3>1, FailsAreInvalid
    <2>3. ASSUME WorkaroundPCR \in FailsFor(rawEvents), NEW w \in DOMAIN Workarounds
          PROVE  /\ Chains(apply(rawEvents, w)) = Inject(l, w)
                 /\ FailsFor(apply(rawEvents, w)) = InvalidPCRs(Inject(l, w), v)
      BY <2>1, <2>3, WorkaroundCompared
    <2> HIDE DEF l, v
    <2>4. /\ Len(Workarounds) \in Nat /\ DOMAIN Workarounds = 1 .. Len(Workarounds)
          /\ wkrd \in 0 .. Len(Workarounds)
      BY <2>1, LogAssumption, LenProperties DEF Types
    <2>5. ASSUME pc = "done" PROVE EventLogVerify(l, v, Chains(el))
      <3>1. FailsFor(el) = {}
        <4> SUFFICES ASSUME NEW i \in FailsFor(el) PROVE FALSE
          OBVIOUS
        <4>1. i \in Provided /\ \A k \in ReplaysOf(i) : ~replayPCR(el, pcrs[k]).successful
          BY DEF FailsFor
        <4>2. Returned(events, i)
          BY <2>5, <4>1 DEF IInv, DoneInv
        <4> QED
          BY <4>1, <4>2 DEF Returned, Gives, ReplaysOf
      <3>2. CASE wkrd = 0
        <4>1. el = rawEvents
          BY <2>1, <3>2 DEF LogWith
        <4> QED
          BY <2>2, <3>1, <4>1 DEF EventLogVerify, l
      <3>3. CASE wkrd # 0
        <4>1. WorkaroundPCR \in FailsFor(rawEvents)
          BY <2>5, <3>3 DEF IInv, TriedInv
        <4>2. wkrd \in DOMAIN Workarounds /\ el = apply(rawEvents, wkrd)
          BY <2>1, <2>4, <3>3 DEF LogWith
        <4>3. InvalidPCRs(Inject(l, wkrd), v) = {} /\ Chains(el) = Inject(l, wkrd)
          BY <2>3, <3>1, <4>1, <4>2
        <4>4. ASSUME NEW w \in 1 .. wkrd - 1 PROVE InvalidPCRs(Inject(l, w), v) # {}
          <5>1. w \in DOMAIN Workarounds /\ w \in 0 .. wkrd - 1 /\ w # 0
            BY <2>4
          <5>2. FailsFor(LogWith(w)) # {}
            BY <2>5, <5>1 DEF IInv, TriedInv
          <5>3. FailsFor(apply(rawEvents, w)) # {}
            BY <5>1, <5>2 DEF LogWith
          <5> QED
            BY <2>3, <4>1, <5>1, <5>3
        <4> QED
          BY <2>2, <4>1, <4>2, <4>3, <4>4 DEF EventLogVerify
      <3> QED
        BY <3>2, <3>3
    <2>6. ASSUME pc = "failed"
          PROVE  /\ rErr = InvalidPCRs(l, v)
                 /\ \A evs : ~EventLogVerify(l, v, evs)
      <3>1. /\ rErr = FailsFor(rawEvents)
            /\ \A w \in 0 .. wkrd : FailsFor(LogWith(w)) # {}
            /\ WorkaroundPCR \notin rErr \/ wkrd = Len(Workarounds)
        BY <2>6 DEF IInv, TriedInv
      <3>2. InvalidPCRs(l, v) # {}
        <4>1. 0 \in 0 .. wkrd /\ LogWith(0) = rawEvents
          BY <2>4 DEF LogWith
        <4> QED
          BY <2>2, <3>1, <4>1
      <3>3. ASSUME WorkaroundPCR \in InvalidPCRs(l, v), NEW w \in DOMAIN Workarounds
            PROVE  InvalidPCRs(Inject(l, w), v) # {}
        <4>0. wkrd = Len(Workarounds)
          BY <2>2, <3>1, <3>3
        <4>1. w \in 0 .. wkrd /\ w # 0
          BY <2>4, <4>0
        <4>2. FailsFor(apply(rawEvents, w)) # {}
          BY <3>1, <4>1 DEF LogWith
        <4> QED
          BY <2>2, <2>3, <3>3, <4>2
      <3> QED
        BY <2>2, <3>1, <3>2, <3>3 DEF EventLogVerify
    <2> QED
      BY <2>5, <2>6
  <1> QED
    BY <1>1, Invariance, PTL

-----------------------------------------------------------------------------
(***************************************************************************)
(* What FlattenSeq computes.                                               *)
(***************************************************************************)

FirstN(s, n) == [i \in 1 .. n |-> s[i]]

Join(s, t) == s \o t

\* f has what FlattenSeq has after each of the first m elements of s.
FlatTo(f, s, m) == f = [i \in 1 .. m |-> IF i = 1 THEN s[i] ELSE Join(f[i - 1], s[i])]

\* The recursion of FlattenSeq can be run over any number of elements.
LEMMA FlatExists ==
  ASSUME NEW s, NEW m \in Nat
  PROVE  \E f : FlatTo(f, s, m)
  <1> DEFINE S == {n \in Nat : \E f : FlatTo(f, s, n)}
  <1>1. 0 \in S
    <2> DEFINE f == [i \in 1 .. 0 |-> s[i]]
    <2>1. FlatTo(f, s, 0)
      BY DEF FlatTo
    <2> QED
      BY <2>1
  <1>2. ASSUME NEW n \in Nat, n \in S PROVE n + 1 \in S
    <2>1. PICK f : FlatTo(f, s, n)
      BY <1>2
    <2> DEFINE nx == [k \in 1 .. n + 1 |->
                        IF k <= n THEN f[k] ELSE IF k = 1 THEN s[k] ELSE Join(f[n], s[k])]
               rh == [k \in 1 .. n + 1 |-> IF k = 1 THEN s[k] ELSE Join(nx[k - 1], s[k])]
    <2>2. \A k \in 1 .. n : f[k] = IF k = 1 THEN s[k] ELSE Join(f[k - 1], s[k])
      BY <2>1 DEF FlatTo
    <2>3. \A k \in 1 .. n + 1 : nx[k] = rh[k]
      <3> SUFFICES ASSUME NEW k \in 1 .. n + 1 PROVE nx[k] = rh[k]
        OBVIOUS
      <3>1. CASE k = n + 1 /\ k # 1
        <4>1. nx[k] = Join(f[n], s[k]) /\ nx[k - 1] = f[n]
          BY <3>1
        <4> HIDE DEF nx
        <4> QED
          BY <3>1, <4>1
      <3>2. CASE k # n + 1
        <4>1. k \in 1 .. n /\ nx[k] = f[k] /\ (k # 1 => nx[k - 1] = f[k - 1])
          BY <3>2
        <4> HIDE DEF nx
        <4> QED
          BY <2>2, <4>1
      <3>3. CASE k = n + 1 /\ k = 1
        <4>1. nx[k] = s[k]
          BY <3>3
        <4> HIDE DEF nx
        <4> QED
          BY <3>3, <4>1
      <3> QED
        BY <3>1, <3>2, <3>3
    <2>4. nx = rh
      BY <2>3
    <2>5. FlatTo(nx, s, n + 1)
      BY <2>4 DEF FlatTo
    <2> QED
      BY <2>5
  <1> HIDE DEF S
  <1>3. Nat \subseteq S
    BY <1>1, <1>2, SetInduction
  <1> QED
    BY <1>3 DEF S

\* FlattenSeq is what its recursion has at the end.
LEMMA FlatResult ==
  ASSUME NEW s, NEW n \in Nat, n # 0
  PROVE  \E f : FlatTo(f, FirstN(s, n), n) /\ FlattenSeq(FirstN(s, n)) = f[n]
  <1> DEFINE t == FirstN(s, n)
             f == CHOOSE g : FlatTo(g, t, n)
  <1>1. FlatTo(f, t, n)
    BY FlatExists
  <1>2. Len(t) = n
    BY DEF FirstN
  <1> HIDE DEF t
  <1>3. FlattenSeq(t) = f[n]
    BY <1>2 DEF FlattenSeq, FlatTo, Join
  <1> QED
    BY <1>1, <1>3 DEF t

\* Two runs of the recursion agree on the elements they have in common.
LEMMA FlatAgrees ==
  ASSUME NEW s, NEW t, NEW a \in Nat, NEW b \in Nat, a <= b, a # 0, NEW f, NEW g,
         FlatTo(f, s, a), FlatTo(g, t, b), \A n \in 1 .. a : s[n] = t[n]
  PROVE  f[a] = g[a]
  <1> DEFINE S == {n \in Nat : n # 0 /\ n <= a => f[n] = g[n]}
  <1>1. /\ \A n \in 1 .. a : f[n] = IF n = 1 THEN s[n] ELSE Join(f[n - 1], s[n])
        /\ \A n \in 1 .. b : g[n] = IF n = 1 THEN t[n] ELSE Join(g[n - 1], t[n])
    BY DEF FlatTo
  <1>2. 0 \in S
    OBVIOUS
  <1>3. ASSUME NEW n \in Nat, n \in S PROVE n + 1 \in S
    <2> SUFFICES ASSUME n + 1 <= a PROVE f[n + 1] = g[n + 1]
      OBVIOUS
    <2>1. n + 1 \in 1 .. a /\ n + 1 \in 1 .. b /\ n + 1 - 1 = n /\ (n # 0 => f[n] = g[n])
      BY <1>3
    <2>2. /\ f[n + 1] = IF n + 1 = 1 THEN s[n + 1] ELSE Join(f[n], s[n + 1])
          /\ g[n + 1] = IF n + 1 = 1 THEN t[n + 1] ELSE Join(g[n], t[n + 1])
      BY <1>1, <2>1
    <2> QED
      BY <2>1, <2>2
  <1> HIDE DEF S
  <1>4. Nat \subseteq S
    BY <1>2, <1>3, SetInduction
  <1> QED
    BY <1>4 DEF S

\* Nothing is flattened to nothing, and one more element comes at the end.
LEMMA FlatEmpty ==
  ASSUME NEW s
  PROVE  FlattenSeq(FirstN(s, 0)) = << >>
  BY DEF FlattenSeq, FirstN

\* FlattenSeq adds an element after what it has of those before it.
LEMMA FlatNext ==
  ASSUME NEW s, NEW S, NEW n \in Nat, s[n + 1] \in Seq(S)
  PROVE  FlattenSeq(FirstN(s, n + 1)) = FlattenSeq(FirstN(s, n)) \o s[n + 1]
  <1>1. PICK g : FlatTo(g, FirstN(s, n + 1), n + 1) /\ FlattenSeq(FirstN(s, n + 1)) = g[n + 1]
    BY FlatResult, n + 1 \in Nat, n + 1 # 0
  <1>2. FirstN(s, n + 1)[n + 1] = s[n + 1]
    BY DEF FirstN
  <1>3. g[n + 1] = IF n + 1 = 1 THEN s[n + 1] ELSE Join(g[n], s[n + 1])
    BY <1>1, <1>2, n + 1 \in 1 .. n + 1, n + 1 - 1 = n DEF FlatTo
  <1>4. CASE n = 0
    <2>1. FlattenSeq(FirstN(s, 0)) = << >>
      BY FlatEmpty
    <2> QED
      BY <1>1, <1>3, <1>4, <2>1, ConcatEmptySeq
  <1>5. CASE n # 0
    <2>1. PICK f : FlatTo(f, FirstN(s, n), n) /\ FlattenSeq(FirstN(s, n)) = f[n]
      BY FlatResult, <1>5
    <2>2. \A k \in 1 .. n : FirstN(s, n)[k] = FirstN(s, n + 1)[k]
      BY DEF FirstN
    <2>3. f[n] = g[n]
      BY <1>1, <1>5, <2>1, <2>2, FlatAgrees, n <= n + 1, n + 1 \in Nat
    <2> QED
      BY <1>1, <1>3, <1>5, <2>1, <2>3, n + 1 # 1 DEF Join
  <1> QED
    BY <1>4, <1>5

-----------------------------------------------------------------------------
(***************************************************************************)
(* The place of the elements in what they are flattened to.                *)
(***************************************************************************)

Flat(s, n) == FlattenSeq(FirstN(s, n))

\* The sequence x is in t after the first o elements of t.
Part(t, o, x) == o + Len(x) <= Len(t) /\ \A j \in 1 .. Len(x) : t[o + j] = x[j]

\* A part of a part.
LEMMA PartOfPart ==
  ASSUME NEW S, NEW t \in Seq(S), NEW x \in Seq(S), NEW y \in Seq(S), NEW o \in Nat, NEW p \in Nat,
         Part(t, o, x), Part(x, p, y)
  PROVE  Part(t, o + p, y)
  <1>1. Len(t) \in Nat /\ Len(x) \in Nat /\ Len(y) \in Nat
    BY LenProperties
  <1>2. \A j \in 1 .. Len(y) : p + j \in 1 .. Len(x) /\ x[p + j] = y[j]
    BY <1>1 DEF Part
  <1>3. \A j \in 1 .. Len(y) : t[o + (p + j)] = y[j]
    BY <1>2 DEF Part
  <1>4. \A j \in 1 .. Len(y) : o + (p + j) = (o + p) + j
    BY <1>1
  <1>5. o + p + Len(y) <= Len(t)
    BY <1>1 DEF Part
  <1> QED
    BY <1>3, <1>4, <1>5 DEF Part

\* The parts of a concatenation.
LEMMA ConcatParts ==
  ASSUME NEW S, NEW s \in Seq(S), NEW t \in Seq(S)
  PROVE  /\ s \o t \in Seq(S) /\ Len(s \o t) = Len(s) + Len(t)
         /\ Part(s \o t, 0, s) /\ Part(s \o t, Len(s), t)
  <1>1. /\ s \o t \in Seq(S) /\ Len(s \o t) = Len(s) + Len(t)
        /\ \A i \in 1 .. Len(s) + Len(t) :
             (s \o t)[i] = IF i <= Len(s) THEN s[i] ELSE t[i - Len(s)]
    BY ConcatProperties
  <1>2. Len(s) \in Nat /\ Len(t) \in Nat
    BY LenProperties
  <1> DEFINE c == s \o t
  <1>3. c = s \o t
    OBVIOUS
  <1> HIDE DEF c
  <1>4. \A j \in 1 .. Len(s) : c[0 + j] = s[j]
    BY <1>1, <1>2, <1>3
  <1>5. \A j \in 1 .. Len(t) : c[Len(s) + j] = t[j]
    <2> TAKE j \in 1 .. Len(t)
    <2>1. Len(s) + j \in 1 .. Len(s) + Len(t) /\ ~(Len(s) + j <= Len(s)) /\ Len(s) + j - Len(s) = j
      BY <1>2
    <2> QED
      BY <1>1, <1>3, <2>1
  <1>6. 0 + Len(s) <= Len(c) /\ Len(s) + Len(t) <= Len(c)
    BY <1>1, <1>2, <1>3
  <1> QED
    BY <1>1, <1>3, <1>4, <1>5, <1>6 DEF Part

\* A sequence is one that it has as a part of the same length.
LEMMA PartIsAll ==
  ASSUME NEW S, NEW t \in Seq(S), NEW x \in Seq(S), Part(t, 0, x), Len(t) = Len(x)
  PROVE  t = x
  <1>1. \A j \in 1 .. Len(t) : 0 + j = j
    BY LenProperties
  <1>2. \A j \in 1 .. Len(t) : t[j] = x[j]
    BY <1>1 DEF Part
  <1> QED
    BY <1>2, SeqEqual

\* Flattened sequences are sequences of the same elements.
LEMMA FlatType ==
  ASSUME NEW s, NEW S, NEW m \in Nat, \A i \in 1 .. m : s[i] \in Seq(S)
  PROVE  \A n \in 0 .. m : Flat(s, n) \in Seq(S)
  <1> DEFINE T == {n \in Nat : n <= m => Flat(s, n) \in Seq(S)}
  <1>1. 0 \in T
    BY FlatEmpty, EmptySeq DEF Flat
  <1>2. ASSUME NEW n \in Nat, n \in T PROVE n + 1 \in T
    <2> SUFFICES ASSUME n + 1 <= m PROVE Flat(s, n + 1) \in Seq(S)
      OBVIOUS
    <2>1. s[n + 1] \in Seq(S) /\ Flat(s, n) \in Seq(S)
      BY <1>2
    <2>2. Flat(s, n + 1) = Flat(s, n) \o s[n + 1]
      BY <2>1, FlatNext DEF Flat
    <2> QED
      BY <2>1, <2>2, ConcatProperties
  <1> HIDE DEF T
  <1>3. Nat \subseteq T
    BY <1>1, <1>2, SetInduction
  <1> QED
    BY <1>3 DEF T

\* One more element.
LEMMA FlatStep ==
  ASSUME NEW s, NEW S, NEW m \in Nat, \A i \in 1 .. m : s[i] \in Seq(S), NEW n \in Nat, n < m
  PROVE  /\ Flat(s, n) \in Seq(S) /\ Flat(s, n + 1) \in Seq(S) /\ s[n + 1] \in Seq(S)
         /\ Len(Flat(s, n)) \in Nat /\ Len(s[n + 1]) \in Nat
         /\ Flat(s, n + 1) = Flat(s, n) \o s[n + 1]
         /\ Len(Flat(s, n + 1)) = Len(Flat(s, n)) + Len(s[n + 1])
         /\ Part(Flat(s, n + 1), 0, Flat(s, n))
         /\ Part(Flat(s, n + 1), Len(Flat(s, n)), s[n + 1])
  <1>1. Flat(s, n) \in Seq(S) /\ Flat(s, n + 1) \in Seq(S) /\ s[n + 1] \in Seq(S)
    BY FlatType, n \in 0 .. m, n + 1 \in 0 .. m, n + 1 \in 1 .. m
  <1>2. Flat(s, n + 1) = Flat(s, n) \o s[n + 1]
    BY <1>1, FlatNext DEF Flat
  <1>3. Len(Flat(s, n)) \in Nat /\ Len(s[n + 1]) \in Nat
    BY <1>1, LenProperties
  <1> DEFINE a == Flat(s, n)
             b == s[n + 1]
  <1>4. /\ Len(a \o b) = Len(a) + Len(b)
        /\ Part(a \o b, 0, a) /\ Part(a \o b, Len(a), b)
    BY <1>1, ConcatParts
  <1> QED
    BY <1>1, <1>2, <1>3, <1>4, Zenon

\* What the first elements are flattened to comes first.
LEMMA FlatKeeps ==
  ASSUME NEW s, NEW S, NEW m \in Nat, \A i \in 1 .. m : s[i] \in Seq(S), NEW n \in 0 .. m
  PROVE  Part(Flat(s, m), 0, Flat(s, n))
  <1> DEFINE T == {k \in Nat : n <= k /\ k <= m => Part(Flat(s, k), 0, Flat(s, n))}
  <1>0. /\ \A k \in 0 .. m : Flat(s, k) \in Seq(S) /\ Len(Flat(s, k)) \in Nat
        /\ n \in Nat /\ n <= m
    <2>1. \A k \in 0 .. m : Flat(s, k) \in Seq(S)
      BY FlatType
    <2> QED
      BY <2>1, LenProperties
  <1>1. Part(Flat(s, n), 0, Flat(s, n))
    <2>1. \A j \in 1 .. Len(Flat(s, n)) : 0 + j = j
      BY <1>0
    <2> QED
      BY <1>0, <2>1 DEF Part
  <1>2. 0 \in T
    <2>1. n <= 0 => n = 0
      BY <1>0
    <2> QED
      BY <1>1, <2>1
  <1>3. ASSUME NEW k \in Nat, k \in T PROVE k + 1 \in T
    <2> SUFFICES ASSUME n <= k + 1, k + 1 <= m PROVE Part(Flat(s, k + 1), 0, Flat(s, n))
      OBVIOUS
    <2>1. CASE n = k + 1
      BY <1>1, <2>1
    <2>2. CASE n # k + 1
      <3>1. Part(Flat(s, k), 0, Flat(s, n))
        BY <1>0, <1>3, <2>2
      <3>2. Part(Flat(s, k + 1), 0, Flat(s, k))
        BY FlatStep, k < m
      <3>3. Flat(s, n) \in Seq(S) /\ Flat(s, k) \in Seq(S) /\ Flat(s, k + 1) \in Seq(S)
        BY <1>0, k \in 0 .. m, k + 1 \in 0 .. m
      <3> QED
        BY <3>1, <3>2, <3>3, PartOfPart, 0 + 0 = 0, 0 \in Nat
    <2> QED
      BY <2>1, <2>2
  <1> HIDE DEF T
  <1>4. Nat \subseteq T
    BY <1>2, <1>3, SetInduction
  <1> QED
    BY <1>0, <1>4 DEF T

\* An element comes after those before it.
LEMMA FlatParts ==
  ASSUME NEW s, NEW S, NEW m \in Nat, \A i \in 1 .. m : s[i] \in Seq(S), NEW n \in Nat, n < m
  PROVE  Part(Flat(s, m), Len(Flat(s, n)), s[n + 1])
  <1>1. /\ Flat(s, n + 1) \in Seq(S) /\ s[n + 1] \in Seq(S) /\ Len(Flat(s, n)) \in Nat
        /\ Part(Flat(s, n + 1), Len(Flat(s, n)), s[n + 1])
    BY FlatStep
  <1>2. Part(Flat(s, m), 0, Flat(s, n + 1)) /\ Flat(s, m) \in Seq(S)
    BY FlatKeeps, FlatType, n + 1 \in 0 .. m, m \in 0 .. m
  <1>3. Part(Flat(s, m), 0 + Len(Flat(s, n)), s[n + 1])
    BY <1>1, <1>2, PartOfPart, 0 \in Nat
  <1> QED
    BY <1>1, <1>3

-----------------------------------------------------------------------------
(***************************************************************************)
(* The cells of an event.                                                  *)
(***************************************************************************)

WrittenDigest == [ID : Nat, data : Seq(Nat)]
WrittenEvent == [index : Nat, typ : Nat, data : Seq(Nat), digests : Seq(WrittenDigest)]

DigestsCells(v) == [i \in 1 .. Len(v.digests) |-> DigestCells(v.digests[i])]
DigestsLen(v, k) == Len(Flat(DigestsCells(v), k))

\* One cell before a sequence.
LEMMA ConsParts ==
  ASSUME NEW a \in Nat, NEW t \in Seq(Nat)
  PROVE  /\ <<a>> \o t \in Seq(Nat) /\ Len(<<a>> \o t) = 1 + Len(t)
         /\ (<<a>> \o t)[1] = a /\ Part(<<a>> \o t, 1, t)
  <1>1. <<a>> \in Seq(Nat) /\ Len(<<a>>) = 1 /\ <<a>>[1] = a
    OBVIOUS
  <1>2. /\ <<a>> \o t \in Seq(Nat) /\ Len(<<a>> \o t) = Len(<<a>>) + Len(t)
        /\ Part(<<a>> \o t, 0, <<a>>) /\ Part(<<a>> \o t, Len(<<a>>), t)
    BY <1>1, ConcatParts
  <1> DEFINE c == <<a>> \o t
             x == <<a>>
  <1> HIDE DEF c, x
  <1>3. Part(c, 0, x) => c[1] = x[1] \/ Len(x) # 1
    BY 0 + 1 = 1, 1 \in 1 .. 1 DEF Part
  <1> QED
    BY <1>1, <1>2, <1>3 DEF c, x

\* The cells of the digests.
LEMMA DigestsAre ==
  ASSUME NEW v \in WrittenEvent
  PROVE  /\ Len(v.digests) \in Nat
         /\ [i \in DOMAIN v.digests |-> DigestCells(v.digests[i])]
              = FirstN(DigestsCells(v), Len(v.digests))
         /\ \A i \in 1 .. Len(v.digests) :
              LET d == v.digests[i]
                  c == DigestsCells(v)[i]
              IN  /\ d \in WrittenDigest /\ c \in Seq(Nat) /\ Len(c) = 1 + Len(d.data)
                  /\ c[1] = d.ID /\ Part(c, 1, d.data)
  <1>1. v.digests \in Seq(WrittenDigest)
    BY DEF WrittenEvent
  <1>2. Len(v.digests) \in Nat /\ DOMAIN v.digests = 1 .. Len(v.digests)
    BY <1>1, LenProperties
  <1>3. [i \in DOMAIN v.digests |-> DigestCells(v.digests[i])]
          = FirstN(DigestsCells(v), Len(v.digests))
    BY <1>2 DEF FirstN, DigestsCells
  <1>4. ASSUME NEW i \in 1 .. Len(v.digests)
        PROVE  LET d == v.digests[i]
                   c == DigestsCells(v)[i]
               IN  /\ d \in WrittenDigest /\ c \in Seq(Nat) /\ Len(c) = 1 + Len(d.data)
                   /\ c[1] = d.ID /\ Part(c, 1, d.data)
    <2> DEFINE d == v.digests[i]
    <2>1. d \in WrittenDigest
      BY <1>1, ElementOfSeq
    <2>2. d.ID \in Nat /\ d.data \in Seq(Nat)
      BY <2>1 DEF WrittenDigest
    <2>3. DigestsCells(v)[i] = <<d.ID>> \o d.data
      BY DEF DigestsCells, DigestCells
    <2> HIDE DEF d
    <2>4. /\ <<d.ID>> \o d.data \in Seq(Nat) /\ Len(<<d.ID>> \o d.data) = 1 + Len(d.data)
          /\ (<<d.ID>> \o d.data)[1] = d.ID /\ Part(<<d.ID>> \o d.data, 1, d.data)
      BY <2>2, ConsParts
    <2> QED
      BY <2>1, <2>3, <2>4, Zenon DEF d
  <1> QED
    BY <1>2, <1>3, <1>4

\* An event in the crypto agile format.
LEMMA AgileCells ==
  ASSUME NEW v \in WrittenEvent
  PROVE  LET c == EventCells(v, TRUE)
             d == DigestsLen(v, Len(v.digests))
         IN  /\ c \in Seq(Nat) /\ d \in Nat /\ Len(v.data) \in Nat
             /\ Len(c) = 4 + d + Len(v.data)
             /\ c[1] = v.index /\ c[2] = v.typ /\ c[3] = Len(v.digests)
             /\ Part(c, 3, Flat(DigestsCells(v), Len(v.digests)))
             /\ c[4 + d] = Len(v.data) /\ Part(c, 4 + d, v.data)
  <1> DEFINE h == <<v.index, v.typ, Len(v.digests)>>
             f == Flat(DigestsCells(v), Len(v.digests))
             l == <<Len(v.data)>>
             c == ((h \o f) \o l) \o v.data
             d == Len(f)
  <1>0. v.index \in Nat /\ v.typ \in Nat /\ v.data \in Seq(Nat) /\ Len(v.digests) \in Nat
        /\ Len(v.data) \in Nat
    <2>1. v.index \in Nat /\ v.typ \in Nat /\ v.data \in Seq(Nat)
      BY DEF WrittenEvent
    <2> QED
      BY <2>1, DigestsAre, LenProperties
  <1>1. EventCells(v, TRUE) = c
    BY DigestsAre DEF EventCells, Flat
  <1>2. f \in Seq(Nat) /\ d \in Nat
    <2>1. \A i \in 1 .. Len(v.digests) : DigestsCells(v)[i] \in Seq(Nat)
      BY DigestsAre
    <2>2. f \in Seq(Nat)
      BY <1>0, <2>1, FlatType, Len(v.digests) \in 0 .. Len(v.digests)
    <2> QED
      BY <2>2, LenProperties
  <1>3. /\ h \in Seq(Nat) /\ Len(h) = 3 /\ l \in Seq(Nat) /\ Len(l) = 1
        /\ h[1] = v.index /\ h[2] = v.typ /\ h[3] = Len(v.digests) /\ l[1] = Len(v.data)
    BY <1>0
  <1> DEFINE hf == h \o f
             hl == hf \o l
  <1>4. /\ hf \in Seq(Nat) /\ Len(hf) = Len(h) + Len(f) /\ Part(hf, 0, h) /\ Part(hf, Len(h), f)
    BY <1>2, <1>3, ConcatParts
  <1>5. /\ hl \in Seq(Nat) /\ Len(hl) = Len(hf) + Len(l) /\ Part(hl, 0, hf) /\ Part(hl, Len(hf), l)
    <2> HIDE DEF hf, l
    <2> QED
      BY <1>3, <1>4, ConcatParts
  <1>6. /\ c \in Seq(Nat) /\ Len(c) = Len(hl) + Len(v.data) /\ Part(c, 0, hl)
        /\ Part(c, Len(hl), v.data)
    <2>1. c = hl \o v.data
      OBVIOUS
    <2> HIDE DEF hl, c
    <2> QED
      BY <1>0, <1>5, <2>1, ConcatParts
  <1> HIDE DEF c, hl, hf, h, f, l
  <1>7. Part(c, 0 + 0, hf) /\ Part(c, 0 + Len(hf), l)
    BY <1>3, <1>4, <1>5, <1>6, PartOfPart, 0 \in Nat, LenProperties
  <1>8. Part(c, 0 + 0, h) /\ Part(c, 0 + Len(h), f)
    BY <1>2, <1>3, <1>4, <1>6, <1>7, PartOfPart, 0 \in Nat, 0 + 0 = 0, LenProperties
  <1>9. Len(hf) = 3 + d /\ Len(hl) = 4 + d
    BY <1>2, <1>3, <1>4, <1>5
  <1>10. Len(c) = 4 + d + Len(v.data) /\ Part(c, 3, f) /\ Part(c, 4 + d, v.data)
    BY <1>3, <1>6, <1>8, <1>9, <1>2, <1>0
  <1>11. c[1] = h[1] /\ c[2] = h[2] /\ c[3] = h[3]
    <2>1. \A j \in 1 .. 3 : c[0 + 0 + j] = h[j]
      BY <1>3, <1>8 DEF Part
    <2>2. 0 + 0 + 1 = 1 /\ 0 + 0 + 2 = 2 /\ 0 + 0 + 3 = 3 /\ 1 \in 1 .. 3 /\ 2 \in 1 .. 3 /\ 3 \in 1 .. 3
      OBVIOUS
    <2> QED
      BY <2>1, <2>2
  <1>12. c[4 + d] = l[1]
    <2>1. 0 + Len(hf) + 1 = 4 + d /\ 1 \in 1 .. Len(l)
      BY <1>2, <1>3, <1>9
    <2> QED
      BY <1>7, <2>1 DEF Part
  <1> QED
    BY <1>0, <1>1, <1>2, <1>3, <1>6, <1>10, <1>11, <1>12 DEF f, DigestsLen

\* Sums, without what else is known where they are needed.
LEMMA PlusAssociative ==
  ASSUME NEW a \in Nat, NEW b \in Nat, NEW c \in Nat
  PROVE  a + b \in Nat /\ a + (b + c) = (a + b) + c
  OBVIOUS

\* Where a digest is after the header of its event.
LEMMA DigestSums ==
  ASSUME NEW a \in Nat, NEW b \in Nat, NEW l \in Nat, a + (1 + b) <= l
  PROVE  3 + a + 1 + b <= 3 + l /\ a + (1 + b) = a + 1 + b
  OBVIOUS

\* A digest of such an event.
LEMMA DigestPlace ==
  ASSUME NEW v \in WrittenEvent, NEW k \in Nat, k < Len(v.digests)
  PROVE  LET c == EventCells(v, TRUE)
             d == v.digests[k + 1]
             o == 3 + DigestsLen(v, k)
         IN  /\ d \in WrittenDigest /\ d.ID \in Nat /\ d.data \in Seq(Nat) /\ Len(d.data) \in Nat
             /\ DigestsLen(v, k) \in Nat
             /\ c[o + 1] = d.ID /\ Part(c, o + 1, d.data)
             /\ DigestsLen(v, k + 1) = DigestsLen(v, k) + 1 + Len(d.data)
             /\ o + 1 + Len(d.data) <= 3 + DigestsLen(v, Len(v.digests))
  <1> DEFINE c == EventCells(v, TRUE)
             d == v.digests[k + 1]
             n == Len(v.digests)
             f == Flat(DigestsCells(v), n)
             x == DigestsCells(v)[k + 1]
             p == DigestsLen(v, k)
  <1>1. n \in Nat /\ \A i \in 1 .. n : DigestsCells(v)[i] \in Seq(Nat)
    BY DigestsAre
  <1>2. k + 1 \in 1 .. n
    BY <1>1
  <1>3. d \in WrittenDigest /\ x \in Seq(Nat) /\ Len(x) = 1 + Len(d.data) /\ x[1] = d.ID
        /\ Part(x, 1, d.data)
    BY <1>2, DigestsAre
  <1>4. d.ID \in Nat /\ d.data \in Seq(Nat) /\ Len(d.data) \in Nat
    <2>1. d.ID \in Nat /\ d.data \in Seq(Nat)
      BY <1>3 DEF WrittenDigest
    <2> QED
      BY <2>1, LenProperties
  <1>5. f \in Seq(Nat) /\ c \in Seq(Nat) /\ Part(c, 3, f)
    BY <1>1, FlatType, n \in 0 .. n, AgileCells
  <1>6. Part(f, p, x) /\ p \in Nat /\ DigestsLen(v, k + 1) = p + Len(x)
    BY <1>1, FlatParts, FlatStep DEF DigestsLen
  <1> HIDE DEF c, f, d, x, n, p
  <1>7. Part(c, 3 + p, x)
    BY <1>3, <1>5, <1>6, PartOfPart, 3 \in Nat
  <1>8. Part(c, 3 + p + 1, d.data)
    BY <1>3, <1>4, <1>5, <1>6, <1>7, PartOfPart, 3 + p \in Nat, 1 \in Nat
  <1>9. c[3 + p + 1] = d.ID
    BY <1>3, <1>4, <1>7, 1 \in 1 .. Len(x) DEF Part
  <1>10. p + Len(x) <= Len(f) /\ Len(f) \in Nat
    BY <1>5, <1>6, LenProperties DEF Part
  <1> DEFINE q == Len(d.data)
  <1> HIDE DEF q
  <1>11. q \in Nat /\ Len(x) = 1 + q /\ q = Len(d.data) /\ p \in Nat
    BY <1>3, <1>4, <1>6 DEF q
  <1>12. 3 + p + 1 + q <= 3 + Len(f) /\ p + Len(x) = p + 1 + q
    <2>1. p + (1 + q) <= Len(f)
      BY <1>10, <1>11
    <2> QED
      BY <1>10, <1>11, <2>1, DigestSums
  <1>13. Len(f) = DigestsLen(v, n)
    BY DEF f, DigestsLen
  <1> QED
    BY <1>3, <1>4, <1>6, <1>8, <1>9, <1>11, <1>12, <1>13 DEF c, d, p, n

\* An event in the format of TPM 1.2.
LEMMA OldCells ==
  ASSUME NEW v \in WrittenEvent, v.digests[1].data[1] \in Nat
  PROVE  LET c == EventCells(v, FALSE)
         IN  /\ c \in Seq(Nat) /\ Len(v.data) \in Nat /\ Len(c) = 4 + Len(v.data)
             /\ c[1] = v.index /\ c[2] = v.typ /\ c[3] = v.digests[1].data[1]
             /\ c[4] = Len(v.data) /\ Part(c, 4, v.data)
  <1> DEFINE h == <<v.index, v.typ, v.digests[1].data[1]>>
             l == <<Len(v.data)>>
             c == (h \o l) \o v.data
             g == <<v.index, v.typ, v.digests[1].data[1], Len(v.data)>>
  <1>0. v.index \in Nat /\ v.typ \in Nat /\ v.data \in Seq(Nat) /\ Len(v.data) \in Nat
    <2>1. v.index \in Nat /\ v.typ \in Nat /\ v.data \in Seq(Nat)
      BY DEF WrittenEvent
    <2> QED
      BY <2>1, LenProperties
  <1>1. EventCells(v, FALSE) = c
    BY DEF EventCells
  <1>2. h \o l = g
    <2>1. /\ h \in Seq(Nat) /\ l \in Seq(Nat) /\ Len(h) = 3 /\ Len(l) = 1
          /\ g \in Seq(Nat) /\ Len(g) = 4
          /\ h[1] = g[1] /\ h[2] = g[2] /\ h[3] = g[3] /\ l[1] = g[4]
      BY <1>0
    <2> DEFINE c4 == h \o l
    <2> HIDE DEF h, l, g
    <2>2. /\ c4 \in Seq(Nat) /\ Len(c4) = Len(h) + Len(l)
          /\ \A i \in 1 .. Len(h) + Len(l) :
               c4[i] = IF i <= Len(h) THEN h[i] ELSE l[i - Len(h)]
      BY <2>1, ConcatProperties
    <2> HIDE DEF c4
    <2>3. \A i \in 1 .. 4 : c4[i] = g[i]
      <3> TAKE i \in 1 .. 4
      <3>1. i = 1 \/ i = 2 \/ i = 3 \/ (i = 4 /\ i - 3 = 1)
        OBVIOUS
      <3> QED
        BY <2>1, <2>2, <3>1
    <2>4. Len(c4) = Len(g) /\ \A i \in 1 .. Len(c4) : c4[i] = g[i]
      BY <2>1, <2>2, <2>3
    <2>5. c4 = g
      BY <2>1, <2>2, <2>4, SeqEqual
    <2> QED
      BY <2>5 DEF c4
  <1>3. g \in Seq(Nat) /\ Len(g) = 4 /\ g[1] = v.index /\ g[2] = v.typ
        /\ g[3] = v.digests[1].data[1] /\ g[4] = Len(v.data)
    BY <1>0
  <1>4. c = g \o v.data
    BY <1>2
  <1> HIDE DEF c, g
  <1>5. c \in Seq(Nat) /\ Len(c) = Len(g) + Len(v.data) /\ Part(c, 0, g) /\ Part(c, Len(g), v.data)
    BY <1>0, <1>3, <1>4, ConcatParts
  <1>6. c[1] = g[1] /\ c[2] = g[2] /\ c[3] = g[3] /\ c[4] = g[4]
    <2>1. \A j \in 1 .. 4 : c[0 + j] = g[j]
      BY <1>3, <1>5 DEF Part
    <2>2. 0 + 1 = 1 /\ 0 + 2 = 2 /\ 0 + 3 = 3 /\ 0 + 4 = 4
          /\ 1 \in 1 .. 4 /\ 2 \in 1 .. 4 /\ 3 \in 1 .. 4 /\ 4 \in 1 .. 4
      OBVIOUS
    <2> QED
      BY <2>1, <2>2
  <1> QED
    BY <1>0, <1>1, <1>3, <1>5, <1>6

\* The cells of a spec ID event.
AlgType == [ID : Nat, Size : Nat \ {0}]
AlgsCells(decl) == [i \in 1 .. Len(decl) |-> AlgCells(decl[i])]

\* An algorithm of a spec ID event has two cells.
LEMMA AlgsPlaces ==
  ASSUME NEW decl \in Seq(AlgType)
  PROVE  /\ Len(decl) \in Nat
         /\ \A i \in 1 .. Len(decl) :
              /\ decl[i] \in AlgType /\ AlgsCells(decl)[i] = <<decl[i].ID, decl[i].Size>>
              /\ AlgsCells(decl)[i] \in Seq(Nat) /\ Len(AlgsCells(decl)[i]) = 2
         /\ \A n \in 0 .. Len(decl) : Len(Flat(AlgsCells(decl), n)) = 2 * n
  <1>1. Len(decl) \in Nat
    BY LenProperties
  <1>2. ASSUME NEW i \in 1 .. Len(decl)
        PROVE  /\ decl[i] \in AlgType /\ AlgsCells(decl)[i] = <<decl[i].ID, decl[i].Size>>
               /\ AlgsCells(decl)[i] \in Seq(Nat) /\ Len(AlgsCells(decl)[i]) = 2
    <2>1. decl[i] \in AlgType
      BY ElementOfSeq
    <2>2. decl[i].ID \in Nat /\ decl[i].Size \in Nat
      BY <2>1 DEF AlgType
    <2>3. AlgsCells(decl)[i] = <<decl[i].ID, decl[i].Size>>
      BY DEF AlgsCells, AlgCells
    <2> QED
      BY <2>1, <2>2, <2>3
  <1> DEFINE a == AlgsCells(decl)
             T == {n \in Nat : n <= Len(decl) => Len(Flat(a, n)) = 2 * n}
  <1> HIDE DEF a
  <1>3. 0 \in T
    BY FlatEmpty, Len(<< >>) = 0 DEF Flat
  <1>4. ASSUME NEW n \in Nat, n \in T PROVE n + 1 \in T
    <2> SUFFICES ASSUME n + 1 <= Len(decl) PROVE Len(Flat(a, n + 1)) = 2 * (n + 1)
      OBVIOUS
    <2>1. n < Len(decl) /\ n + 1 \in 1 .. Len(decl) /\ Len(Flat(a, n)) = 2 * n
      BY <1>1, <1>4
    <2>2. Len(a[n + 1]) = 2 /\ \A i \in 1 .. Len(decl) : a[i] \in Seq(Nat)
      BY <1>2, <2>1 DEF a
    <2>3. Len(Flat(a, n + 1)) = Len(Flat(a, n)) + Len(a[n + 1])
      BY <1>1, <2>1, <2>2, FlatStep
    <2> QED
      BY <2>1, <2>2, <2>3
  <1> HIDE DEF T
  <1>5. Nat \subseteq T
    BY <1>3, <1>4, SetInduction
  <1>6. \A n \in 0 .. Len(decl) : Len(Flat(a, n)) = 2 * n
    BY <1>1, <1>5 DEF T
  <1> QED
    BY <1>1, <1>2, <1>6 DEF a

\* What the cells of a spec ID event are.
LEMMA SpecCells ==
  ASSUME NEW decl \in Seq(AlgType)
  PROVE  LET d == SpecIDData(decl)
         IN  /\ d \in Seq(Nat) /\ Len(decl) \in Nat /\ Len(d) = 3 + 2 * Len(decl)
             /\ d[1] = SpecIDSignature /\ d[2] = Len(decl) /\ d[3 + 2 * Len(decl)] = 0
             /\ \A i \in 1 .. Len(decl) : d[1 + 2 * i] = decl[i].ID /\ d[2 + 2 * i] = decl[i].Size
  <1> DEFINE h == <<SpecIDSignature, Len(decl)>>
             a == AlgsCells(decl)
             f == Flat(a, Len(decl))
             hf == h \o f
             z == <<0>>
             d == hf \o z
  <1>1. /\ Len(decl) \in Nat
        /\ \A i \in 1 .. Len(decl) :
              /\ decl[i] \in AlgType /\ a[i] = <<decl[i].ID, decl[i].Size>>
              /\ a[i] \in Seq(Nat) /\ Len(a[i]) = 2
        /\ \A n \in 0 .. Len(decl) : Len(Flat(a, n)) = 2 * n
    BY AlgsPlaces
  <1>2. SpecIDData(decl) = d
    <2>1. DOMAIN decl = 1 .. Len(decl)
      BY LenProperties
    <2>2. [i \in DOMAIN decl |-> AlgCells(decl[i])] = FirstN(a, Len(decl))
      BY <2>1 DEF FirstN, AlgsCells
    <2> QED
      BY <2>2 DEF SpecIDData, Flat
  <1>3. h \in Seq(Nat) /\ Len(h) = 2 /\ h[1] = SpecIDSignature /\ h[2] = Len(decl)
        /\ z \in Seq(Nat) /\ Len(z) = 1 /\ z[1] = 0
    BY <1>1 DEF SpecIDSignature
  <1>4. f \in Seq(Nat) /\ Len(f) = 2 * Len(decl)
    <2> HIDE DEF a
    <2> QED
      BY <1>1, FlatType, Len(decl) \in 0 .. Len(decl)
  <1> HIDE DEF f, h, z
  <1>5. hf \in Seq(Nat) /\ Len(hf) = Len(h) + Len(f) /\ Part(hf, 0, h) /\ Part(hf, Len(h), f)
    BY <1>3, <1>4, ConcatParts
  <1> HIDE DEF hf
  <1>6. d \in Seq(Nat) /\ Len(d) = Len(hf) + Len(z) /\ Part(d, 0, hf) /\ Part(d, Len(hf), z)
    BY <1>3, <1>5, ConcatParts
  <1> HIDE DEF d
  <1>7. Part(d, 0, h) /\ Part(d, 2, f)
    BY <1>3, <1>4, <1>5, <1>6, PartOfPart, 0 \in Nat, 2 \in Nat, 0 + 0 = 0, 0 + 2 = 2
  <1>8. Len(hf) = 2 + 2 * Len(decl) /\ Len(d) = 3 + 2 * Len(decl)
    BY <1>1, <1>3, <1>4, <1>5, <1>6
  <1>9. d[1] = h[1] /\ d[2] = h[2]
    BY <1>3, <1>7, 0 + 1 = 1, 0 + 2 = 2, 1 \in 1 .. 2, 2 \in 1 .. 2 DEF Part
  <1>10. d[3 + 2 * Len(decl)] = 0
    BY <1>1, <1>3, <1>6, <1>8, 1 \in 1 .. 1, 2 + 2 * Len(decl) + 1 = 3 + 2 * Len(decl) DEF Part
  <1>11. ASSUME NEW i \in 1 .. Len(decl)
         PROVE  d[1 + 2 * i] = decl[i].ID /\ d[2 + 2 * i] = decl[i].Size
    <2> DEFINE k == i - 1
    <2>1. k \in Nat /\ k < Len(decl) /\ k + 1 = i /\ k \in 0 .. Len(decl)
      BY <1>1
    <2> HIDE DEF a, k
    <2>2. Len(Flat(a, k)) = 2 * k /\ a[i] = <<decl[i].ID, decl[i].Size>> /\ a[i] \in Seq(Nat)
          /\ Len(a[i]) = 2
      BY <1>1, <2>1
    <2>3. Part(f, 2 * k, a[i])
      BY <1>1, <2>1, <2>2, FlatParts DEF f
    <2>4. Part(d, 2 + 2 * k, a[i])
      BY <1>4, <1>6, <1>7, <2>1, <2>2, <2>3, PartOfPart, 2 \in Nat, 2 * k \in Nat
    <2>5. d[2 + 2 * k + 1] = a[i][1] /\ d[2 + 2 * k + 2] = a[i][2]
      BY <2>2, <2>4, 1 \in 1 .. 2, 2 \in 1 .. 2 DEF Part
    <2>6. 2 + 2 * k + 1 = 1 + 2 * i /\ 2 + 2 * k + 2 = 2 + 2 * i
      BY <2>1
    <2> QED
      BY <2>2, <2>5, <2>6
  <1> QED
    BY <1>1, <1>2, <1>3, <1>6, <1>8, <1>9, <1>10, <1>11

-----------------------------------------------------------------------------
(***************************************************************************)
(* The cells of a log.                                                     *)
(***************************************************************************)

Agile(w) == w.algs # << >>
HeaderCells(w) == IF w.algs = << >> THEN << >> ELSE SpecIDCells(w.algs)
EventsCells(w) == [i \in 1 .. Len(w.events) |-> EventCells(w.events[i], Agile(w))]
AllCells(w) == CellsOf(w, Len(w.events))
StartOf(w, n) == Len(CellsOf(w, n))

\* A log, whatever of it is left.
Shaped(w) ==
  /\ w \in [algs : Seq(AlgType), events : Seq(WrittenEvent), cut : Nat]
  /\ \A k \in DOMAIN w.events : WrittenAs(w.events[k], w.algs)

\* The types of the parts of a log.
LEMMA ShapeType ==
  ASSUME NEW w, Shaped(w)
  PROVE  /\ w.algs \in Seq(AlgType) /\ w.events \in Seq(WrittenEvent) /\ w.cut \in Nat
         /\ Len(w.events) \in Nat /\ Len(w.algs) \in Nat
         /\ \A k \in 1 .. Len(w.events) :
              /\ w.events[k] \in WrittenEvent /\ WrittenAs(w.events[k], w.algs)
              /\ ~Agile(w) => w.events[k].digests[1].data[1] \in Nat
  <1>1. w.algs \in Seq(AlgType) /\ w.events \in Seq(WrittenEvent) /\ w.cut \in Nat
    BY DEF Shaped
  <1>2. Len(w.events) \in Nat /\ Len(w.algs) \in Nat /\ DOMAIN w.events = 1 .. Len(w.events)
    BY <1>1, LenProperties
  <1>3. ASSUME NEW k \in 1 .. Len(w.events)
        PROVE  /\ w.events[k] \in WrittenEvent /\ WrittenAs(w.events[k], w.algs)
               /\ ~Agile(w) => w.events[k].digests[1].data[1] \in Nat
    <2> DEFINE v == w.events[k]
    <2>1. v \in WrittenEvent /\ WrittenAs(v, w.algs)
      BY <1>1, <1>2, ElementOfSeq DEF Shaped
    <2> HIDE DEF v
    <2>2. v.digests \in Seq(WrittenDigest)
      BY <2>1 DEF WrittenEvent
    <2>3. ASSUME ~Agile(w) PROVE v.digests[1].data[1] \in Nat
      <3>1. Len(v.digests) = 1 /\ Len(v.digests[1].data) = 1
        BY <2>1, <2>3 DEF WrittenAs, Agile
      <3>2. v.digests[1] \in WrittenDigest
        BY <2>2, <3>1, ElementOfSeq, 1 \in 1 .. 1
      <3>3. v.digests[1].data \in Seq(Nat)
        BY <3>2 DEF WrittenDigest
      <3> QED
        BY <3>1, <3>3, ElementOfSeq, 1 \in 1 .. 1
    <2> QED
      BY <2>1, <2>3 DEF v
  <1> QED
    BY <1>1, <1>2, <1>3

\* The spec ID event, if there is one, is a sequence of cells.
LEMMA ShapeHeader ==
  ASSUME NEW w, Shaped(w)
  PROVE  HeaderCells(w) \in Seq(Nat) /\ Len(HeaderCells(w)) \in Nat
  <1>1. CASE w.algs = << >>
    BY <1>1, EmptySeq DEF HeaderCells
  <1>2. CASE w.algs # << >>
    <2> DEFINE d == SpecIDData(w.algs)
               h == <<0, eventTypeNoAction, 0, Len(d)>>
    <2>1. d \in Seq(Nat) /\ Len(d) \in Nat
      BY ShapeType, SpecCells, LenProperties
    <2>2. h \in Seq(Nat)
      BY <2>1 DEF eventTypeNoAction
    <2>3. HeaderCells(w) = h \o d
      BY <1>2 DEF HeaderCells, SpecIDCells
    <2> HIDE DEF h, d
    <2>4. h \o d \in Seq(Nat)
      BY <2>1, <2>2, ConcatProperties
    <2> QED
      BY <2>3, <2>4, LenProperties
  <1> QED
    BY <1>1, <1>2

\* The cells of an event are at least four.
LEMMA ShapeEvents ==
  ASSUME NEW w, Shaped(w)
  PROVE  \A i \in 1 .. Len(w.events) :
           /\ EventsCells(w)[i] = EventCells(w.events[i], Agile(w))
           /\ EventsCells(w)[i] \in Seq(Nat) /\ Len(EventsCells(w)[i]) \in Nat
           /\ 4 <= Len(EventsCells(w)[i])
  <1> SUFFICES ASSUME NEW i \in 1 .. Len(w.events)
               PROVE  /\ EventsCells(w)[i] = EventCells(w.events[i], Agile(w))
                      /\ EventsCells(w)[i] \in Seq(Nat) /\ Len(EventsCells(w)[i]) \in Nat
                      /\ 4 <= Len(EventsCells(w)[i])
    OBVIOUS
  <1> DEFINE v == w.events[i]
             c == EventCells(v, Agile(w))
  <1>1. EventsCells(w)[i] = c
    BY DEF EventsCells
  <1>2. v \in WrittenEvent /\ (~Agile(w) => v.digests[1].data[1] \in Nat)
    BY ShapeType
  <1>3. c \in Seq(Nat) /\ \E n \in Nat : Len(c) = 4 + n
    <2>1. CASE Agile(w)
      <3>1. c = EventCells(v, TRUE)
        BY <2>1, Agile(w) = TRUE DEF Agile
      <3>2. /\ DigestsLen(v, Len(v.digests)) \in Nat /\ Len(v.data) \in Nat /\ c \in Seq(Nat)
            /\ Len(c) = 4 + DigestsLen(v, Len(v.digests)) + Len(v.data)
        BY <1>2, <3>1, AgileCells
      <3> DEFINE a == DigestsLen(v, Len(v.digests))
                 b == Len(v.data)
      <3> HIDE DEF a, b
      <3>3. a \in Nat /\ b \in Nat /\ Len(c) = 4 + a + b
        BY <3>2 DEF a, b
      <3>4. a + b \in Nat /\ Len(c) = 4 + (a + b)
        BY <3>3
      <3> QED
        BY <3>2, <3>4
    <2>2. CASE ~Agile(w)
      <3>1. c = EventCells(v, FALSE)
        BY <2>2, Agile(w) = FALSE DEF Agile
      <3> QED
        BY <1>2, <2>2, <3>1, OldCells
    <2> QED
      BY <2>1, <2>2
  <1> HIDE DEF c
  <1> QED
    BY <1>1, <1>3 DEF c

\* A log has its spec ID event, then its events.
LEMMA ShapeCells ==
  ASSUME NEW w, Shaped(w), NEW n \in 0 .. Len(w.events)
  PROVE  /\ CellsOf(w, n) = HeaderCells(w) \o Flat(EventsCells(w), n)
         /\ Flat(EventsCells(w), n) \in Seq(Nat) /\ Len(Flat(EventsCells(w), n)) \in Nat
         /\ CellsOf(w, n) \in Seq(Nat) /\ StartOf(w, n) \in Nat
         /\ StartOf(w, n) = Len(HeaderCells(w)) + Len(Flat(EventsCells(w), n))
         /\ Part(CellsOf(w, n), 0, HeaderCells(w))
         /\ Part(CellsOf(w, n), Len(HeaderCells(w)), Flat(EventsCells(w), n))
  <1> DEFINE f == Flat(EventsCells(w), n)
             h == HeaderCells(w)
  <1>1. Len(w.events) \in Nat
    BY ShapeType
  <1>2. [i \in 1 .. n |-> EventCells(w.events[i], w.algs # << >>)] = FirstN(EventsCells(w), n)
    BY <1>1 DEF FirstN, EventsCells, Agile
  <1>3. CellsOf(w, n) = h \o f
    BY <1>2 DEF CellsOf, HeaderCells, Flat
  <1>4. f \in Seq(Nat)
    BY <1>1, ShapeEvents, FlatType
  <1>5. h \in Seq(Nat) /\ Len(h) \in Nat
    BY ShapeHeader
  <1> HIDE DEF f, h
  <1>6. h \o f \in Seq(Nat) /\ Len(h \o f) = Len(h) + Len(f) /\ Part(h \o f, 0, h)
        /\ Part(h \o f, Len(h), f)
    BY <1>4, <1>5, ConcatParts
  <1>7. Len(f) \in Nat /\ Len(h \o f) \in Nat
    BY <1>4, <1>6, LenProperties
  <1> QED
    BY <1>3, <1>4, <1>5, <1>6, <1>7, Zenon DEF f, h, StartOf

\* Every log has this shape; it says nothing of where the log is cut.
LEMMA LogShape ==
  ASSUME NEW w, IsLog(w)
  PROVE  Shaped(w)
  BY Zenon DEF IsLog, Shaped, AlgType, WrittenEvent, WrittenDigest

\* The types of the parts of a log that AppendEvents is called with.
LEMMA LogType ==
  ASSUME NEW w, IsLog(w)
  PROVE  /\ w.algs \in Seq(AlgType) /\ w.events \in Seq(WrittenEvent) /\ w.cut \in Nat
         /\ Len(w.events) \in Nat /\ Len(w.algs) \in Nat
         /\ \A k \in 1 .. Len(w.events) :
              /\ w.events[k] \in WrittenEvent /\ WrittenAs(w.events[k], w.algs)
              /\ ~Agile(w) => w.events[k].digests[1].data[1] \in Nat
  BY LogShape, ShapeType

\* Its spec ID event is a sequence of cells.
LEMMA HeaderType ==
  ASSUME NEW w, IsLog(w)
  PROVE  HeaderCells(w) \in Seq(Nat) /\ Len(HeaderCells(w)) \in Nat
  BY LogShape, ShapeHeader

\* Each of its events has at least four cells.
LEMMA EventsType ==
  ASSUME NEW w, IsLog(w)
  PROVE  \A i \in 1 .. Len(w.events) :
           /\ EventsCells(w)[i] = EventCells(w.events[i], Agile(w))
           /\ EventsCells(w)[i] \in Seq(Nat) /\ Len(EventsCells(w)[i]) \in Nat
           /\ 4 <= Len(EventsCells(w)[i])
  BY LogShape, ShapeEvents

\* It has its spec ID event, then its events.
LEMMA CellsAre ==
  ASSUME NEW w, IsLog(w), NEW n \in 0 .. Len(w.events)
  PROVE  /\ CellsOf(w, n) = HeaderCells(w) \o Flat(EventsCells(w), n)
         /\ Flat(EventsCells(w), n) \in Seq(Nat) /\ Len(Flat(EventsCells(w), n)) \in Nat
         /\ CellsOf(w, n) \in Seq(Nat) /\ StartOf(w, n) \in Nat
         /\ StartOf(w, n) = Len(HeaderCells(w)) + Len(Flat(EventsCells(w), n))
         /\ Part(CellsOf(w, n), 0, HeaderCells(w))
         /\ Part(CellsOf(w, n), Len(HeaderCells(w)), Flat(EventsCells(w), n))
  BY LogShape, ShapeCells

\* The cells of an event follow those of the events before it.
LEMMA EventPlace ==
  ASSUME NEW w, IsLog(w), NEW n \in Nat, n < Len(w.events)
  PROVE  LET c == EventCells(w.events[n + 1], Agile(w))
         IN  /\ c \in Seq(Nat) /\ Len(c) \in Nat /\ 4 <= Len(c)
             /\ Part(AllCells(w), StartOf(w, n), c)
             /\ StartOf(w, n) \in Nat /\ StartOf(w, n + 1) = StartOf(w, n) + Len(c)
  <1> DEFINE s == EventsCells(w)
             N == Len(w.events)
             h == HeaderCells(w)
             c == EventCells(w.events[n + 1], Agile(w))
  <1>1. N \in Nat /\ n + 1 \in 1 .. N /\ n \in 0 .. N /\ n + 1 \in 0 .. N /\ N \in 0 .. N
    BY LogType
  <1>2. s[n + 1] = c /\ c \in Seq(Nat) /\ Len(c) \in Nat /\ 4 <= Len(c)
        /\ \A i \in 1 .. N : s[i] \in Seq(Nat)
    BY <1>1, EventsType
  <1>3. Part(Flat(s, N), Len(Flat(s, n)), c)
        /\ Len(Flat(s, n + 1)) = Len(Flat(s, n)) + Len(c)
    <2> HIDE DEF s, c
    <2> QED
      BY <1>1, <1>2, FlatParts, FlatStep
  <1>4. /\ Flat(s, N) \in Seq(Nat) /\ Part(AllCells(w), Len(h), Flat(s, N))
        /\ AllCells(w) \in Seq(Nat)
    BY <1>1, CellsAre DEF AllCells
  <1>5. Len(h) \in Nat /\ Len(Flat(s, n)) \in Nat
        /\ StartOf(w, n) = Len(h) + Len(Flat(s, n))
        /\ StartOf(w, n + 1) = Len(h) + Len(Flat(s, n + 1))
    BY <1>1, CellsAre, HeaderType
  <1> HIDE DEF h, s, c
  <1>6. Part(AllCells(w), Len(h) + Len(Flat(s, n)), c)
    BY <1>2, <1>3, <1>4, <1>5, PartOfPart
  <1>7. StartOf(w, n) \in Nat /\ StartOf(w, n + 1) = StartOf(w, n) + Len(c)
    <2> DEFINE x == Len(h)
               y == Len(Flat(s, n))
               z == Len(c)
    <2>1. x \in Nat /\ y \in Nat /\ z \in Nat
      BY <1>2, <1>5
    <2>2. x + y \in Nat /\ x + (y + z) = (x + y) + z
      <3> HIDE DEF x, y, z
      <3> QED
        BY <2>1, PlusAssociative
    <2> QED
      BY <1>3, <1>5, <2>2, Zenon
  <1> QED
    BY <1>2, <1>5, <1>6, <1>7 DEF c

\* More events, more cells.
LEMMA StartsGrow ==
  ASSUME NEW w, IsLog(w), NEW a \in 0 .. Len(w.events), NEW b \in 0 .. Len(w.events)
  PROVE  /\ StartOf(w, a) \in Nat /\ StartOf(w, b) \in Nat
         /\ a <= b => StartOf(w, a) <= StartOf(w, b)
         /\ a < b => StartOf(w, a) < StartOf(w, b)
  <1> DEFINE s == EventsCells(w)
             h == Len(HeaderCells(w))
             L(x) == Len(Flat(s, x))
             N == Len(w.events)
  <1>1. h \in Nat /\ N \in Nat /\ \A x \in 0 .. N : L(x) \in Nat /\ StartOf(w, x) = h + L(x)
    <2>1. \A x \in 0 .. N : L(x) \in Nat /\ StartOf(w, x) = h + L(x)
      BY CellsAre
    <2> HIDE DEF L, h
    <2> QED
      BY <2>1, HeaderType, LogType DEF h
  <1>2. \A i \in 1 .. N : s[i] \in Seq(Nat)
    BY EventsType
  <1>3. \A x, y \in 0 .. N : x <= y => L(x) <= L(y)
    <2> SUFFICES ASSUME NEW x \in 0 .. N, NEW y \in 0 .. N, x <= y PROVE L(x) <= L(y)
      OBVIOUS
    <2>1. y \in Nat /\ x \in 0 .. y /\ \A i \in 1 .. y : i \in 1 .. N
      BY <1>1
    <2>2. \A i \in 1 .. y : s[i] \in Seq(Nat)
      BY <1>2, <2>1
    <2> HIDE DEF s
    <2>3. Part(Flat(s, y), 0, Flat(s, x))
      BY <2>1, <2>2, FlatKeeps
    <2>4. 0 + Len(Flat(s, x)) <= Len(Flat(s, y))
      BY <2>3 DEF Part
    <2> QED
      BY <1>1, <2>4
  <1> HIDE DEF L, h, N, s
  <1>4. a \in 0 .. N /\ b \in 0 .. N
    BY DEF N
  <1>5. StartOf(w, a) \in Nat /\ StartOf(w, b) \in Nat /\ (a <= b => StartOf(w, a) <= StartOf(w, b))
    BY <1>1, <1>3, <1>4
  <1>6. ASSUME a < b PROVE StartOf(w, a) < StartOf(w, b)
    <2>1. a \in Nat /\ a < N /\ a + 1 \in 0 .. N /\ a + 1 <= b
      BY <1>1, <1>4, <1>6
    <2>2. \E c \in Nat : 4 <= c /\ StartOf(w, a + 1) = StartOf(w, a) + c
      BY <2>1, EventPlace DEF N
    <2>3. StartOf(w, a + 1) <= StartOf(w, b) /\ StartOf(w, a + 1) \in Nat
      BY <1>1, <1>3, <1>4, <2>1
    <2> QED
      BY <1>5, <2>2, <2>3
  <1> QED
    BY <1>5, <1>6

\* A log that was cut in an event does not end with one.
LEMMA NotWhole ==
  ASSUME NEW w, IsLog(w), NEW n \in Nat, n < Len(w.events),
         StartOf(w, n) < w.cut, w.cut < StartOf(w, n + 1)
  PROVE  Whole(w) = {}
  <1> SUFFICES ASSUME NEW k \in 0 .. Len(w.events), StartOf(w, k) = w.cut PROVE FALSE
    BY DEF Whole, StartOf
  <1>1. Len(w.events) \in Nat /\ n \in 0 .. Len(w.events) /\ n + 1 \in 0 .. Len(w.events)
    BY LogType
  <1>2. k <= n \/ n + 1 <= k
    BY <1>1
  <1>3. /\ StartOf(w, k) \in Nat /\ StartOf(w, n) \in Nat /\ StartOf(w, n + 1) \in Nat
        /\ k <= n => StartOf(w, k) <= StartOf(w, n)
        /\ n + 1 <= k => StartOf(w, n + 1) <= StartOf(w, k)
    BY <1>1, StartsGrow
  <1> QED
    BY <1>2, <1>3

\* A log that ends inside its spec ID event has no number of whole events.
LEMMA NoHeader ==
  ASSUME NEW w, IsLog(w), w.cut < StartOf(w, 0)
  PROVE  Whole(w) = {}
  <1> SUFFICES ASSUME NEW k \in 0 .. Len(w.events), StartOf(w, k) = w.cut PROVE FALSE
    BY DEF Whole, StartOf
  <1>1. 0 \in 0 .. Len(w.events) /\ 0 <= k
    BY LogType
  <1> QED
    BY <1>1, StartsGrow

-----------------------------------------------------------------------------
(***************************************************************************)
(* What is left of a log after the first o cells.                          *)
(***************************************************************************)

Rest(w, o) == SubSeq(AllCells(w), o + 1, w.cut)

\* What is left at o are the cells from there up to the cut.
LEMMA RestIs ==
  ASSUME NEW w, IsLog(w), NEW o \in Nat, o <= w.cut
  PROVE  /\ AllCells(w) \in Seq(Nat) /\ w.cut \in Nat /\ w.cut <= Len(AllCells(w))
         /\ Len(AllCells(w)) \in Nat
         /\ Rest(w, o) \in Seq(Nat) /\ Len(Rest(w, o)) = w.cut - o
         /\ \A j \in 1 .. w.cut - o : Rest(w, o)[j] = AllCells(w)[o + j]
  <1> DEFINE t == AllCells(w)
             n == w.cut
  <1>1. t \in Seq(Nat) /\ Len(t) \in Nat /\ n \in Nat /\ n <= Len(t)
    <2>1. Len(w.events) \in 0 .. Len(w.events) /\ n \in Nat
      BY LogType
    <2>2. t \in Seq(Nat)
      BY <2>1, CellsAre DEF AllCells
    <2> QED
      BY <2>1, <2>2, LenProperties DEF IsLog, AllCells
  <1> HIDE DEF t, n
  <1>2. \A i \in o + 1 .. n : i \in 1 .. Len(t) /\ t[i] \in Nat
    <2> TAKE i \in o + 1 .. n
    <2>1. i \in 1 .. Len(t)
      BY <1>1
    <2> QED
      BY <1>1, <2>1, ElementOfSeq
  <1>3. /\ SubSeq(t, o + 1, n) \in Seq(Nat)
        /\ Len(SubSeq(t, o + 1, n)) = IF o + 1 <= n THEN n - (o + 1) + 1 ELSE 0
        /\ \A j \in 1 .. n - (o + 1) + 1 : SubSeq(t, o + 1, n)[j] = t[o + 1 + j - 1]
    BY <1>1, <1>2, SubSeqProperties, o + 1 \in Int, n \in Int
  <1>4. o <= n
    BY DEF n
  <1>5. n - (o + 1) + 1 = n - o /\ (IF o + 1 <= n THEN n - (o + 1) + 1 ELSE 0) = n - o
    BY <1>1, <1>4
  <1>6. \A j \in 1 .. n - o : o + 1 + j - 1 = o + j
    BY <1>1
  <1> QED
    BY <1>1, <1>3, <1>5, <1>6 DEF Rest, t, n

\* Taking k more cells leaves what is left at o + k.
LEMMA RestFrom ==
  ASSUME NEW w, IsLog(w), NEW o \in Nat, NEW k \in Nat, o + k <= w.cut
  PROVE  From(Rest(w, o), k + 1) = Rest(w, o + k)
  <1> DEFINE t == AllCells(w)
             a == Rest(w, o)
             b == Rest(w, o + k)
             n == w.cut
             c == SubSeq(a, k + 1, Len(a))
  <1>1. n \in Nat
    BY LogType
  <1>2. o <= n /\ o + k \in Nat
    BY <1>1
  <1>3. a \in Seq(Nat) /\ Len(a) = n - o /\ \A j \in 1 .. n - o : a[j] = t[o + j]
    BY <1>2, RestIs
  <1>4. b \in Seq(Nat) /\ Len(b) = n - (o + k) /\ \A j \in 1 .. n - (o + k) : b[j] = t[o + k + j]
    BY <1>2, RestIs
  <1> HIDE DEF a, b, n, t
  <1>5. \A i \in k + 1 .. Len(a) : a[i] \in Nat
    <2> TAKE i \in k + 1 .. Len(a)
    <2>1. i \in 1 .. Len(a)
      BY <1>1, <1>2, <1>3
    <2> QED
      BY <1>3, <2>1, ElementOfSeq
  <1>6. Len(a) \in Int /\ k + 1 \in Int
    BY <1>1, <1>3
  <1>7. /\ c \in Seq(Nat) /\ Len(c) = IF k + 1 <= Len(a) THEN Len(a) - (k + 1) + 1 ELSE 0
        /\ \A j \in 1 .. Len(a) - (k + 1) + 1 : c[j] = a[k + 1 + j - 1]
    BY <1>5, <1>6, SubSeqProperties
  <1>8. o + k <= n
    BY DEF n
  <1>9. Len(c) = Len(b) /\ Len(a) - (k + 1) + 1 = Len(b) /\ Len(b) \in Nat
    BY <1>1, <1>3, <1>4, <1>7, <1>8
  <1>10. \A j \in 1 .. Len(c) : c[j] = b[j]
    <2> TAKE j \in 1 .. Len(c)
    <2>1. k + 1 + j - 1 = k + j /\ k + j \in 1 .. n - o /\ o + (k + j) = o + k + j
      BY <1>1, <1>4, <1>8, <1>9
    <2>2. c[j] = a[k + 1 + j - 1] /\ j \in 1 .. n - (o + k)
      BY <1>4, <1>7, <1>9
    <2> QED
      BY <1>3, <1>4, <2>1, <2>2
  <1>11. c = b
    BY <1>4, <1>7, <1>9, <1>10, SeqEqual
  <1> QED
    BY <1>11 DEF From, a, b, c

\* Some cells of a sequence.
LEMMA SubSeqIs ==
  ASSUME NEW S, NEW a \in Seq(S), NEW k \in Nat, NEW l \in Nat, k + l <= Len(a)
  PROVE  /\ SubSeq(a, k + 1, k + l) \in Seq(S) /\ Len(SubSeq(a, k + 1, k + l)) = l
         /\ \A j \in 1 .. l : SubSeq(a, k + 1, k + l)[j] = a[k + j]
  <1> DEFINE c == SubSeq(a, k + 1, k + l)
  <1>1. Len(a) \in Nat
    BY LenProperties
  <1>2. \A i \in k + 1 .. k + l : a[i] \in S
    <2> TAKE i \in k + 1 .. k + l
    <2>1. i \in 1 .. Len(a)
      BY <1>1
    <2> QED
      BY <2>1, ElementOfSeq
  <1>3. k + 1 \in Int /\ k + l \in Int
    OBVIOUS
  <1>4. /\ c \in Seq(S) /\ Len(c) = IF k + 1 <= k + l THEN (k + l) - (k + 1) + 1 ELSE 0
        /\ \A j \in 1 .. (k + l) - (k + 1) + 1 : c[j] = a[k + 1 + j - 1]
    BY <1>2, <1>3, SubSeqProperties
  <1> HIDE DEF c
  <1>5. (k + l) - (k + 1) + 1 = l /\ (IF k + 1 <= k + l THEN (k + l) - (k + 1) + 1 ELSE 0) = l
    OBVIOUS
  <1>6. \A j \in 1 .. l : k + 1 + j - 1 = k + j
    OBVIOUS
  <1> QED
    BY <1>4, <1>5, <1>6 DEF c

\* The arithmetic of a part inside what is left.
LEMMA SubSums ==
  ASSUME NEW o \in Nat, NEW k \in Nat, NEW l \in Nat, NEW n \in Nat, o + k + l <= n
  PROVE  /\ o <= n /\ k + l <= n - o
         /\ \A j \in 1 .. l : k + j \in 1 .. n - o /\ o + (k + j) = o + k + j
  OBVIOUS

\* A part of the log that is before the cut can be taken out of what is left.
LEMMA RestPart ==
  ASSUME NEW w, IsLog(w), NEW o \in Nat, NEW k \in Nat, NEW x \in Seq(Nat),
         Part(AllCells(w), o + k, x), o + k + Len(x) <= w.cut
  PROVE  SubSeq(Rest(w, o), k + 1, k + Len(x)) = x
  <1> DEFINE t == AllCells(w)
             a == Rest(w, o)
             n == w.cut
             l == Len(x)
             c == SubSeq(a, k + 1, k + l)
  <1>1. n \in Nat /\ l \in Nat
    BY LogType, LenProperties
  <1>2. /\ o <= n /\ k + l <= n - o
        /\ \A j \in 1 .. l : k + j \in 1 .. n - o /\ o + (k + j) = o + k + j
    BY <1>1, SubSums
  <1>3. a \in Seq(Nat) /\ Len(a) = n - o /\ \A j \in 1 .. n - o : a[j] = t[o + j]
    BY <1>2, RestIs
  <1>4. \A j \in 1 .. l : t[o + k + j] = x[j]
    BY DEF Part
  <1> HIDE DEF a, n, t, l
  <1>5. c \in Seq(Nat) /\ Len(c) = l /\ \A j \in 1 .. l : c[j] = a[k + j]
    BY <1>1, <1>2, <1>3, SubSeqIs
  <1> HIDE DEF c
  <1>6. \A j \in 1 .. l : c[j] = x[j]
    BY <1>2, <1>3, <1>4, <1>5
  <1>7. c = x
    BY <1>5, <1>6, SeqEqual DEF l
  <1> QED
    BY <1>7 DEF c, a, l

-----------------------------------------------------------------------------
(***************************************************************************)
(* An event in the format of TPM 1.2 is read as it was written.            *)
(***************************************************************************)

\* The event at o has 4 + l cells, of a log of n.
LEMMA RawSums ==
  ASSUME NEW o \in Nat, NEW l \in Nat, NEW n \in Nat, o <= n
  PROVE  /\ n - o \in Nat
         /\ (n - o >= 4 /\ l <= n - o - 4) <=> o + (4 + l) <= n
         /\ ~(o + (4 + l) <= n) => n < o + (4 + l)
         /\ o + (4 + l) <= n => o + 4 + l <= n /\ 5 + l = (4 + l) + 1 /\ 4 + l \in Nat
         /\ n - o >= 4 => \A j \in 1 .. 4 : j \in 1 .. n - o
         /\ \A j \in 1 .. 4 : j \in 1 .. 4 + l
         /\ n - o >= 1 <=> ~(n = o)
  OBVIOUS

\* The cells from o that are left start with four, of which the fourth has the number
\* of the cells that follow.
LEMMA RawRead ==
  ASSUME NEW w, IsLog(w), NEW o \in Nat, o <= w.cut, r = Rest(w, o),
         NEW c \in Seq(Nat), NEW x \in Seq(Nat), Part(AllCells(w), o, c), Part(c, 4, x),
         Len(c) = 4 + Len(x), c[4] = Len(x)
  PROVE  /\ RawEventFits <=> o + Len(c) <= w.cut
         /\ ~RawEventFits => w.cut < o + Len(c)
         /\ RawEventFits =>
              /\ r[1] = c[1] /\ r[2] = c[2] /\ r[3] = c[3] /\ r[4] = Len(x)
              /\ SubSeq(r, 5, 4 + r[4]) = x /\ From(r, 5 + r[4]) = Rest(w, o + Len(c))
  <1> DEFINE t == AllCells(w)
             n == w.cut
             l == Len(x)
  <1>1. /\ t \in Seq(Nat) /\ n \in Nat /\ n <= Len(t) /\ r \in Seq(Nat) /\ Len(r) = n - o
        /\ \A j \in 1 .. n - o : r[j] = t[o + j]
    BY RestIs
  <1>2. l \in Nat /\ o <= n
    BY LenProperties
  <1>3. \A j \in 1 .. 4 + l : t[o + j] = c[j]
    BY DEF Part
  <1> HIDE DEF t, n, l
  <1>4. /\ n - o \in Nat
        /\ (n - o >= 4 /\ l <= n - o - 4) <=> o + (4 + l) <= n
        /\ ~(o + (4 + l) <= n) => n < o + (4 + l)
        /\ o + (4 + l) <= n => o + 4 + l <= n /\ 5 + l = (4 + l) + 1 /\ 4 + l \in Nat
        /\ n - o >= 4 => \A j \in 1 .. 4 : j \in 1 .. n - o
        /\ \A j \in 1 .. 4 : j \in 1 .. 4 + l
    BY <1>1, <1>2, RawSums
  <1>5. 1 \in 1 .. 4 /\ 2 \in 1 .. 4 /\ 3 \in 1 .. 4 /\ 4 \in 1 .. 4
    OBVIOUS
  <1>6. n - o >= 4 => \A j \in 1 .. 4 : r[j] = c[j]
    BY <1>1, <1>3, <1>4
  <1>7. Len(c) = 4 + l /\ c[4] = l
    BY DEF l
  <1>8. RawEventFits <=> o + (4 + l) <= n
    BY <1>1, <1>4, <1>5, <1>6, <1>7 DEF RawEventFits
  <1>9. ASSUME RawEventFits
        PROVE  /\ r[1] = c[1] /\ r[2] = c[2] /\ r[3] = c[3] /\ r[4] = l
               /\ SubSeq(r, 5, 4 + r[4]) = x /\ From(r, 5 + r[4]) = Rest(w, o + (4 + l))
    <2>1. n - o >= 4 /\ o + (4 + l) <= n
      BY <1>4, <1>8, <1>9
    <2>2. r[1] = c[1] /\ r[2] = c[2] /\ r[3] = c[3] /\ r[4] = l
      BY <1>5, <1>6, <1>7, <2>1
    <2>3. Part(t, o + 4, x)
      BY <1>1, PartOfPart, 4 \in Nat DEF t
    <2>4. o + 4 + l <= n /\ 4 + l \in Nat /\ 5 + l = (4 + l) + 1
      BY <1>4, <2>1
    <2>5. SubSeq(r, 4 + 1, 4 + l) = x
      BY <2>3, <2>4, RestPart, 4 \in Nat DEF t, n, l
    <2>6. From(r, (4 + l) + 1) = Rest(w, o + (4 + l))
      BY <2>1, <2>4, RestFrom DEF n
    <2> QED
      BY <2>2, <2>4, <2>5, <2>6, 4 + 1 = 5
  <1> QED
    BY <1>4, <1>7, <1>8, <1>9 DEF n, l

\* parseRawEvent at the start of an event fails if the log ends inside it, and otherwise
\* returns what was written and leaves the buffer at the next event.
LEMMA OldRead ==
  ASSUME NEW w, IsLog(w), ~Agile(w), NEW n \in Nat, n < Len(w.events),
         StartOf(w, n) <= w.cut, r = Rest(w, StartOf(w, n))
  PROVE  /\ ~RawEventFits => w.cut < StartOf(w, n + 1)
         /\ RawEventFits =>
              /\ \A q : RawEventOf(q) = ReturnedEvent(w.events[n + 1], q)
              /\ r[2] = w.events[n + 1].typ /\ SubSeq(r, 5, 4 + r[4]) = w.events[n + 1].data
              /\ StartOf(w, n + 1) <= w.cut
              /\ From(r, 5 + r[4]) = Rest(w, StartOf(w, n + 1))
  <1> DEFINE v == w.events[n + 1]
             c == EventCells(v, FALSE)
             o == StartOf(w, n)
  <1>1. n + 1 \in 1 .. Len(w.events) /\ Agile(w) = FALSE
    BY LogType DEF Agile
  <1>2. v \in WrittenEvent /\ WrittenAs(v, w.algs) /\ v.digests[1].data[1] \in Nat
    BY <1>1, LogType
  <1>3. /\ c \in Seq(Nat) /\ Part(AllCells(w), o, c) /\ o \in Nat
        /\ StartOf(w, n + 1) = o + Len(c)
    BY <1>1, EventPlace
  <1>4. /\ Len(c) = 4 + Len(v.data) /\ c[1] = v.index /\ c[2] = v.typ
        /\ c[3] = v.digests[1].data[1] /\ c[4] = Len(v.data) /\ Part(c, 4, v.data)
    BY <1>2, OldCells
  <1>5. v.data \in Seq(Nat) /\ v.digests \in Seq(WrittenDigest)
    BY <1>2 DEF WrittenEvent
  <1>6. v.digests = <<[ID |-> AlgSHA1, data |-> <<v.digests[1].data[1]>>]>>
    <2>1. Len(v.digests) = 1 /\ v.digests[1].ID = AlgSHA1 /\ Len(v.digests[1].data) = 1
      BY <1>1, <1>2 DEF WrittenAs, Agile
    <2>2. v.digests[1] \in WrittenDigest
      BY <1>5, <2>1, ElementOfSeq, 1 \in 1 .. 1
    <2> DEFINE d == v.digests[1]
    <2> HIDE DEF d
    <2>3. d.data \in Seq(Nat) /\ Len(d.data) = 1 /\ d.ID = AlgSHA1 /\ d \in WrittenDigest
      BY <2>1, <2>2 DEF d, WrittenDigest
    <2>4. d.data = <<d.data[1]>>
      BY <2>3
    <2>5. d = [ID |-> AlgSHA1, data |-> d.data]
      BY <2>3 DEF WrittenDigest
    <2> DEFINE s == v.digests
    <2> HIDE DEF s
    <2>6. s = <<s[1]>>
      BY <1>5, <2>1 DEF s
    <2> QED
      BY <2>4, <2>5, <2>6 DEF d, s
  <1> HIDE DEF v, c, o
  <1>7. /\ ~RawEventFits => w.cut < o + Len(c)
        /\ RawEventFits =>
             /\ o + Len(c) <= w.cut
             /\ r[1] = c[1] /\ r[2] = c[2] /\ r[3] = c[3] /\ r[4] = Len(v.data)
             /\ SubSeq(r, 5, 4 + r[4]) = v.data /\ From(r, 5 + r[4]) = Rest(w, o + Len(c))
    BY <1>3, <1>4, <1>5, RawRead DEF o
  <1>8. ASSUME RawEventFits, NEW q PROVE RawEventOf(q) = ReturnedEvent(v, q)
    <2> DEFINE y == v.digests[1].data[1]
    <2>1. v.digests = <<[ID |-> AlgSHA1, data |-> <<y>>]>>
      BY <1>6
    <2>2. r[1] = v.index /\ r[2] = v.typ /\ r[3] = y /\ SubSeq(r, 5, 4 + r[4]) = v.data
      BY <1>4, <1>7, <1>8
    <2> HIDE DEF y
    <2>3. cryptoHash(AlgSHA1) = "SHA1"
      BY DEF cryptoHash, AlgSHA1
    <2>4. [i \in DOMAIN v.digests |->
             [hash |-> cryptoHash(v.digests[i].ID), data |-> v.digests[i].data]]
            = <<[hash |-> "SHA1", data |-> <<y>>]>>
      <3>1. DOMAIN v.digests = 1 .. 1
        BY <2>1
      <3>2. v.digests[1] = [ID |-> AlgSHA1, data |-> <<y>>]
        BY <2>1
      <3>3. v.digests[1].ID = AlgSHA1 /\ v.digests[1].data = <<y>>
        BY <3>2
      <3>4. \A i \in 1 .. 1 : i = 1
        OBVIOUS
      <3> QED
        BY <2>3, <3>1, <3>3, <3>4
    <2> QED
      BY <2>2, <2>4 DEF RawEventOf, ReturnedEvent
  <1> QED
    BY <1>3, <1>4, <1>7, <1>8 DEF v

-----------------------------------------------------------------------------
(***************************************************************************)
(* The spec ID event is read as it was written.                            *)
(***************************************************************************)

\* The cells of the spec ID event are the first ones of the log.
LEMMA HeaderPlace ==
  ASSUME NEW w, IsLog(w), Agile(w)
  PROVE  LET c == SpecIDCells(w.algs)
             x == SpecIDData(w.algs)
         IN  /\ c \in Seq(Nat) /\ x \in Seq(Nat) /\ Part(AllCells(w), 0, c) /\ Part(c, 4, x)
             /\ Len(c) = 4 + Len(x) /\ c[2] = eventTypeNoAction /\ c[4] = Len(x)
             /\ StartOf(w, 0) = Len(c) /\ Len(x) = 3 + 2 * Len(w.algs)
  <1> DEFINE c == SpecIDCells(w.algs)
             x == SpecIDData(w.algs)
             h == <<0, eventTypeNoAction, 0, Len(x)>>
  <1>1. x \in Seq(Nat) /\ Len(x) \in Nat /\ Len(x) = 3 + 2 * Len(w.algs)
    BY LogType, SpecCells, LenProperties
  <1>2. h \in Seq(Nat) /\ Len(h) = 4 /\ h[2] = eventTypeNoAction /\ h[4] = Len(x)
    BY <1>1 DEF eventTypeNoAction
  <1>3. c = h \o x
    BY DEF SpecIDCells
  <1>4. HeaderCells(w) = c
    BY DEF HeaderCells, Agile
  <1>5. 0 \in 0 .. Len(w.events) /\ Len(w.events) \in 0 .. Len(w.events)
    BY LogType
  <1>6. Part(AllCells(w), 0, HeaderCells(w))
    BY <1>5, CellsAre DEF AllCells
  <1>7. StartOf(w, 0) = Len(HeaderCells(w)) + Len(Flat(EventsCells(w), 0))
        /\ Len(HeaderCells(w)) \in Nat
    BY <1>5, CellsAre, HeaderType
  <1>8. Len(Flat(EventsCells(w), 0)) = 0
    BY FlatEmpty, Len(<< >>) = 0 DEF Flat
  <1>9. StartOf(w, 0) = Len(c)
    BY <1>4, <1>7, <1>8
  <1> HIDE DEF h, x, c
  <1>10. c \in Seq(Nat) /\ Len(c) = Len(h) + Len(x) /\ Part(c, 0, h) /\ Part(c, Len(h), x)
    BY <1>1, <1>2, <1>3, ConcatParts
  <1>11. c[2] = h[2] /\ c[4] = h[4]
    BY <1>2, <1>10, 0 + 2 = 2, 0 + 4 = 4, 2 \in 1 .. 4, 4 \in 1 .. 4 DEF Part
  <1> QED
    BY <1>1, <1>2, <1>4, <1>6, <1>9, <1>10, <1>11 DEF x, c

\* A spec ID event has the length that its number of algorithms asks for.
LEMMA SpecSums ==
  ASSUME NEW l \in Nat
  PROVE  3 + 2 * l >= 2 /\ 3 + 2 * l >= 3 + 2 * l /\ (3 + 2 * l) - (3 + 2 * l) = 0
  OBVIOUS

\* parseSpecIDEvent returns the algorithms that were written.
LEMMA SpecRead ==
  ASSUME NEW decl \in Seq(AlgType)
  PROVE  LET x == SpecIDData(decl)
         IN  Len(x) >= 2 /\ SpecIDParses(x) /\ SpecAlgs(x) = decl
  <1> DEFINE x == SpecIDData(decl)
             l == Len(decl)
  <1>1. /\ l \in Nat /\ Len(x) = 3 + 2 * l /\ x[1] = SpecIDSignature /\ x[2] = l
        /\ x[3 + 2 * l] = 0
        /\ \A i \in 1 .. l : x[1 + 2 * i] = decl[i].ID /\ x[2 + 2 * i] = decl[i].Size
    BY SpecCells
  <1> HIDE DEF x, l
  <1>2. Len(x) >= 2 /\ SpecIDParses(x)
    BY <1>1, SpecSums DEF SpecIDParses
  <1>3. \A i \in 1 .. l : decl[i] \in AlgType
    BY ElementOfSeq DEF l
  <1>4. \A i \in 1 .. l : decl[i] = [ID |-> decl[i].ID, Size |-> decl[i].Size]
    BY <1>3 DEF AlgType
  <1>5. SpecAlgs(x) = [i \in 1 .. l |-> [ID |-> decl[i].ID, Size |-> decl[i].Size]]
    BY <1>1 DEF SpecAlgs
  <1>6. decl \in [1 .. l -> AlgType]
    BY LenProperties DEF l
  <1>7. SpecAlgs(x) = decl
    BY <1>4, <1>5, <1>6
  <1> QED
    BY <1>2, <1>7 DEF x

-----------------------------------------------------------------------------
(***************************************************************************)
(* Where the parser is in a log, and what it has read.                     *)
(***************************************************************************)

First(w) == IF w.algs = << >> THEN 0 ELSE 1
ReturnedTo(w, n) == [k \in 1 .. n |-> ReturnedEvent(w.events[k], k - 1 + First(w))]
ReturnedDigests(v, n) ==
  [i \in 1 .. n |-> [hash |-> cryptoHash(v.digests[i].ID), data |-> v.digests[i].data]]

\* n events were read.
EventsRead(w, n) ==
  /\ specID = w.algs /\ parsed = ReturnedTo(w, n) /\ sequence = n + First(w)

AtEvent(w, n) ==
  /\ EventsRead(w, n) /\ (~Agile(w) => n # 0)
  /\ StartOf(w, n) <= w.cut /\ r = Rest(w, StartOf(w, n))

\* And k digests of the next one.
DigestStart(w, n, k) == StartOf(w, n) + (3 + DigestsLen(w.events[n + 1], k))
AtDigest(w, n, k) ==
  /\ EventsRead(w, n) /\ Agile(w)
  /\ k <= Len(w.events[n + 1].digests)
  /\ event = [index |-> w.events[n + 1].index, typ |-> w.events[n + 1].typ,
              digests |-> ReturnedDigests(w.events[n + 1], k),
              left |-> Len(w.events[n + 1].digests) - k]
  /\ DigestStart(w, n, k) <= w.cut /\ r = Rest(w, DigestStart(w, n, k))

Reads(w) ==
  \/ phase = "first" /\ r = Rest(w, 0)
  \/ phase = "loop" /\ \E n \in 0 .. Len(w.events) : AtEvent(w, n)
  \/ /\ phase = "digests"
     /\ \E n \in 0 .. Len(w.events) - 1 : \E k \in Nat : AtDigest(w, n, k)

Cut(w) == Whole(w) = {} \/ w.cut = 0

\* The first event.
LEMMA FirstAgile ==
  ASSUME NEW w, IsLog(w), ProperSpec(w), Agile(w), phase = "first", r = Rest(w, 0), ParseFirst
  PROVE  (Reads(w)' /\ result' = "none") \/ (Fail /\ Cut(w))
  <1> DEFINE c == SpecIDCells(w.algs)
             x == SpecIDData(w.algs)
             v == RawEventOf(0)
             spec == v.typ = eventTypeNoAction /\ Len(v.data) >= 2
             decl == SpecAlgs(v.data)
  <1>1. /\ c \in Seq(Nat) /\ x \in Seq(Nat) /\ Part(AllCells(w), 0, c) /\ Part(c, 4, x)
        /\ Len(c) = 4 + Len(x) /\ c[2] = eventTypeNoAction /\ c[4] = Len(x)
        /\ StartOf(w, 0) = Len(c)
    BY HeaderPlace
  <1>2. 0 \in Nat /\ 0 <= w.cut /\ w.cut \in Nat /\ w.algs \in Seq(AlgType) /\ 0 \in 0 .. Len(w.events)
    BY LogType
  <1>3. Len(c) \in Nat
    BY <1>1, LenProperties
  <1> HIDE DEF c
  <1>4. /\ ~RawEventFits => w.cut < 0 + Len(c)
        /\ RawEventFits =>
             /\ 0 + Len(c) <= w.cut
             /\ r[2] = c[2] /\ SubSeq(r, 5, 4 + r[4]) = x /\ From(r, 5 + r[4]) = Rest(w, 0 + Len(c))
    BY <1>1, <1>2, RawRead
  <1>5. 0 + Len(c) = Len(c)
    BY <1>3
  <1>6. CASE ~RawEventFits
    <2>1. Fail
      BY <1>6 DEF ParseFirst
    <2>2. w.cut < StartOf(w, 0)
      BY <1>1, <1>4, <1>5, <1>6
    <2>3. Whole(w) = {}
      BY <2>2, NoHeader
    <2> QED
      BY <2>1, <2>3 DEF Cut
  <1>7. CASE RawEventFits
    <2>1. v.typ = eventTypeNoAction /\ v.data = x
      BY <1>1, <1>4, <1>7 DEF RawEventOf
    <2>2. Len(x) >= 2 /\ SpecIDParses(x) /\ SpecAlgs(x) = w.algs
      BY <1>2, SpecRead
    <2>3. \E i \in DOMAIN w.algs : w.algs[i].ID \in {AlgSHA1, AlgSHA256}
      BY DEF ProperSpec, Agile
    <2>4. spec /\ decl = w.algs
      BY <2>1, <2>2
    <2>5. ~(spec /\ (~SpecIDParses(v.data)
                     \/ \A i \in DOMAIN decl : decl[i].ID \notin {AlgSHA1, AlgSHA256}))
      <3> HIDE DEF v
      <3> QED
        BY <2>1, <2>2, <2>3, <2>4
    <2>6. /\ specID' = IF spec THEN decl ELSE << >>
          /\ parsed' = IF spec THEN << >> ELSE <<v>>
          /\ sequence' = FirstSequence /\ r' = From(r, 5 + r[4]) /\ phase' = "loop"
          /\ UNCHANGED result /\ Running("first")
      BY <1>7, <2>5, Zenon DEF ParseFirst
    <2>7. /\ specID' = w.algs /\ parsed' = << >> /\ sequence' = 1 /\ phase' = "loop"
          /\ r' = Rest(w, StartOf(w, 0))
      <3> HIDE DEF v
      <3>1. specID' = w.algs /\ parsed' = << >>
        BY <2>4, <2>6, Zenon
      <3> QED
        BY <1>1, <1>4, <1>5, <1>7, <2>6, <3>1 DEF FirstSequence
    <2>8. ReturnedTo(w, 0) = << >>
      BY DEF ReturnedTo
    <2>9. First(w) = 1 /\ 1 = 0 + First(w)
      BY DEF First, Agile
    <2>10. StartOf(w, 0) <= w.cut
      BY <1>1, <1>4, <1>5, <1>7
    <2>11. AtEvent(w, 0)'
      BY <2>7, <2>8, <2>9, <2>10 DEF AtEvent, EventsRead
    <2> QED
      BY <1>2, <2>6, <2>7, <2>11 DEF Reads, Running
  <1> QED
    BY <1>6, <1>7

\* A log in the TPM 1.2 format starts with its first event.
LEMMA OldStart ==
  ASSUME NEW w, IsLog(w), ~Agile(w)
  PROVE  StartOf(w, 0) = 0
  <1>1. 0 \in 0 .. Len(w.events)
    BY LogType
  <1>2. StartOf(w, 0) = Len(HeaderCells(w)) + Len(Flat(EventsCells(w), 0))
    BY <1>1, CellsAre
  <1>3. Len(HeaderCells(w)) = 0
    BY Len(<< >>) = 0 DEF HeaderCells, Agile
  <1>4. Len(Flat(EventsCells(w), 0)) = 0
    BY FlatEmpty, Len(<< >>) = 0 DEF Flat
  <1> QED
    BY <1>2, <1>3, <1>4

\* The log has another event if more is left of it, and no more if it has no other.
LEMMA MoreEvents ==
  ASSUME NEW w, IsLog(w), NEW n \in 0 .. Len(w.events), StartOf(w, n) < w.cut
  PROVE  n \in Nat /\ n < Len(w.events) /\ n + 1 \in 0 .. Len(w.events) /\ n + 1 \in 1 .. Len(w.events)
         /\ n \in 0 .. Len(w.events) - 1
  <1>1. Len(w.events) \in Nat /\ w.cut \in Nat
    BY LogType
  <1>2. w.cut <= StartOf(w, Len(w.events)) /\ StartOf(w, Len(w.events)) \in Nat
        /\ StartOf(w, n) \in Nat
    BY <1>1, StartsGrow, Len(w.events) \in 0 .. Len(w.events) DEF IsLog, StartOf
  <1>3. n # Len(w.events)
    BY <1>1, <1>2
  <1> QED
    BY <1>1, <1>3

\* The first elements and the next one.
LEMMA FrontNext ==
  ASSUME NEW f, NEW n \in Nat
  PROVE  Append(FirstN(f, n), f[n + 1]) = FirstN(f, n + 1)
  <1> DEFINE x == f[n + 1]
             s == FirstN(f, n)
             t == FirstN(f, n + 1)
             S == {f[k] : k \in 1 .. n + 1}
  <1>1. \A k \in 1 .. n + 1 : f[k] \in S
    OBVIOUS
  <1>2. n + 1 \in 1 .. n + 1 /\ \A k \in 1 .. n : k \in 1 .. n + 1
    OBVIOUS
  <1> HIDE DEF S
  <1>3. /\ s \in Seq(S) /\ t \in Seq(S) /\ Len(s) = n /\ Len(t) = n + 1 /\ x \in S
        /\ t[n + 1] = x /\ \A k \in 1 .. n : s[k] = t[k]
    <2>1. \A k \in 1 .. n : f[k] \in S
      BY <1>1, <1>2
    <2> QED
      BY <1>1, <1>2, <2>1 DEF FirstN
  <1> HIDE DEF s, t, x
  <1>4. /\ Append(s, x) \in Seq(S) /\ Len(Append(s, x)) = n + 1
        /\ \A k \in 1 .. n : Append(s, x)[k] = s[k]
        /\ Append(s, x)[n + 1] = x
    BY <1>3, AppendProperties
  <1>5. \A k \in 1 .. n + 1 : Append(s, x)[k] = t[k]
    <2> TAKE k \in 1 .. n + 1
    <2>1. k \in 1 .. n \/ k = n + 1
      OBVIOUS
    <2> QED
      BY <1>3, <1>4, <2>1
  <1>6. Append(s, x) = t
    BY <1>3, <1>4, <1>5, SeqEqual
  <1> QED
    BY <1>6 DEF s, t, x

\* One more event was read.
LEMMA ReturnedNext ==
  ASSUME NEW w, NEW n \in Nat, NEW x, x = ReturnedEvent(w.events[n + 1], n + First(w))
  PROVE  Append(ReturnedTo(w, n), x) = ReturnedTo(w, n + 1)
  <1> DEFINE t == ReturnedTo(w, n + 1)
  <1>1. First(w) \in Nat
    BY DEF First
  <1>2. t = FirstN(t, n + 1) /\ ReturnedTo(w, n) = FirstN(t, n) /\ t[n + 1] = x
    <2>1. n + 1 - 1 + First(w) = n + First(w) /\ n + 1 \in 1 .. n + 1
      BY <1>1
    <2> QED
      BY <2>1 DEF ReturnedTo, FirstN
  <1> HIDE DEF t
  <1>3. Append(FirstN(t, n), t[n + 1]) = FirstN(t, n + 1)
    BY FrontNext
  <1> QED
    BY <1>2, <1>3, Zenon DEF t

\* ParseEventLog reads the first event of a log in the TPM 1.2 format.
LEMMA FirstOld ==
  ASSUME NEW w, IsLog(w), ~Agile(w), phase = "first", r = Rest(w, 0), ParseFirst
  PROVE  (Reads(w)' /\ result' = "none") \/ (Fail /\ Cut(w))
  <1>1. StartOf(w, 0) = 0 /\ Len(w.events) \in Nat /\ w.cut \in Nat /\ 0 \in 0 .. Len(w.events)
    BY OldStart, LogType
  <1>2. CASE w.cut = 0
    <2>1. Len(r) = 0
      BY <1>1, <1>2, RestIs, 0 \in Nat
    <2>2. ~RawEventFits
      BY <2>1 DEF RawEventFits
    <2> QED
      BY <1>2, <2>2 DEF ParseFirst, Cut
  <1>3. CASE w.cut # 0
    <2>1. StartOf(w, 0) < w.cut
      BY <1>1, <1>3
    <2>2. 0 < Len(w.events) /\ 0 + 1 \in 0 .. Len(w.events) /\ 0 \in Nat /\ 0 + 1 = 1
      BY <1>1, <2>1, MoreEvents
    <2>3. /\ ~RawEventFits => w.cut < StartOf(w, 1)
          /\ RawEventFits =>
               /\ \A q : RawEventOf(q) = ReturnedEvent(w.events[1], q)
               /\ StartOf(w, 1) <= w.cut
               /\ From(r, 5 + r[4]) = Rest(w, StartOf(w, 1))
      BY <1>1, <2>1, <2>2, OldRead
    <2>4. CASE ~RawEventFits
      <3>1. Whole(w) = {}
        BY <2>1, <2>2, <2>3, <2>4, NotWhole
      <3> QED
        BY <2>4, <3>1 DEF ParseFirst, Cut
    <2>5. CASE RawEventFits
      <3> DEFINE v == RawEventOf(0)
                 spec == v.typ = eventTypeNoAction /\ Len(v.data) >= 2
                 decl == SpecAlgs(v.data)
      <3>1. v = ReturnedEvent(w.events[1], 0)
        BY <2>3, <2>5
      <3>2. v.typ = w.events[1].typ /\ v.data = w.events[1].data
        BY <3>1 DEF ReturnedEvent
      <3>3. w.events # << >>
        BY <2>2, Len(<< >>) = 0
      <3>4. w.events[1].typ # eventTypeNoAction \/ Len(w.events[1].data) < 2
        BY <3>3 DEF IsLog, Agile
      <3>5. Len(w.events[1].data) \in Nat
        <4>1. w.events[1] \in WrittenEvent
          BY <2>2, LogType
        <4>2. w.events[1].data \in Seq(Nat)
          BY <4>1 DEF WrittenEvent
        <4> QED
          BY <4>2, LenProperties
      <3> HIDE DEF v
      <3>6. ~spec
        BY <3>2, <3>4, <3>5
      <3>7. /\ specID' = IF spec THEN decl ELSE << >>
            /\ parsed' = IF spec THEN << >> ELSE <<v>>
            /\ sequence' = FirstSequence /\ r' = From(r, 5 + r[4]) /\ phase' = "loop"
            /\ UNCHANGED result /\ Running("first")
        <4>1. ~(spec /\ (~SpecIDParses(v.data)
                         \/ \A i \in DOMAIN decl : decl[i].ID \notin {AlgSHA1, AlgSHA256}))
          BY <3>6
        <4> QED
          BY <2>5, <4>1, Zenon DEF ParseFirst, v
      <3>8. specID' = << >> /\ parsed' = <<v>>
        BY <3>6, <3>7, Zenon
      <3>9. sequence' = 1 /\ phase' = "loop" /\ r' = Rest(w, StartOf(w, 1))
        BY <2>3, <2>5, <3>7 DEF FirstSequence
      <3>10. First(w) = 0 /\ w.algs = << >>
        BY DEF First, Agile
      <3>11. ReturnedTo(w, 1) = <<v>>
        <4>1. \A k \in 1 .. 1 : k = 1 /\ k - 1 + 0 = 0
          OBVIOUS
        <4>2. ReturnedTo(w, 1) = [k \in 1 .. 1 |-> v]
          BY <3>1, <3>10, <4>1 DEF ReturnedTo
        <4> QED
          BY <4>2
      <3>12. AtEvent(w, 1)'
        BY <2>3, <2>5, <3>8, <3>9, <3>10, <3>11 DEF AtEvent, EventsRead
      <3> QED
        BY <2>2, <3>7, <3>9, <3>12 DEF Reads, Running
    <2> QED
      BY <2>4, <2>5
  <1> QED
    BY <1>2, <1>3

\* An event in the format of TPM 1.2.
LEMMA RawStep ==
  ASSUME NEW w, IsLog(w), Reads(w), ParseRawEvent
  PROVE  (Reads(w)' /\ result' = "none") \/ (Fail /\ Cut(w))
  <1>1. phase = "loop" /\ r # << >> /\ specID = << >> /\ result = "none"
    BY DEF ParseRawEvent, Running
  <1>2. PICK n \in 0 .. Len(w.events) : AtEvent(w, n)
    BY <1>1 DEF Reads
  <1>3. ~Agile(w) /\ r = Rest(w, StartOf(w, n)) /\ StartOf(w, n) <= w.cut /\ n # 0
        /\ parsed = ReturnedTo(w, n) /\ sequence = n + First(w) /\ w.algs = << >>
    BY <1>1, <1>2 DEF AtEvent, EventsRead, Agile
  <1>4. StartOf(w, n) \in Nat /\ w.cut \in Nat
    BY StartsGrow, LogType
  <1>5. StartOf(w, n) < w.cut
    <2>1. Len(r) = w.cut - StartOf(w, n) /\ r \in Seq(Nat)
      BY <1>3, <1>4, RestIs
    <2>2. Len(r) # 0
      BY <1>1, <2>1, EmptySeq
    <2> QED
      BY <1>3, <1>4, <2>1, <2>2
  <1>6. n \in Nat /\ n < Len(w.events) /\ n + 1 \in 0 .. Len(w.events)
    BY <1>5, MoreEvents
  <1>7. /\ ~RawEventFits => w.cut < StartOf(w, n + 1)
        /\ RawEventFits =>
             /\ \A q : RawEventOf(q) = ReturnedEvent(w.events[n + 1], q)
             /\ StartOf(w, n + 1) <= w.cut
             /\ From(r, 5 + r[4]) = Rest(w, StartOf(w, n + 1))
    BY <1>3, <1>6, OldRead
  <1>8. CASE ~RawEventFits
    <2>1. Whole(w) = {}
      BY <1>5, <1>6, <1>7, <1>8, NotWhole
    <2> QED
      BY <1>8, <2>1 DEF ParseRawEvent, Cut
  <1>9. CASE RawEventFits
    <2> DEFINE x == RawEventOf(sequence)
    <2>1. AddEvent(x, From(r, 5 + r[4]))
      BY <1>9 DEF ParseRawEvent
    <2>2. x = ReturnedEvent(w.events[n + 1], n + First(w))
      BY <1>3, <1>7, <1>9
    <2> HIDE DEF x
    <2>3. parsed' = Append(parsed, x) /\ sequence' = sequence + 1 /\ phase' = "loop"
          /\ specID' = specID /\ r' = From(r, 5 + r[4]) /\ result' = result
      BY <2>1 DEF AddEvent
    <2>4. parsed' = ReturnedTo(w, n + 1)
      BY <1>3, <1>6, <2>2, <2>3, ReturnedNext
    <2>5. First(w) = 0
      BY <1>3 DEF First
    <2>6. sequence' = n + 1 + First(w)
      BY <1>3, <1>6, <2>3, <2>5
    <2>7. n + 1 # 0
      BY <1>6
    <2>8. AtEvent(w, n + 1)'
      BY <1>1, <1>3, <1>7, <1>9, <2>3, <2>4, <2>6, <2>7 DEF AtEvent, EventsRead
    <2> QED
      BY <1>1, <1>6, <2>3, <2>8 DEF Reads
  <1> QED
    BY <1>8, <1>9

-----------------------------------------------------------------------------
(***************************************************************************)
(* An event in the crypto agile format is read as it was written.          *)
(***************************************************************************)

\* The arithmetic of an algorithm and a digest in what is left.
LEMMA CellSums ==
  ASSUME NEW o \in Nat, NEW l \in Nat, NEW n \in Nat, o <= n
  PROVE  /\ n - o \in Nat /\ (n - o = 0 <=> n = o)
         /\ n # o => (l <= n - o - 1 <=> o + (1 + l) <= n) /\ 1 \in 1 .. n - o
         /\ o + (1 + l) <= n => n # o /\ o + 1 + l <= n
         /\ 2 + l = (1 + l) + 1 /\ 1 + l \in Nat /\ l \in Int /\ n - o - 1 \in Int
         /\ ~(o + (1 + l) <= n) <=> n < o + (1 + l)
  OBVIOUS

\* The cells from o that are left start with a, and then come those of x.
LEMMA CellRead ==
  ASSUME NEW w, IsLog(w), NEW o \in Nat, o <= w.cut, r = Rest(w, o),
         NEW a, NEW x \in Seq(Nat), AllCells(w)[o + 1] = a, Part(AllCells(w), o + 1, x)
  PROVE  /\ r = << >> <=> w.cut = o
         /\ r # << >> => /\ r[1] = a
                         /\ Len(x) <= Len(r) - 1 <=> o + (1 + Len(x)) <= w.cut
                         /\ Len(x) > Len(r) - 1 <=> w.cut < o + (1 + Len(x))
         /\ o + (1 + Len(x)) <= w.cut =>
              /\ r # << >> /\ SubSeq(r, 2, 1 + Len(x)) = x
              /\ From(r, 2 + Len(x)) = Rest(w, o + (1 + Len(x)))
  <1> DEFINE t == AllCells(w)
             n == w.cut
             l == Len(x)
  <1>1. /\ t \in Seq(Nat) /\ n \in Nat /\ r \in Seq(Nat) /\ Len(r) = n - o
        /\ \A j \in 1 .. n - o : r[j] = t[o + j]
    BY RestIs
  <1>2. l \in Nat /\ o <= n
    BY LenProperties
  <1> HIDE DEF t, n, l
  <1>3. /\ n - o \in Nat /\ (n - o = 0 <=> n = o)
        /\ n # o => (l <= n - o - 1 <=> o + (1 + l) <= n) /\ 1 \in 1 .. n - o
        /\ o + (1 + l) <= n => n # o /\ o + 1 + l <= n
        /\ 2 + l = (1 + l) + 1 /\ 1 + l \in Nat /\ l \in Int /\ n - o - 1 \in Int
        /\ ~(o + (1 + l) <= n) <=> n < o + (1 + l)
    BY <1>1, <1>2, CellSums
  <1>4. r = << >> <=> n = o
    BY <1>1, <1>3, EmptySeq, Len(<< >>) = 0
  <1>5. ASSUME r # << >>
        PROVE  /\ r[1] = a /\ (l <= Len(r) - 1 <=> o + (1 + l) <= n)
               /\ l > Len(r) - 1 <=> n < o + (1 + l)
    <2>1. n # o
      BY <1>4, <1>5
    <2>2. 1 \in 1 .. n - o /\ (l <= Len(r) - 1 <=> o + (1 + l) <= n)
      BY <1>1, <1>3, <2>1
    <2>3. r[1] = a
      BY <1>1, <2>2 DEF t
    <2>4. l > Len(r) - 1 <=> ~(l <= Len(r) - 1)
      BY <1>1, <1>3
    <2> QED
      BY <1>3, <2>2, <2>3, <2>4
  <1>6. ASSUME o + (1 + l) <= n
        PROVE  /\ r # << >> /\ SubSeq(r, 2, 1 + l) = x /\ From(r, 2 + l) = Rest(w, o + (1 + l))
    <2>1. r # << >> /\ o + 1 + l <= n
      BY <1>3, <1>4, <1>6
    <2>2. SubSeq(r, 1 + 1, 1 + l) = x
      BY <2>1, RestPart, 1 \in Nat DEF n, l
    <2>3. From(r, (1 + l) + 1) = Rest(w, o + (1 + l))
      BY <1>3, <1>6, RestFrom DEF n
    <2> QED
      BY <1>3, <2>1, <2>2, <2>3, 1 + 1 = 2
  <1> QED
    BY <1>4, <1>5, <1>6 DEF n, l

\* The places in the event n + 1.
LEMMA AgilePlace ==
  ASSUME NEW w, IsLog(w), Agile(w), NEW n \in Nat, n < Len(w.events)
  PROVE  LET v == w.events[n + 1]
             c == EventCells(v, TRUE)
             o == StartOf(w, n)
             d == DigestsLen(v, Len(v.digests))
         IN  /\ v \in WrittenEvent /\ WrittenAs(v, w.algs) /\ c \in Seq(Nat) /\ o \in Nat
             /\ Len(v.digests) \in Nat /\ d \in Nat /\ Len(v.data) \in Nat
             /\ Part(AllCells(w), o, c) /\ AllCells(w) \in Seq(Nat)
             /\ Len(c) = 4 + d + Len(v.data) /\ StartOf(w, n + 1) = o + (4 + d + Len(v.data))
  <1>1. n + 1 \in 1 .. Len(w.events) /\ Agile(w) = TRUE
    BY LogType DEF Agile
  <1>2. w.events[n + 1] \in WrittenEvent /\ WrittenAs(w.events[n + 1], w.algs)
    BY <1>1, LogType
  <1>3. AllCells(w) \in Seq(Nat)
    BY CellsAre, LogType, Len(w.events) \in 0 .. Len(w.events) DEF AllCells
  <1> DEFINE v == w.events[n + 1]
             c == EventCells(v, TRUE)
             o == StartOf(w, n)
             d == DigestsLen(v, Len(v.digests))
             e == EventCells(v, Agile(w))
  <1>4. /\ e \in Seq(Nat) /\ Part(AllCells(w), o, e) /\ o \in Nat
        /\ StartOf(w, n + 1) = o + Len(e)
    BY EventPlace
  <1>5. e = c
    BY <1>1
  <1>6. /\ c \in Seq(Nat) /\ d \in Nat /\ Len(v.data) \in Nat
        /\ Len(c) = 4 + d + Len(v.data)
    BY <1>2, AgileCells
  <1>7. Len(v.digests) \in Nat
    BY <1>2, DigestsAre
  <1> HIDE DEF c, o, d, e, v
  <1>8. StartOf(w, n + 1) = o + (4 + d + Len(v.data)) /\ Part(AllCells(w), o, c) /\ o \in Nat
    BY <1>4, <1>5, <1>6, Zenon
  <1> QED
    BY <1>2, <1>3, <1>6, <1>7, <1>8, Zenon DEF c, o, d, v

\* The arithmetic of the header of an event in what is left.
LEMMA HeaderSums ==
  ASSUME NEW o \in Nat, NEW d \in Nat, NEW l \in Nat, NEW n \in Nat, o <= n
  PROVE  /\ n - o < 3 => n < o + (4 + d + l)
         /\ ~(n - o < 3) => o + 3 <= n /\ \A j \in 1 .. 3 : j \in 1 .. n - o
         /\ \A j \in 1 .. 3 : j \in 1 .. 4 + d + l
         /\ o + (3 + 0) = o + 3 /\ 3 + 1 = 4
         /\ n - o # 0 => o < n
  OBVIOUS

\* parseRawEvent2 reads the header of an event, or the log ends inside the event.
LEMMA HeaderStep ==
  ASSUME NEW w, IsLog(w), Reads(w), ParseHeader
  PROVE  (Reads(w)' /\ result' = "none") \/ (Fail /\ Cut(w))
  <1>1. phase = "loop" /\ r # << >> /\ specID # << >> /\ result = "none"
    BY DEF ParseHeader, Running
  <1>2. PICK n \in 0 .. Len(w.events) : AtEvent(w, n)
    BY <1>1 DEF Reads
  <1> DEFINE v == w.events[n + 1]
             o == StartOf(w, n)
             m == w.cut
             c == EventCells(v, TRUE)
             d == DigestsLen(v, Len(v.digests))
             l == Len(v.data)
  <1>3. /\ Agile(w) /\ r = Rest(w, o) /\ o <= m /\ specID = w.algs
        /\ parsed = ReturnedTo(w, n) /\ sequence = n + First(w)
    BY <1>1, <1>2 DEF AtEvent, EventsRead, Agile
  <1>4. o \in Nat /\ m \in Nat
    BY StartsGrow, LogType
  <1>5. Len(r) = m - o /\ r \in Seq(Nat) /\ \A j \in 1 .. m - o : r[j] = AllCells(w)[o + j]
    BY <1>3, <1>4, RestIs
  <1>6. o < m
    <2>1. Len(r) # 0
      BY <1>1, <1>5, EmptySeq
    <2> HIDE DEF o, m
    <2> QED
      BY <1>3, <1>4, <1>5, <2>1
  <1>7. n \in Nat /\ n < Len(w.events) /\ n + 1 \in 0 .. Len(w.events) /\ n \in 0 .. Len(w.events) - 1
    BY <1>6, MoreEvents
  <1>8. /\ v \in WrittenEvent /\ c \in Seq(Nat) /\ Part(AllCells(w), o, c)
        /\ d \in Nat /\ l \in Nat /\ Len(c) = 4 + d + l /\ StartOf(w, n + 1) = o + (4 + d + l)
        /\ Len(v.digests) \in Nat
    BY <1>3, <1>7, AgilePlace
  <1>9. c[1] = v.index /\ c[2] = v.typ /\ c[3] = Len(v.digests)
    BY <1>8, AgileCells
  <1>10. \A j \in 1 .. 4 + d + l : AllCells(w)[o + j] = c[j]
    BY <1>8 DEF Part
  <1> HIDE DEF v, o, m, c, d, l
  <1>11. /\ m - o < 3 => m < o + (4 + d + l)
         /\ ~(m - o < 3) => o + 3 <= m /\ \A j \in 1 .. 3 : j \in 1 .. m - o
         /\ \A j \in 1 .. 3 : j \in 1 .. 4 + d + l
         /\ o + (3 + 0) = o + 3 /\ 3 + 1 = 4
    BY <1>3, <1>4, <1>8, HeaderSums
  <1>12. CASE Len(r) < 3
    <2>1. Fail
      BY <1>12 DEF ParseHeader
    <2>2. m < StartOf(w, n + 1)
      BY <1>5, <1>8, <1>11, <1>12
    <2>3. Whole(w) = {}
      BY <1>6, <1>7, <2>2, NotWhole DEF o, m
    <2> QED
      BY <2>1, <2>3 DEF Cut
  <1>13. CASE ~(Len(r) < 3)
    <2>1. /\ event' = [index |-> r[1], typ |-> r[2], digests |-> << >>, left |-> r[3]]
          /\ r' = From(r, 4) /\ phase' = "digests"
          /\ UNCHANGED <<specID, parsed, sequence, result>>
      BY <1>13 DEF ParseHeader, NumDigests
    <2>2. o + 3 <= m /\ \A j \in 1 .. 3 : r[j] = c[j]
      BY <1>5, <1>10, <1>11, <1>13
    <2>3. r[1] = v.index /\ r[2] = v.typ /\ r[3] = Len(v.digests)
      BY <1>9, <2>2, 1 \in 1 .. 3, 2 \in 1 .. 3, 3 \in 1 .. 3
    <2>4. From(r, 3 + 1) = Rest(w, o + 3)
      BY <1>3, <1>4, <2>2, RestFrom, 3 \in Nat DEF m
    <2>5. DigestsLen(v, 0) = 0
      BY FlatEmpty, Len(<< >>) = 0 DEF DigestsLen, Flat
    <2>6. DigestStart(w, n, 0) = o + 3
      BY <1>11, <2>5 DEF DigestStart, v, o
    <2>7. ReturnedDigests(v, 0) = << >>
      BY DEF ReturnedDigests
    <2>8. Len(v.digests) - 0 = Len(v.digests) /\ 0 <= Len(v.digests)
      BY <1>8
    <2>9. EventsRead(w, n)'
      BY <1>3, <2>1 DEF EventsRead
    <2>10. r' = Rest(w, DigestStart(w, n, 0)) /\ DigestStart(w, n, 0) <= w.cut
      BY <1>11, <2>1, <2>2, <2>4, <2>6 DEF m
    <2>11. event' = [index |-> v.index, typ |-> v.typ, digests |-> ReturnedDigests(v, 0),
                     left |-> Len(v.digests) - 0]
      BY <2>1, <2>3, <2>7, <2>8
    <2>12. AtDigest(w, n, 0)'
      BY <1>3, <2>8, <2>9, <2>10, <2>11 DEF AtDigest, v
    <2> QED
      BY <1>1, <1>7, <2>1, <2>12, 0 \in Nat DEF Reads
  <1> QED
    BY <1>12, <1>13

\* The digest k + 1 of the event n + 1.
LEMMA DigestAt ==
  ASSUME NEW w, IsLog(w), Agile(w), NEW n \in Nat, n < Len(w.events),
         NEW k \in Nat, k < Len(w.events[n + 1].digests)
  PROVE  LET v == w.events[n + 1]
             d == v.digests[k + 1]
             o == DigestStart(w, n, k)
         IN  /\ d.ID \in Nat /\ d.data \in Seq(Nat) /\ Len(d.data) \in Nat /\ o \in Nat
             /\ AllCells(w)[o + 1] = d.ID /\ Part(AllCells(w), o + 1, d.data)
             /\ DigestStart(w, n, k + 1) = o + (1 + Len(d.data))
             /\ StartOf(w, n) < o /\ o + (1 + Len(d.data)) < StartOf(w, n + 1)
  <1> DEFINE v == w.events[n + 1]
             d == v.digests[k + 1]
             s == StartOf(w, n)
             c == EventCells(v, TRUE)
             p == DigestsLen(v, k)
             q == Len(d.data)
             e == DigestsLen(v, Len(v.digests))
             l == Len(v.data)
             t == AllCells(w)
  <1>1. /\ v \in WrittenEvent /\ c \in Seq(Nat) /\ s \in Nat /\ e \in Nat /\ l \in Nat
        /\ Part(t, s, c) /\ t \in Seq(Nat) /\ StartOf(w, n + 1) = s + (4 + e + l)
        /\ Len(c) = 4 + e + l
    BY AgilePlace
  <1>2. /\ d.ID \in Nat /\ d.data \in Seq(Nat) /\ q \in Nat /\ p \in Nat
        /\ c[3 + p + 1] = d.ID /\ Part(c, 3 + p + 1, d.data)
        /\ DigestsLen(v, k + 1) = p + 1 + q /\ 3 + p + 1 + q <= 3 + e
    BY <1>1, DigestPlace
  <1>3. DigestStart(w, n, k) = s + (3 + p) /\ DigestStart(w, n, k + 1) = s + (3 + DigestsLen(v, k + 1))
    BY DEF DigestStart
  <1> HIDE DEF v, d, s, c, p, q, e, l, t
  <1>4. Part(t, s + (3 + p + 1), d.data)
    BY <1>1, <1>2, PartOfPart, 3 + p + 1 \in Nat
  <1>5. /\ s + (3 + p) \in Nat /\ s + (3 + p + 1) = s + (3 + p) + 1
        /\ s + (3 + (p + 1 + q)) = s + (3 + p) + (1 + q)
        /\ s < s + (3 + p) /\ s + (3 + p) + (1 + q) < s + (4 + e + l)
        /\ 3 + p + 1 \in 1 .. 4 + e + l
    BY <1>1, <1>2
  <1>6. t[s + (3 + p + 1)] = d.ID
    BY <1>1, <1>2, <1>5 DEF Part
  <1> QED
    BY <1>1, <1>2, <1>3, <1>4, <1>5, <1>6, Zenon DEF v, d, s, q, t

\* One more digest was read.
LEMMA DigestsNext ==
  ASSUME NEW v, NEW n \in Nat, NEW x,
         x = [hash |-> cryptoHash(v.digests[n + 1].ID), data |-> v.digests[n + 1].data]
  PROVE  Append(ReturnedDigests(v, n), x) = ReturnedDigests(v, n + 1)
  <1> DEFINE t == ReturnedDigests(v, n + 1)
  <1>1. t = FirstN(t, n + 1) /\ ReturnedDigests(v, n) = FirstN(t, n) /\ t[n + 1] = x
    BY n + 1 \in 1 .. n + 1 DEF ReturnedDigests, FirstN
  <1> HIDE DEF t
  <1>2. Append(FirstN(t, n), t[n + 1]) = FirstN(t, n + 1)
    BY FrontNext
  <1> QED
    BY <1>1, <1>2, Zenon DEF t

\* The digest is of one algorithm of the spec ID event, of its size.
HasAlg(w, d, j) ==
  /\ {i \in DOMAIN w.algs : w.algs[i].ID = d.ID} = {j}
  /\ w.algs[j].Size = Len(d.data) /\ Len(d.data) # 0 /\ j \in Nat

\* Exactly one algorithm of the spec ID event is that of a digest, and it has its size.
LEMMA DigestAlg ==
  ASSUME NEW w, IsLog(w), ProperSpec(w), Agile(w), NEW n \in Nat, n < Len(w.events),
         NEW k \in Nat, k < Len(w.events[n + 1].digests)
  PROVE  \E j \in DOMAIN w.algs : HasAlg(w, w.events[n + 1].digests[k + 1], j)
  <1> DEFINE v == w.events[n + 1]
             d == v.digests[k + 1]
  <1>1. n + 1 \in 1 .. Len(w.events) /\ w.algs \in Seq(AlgType)
    BY LogType
  <1>2. v \in WrittenEvent /\ WrittenAs(v, w.algs)
    BY <1>1, LogType
  <1>3. k + 1 \in DOMAIN v.digests
    <2>1. v.digests \in Seq(WrittenDigest)
      BY <1>2 DEF WrittenEvent
    <2>2. DOMAIN v.digests = 1 .. Len(v.digests) /\ Len(v.digests) \in Nat
      BY <2>1, LenProperties
    <2> QED
      BY <2>2
  <1>4. PICK j \in DOMAIN w.algs : w.algs[j] = [ID |-> d.ID, Size |-> Len(d.data)]
    BY <1>2, <1>3 DEF WrittenAs, Agile
  <1>5. DOMAIN w.algs = 1 .. Len(w.algs) /\ Len(w.algs) \in Nat
    BY <1>1, LenProperties
  <1>6. w.algs[j] \in AlgType /\ j \in Nat
    BY <1>1, <1>4, <1>5, ElementOfSeq
  <1> HIDE DEF d
  <1>7. w.algs[j].ID = d.ID /\ w.algs[j].Size = Len(d.data)
    BY <1>4
  <1>8. Len(d.data) # 0
    BY <1>6, <1>7 DEF AlgType
  <1>9. \A i \in DOMAIN w.algs : w.algs[i].ID = w.algs[j].ID => i = j
    BY <1>4 DEF ProperSpec, Agile
  <1>10. {i \in DOMAIN w.algs : w.algs[i].ID = d.ID} = {j}
    BY <1>4, <1>7, <1>9
  <1> QED
    BY <1>4, <1>6, <1>7, <1>8, <1>10 DEF d, HasAlg

\* A digest of an event.
LEMMA DigestStep ==
  ASSUME NEW w, IsLog(w), ProperSpec(w), Reads(w), ParseDigest
  PROVE  (Reads(w)' /\ result' = "none") \/ (Fail /\ Cut(w))
  <1>1. phase = "digests" /\ event.left > 0 /\ result = "none"
    BY DEF ParseDigest, Running
  <1>2. PICK n \in 0 .. Len(w.events) - 1 : \E k \in Nat : AtDigest(w, n, k)
    BY <1>1 DEF Reads
  <1>3. PICK k \in Nat : AtDigest(w, n, k)
    BY <1>2
  <1>4. n \in Nat /\ n < Len(w.events) /\ w.cut \in Nat
    BY LogType
  <1> DEFINE v == w.events[n + 1]
             d == v.digests[k + 1]
             o == DigestStart(w, n, k)
             q == Len(d.data)
             m == w.cut
  <1>5. /\ EventsRead(w, n) /\ Agile(w) /\ specID = w.algs /\ k <= Len(v.digests)
        /\ event = [index |-> v.index, typ |-> v.typ, digests |-> ReturnedDigests(v, k),
                    left |-> Len(v.digests) - k]
        /\ o <= m /\ r = Rest(w, o)
    BY <1>3 DEF AtDigest, EventsRead
  <1>6. Len(v.digests) \in Nat
    BY <1>4, <1>5, AgilePlace
  <1>7. k < Len(v.digests)
    <2>1. event.left = Len(v.digests) - k
      BY <1>5
    <2> HIDE DEF v
    <2> QED
      BY <1>1, <1>6, <2>1
  <1>8. /\ d.ID \in Nat /\ d.data \in Seq(Nat) /\ q \in Nat /\ o \in Nat
        /\ AllCells(w)[o + 1] = d.ID /\ Part(AllCells(w), o + 1, d.data)
        /\ DigestStart(w, n, k + 1) = o + (1 + q)
        /\ StartOf(w, n) < o /\ o + (1 + q) < StartOf(w, n + 1)
    BY <1>4, <1>5, <1>7, DigestAt
  <1>a. PICK j \in DOMAIN w.algs : HasAlg(w, d, j)
    BY <1>4, <1>5, <1>7, DigestAlg
  <1>9. /\ {i \in DOMAIN w.algs : w.algs[i].ID = d.ID} = {j}
        /\ w.algs[j].Size = q /\ q # 0 /\ j \in Nat
    BY <1>a DEF HasAlg
  <1>10. StartOf(w, n) \in Nat /\ StartOf(w, n + 1) \in Nat
    BY <1>4, StartsGrow, LogType, n \in 0 .. Len(w.events), n + 1 \in 0 .. Len(w.events)
  <1> HIDE DEF v, d, o, q, m
  <1>11. /\ r # << >> => /\ r[1] = d.ID
                         /\ q <= Len(r) - 1 <=> o + (1 + q) <= m
                         /\ q > Len(r) - 1 <=> m < o + (1 + q)
         /\ r = << >> <=> m = o
         /\ o + (1 + q) <= m =>
              /\ r # << >> /\ SubSeq(r, 2, 1 + q) = d.data
              /\ From(r, 2 + q) = Rest(w, o + (1 + q))
    BY <1>5, <1>8, CellRead DEF q, m
  <1>12. ASSUME m < o + (1 + q) PROVE Whole(w) = {}
    <2>1. StartOf(w, n) < m /\ m < StartOf(w, n + 1)
      <3>1. m \in Nat
        BY <1>4 DEF m
      <3> QED
        BY <1>5, <1>8, <1>10, <1>12, <3>1
    <2> QED
      BY <1>4, <2>1, NotWhole DEF m
  <1>13. CASE r = << >>
    <2>1. m < o + (1 + q)
      BY <1>8, <1>11, <1>13
    <2> QED
      BY <1>12, <1>13, <2>1 DEF ParseDigest, Cut
  <1>14. CASE r # << >>
    <2> DEFINE of == {i \in DOMAIN specID : specID[i].ID = r[1]}
               last == CHOOSE i \in of : \A y \in of : y <= i
               size == specID[last].Size
    <2>1. of = {j}
      BY <1>5, <1>9, <1>11, <1>14
    <2>2. last = j
      <3>1. j \in of /\ \A y \in of : y <= j
        BY <1>9, <2>1
      <3>2. last \in of
        <4> HIDE DEF of
        <4> QED
          BY <3>1
      <3> QED
        BY <2>1, <3>2
    <2>3. size = q /\ specID[j].Size = q
      BY <1>5, <1>9, <2>2
    <2> HIDE DEF of, size, last
    <2>4. IF of = {} \/ (\E i \in of : specID[i].Size > Len(r) - 1) \/ size = 0 THEN Fail
          ELSE /\ event' = [event EXCEPT
                        !.left = @ - 1,
                        !.digests = Append(@, [hash |-> cryptoHash(r[1]),
                                               data |-> SubSeq(r, 2, 1 + size)])]
               /\ r' = From(r, 2 + size)
               /\ UNCHANGED <<input, cur, phase, specID, parsed, sequence>>
               /\ UNCHANGED <<logs, out, result>>
      BY <1>14, Zenon DEF ParseDigest, of, size, last
    <2>5. CASE m < o + (1 + q)
      <3>1. \E i \in of : specID[i].Size > Len(r) - 1
        BY <1>11, <1>14, <2>1, <2>3, <2>5
      <3>2. Fail
        BY <2>4, <3>1, Zenon
      <3> QED
        BY <1>12, <2>5, <3>2 DEF Cut
    <2>6. CASE ~(m < o + (1 + q))
      <3>1. o + (1 + q) <= m
        BY <1>4, <1>8, <2>6 DEF m
      <3>2. ~(of = {} \/ (\E i \in of : specID[i].Size > Len(r) - 1) \/ size = 0)
        BY <1>9, <1>11, <1>14, <2>1, <2>3, <2>6
      <3> DEFINE x == [hash |-> cryptoHash(r[1]), data |-> SubSeq(r, 2, 1 + size)]
      <3>3. /\ event' = [event EXCEPT !.left = @ - 1, !.digests = Append(@, x)]
            /\ r' = From(r, 2 + size)
            /\ UNCHANGED <<phase, specID, parsed, sequence, result>>
        BY <2>4, <3>2, Zenon
      <3>4. x = [hash |-> cryptoHash(d.ID), data |-> d.data]
        BY <1>11, <1>14, <2>3, <3>1
      <3> HIDE DEF x
      <3>5. Append(ReturnedDigests(v, k), x) = ReturnedDigests(v, k + 1)
        BY <3>4, DigestsNext DEF d
      <3>6. Len(v.digests) - k - 1 = Len(v.digests) - (k + 1)
        BY <1>6
      <3>7. event' = [index |-> v.index, typ |-> v.typ, digests |-> ReturnedDigests(v, k + 1),
                      left |-> Len(v.digests) - (k + 1)]
        BY <1>5, <3>3, <3>5, <3>6
      <3>8. r' = Rest(w, DigestStart(w, n, k + 1)) /\ DigestStart(w, n, k + 1) <= w.cut
        BY <1>8, <1>11, <2>3, <3>1, <3>3 DEF m
      <3>9. EventsRead(w, n)'
        BY <1>5, <3>3 DEF EventsRead
      <3>10. k + 1 <= Len(v.digests) /\ k + 1 \in Nat
        BY <1>6, <1>7
      <3>11. AtDigest(w, n, k + 1)'
        BY <1>5, <3>7, <3>8, <3>9, <3>10 DEF AtDigest, v
      <3> QED
        BY <1>1, <3>3, <3>10, <3>11 DEF Reads
    <2> QED
      BY <2>5, <2>6
  <1> QED
    BY <1>13, <1>14

\* The data of the event n + 1, after its digests.
LEMMA DataAt ==
  ASSUME NEW w, IsLog(w), Agile(w), NEW n \in Nat, n < Len(w.events)
  PROVE  LET v == w.events[n + 1]
             o == DigestStart(w, n, Len(v.digests))
         IN  /\ v.data \in Seq(Nat) /\ Len(v.data) \in Nat /\ o \in Nat
             /\ AllCells(w)[o + 1] = Len(v.data) /\ Part(AllCells(w), o + 1, v.data)
             /\ StartOf(w, n) < o /\ o + (1 + Len(v.data)) = StartOf(w, n + 1)
  <1> DEFINE v == w.events[n + 1]
             s == StartOf(w, n)
             c == EventCells(v, TRUE)
             e == DigestsLen(v, Len(v.digests))
             l == Len(v.data)
             t == AllCells(w)
  <1>1. /\ v \in WrittenEvent /\ c \in Seq(Nat) /\ s \in Nat /\ e \in Nat /\ l \in Nat
        /\ Part(t, s, c) /\ t \in Seq(Nat) /\ StartOf(w, n + 1) = s + (4 + e + l)
        /\ Len(c) = 4 + e + l
    BY AgilePlace
  <1>2. c[4 + e] = l /\ Part(c, 4 + e, v.data)
    BY <1>1, AgileCells
  <1>3. DigestStart(w, n, Len(v.digests)) = s + (3 + e)
    BY DEF DigestStart
  <1>4. v.data \in Seq(Nat)
    BY <1>1 DEF WrittenEvent
  <1> HIDE DEF v, s, c, e, l, t
  <1>5. Part(t, s + (4 + e), v.data)
    BY <1>1, <1>2, <1>4, PartOfPart, 4 + e \in Nat
  <1>6. /\ s + (3 + e) \in Nat /\ s + (4 + e) = s + (3 + e) + 1
        /\ s + (3 + e) + (1 + l) = s + (4 + e + l)
        /\ s < s + (3 + e) /\ 4 + e \in 1 .. 4 + e + l
    BY <1>1
  <1>7. t[s + (4 + e)] = l
    BY <1>1, <1>2, <1>6 DEF Part
  <1> QED
    BY <1>1, <1>3, <1>4, <1>5, <1>6, <1>7, Zenon DEF v, s, l, t

\* The data of an event.
LEMMA DataStep ==
  ASSUME NEW w, IsLog(w), Reads(w), ParseData
  PROVE  (Reads(w)' /\ result' = "none") \/ (Fail /\ Cut(w))
  <1>1. phase = "digests" /\ event.left = 0 /\ result = "none"
    BY DEF ParseData, Running
  <1>2. PICK n \in 0 .. Len(w.events) - 1 : \E k \in Nat : AtDigest(w, n, k)
    BY <1>1 DEF Reads
  <1>3. PICK k \in Nat : AtDigest(w, n, k)
    BY <1>2
  <1>4. n \in Nat /\ n < Len(w.events) /\ w.cut \in Nat /\ n + 1 \in 0 .. Len(w.events)
    BY LogType
  <1> DEFINE v == w.events[n + 1]
             o == DigestStart(w, n, k)
             q == Len(v.data)
             m == w.cut
  <1>5. /\ EventsRead(w, n) /\ Agile(w) /\ specID = w.algs /\ k <= Len(v.digests)
        /\ event = [index |-> v.index, typ |-> v.typ, digests |-> ReturnedDigests(v, k),
                    left |-> Len(v.digests) - k]
        /\ o <= m /\ r = Rest(w, o)
    BY <1>3 DEF AtDigest, EventsRead
  <1>6. Len(v.digests) \in Nat /\ v \in WrittenEvent
    BY <1>4, <1>5, AgilePlace
  <1>7. k = Len(v.digests)
    <2>1. event.left = Len(v.digests) - k
      BY <1>5
    <2> HIDE DEF v
    <2> QED
      BY <1>1, <1>6, <2>1
  <1>8. /\ v.data \in Seq(Nat) /\ q \in Nat /\ o \in Nat
        /\ AllCells(w)[o + 1] = q /\ Part(AllCells(w), o + 1, v.data)
        /\ StartOf(w, n) < o /\ o + (1 + q) = StartOf(w, n + 1)
    BY <1>4, <1>5, <1>7, DataAt
  <1>9. StartOf(w, n) \in Nat
    BY <1>4, StartsGrow, LogType, n \in 0 .. Len(w.events)
  <1> HIDE DEF v, o, q, m
  <1>10. /\ r # << >> => /\ r[1] = q
                         /\ q <= Len(r) - 1 <=> o + (1 + q) <= m
                         /\ q > Len(r) - 1 <=> m < o + (1 + q)
         /\ r = << >> <=> m = o
         /\ o + (1 + q) <= m =>
              /\ r # << >> /\ SubSeq(r, 2, 1 + q) = v.data
              /\ From(r, 2 + q) = Rest(w, o + (1 + q))
    BY <1>5, <1>8, CellRead DEF q, m
  <1>11. CASE r = << >> \/ r[1] > Len(r) - 1
    <2>1. m < o + (1 + q)
      BY <1>8, <1>10, <1>11
    <2>2. StartOf(w, n) < m /\ m < StartOf(w, n + 1)
      <3>1. m \in Nat
        BY <1>4 DEF m
      <3> QED
        BY <1>5, <1>8, <1>9, <2>1, <3>1
    <2>3. Whole(w) = {}
      BY <1>4, <2>2, NotWhole DEF m
    <2> QED
      BY <1>11, <2>3 DEF ParseData, Cut
  <1>12. CASE ~(r = << >> \/ r[1] > Len(r) - 1)
    <2> DEFINE x == [sequence |-> sequence, index |-> event.index, typ |-> event.typ,
                     data |-> SubSeq(r, 2, 1 + r[1]), digests |-> event.digests]
    <2>1. AddEvent(x, From(r, 2 + r[1]))
      BY <1>12 DEF ParseData
    <2>2. r[1] = q /\ o + (1 + q) <= m
      <3>1. m \in Nat
        BY <1>4 DEF m
      <3> QED
        BY <1>8, <1>10, <1>12, <3>1
    <2>3. sequence = n + First(w) /\ parsed = ReturnedTo(w, n)
      BY <1>5 DEF EventsRead
    <2>4. x = ReturnedEvent(v, n + First(w))
      <3>1. v.digests \in Seq(WrittenDigest)
        BY <1>6 DEF WrittenEvent
      <3>2. DOMAIN v.digests = 1 .. k
        BY <1>7, <3>1, LenProperties
      <3>3. ReturnedDigests(v, k) = [i \in DOMAIN v.digests |->
              [hash |-> cryptoHash(v.digests[i].ID), data |-> v.digests[i].data]]
        BY <3>2 DEF ReturnedDigests
      <3>4. /\ event.index = v.index /\ event.typ = v.typ /\ event.digests = ReturnedDigests(v, k)
            /\ SubSeq(r, 2, 1 + r[1]) = v.data
        BY <1>5, <1>10, <2>2
      <3> QED
        BY <2>3, <3>3, <3>4 DEF ReturnedEvent
    <2> HIDE DEF x
    <2>5. parsed' = Append(parsed, x) /\ sequence' = sequence + 1 /\ phase' = "loop"
          /\ specID' = specID /\ r' = From(r, 2 + r[1]) /\ result' = result
      BY <2>1 DEF AddEvent
    <2>6. parsed' = ReturnedTo(w, n + 1)
      BY <1>4, <2>3, <2>4, <2>5, ReturnedNext DEF v
    <2>7. First(w) \in Nat
      BY DEF First
    <2>8. sequence' = n + 1 + First(w) /\ n + 1 # 0
      BY <1>4, <2>3, <2>5, <2>7
    <2>9. r' = Rest(w, StartOf(w, n + 1)) /\ StartOf(w, n + 1) <= w.cut
      BY <1>8, <1>10, <2>2, <2>5 DEF m
    <2>10. AtEvent(w, n + 1)'
      BY <1>5, <2>5, <2>6, <2>8, <2>9 DEF AtEvent, EventsRead
    <2> QED
      BY <1>1, <1>4, <2>5, <2>10 DEF Reads
  <1> QED
    BY <1>11, <1>12

-----------------------------------------------------------------------------
(***************************************************************************)
(* ParseEventLog.                                                          *)
(***************************************************************************)

Parsing == ParseFirst \/ ParseRawEvent \/ ParseHeader \/ ParseDigest \/ ParseData

\* What was returned for a log.
ReadAs(w, l) == l.specID = w.algs /\ \E n \in Whole(w) : l.rawEvents = ReturnedTo(w, n)

\* A step of ParseEventLog reads on as the log was written, or the log ends inside an
\* event and is refused.
LEMMA ParsingStep ==
  ASSUME NEW w, IsLog(w), ProperSpec(w), Reads(w), Parsing
  PROVE  (Reads(w)' /\ result' = "none") \/ (Fail /\ Cut(w))
  <1>1. CASE ParseFirst
    <2>1. phase = "first" /\ r = Rest(w, 0)
      BY <1>1 DEF ParseFirst, Running, Reads
    <2> QED
      BY <1>1, <2>1, FirstAgile, FirstOld
  <1>2. CASE ParseRawEvent
    BY <1>2, RawStep
  <1>3. CASE ParseHeader
    BY <1>3, HeaderStep
  <1>4. CASE ParseDigest
    BY <1>4, DigestStep
  <1>5. CASE ParseData
    BY <1>5, DataStep
  <1> QED
    BY <1>1, <1>2, <1>3, <1>4, <1>5 DEF Parsing

\* What a step of ParseEventLog leaves alone.
LEMMA ParsingFrame ==
  ASSUME Parsing
  PROVE  /\ UNCHANGED <<input, cur, logs, out>> /\ result = "none" /\ phase # "append"
         /\ Fail \/ (result' = "none" /\ phase' # "append")
  <1>1. CASE ParseFirst
    <2>1. Running("first") /\ (Fail \/ (phase' = "loop" /\ UNCHANGED <<input, cur, event, logs, out, result>>))
      BY <1>1, Zenon DEF ParseFirst
    <2> QED
      BY <2>1 DEF Running, Fail
  <1>2. CASE ParseRawEvent
    BY <1>2 DEF ParseRawEvent, Running, Fail, AddEvent
  <1>3. CASE ParseHeader
    BY <1>3 DEF ParseHeader, Running, Fail
  <1>4. CASE ParseDigest
    <2>1. /\ Running("digests")
          /\ Fail \/ (UNCHANGED <<input, cur, phase, specID, parsed, sequence>>
                      /\ UNCHANGED <<logs, out, result>>)
      BY <1>4, Zenon DEF ParseDigest
    <2> QED
      BY <2>1 DEF Running, Fail
  <1>5. CASE ParseData
    BY <1>5 DEF ParseData, Running, Fail, AddEvent
  <1> QED
    BY <1>1, <1>2, <1>3, <1>4, <1>5 DEF Parsing

\* The end of the log.
LEMMA EndOfLog ==
  ASSUME NEW w, IsLog(w), Reads(w), phase = "loop", r = << >>
  PROVE  specID = w.algs /\ \E n \in Whole(w) : parsed = ReturnedTo(w, n)
  <1>1. PICK n \in 0 .. Len(w.events) : AtEvent(w, n)
    BY DEF Reads
  <1>2. StartOf(w, n) \in Nat /\ w.cut \in Nat
    BY StartsGrow, LogType
  <1>3. StartOf(w, n) <= w.cut /\ r = Rest(w, StartOf(w, n))
    BY <1>1 DEF AtEvent
  <1>4. Len(r) = w.cut - StartOf(w, n) /\ Len(r) = 0
    BY <1>2, <1>3, RestIs
  <1>5. StartOf(w, n) = w.cut
    BY <1>2, <1>4
  <1> QED
    BY <1>1, <1>5 DEF Whole, StartOf, AtEvent, EventsRead

\* A sequence, of whatever elements.
IsSeq(s) == Len(s) \in Nat /\ s = FirstN(s, Len(s))

\* The first n elements are a sequence of length n.
LEMMA FrontIsSeq ==
  ASSUME NEW f, NEW n \in Nat
  PROVE  /\ IsSeq(FirstN(f, n)) /\ Len(FirstN(f, n)) = n
         /\ \A i \in 1 .. n : FirstN(f, n)[i] = f[i]
  BY DEF IsSeq, FirstN

\* Append adds an element to a sequence of whatever elements.
LEMMA AppendIs ==
  ASSUME NEW s, IsSeq(s), NEW x
  PROVE  /\ IsSeq(Append(s, x)) /\ Len(Append(s, x)) = Len(s) + 1
         /\ Append(s, x)[Len(s) + 1] = x
         /\ \A i \in 1 .. Len(s) : Append(s, x)[i] = s[i]
  <1> DEFINE n == Len(s)
             f == [i \in 1 .. n + 1 |-> IF i = n + 1 THEN x ELSE s[i]]
  <1>1. n \in Nat /\ s = FirstN(s, n)
    BY DEF IsSeq
  <1> HIDE DEF n
  <1>2. f[n + 1] = x /\ \A i \in 1 .. n : f[i] = s[i]
    BY <1>1
  <1> HIDE DEF f
  <1>3. FirstN(f, n) = FirstN(s, n)
    BY <1>2 DEF FirstN
  <1>4. Append(FirstN(f, n), f[n + 1]) = FirstN(f, n + 1)
    BY <1>1, FrontNext
  <1>5. Append(s, x) = FirstN(f, n + 1)
    BY <1>1, <1>2, <1>3, <1>4
  <1>6. /\ IsSeq(FirstN(f, n + 1)) /\ Len(FirstN(f, n + 1)) = n + 1
        /\ \A i \in 1 .. n + 1 : FirstN(f, n + 1)[i] = f[i]
    BY <1>1, FrontIsSeq, n + 1 \in Nat
  <1>7. n + 1 \in 1 .. n + 1 /\ \A i \in 1 .. n : i \in 1 .. n + 1
    BY <1>1
  <1> QED
    BY <1>2, <1>5, <1>6, <1>7 DEF n

\* AppendEvents is called with at least one log.
LEMMA InputIs ==
  ASSUME NEW s \in Inputs
  PROVE  /\ Len(s) \in Nat /\ 1 <= Len(s) /\ DOMAIN s = 1 .. Len(s) /\ IsSeq(s)
         /\ \A i \in 1 .. Len(s) : IsLog(s[i])
  <1> DEFINE S == {s[i] : i \in DOMAIN s}
  <1>1. s # << >> /\ s \in Seq(S) /\ \A i \in DOMAIN s : IsLog(s[i])
    BY InputsAssumption
  <1> HIDE DEF S
  <1>2. Len(s) \in Nat /\ DOMAIN s = 1 .. Len(s) /\ Len(s) # 0
    BY <1>1, LenProperties, EmptySeq
  <1>3. s = FirstN(s, Len(s))
    BY <1>1, <1>2 DEF FirstN
  <1> QED
    BY <1>1, <1>2, <1>3 DEF IsSeq

\* At first, all the cells of a log are left.
LEMMA CellsRest ==
  ASSUME NEW w
  PROVE  Cells(w) = Rest(w, 0)
  BY 0 + 1 = 1 DEF Cells, Rest, AllCells

(***************************************************************************)
(* The logs so far were read as they were written, the current one too.    *)
(***************************************************************************)
ParsedLogs ==
  \A i \in 1 .. Len(input) : i <= Len(logs) /\ ProperSpec(input[i]) => ReadAs(input[i], logs[i])
ParsingLog ==
  result = "none" /\ phase # "append" /\ cur <= Len(input) /\ ProperSpec(input[cur]) =>
    Reads(input[cur])
RefusedLog ==
  result = "error" /\ Len(logs) < cur /\ cur <= Len(input) /\ ProperSpec(input[cur]) =>
    Cut(input[cur])
Counted ==
  result = "none" =>
    Len(logs) = (IF phase = "append" THEN cur ELSE cur - 1)
    /\ (phase = "append" => cur \in 2 .. Len(input))

ParseInv ==
  /\ input \in Inputs /\ cur \in 1 .. Len(input) + 1 /\ IsSeq(logs)
  /\ Counted /\ ParsedLogs /\ ParsingLog /\ RefusedLog

\* AppendEvents starts by parsing the base log.
LEMMA ParseInvInit ==
  ASSUME ParseInit
  PROVE  ParseInv
  <1>1. /\ input \in Inputs /\ cur = 1 /\ phase = "first" /\ r = Cells(input[1])
        /\ logs = << >> /\ result = "none"
    BY DEF ParseInit
  <1>2. Len(input) \in Nat /\ cur \in 1 .. Len(input) + 1
    BY <1>1, InputIs
  <1>3. IsSeq(logs) /\ Len(logs) = 0
    BY <1>1 DEF IsSeq, FirstN
  <1>4. Counted /\ ParsedLogs /\ RefusedLog
    BY <1>1, <1>2, <1>3 DEF Counted, ParsedLogs, RefusedLog
  <1>5. ParsingLog
    BY <1>1, CellsRest DEF ParsingLog, Reads
  <1> QED
    BY <1>1, <1>2, <1>3, <1>4, <1>5 DEF ParseInv

\* ParseEventLog keeps to what was written.
LEMMA ParseInvParsing ==
  ASSUME ParseInv, Parsing
  PROVE  ParseInv'
  <1>1. /\ UNCHANGED <<input, cur, logs>> /\ result = "none" /\ phase # "append"
        /\ Fail \/ (result' = "none" /\ phase' # "append")
    BY ParsingFrame
  <1>2. (input \in Inputs /\ cur \in 1 .. Len(input) + 1 /\ IsSeq(logs) /\ ParsedLogs)'
    BY <1>1 DEF ParseInv, ParsedLogs, IsSeq, FirstN
  <1>3. Counted'
    BY <1>1 DEF ParseInv, Counted, Fail
  <1>4. ASSUME cur <= Len(input), ProperSpec(input[cur])
        PROVE  (Reads(input[cur])' /\ result' = "none") \/ (Fail /\ Cut(input[cur]))
    <2>1. Reads(input[cur])
      BY <1>1, <1>4 DEF ParseInv, ParsingLog
    <2>2. IsLog(input[cur])
      <3>1. input \in Inputs /\ cur \in 1 .. Len(input) + 1 /\ Len(input) \in Nat
        BY InputIs DEF ParseInv
      <3>2. cur \in 1 .. Len(input)
        BY <1>4, <3>1
      <3> QED
        BY <3>1, <3>2, InputIs
    <2>3. PICK w : w = input[cur]
      OBVIOUS
    <2>4. IsLog(w) /\ ProperSpec(w) /\ Reads(w)
      BY <1>4, <2>1, <2>2, <2>3
    <2>5. (Reads(w)' /\ result' = "none") \/ (Fail /\ Cut(w))
      BY <2>4, ParsingStep
    <2>6. w = input'[cur']
      BY <1>1, <2>3
    <2>7. Reads(w)' => Reads(input[cur])'
      BY <2>6
    <2> QED
      BY <2>3, <2>5, <2>7
  <1>5. ParsingLog'
    BY <1>1, <1>4 DEF ParsingLog, Fail
  <1>6. RefusedLog'
    BY <1>1, <1>4 DEF RefusedLog, Fail
  <1> QED
    BY <1>2, <1>3, <1>5, <1>6 DEF ParseInv

\* The end of a log, the base log or an additional one.
LEMMA ParseInvLog ==
  ASSUME ParseInv, ParsedBase \/ ParsedAdditional
  PROVE  ParseInv'
  <1> DEFINE l == [specID |-> specID, rawEvents |-> parsed]
             w == input[cur]
  <1>1. /\ Running("loop") /\ r = << >> /\ UNCHANGED input /\ cur \in 1 .. Len(input)
        /\ \/ result' = "error" /\ UNCHANGED cur
           \/ result' = "none" /\ phase' = "append" /\ UNCHANGED cur /\ cur \in 2 .. Len(input)
           \/ /\ result' = "none" /\ phase' = "first" /\ cur = 1 /\ cur' = 2
              /\ r' = IF 2 <= Len(input) THEN Cells(input[2]) ELSE out'
    <2>1. CASE ParsedBase
      <3>1. 1 \in 1 .. Len(input)
        BY InputIs DEF ParseInv
      <3> QED
        BY <2>1, <3>1 DEF ParsedBase, Running, Parse
    <2>2. CASE ParsedAdditional
      <3>1. cur \in 1 .. Len(input)
        BY <2>2, InputIs DEF ParsedAdditional, ParseInv
      <3> QED
        BY <2>2, <3>1 DEF ParsedAdditional, Running
    <2> QED
      BY <2>1, <2>2
  <1>2. /\ Len(input) \in Nat /\ 1 <= Len(input) /\ \A i \in 1 .. Len(input) : IsLog(input[i])
        /\ input \in Inputs /\ IsSeq(logs)
    BY InputIs DEF ParseInv
  <1>3. result = "none" /\ phase = "loop" /\ Len(logs) = cur - 1 /\ Len(logs) + 1 = cur
        /\ Len(logs) \in Nat
    BY <1>1, <1>2 DEF ParseInv, Counted, Running
  <1>4. logs' = Append(logs, l)
    <2>1. CASE ParsedBase
      <3>1. logs' = <<l>> /\ cur = 1
        BY <2>1 DEF ParsedBase
      <3>2. logs = << >>
        BY <1>2, <1>3, <3>1 DEF IsSeq, FirstN
      <3> HIDE DEF l
      <3> QED
        BY <3>1, <3>2
    <2>2. CASE ParsedAdditional
      BY <2>2 DEF ParsedAdditional
    <2> QED
      BY <2>1, <2>2
  <1> HIDE DEF l
  <1>5. /\ IsSeq(logs') /\ Len(logs') = cur /\ logs'[cur] = l
        /\ \A i \in 1 .. Len(logs) : logs'[i] = logs[i]
    BY <1>2, <1>3, <1>4, AppendIs
  <1>6. ProperSpec(w) => ReadAs(w, l)
    <2> SUFFICES ASSUME ProperSpec(w) PROVE ReadAs(w, l)
      OBVIOUS
    <2>1. Reads(w) /\ IsLog(w)
      BY <1>1, <1>2, <1>3 DEF ParseInv, ParsingLog
    <2>2. specID = w.algs /\ \E n \in Whole(w) : parsed = ReturnedTo(w, n)
      BY <1>1, <1>3, <2>1, EndOfLog
    <2> HIDE DEF w
    <2> QED
      BY <2>2 DEF ReadAs, l
  <1>7. ParsedLogs'
    <2>1. ASSUME NEW i \in 1 .. Len(input), i <= cur, ProperSpec(input[i])
          PROVE  ReadAs(input[i], logs'[i])
      <3>1. i = cur \/ i \in 1 .. Len(logs)
        BY <1>2, <1>3, <2>1
      <3> QED
        BY <1>5, <1>6, <2>1, <3>1 DEF ParseInv, ParsedLogs
    <2> QED
      BY <1>1, <1>5, <2>1 DEF ParsedLogs
  <1>8. cur' \in 1 .. Len(input') + 1 /\ Counted'
    BY <1>1, <1>2, <1>5 DEF Counted
  <1>9. ParsingLog'
    <2>1. CASE cur' = 2 /\ 2 <= Len(input) /\ phase' = "first"
                /\ r' = IF 2 <= Len(input) THEN Cells(input[2]) ELSE out'
      BY <1>1, <2>1, CellsRest DEF ParsingLog, Reads
    <2>2. CASE result' = "error" \/ phase' = "append" \/ (cur' = 2 /\ ~(2 <= Len(input)))
      BY <1>1, <2>2 DEF ParsingLog
    <2> QED
      BY <1>1, <2>1, <2>2
  <1>10. RefusedLog'
    BY <1>1, <1>2, <1>5 DEF RefusedLog
  <1> QED
    BY <1>1, <1>2, <1>5, <1>7, <1>8, <1>9, <1>10 DEF ParseInv

\* Writing events, and going on to the next log.
LEMMA ParseInvAppend ==
  ASSUME ParseInv, AppendEvent \/ Appended
  PROVE  ParseInv'
  <1>1. /\ Running("append") /\ UNCHANGED <<input, logs>>
        /\ \/ result' = "error" /\ UNCHANGED cur
           \/ result' = "none" /\ phase' = "append" /\ UNCHANGED cur
           \/ /\ result' = "none" /\ phase' = "first" /\ cur' = cur + 1
              /\ r' = IF cur + 1 <= Len(input) THEN Cells(input[cur + 1]) ELSE out'
    <2>1. CASE AppendEvent
      <3>1. Running("append") /\ (Fail \/ UNCHANGED <<input, cur, phase, r, specID, sequence, event, logs, result>>)
        BY <2>1, Zenon DEF AppendEvent
      <3> QED
        BY <3>1 DEF Fail, Running
    <2>2. CASE Appended
      BY <2>2 DEF Appended, Parse, Running
    <2> QED
      BY <2>1, <2>2
  <1>2. /\ Len(input) \in Nat /\ input \in Inputs /\ IsSeq(logs)
        /\ result = "none" /\ phase = "append" /\ Len(logs) = cur /\ cur \in 2 .. Len(input)
    BY <1>1, InputIs DEF ParseInv, Counted, Running
  <1>3. ParsedLogs' /\ IsSeq(logs)' /\ input' \in Inputs
    BY <1>1, <1>2 DEF ParseInv, ParsedLogs, IsSeq, FirstN
  <1>4. cur' \in 1 .. Len(input') + 1 /\ Counted'
    BY <1>1, <1>2 DEF Counted
  <1>5. RefusedLog'
    BY <1>1, <1>2 DEF RefusedLog
  <1>6. ParsingLog'
    <2>1. CASE /\ phase' = "first" /\ cur' = cur + 1 /\ cur + 1 <= Len(input)
               /\ r' = IF cur + 1 <= Len(input) THEN Cells(input[cur + 1]) ELSE out'
      <3>1. r' = Rest(input[cur], 0)'
        BY <1>1, <2>1, CellsRest
      <3> QED
        BY <2>1, <3>1 DEF ParsingLog, Reads
    <2>2. CASE result' = "error" \/ phase' = "append" \/ (cur' = cur + 1 /\ ~(cur + 1 <= Len(input)))
      BY <1>1, <2>2 DEF ParsingLog
    <2> QED
      BY <1>1, <2>1, <2>2
  <1> QED
    BY <1>3, <1>4, <1>5, <1>6 DEF ParseInv

\* The combined log comes after those that were written.
LEMMA ParseInvCombined ==
  ASSUME ParseInv, ParsedCombined
  PROVE  ParseInv'
  <1> DEFINE l == [specID |-> specID, rawEvents |-> parsed]
  <1>1. /\ Running("loop") /\ UNCHANGED <<input, cur>> /\ cur = Len(input) + 1
        /\ result' = "ok" /\ logs' = Append(logs, l)
    BY DEF ParsedCombined
  <1> HIDE DEF l
  <1>2. /\ Len(input) \in Nat /\ input \in Inputs /\ IsSeq(logs) /\ Len(logs) = cur - 1
    BY <1>1, InputIs DEF ParseInv, Counted, Running
  <1>3. IsSeq(logs') /\ \A i \in 1 .. Len(logs) : logs'[i] = logs[i]
    BY <1>1, <1>2, AppendIs
  <1>4. ParsedLogs'
    <2>1. ASSUME NEW i \in 1 .. Len(input), ProperSpec(input[i])
          PROVE  ReadAs(input[i], logs'[i])
      <3>1. i \in 1 .. Len(logs) /\ i <= Len(logs)
        BY <1>1, <1>2
      <3> QED
        BY <1>3, <2>1, <3>1 DEF ParseInv, ParsedLogs
    <2> QED
      BY <1>1, <2>1 DEF ParsedLogs
  <1>5. (Counted /\ ParsingLog /\ RefusedLog)'
    BY <1>1 DEF Counted, ParsingLog, RefusedLog
  <1> QED
    BY <1>1, <1>2, <1>3, <1>4, <1>5 DEF ParseInv

\* The invariant is about the variables of AppendEvents alone.
LEMMA ParseInvStutters ==
  ASSUME ParseInv, UNCHANGED parseVars
  PROVE  ParseInv'
  <1>1. UNCHANGED <<input, cur, phase, r, specID, parsed, sequence, event, logs, result>>
    BY DEF parseVars
  <1>2. (input \in Inputs /\ cur \in 1 .. Len(input) + 1 /\ IsSeq(logs) /\ ParsedLogs)'
    BY <1>1 DEF ParseInv, ParsedLogs, IsSeq, FirstN
  <1>3. Counted' /\ RefusedLog'
    BY <1>1 DEF ParseInv, Counted, RefusedLog
  <1>4. ParsingLog'
    <2>1. Reads(input[cur])' <=> Reads(input[cur])
      BY <1>1 DEF Reads, AtEvent, AtDigest, EventsRead
    <2> QED
      BY <1>1, <2>1 DEF ParseInv, ParsingLog
  <1> QED
    BY <1>2, <1>3, <1>4 DEF ParseInv

\* The logs that were returned are those that were written.
LEMMA ParseInvMeans ==
  ASSUME ParseInv
  PROVE  ParsesAsWritten
  <1> SUFFICES ASSUME NEW i \in 1 .. Len(input), ProperSpec(input[i])
               PROVE  /\ i <= Len(logs) =>
                           /\ \E n \in Whole(input[i]) :
                                logs[i].rawEvents = ReturnedTo(input[i], n)
                           /\ logs[i].specID = input[i].algs
                      /\ result = "error" /\ i = cur /\ i > Len(logs) =>
                           Whole(input[i]) = {} \/ input[i].cut = 0
    BY DEF ParsesAsWritten, ReturnedTo, First
  <1>1. i <= Len(logs) => ReadAs(input[i], logs[i])
    BY DEF ParseInv, ParsedLogs
  <1>2. ASSUME result = "error", i = cur, i > Len(logs) PROVE Cut(input[i])
    <2>1. Len(input) \in Nat /\ Len(logs) \in Nat
      BY InputIs DEF ParseInv, IsSeq
    <2>2. Len(logs) < cur /\ cur <= Len(input)
      BY <1>2, <2>1
    <2> QED
      BY <1>2, <2>2 DEF ParseInv, RefusedLog
  <1> QED
    BY <1>1, <1>2 DEF ReadAs, Cut

\* Every step keeps to what was written.
LEMMA ParseInvNext ==
  ASSUME ParseInv, [ParseNext]_parseVars
  PROVE  ParseInv'
  <1>1. CASE ParseNext
    <2>1. Parsing \/ (ParsedBase \/ ParsedAdditional) \/ (AppendEvent \/ Appended) \/ ParsedCombined
      BY <1>1, Zenon DEF ParseNext, Parsing
    <2> QED
      BY <2>1, ParseInvParsing, ParseInvLog, ParseInvAppend, ParseInvCombined
  <1>2. CASE UNCHANGED parseVars
    BY <1>2, ParseInvStutters
  <1> QED
    BY <1>1, <1>2

\* ParseEventLog returns the events that were written.
THEOREM EventsParsedAsWritten == ParseSpec => []ParsesAsWritten
  <1>1. ParseInit => ParseInv
    BY ParseInvInit
  <1>2. ParseInv /\ [ParseNext]_parseVars => ParseInv'
    BY ParseInvNext
  <1>3. ParseInv => ParsesAsWritten
    BY ParseInvMeans
  <1> QED
    BY <1>1, <1>2, <1>3, PTL DEF ParseSpec

-----------------------------------------------------------------------------
(***************************************************************************)
(* The cells that AppendEvents writes.                                     *)
(***************************************************************************)

\* What a part starts with, after the same cells.
LEMMA PartConcat ==
  ASSUME NEW S, NEW h \in Seq(S), NEW a \in Seq(S), NEW b \in Seq(S), Part(b, 0, a)
  PROVE  Part(h \o b, 0, h \o a)
  <1> DEFINE x == h \o a
             y == h \o b
  <1>1. Len(h) \in Nat /\ Len(a) \in Nat /\ Len(b) \in Nat
    BY LenProperties
  <1>2. /\ x \in Seq(S) /\ Len(x) = Len(h) + Len(a)
        /\ \A i \in 1 .. Len(h) + Len(a) : x[i] = IF i <= Len(h) THEN h[i] ELSE a[i - Len(h)]
    BY ConcatProperties
  <1>3. /\ y \in Seq(S) /\ Len(y) = Len(h) + Len(b)
        /\ \A i \in 1 .. Len(h) + Len(b) : y[i] = IF i <= Len(h) THEN h[i] ELSE b[i - Len(h)]
    BY ConcatProperties
  <1> HIDE DEF x, y
  <1>4. Len(a) <= Len(b) /\ \A j \in 1 .. Len(a) : b[j] = a[j]
    <2>1. 0 + Len(a) <= Len(b) /\ \A j \in 1 .. Len(a) : b[0 + j] = a[j]
      BY DEF Part
    <2>2. \A j \in 1 .. Len(a) : 0 + j = j
      BY <1>1
    <2> QED
      BY <1>1, <2>1, <2>2
  <1>5. \A j \in 1 .. Len(x) : y[0 + j] = x[j]
    <2> SUFFICES ASSUME NEW j \in 1 .. Len(x) PROVE y[0 + j] = x[j]
      OBVIOUS
    <2>1. 0 + j = j /\ j \in 1 .. Len(h) + Len(a) /\ j \in 1 .. Len(h) + Len(b)
          /\ (~(j <= Len(h)) => j - Len(h) \in 1 .. Len(a))
      BY <1>1, <1>2, <1>4
    <2> QED
      BY <1>2, <1>3, <1>4, <2>1
  <1>6. 0 + Len(x) <= Len(y)
    BY <1>1, <1>2, <1>3, <1>4
  <1> QED
    BY <1>5, <1>6 DEF Part, x, y

\* What is left of a log that ends with an event.
LEMMA WholeCells ==
  ASSUME NEW w, IsLog(w), NEW n \in Whole(w)
  PROVE  n \in 0 .. Len(w.events) /\ n \in Nat /\ n <= Len(w.events) /\ Cells(w) = CellsOf(w, n)
  <1> DEFINE N == Len(w.events)
             f == EventsCells(w)
             h == HeaderCells(w)
             x == CellsOf(w, n)
  <1>1. n \in 0 .. N /\ Len(x) = w.cut /\ N \in Nat /\ n \in Nat /\ n <= N /\ N \in 0 .. N
    <2>1. n \in 0 .. N /\ Len(x) = w.cut
      BY DEF Whole
    <2> QED
      BY <2>1, LogType
  <1>2. /\ x = h \o Flat(f, n) /\ Flat(f, n) \in Seq(Nat) /\ x \in Seq(Nat)
        /\ AllCells(w) = h \o Flat(f, N) /\ Flat(f, N) \in Seq(Nat) /\ h \in Seq(Nat)
    BY <1>1, CellsAre, HeaderType DEF AllCells
  <1>3. Part(Flat(f, N), 0, Flat(f, n))
    <2>1. \A i \in 1 .. N : f[i] \in Seq(Nat)
      BY EventsType
    <2> HIDE DEF f, N
    <2> QED
      BY <1>1, <2>1, FlatKeeps
  <1> HIDE DEF N, f, h, x
  <1>4. Part(h \o Flat(f, N), 0, h \o Flat(f, n))
    BY <1>2, <1>3, PartConcat
  <1>5. Part(AllCells(w), 0, x)
    BY <1>2, <1>4, Zenon
  <1>6. w.cut \in Nat
    BY LogType
  <1>7. Rest(w, 0) \in Seq(Nat) /\ Len(Rest(w, 0)) = w.cut - 0
        /\ \A j \in 1 .. w.cut - 0 : Rest(w, 0)[j] = AllCells(w)[0 + j]
    BY <1>6, RestIs, 0 <= w.cut, 0 \in Nat
  <1>8. w.cut - 0 = w.cut
    BY <1>6
  <1>9. \A j \in 1 .. w.cut : Rest(w, 0)[j] = x[j]
    BY <1>1, <1>5, <1>7, <1>8 DEF Part
  <1>10. Rest(w, 0) = x
    BY <1>1, <1>2, <1>7, <1>8, <1>9, SeqEqual
  <1> QED
    BY <1>1, <1>10, CellsRest DEF x, N

\* A log of algorithms A with events E, of which the first c cells are left.
Log(A, E, c) == [algs |-> A, events |-> E, cut |-> c]
Written(A, E) == CellsOf(Log(A, E, 0), Len(E))
Combined(A, E) == Log(A, E, Len(Written(A, E)))
AgileEvents(A) == {v \in WrittenEvent : WrittenAs(v, A)}

\* The fields of Log, and that its cells do not depend on where it is cut.
LEMMA LogFields ==
  ASSUME NEW A, NEW E, NEW c
  PROVE  /\ Log(A, E, c).algs = A /\ Log(A, E, c).events = E /\ Log(A, E, c).cut = c
         /\ \A n : CellsOf(Log(A, E, c), n) = CellsOf(Log(A, E, 0), n)
  <1>1. /\ \A d : Log(A, E, d).algs = A /\ Log(A, E, d).events = E /\ Log(A, E, d).cut = d
    BY DEF Log
  <1>2. \A n : CellsOf(Log(A, E, c), n) = CellsOf(Log(A, E, 0), n)
    BY <1>1, Zenon DEF CellsOf
  <1> QED
    BY <1>1, <1>2

\* It has events of a crypto agile log.
LEMMA LogIsShaped ==
  ASSUME NEW A \in Seq(AlgType), NEW E \in Seq(AgileEvents(A)), NEW c \in Nat
  PROVE  /\ Shaped(Log(A, E, c)) /\ E \in Seq(WrittenEvent) /\ Len(E) \in Nat
         /\ Written(A, E) \in Seq(Nat) /\ Len(Written(A, E)) \in Nat
  <1>1. E \in Seq(WrittenEvent) /\ \A k \in DOMAIN E : WrittenAs(E[k], A)
    <2>1. \A k \in DOMAIN E : E[k] \in AgileEvents(A)
      BY LenProperties, ElementOfSeq
    <2>2. E \in Seq(WrittenEvent)
      <3>1. AgileEvents(A) \subseteq WrittenEvent
        BY DEF AgileEvents
      <3> QED
        BY <3>1, SeqMonotonic
    <2> QED
      BY <2>1, <2>2 DEF AgileEvents
  <1>2. ASSUME NEW d \in Nat PROVE Shaped(Log(A, E, d))
    <2> DEFINE w == Log(A, E, d)
    <2>1. w.algs = A /\ w.events = E
      BY LogFields
    <2>2. w \in [algs : Seq(AlgType), events : Seq(WrittenEvent), cut : Nat]
      BY <1>1 DEF Log
    <2> HIDE DEF w
    <2>3. Shaped(w)
      BY <1>1, <2>1, <2>2 DEF Shaped
    <2> QED
      BY <2>3 DEF w
  <1>3. Len(E) \in Nat
    BY LenProperties
  <1>4. Len(Log(A, E, 0).events) = Len(E) /\ Len(E) \in 0 .. Len(E)
    BY <1>3, LogFields
  <1>5. Written(A, E) \in Seq(Nat)
    BY <1>2, <1>4, ShapeCells, 0 \in Nat DEF Written
  <1> QED
    BY <1>1, <1>2, <1>3, <1>5, LenProperties

\* All of it ends with its last event.
LEMMA CombinedIs ==
  ASSUME NEW A \in Seq(AlgType), A # << >>, NEW E \in Seq(AgileEvents(A))
  PROVE  LET w == Combined(A, E)
         IN  /\ IsLog(w) /\ Agile(w) /\ w.algs = A /\ w.events = E /\ Len(E) \in Nat
             /\ Whole(w) = {Len(E)} /\ ~Cut(w) /\ Cells(w) = Written(A, E)
  <1> DEFINE w == Combined(A, E)
             c == Len(Written(A, E))
             N == Len(E)
  <1>1. c \in Nat /\ N \in Nat /\ E \in Seq(WrittenEvent) /\ Written(A, E) \in Seq(Nat)
    BY LogIsShaped, 0 \in Nat
  <1>2. /\ w.algs = A /\ w.events = E /\ w.cut = c
        /\ \A n : CellsOf(w, n) = CellsOf(Log(A, E, 0), n)
    BY LogFields DEF Combined
  <1>3. Shaped(w)
    BY <1>1, LogIsShaped DEF Combined
  <1> HIDE DEF w
  <1>4. w.cut = Len(CellsOf(w, N)) /\ CellsOf(w, N) = Written(A, E)
    BY <1>2 DEF Written
  <1>5. IsLog(w)
    <2>1. w.cut <= Len(CellsOf(w, Len(w.events)))
      BY <1>1, <1>2, <1>4
    <2>2. /\ w \in [algs : Seq([ID : Nat, Size : Nat \ {0}]),
           events : Seq([index : Nat, typ : Nat, data : Seq(Nat),
                         digests : Seq([ID : Nat, data : Seq(Nat)])]),
           cut : Nat]
          /\ \A k \in DOMAIN w.events : WrittenAs(w.events[k], w.algs)
      BY <1>3, Zenon DEF Shaped, AlgType, WrittenEvent, WrittenDigest
    <2> QED
      BY <1>2, <2>1, <2>2, Zenon DEF IsLog
  <1>6. Agile(w)
    BY <1>2 DEF Agile
  <1>7. N \in Whole(w)
    BY <1>1, <1>2, <1>4, N \in 0 .. N DEF Whole
  <1>8. Cells(w) = Written(A, E)
    BY <1>4, <1>5, <1>7, WholeCells
  <1>9. ASSUME NEW n \in Whole(w) PROVE n = N
    <2>1. n \in 0 .. Len(w.events) /\ N \in 0 .. Len(w.events) /\ StartOf(w, n) = StartOf(w, N)
      BY <1>2, <1>7 DEF Whole, StartOf
    <2>2. /\ StartOf(w, n) \in Nat /\ StartOf(w, N) \in Nat
          /\ n < N => StartOf(w, n) < StartOf(w, N)
          /\ N < n => StartOf(w, N) < StartOf(w, n)
      BY <1>5, <2>1, StartsGrow
    <2>3. ~(n < N) /\ ~(N < n)
      BY <2>1, <2>2
    <2>4. n \in Nat
      BY <1>1, <1>2, <2>1
    <2> QED
      BY <1>1, <2>3, <2>4
  <1>10. Whole(w) = {N}
    BY <1>7, <1>9
  <1>11. w.cut # 0
    <2>1. 0 \in 0 .. Len(w.events) /\ N \in 0 .. Len(w.events) /\ 0 <= N
      BY <1>1, <1>2
    <2>2. StartOf(w, 0) <= StartOf(w, N) /\ StartOf(w, N) \in Nat /\ StartOf(w, 0) \in Nat
      BY <1>5, <2>1, StartsGrow
    <2>3. StartOf(w, 0) = 4 + (3 + 2 * Len(w.algs)) /\ Len(w.algs) \in Nat
      BY <1>5, <1>6, HeaderPlace, LogType
    <2>4. StartOf(w, N) = w.cut
      BY <1>4 DEF StartOf
    <2> QED
      BY <2>2, <2>3, <2>4
  <1>12. ~Cut(w)
    BY <1>10, <1>11 DEF Cut
  <1> QED
    BY <1>1, <1>2, <1>5, <1>6, <1>8, <1>10, <1>12 DEF w

\* One more event.
LEMMA WrittenNext ==
  ASSUME NEW A \in Seq(AlgType), A # << >>, NEW E \in Seq(AgileEvents(A)), NEW v \in AgileEvents(A)
  PROVE  /\ Append(E, v) \in Seq(AgileEvents(A))
         /\ Written(A, Append(E, v)) = Written(A, E) \o EventCells(v, TRUE)
  <1> DEFINE N == Len(E)
             F == Append(E, v)
             w == Log(A, E, 0)
             u == Log(A, F, 0)
             h == HeaderCells(w)
             f == EventsCells(w)
             g == EventsCells(u)
  <1>1. N \in Nat
    BY LenProperties
  <1>2. F \in Seq(AgileEvents(A)) /\ Len(F) = N + 1 /\ F[N + 1] = v /\ \A i \in 1 .. N : F[i] = E[i]
    BY <1>1, AppendProperties
  <1>3. Shaped(w) /\ Shaped(u)
    BY <1>2, LogIsShaped, 0 \in Nat
  <1> HIDE DEF F
  <1>4. w.algs = A /\ w.events = E /\ u.algs = A /\ u.events = F
    BY LogFields
  <1> HIDE DEF w, u
  <1>5. HeaderCells(u) = h
    BY <1>4 DEF HeaderCells
  <1>6. /\ CellsOf(w, N) = h \o Flat(f, N) /\ Flat(f, N) \in Seq(Nat)
        /\ h \in Seq(Nat)
    <2>1. N \in 0 .. Len(w.events)
      BY <1>1, <1>4
    <2> QED
      BY <1>3, <2>1, ShapeCells, ShapeHeader
  <1>7. CellsOf(u, N + 1) = h \o Flat(g, N + 1)
    <2>1. N + 1 \in 0 .. Len(u.events)
      BY <1>1, <1>2, <1>4
    <2> QED
      BY <1>3, <1>5, <2>1, ShapeCells
  <1>8. /\ \A i \in 1 .. N + 1 : g[i] \in Seq(Nat) /\ g[i] = EventCells(F[i], TRUE)
        /\ \A i \in 1 .. N : f[i] = EventCells(E[i], TRUE)
    <2>1. Agile(w) = TRUE /\ Agile(u) = TRUE
      BY <1>4 DEF Agile
    <2> QED
      BY <1>2, <1>3, <1>4, <2>1, ShapeEvents
  <1>9. FirstN(f, N) = FirstN(g, N)
    <2>1. \A i \in 1 .. N : i \in 1 .. N + 1 /\ f[i] = g[i]
      <3>1. \A i \in 1 .. N : i \in 1 .. N + 1
        BY <1>1
      <3> HIDE DEF f, g
      <3> QED
        BY <1>2, <1>8, <3>1
    <2> HIDE DEF f, g
    <2> QED
      BY <2>1 DEF FirstN
  <1>10. Flat(g, N + 1) = Flat(f, N) \o EventCells(v, TRUE) /\ EventCells(v, TRUE) \in Seq(Nat)
    <2>1. N + 1 \in 1 .. N + 1 /\ N < N + 1 /\ N + 1 \in Nat
      BY <1>1
    <2> HIDE DEF f, g
    <2>2. Flat(g, N + 1) = Flat(g, N) \o g[N + 1]
      BY <1>1, <1>8, <2>1, FlatStep
    <2>3. Flat(g, N) = Flat(f, N)
      BY <1>9 DEF Flat
    <2>4. g[N + 1] = EventCells(v, TRUE) /\ g[N + 1] \in Seq(Nat)
      BY <1>2, <1>8, <2>1
    <2> QED
      BY <2>2, <2>3, <2>4, Zenon
  <1>11. Written(A, E) = CellsOf(w, N) /\ Written(A, F) = CellsOf(u, N + 1)
    BY <1>2 DEF Written, w, u
  <1> DEFINE x == Flat(f, N)
             y == EventCells(v, TRUE)
  <1> HIDE DEF h, f, g, N
  <1>12. h \o (x \o y) = (h \o x) \o y
    <2>1. x \in Seq(Nat) /\ y \in Seq(Nat) /\ h \in Seq(Nat)
      BY <1>6, <1>10
    <2> HIDE DEF x, y
    <2>2. (h \o x) \o y = h \o (x \o y)
      BY <2>1, ConcatAssociative
    <2> QED
      BY <2>2, Zenon
  <1>13. Written(A, F) = Written(A, E) \o y
    BY <1>6, <1>7, <1>10, <1>11, <1>12, Zenon
  <1> QED
    BY <1>2, <1>13 DEF F

\* What is left of a log that ends with an event.
LEMMA WrittenBase ==
  ASSUME NEW w, IsLog(w), NEW n \in Whole(w)
  PROVE  /\ FirstN(w.events, n) \in Seq(AgileEvents(w.algs)) /\ Len(FirstN(w.events, n)) = n
         /\ Cells(w) = Written(w.algs, FirstN(w.events, n))
  <1> DEFINE E == FirstN(w.events, n)
             u == Log(w.algs, E, 0)
  <1>1. n \in Nat /\ n <= Len(w.events) /\ Cells(w) = CellsOf(w, n) /\ Len(w.events) \in Nat
    BY WholeCells, LogType
  <1>2. \A i \in 1 .. n : i \in 1 .. Len(w.events)
    BY <1>1
  <1>3. \A i \in 1 .. n : w.events[i] \in AgileEvents(w.algs)
    BY <1>2, LogType DEF AgileEvents
  <1>4. Len(E) = n /\ \A i \in 1 .. n : E[i] = w.events[i]
    BY <1>1, FrontIsSeq
  <1>5. E \in Seq(AgileEvents(w.algs))
    <2> DEFINE S == AgileEvents(w.algs)
               e == w.events
    <2> HIDE DEF S, e
    <2>1. \A i \in 1 .. n : e[i] \in S
      BY <1>3 DEF S, e
    <2>2. [i \in 1 .. n |-> e[i]] \in Seq(S)
      BY <1>1, <2>1
    <2> QED
      BY <2>2 DEF FirstN, S, e
  <1>6. u.algs = w.algs /\ u.events = E
    BY LogFields
  <1> HIDE DEF u, E
  <1>7. [i \in 1 .. n |-> EventCells(w.events[i], w.algs # << >>)]
          = [i \in 1 .. n |-> EventCells(u.events[i], u.algs # << >>)]
    BY <1>4, <1>6
  <1>8. CellsOf(u, n) = CellsOf(w, n)
    BY <1>6, <1>7 DEF CellsOf
  <1> QED
    BY <1>1, <1>4, <1>5, <1>8 DEF E, u, Written

\* The events of a log whose algorithms all are in the base log.
InBase(decl, A) == \A j \in DOMAIN decl : \E k \in DOMAIN A : A[k] = decl[j]

\* The base log could have the events of a log whose algorithms it has.
LEMMA EventsInBase ==
  ASSUME NEW a, NEW A, a # << >>, A # << >>, InBase(a, A)
  PROVE  AgileEvents(a) \subseteq AgileEvents(A)
  <1> SUFFICES ASSUME NEW v \in AgileEvents(a) PROVE v \in AgileEvents(A)
    OBVIOUS
  <1>1. v \in WrittenEvent
    BY DEF AgileEvents
  <1>2. ASSUME NEW i \in DOMAIN v.digests
        PROVE  \E k \in DOMAIN A : A[k] = [ID |-> v.digests[i].ID, Size |-> Len(v.digests[i].data)]
    <2>1. PICK j \in DOMAIN a : a[j] = [ID |-> v.digests[i].ID, Size |-> Len(v.digests[i].data)]
      BY DEF AgileEvents, WrittenAs
    <2>2. PICK k \in DOMAIN A : A[k] = a[j]
      BY DEF InBase
    <2> QED
      BY <2>1, <2>2
  <1> QED
    BY <1>1, <1>2 DEF AgileEvents, WrittenAs

\* The ID of an algorithm that the library has, of eight bits.
LEMMA KnownID ==
  ASSUME NEW id \in Nat, id < 256, cryptoHash(id) # "none"
  PROVE  algID(cryptoHash(id)) = id
  <1>1. id % 256 = id
    OBVIOUS
  <1> QED
    BY <1>1 DEF cryptoHash, algID, AlgSHA1, AlgSHA256

\* AppendEvents writes an event as it was in the log it was read from.
Rewritten(v) ==
  [v EXCEPT !.digests = [i \in DOMAIN v.digests |->
     [ID |-> algID(v.digests[i].hash), data |-> v.digests[i].data]]]

\* AppendEvents writes an event with the cells that it was parsed from: of algorithms
\* that are below 256, cryptoHash loses none that algID does not give back.
LEMMA RewrittenCells ==
  ASSUME NEW a \in Seq(AlgType), a # << >>, \A i \in DOMAIN a : a[i].ID < 256,
         NEW u \in AgileEvents(a), NEW q, NEW v, v = ReturnedEvent(u, q),
         ~\E i \in DOMAIN v.digests : v.digests[i].hash = "none"
  PROVE  EventCells(Rewritten(v), TRUE) = EventCells(u, TRUE)
  <1>1. u \in WrittenEvent /\ WrittenAs(u, a)
    BY DEF AgileEvents
  <1>2. u.digests \in Seq(WrittenDigest)
    BY <1>1 DEF WrittenEvent
  <1>3. DOMAIN u.digests = 1 .. Len(u.digests) /\ Len(u.digests) \in Nat
    BY <1>2, LenProperties
  <1>4. /\ v.index = u.index /\ v.typ = u.typ /\ v.data = u.data
        /\ v.digests = [i \in DOMAIN u.digests |->
                  [hash |-> cryptoHash(u.digests[i].ID), data |-> u.digests[i].data]]
    BY DEF ReturnedEvent
  <1>5. ASSUME NEW i \in DOMAIN u.digests
        PROVE  [ID |-> algID(v.digests[i].hash), data |-> v.digests[i].data] = u.digests[i]
    <2> DEFINE d == u.digests[i]
    <2>1. d \in WrittenDigest
      BY <1>2, <1>3, ElementOfSeq
    <2>2. v.digests[i].hash = cryptoHash(d.ID) /\ v.digests[i].data = d.data
          /\ i \in DOMAIN v.digests
      BY <1>4
    <2>3. PICK j \in DOMAIN a : a[j] = [ID |-> d.ID, Size |-> Len(d.data)]
      BY <1>1 DEF WrittenAs
    <2> HIDE DEF d
    <2>4. d.ID < 256 /\ d.ID \in Nat
      <3>1. a[j].ID = d.ID
        BY <2>3
      <3> QED
        BY <2>1, <3>1 DEF WrittenDigest
    <2>5. cryptoHash(d.ID) # "none"
      BY <2>2
    <2>6. algID(cryptoHash(d.ID)) = d.ID
      BY <2>4, <2>5, KnownID
    <2>7. d = [ID |-> d.ID, data |-> d.data]
      BY <2>1 DEF WrittenDigest
    <2> QED
      BY <2>2, <2>6, <2>7 DEF d
  <1>6. DOMAIN v.digests = DOMAIN u.digests
    BY <1>4
  <1>7. u.digests = [i \in DOMAIN u.digests |-> u.digests[i]]
    BY <1>2, <1>3
  <1>8. [i \in DOMAIN v.digests |-> [ID |-> algID(v.digests[i].hash), data |-> v.digests[i].data]]
          = u.digests
    BY <1>5, <1>6, <1>7
  <1> DEFINE x == Rewritten(v)
  <1>9. x.digests = u.digests /\ x.index = u.index /\ x.typ = u.typ /\ x.data = u.data
    <2> DEFINE ds == [i \in DOMAIN v.digests |->
                        [ID |-> algID(v.digests[i].hash), data |-> v.digests[i].data]]
    <2>1. x = [v EXCEPT !.digests = ds]
      BY DEF Rewritten
    <2>2. ds = u.digests
      BY <1>8
    <2> HIDE DEF ds, x
    <2>3. x = [v EXCEPT !.digests = u.digests]
      BY <2>1, <2>2
    <2> QED
      BY <2>3 DEF ReturnedEvent
  <1> HIDE DEF x
  <1>10. EventCells(x, TRUE) = EventCells(u, TRUE)
    BY <1>9 DEF EventCells
  <1> QED
    BY <1>10 DEF x

-----------------------------------------------------------------------------
(***************************************************************************)
(* The events that are read again, with other numbers.                     *)
(***************************************************************************)

ReadEvents == {ReturnedEvent(v, q) : v \in WrittenEvent, q \in Nat}
Reread(f, g) == Len(f) = Len(g) /\ \A k \in 1 .. Len(f) : \E q : f[k] = ReturnedEvent(g[k], q)

\* What ParseEventLog returns for a log are its first events, with numbers.
LEMMA RawIs ==
  ASSUME NEW w, IsLog(w), NEW l, ReadAs(w, l)
  PROVE  LET n == Len(l.rawEvents)
         IN  /\ n \in Whole(w) /\ n \in Nat /\ n <= Len(w.events)
             /\ l.rawEvents = ReturnedTo(w, n) /\ l.rawEvents \in Seq(ReadEvents)
             /\ Reread(l.rawEvents, FirstN(w.events, n))
  <1>1. PICK n \in Whole(w) : l.rawEvents = ReturnedTo(w, n)
    BY DEF ReadAs
  <1>2. n \in Nat /\ n <= Len(w.events) /\ Len(w.events) \in Nat
    BY WholeCells, LogType
  <1> DEFINE s == ReturnedTo(w, n)
             t == FirstN(w.events, n)
  <1>3. s = FirstN(s, n)
    BY DEF ReturnedTo, FirstN
  <1>4. Len(s) = n
    BY <1>2, <1>3, FrontIsSeq
  <1>5. \A k \in 1 .. n : s[k] = ReturnedEvent(w.events[k], k - 1 + First(w))
    BY DEF ReturnedTo
  <1>6. \A k \in 1 .. n : s[k] \in ReadEvents
    <2> SUFFICES ASSUME NEW k \in 1 .. n PROVE s[k] \in ReadEvents
      OBVIOUS
    <2>1. w.events[k] \in WrittenEvent
      BY <1>2, LogType, k \in 1 .. Len(w.events)
    <2>2. k - 1 + First(w) \in Nat
      BY <1>2 DEF First
    <2> QED
      BY <1>5, <2>1, <2>2 DEF ReadEvents
  <1>7. Len(t) = n /\ \A k \in 1 .. n : t[k] = w.events[k]
    BY <1>2, FrontIsSeq
  <1> HIDE DEF s, t
  <1>8. s \in Seq(ReadEvents)
    <2> DEFINE S == ReadEvents
    <2> HIDE DEF S
    <2>1. \A k \in 1 .. n : s[k] \in S
      BY <1>6 DEF S
    <2>2. [k \in 1 .. n |-> s[k]] \in Seq(S)
      BY <1>2, <2>1
    <2> QED
      BY <1>3, <2>2 DEF FirstN, S
  <1>9. Reread(s, t)
    BY <1>4, <1>5, <1>7 DEF Reread
  <1> QED
    BY <1>1, <1>2, <1>4, <1>8, <1>9 DEF s, t

\* Reread of one list after the other.
LEMMA RereadConcat ==
  ASSUME NEW S, NEW T, NEW f \in Seq(S), NEW h \in Seq(S), NEW g \in Seq(T), NEW e \in Seq(T),
         Reread(f, g), Reread(h, e)
  PROVE  Reread(f \o h, g \o e)
  <1> DEFINE x == f \o h
             y == g \o e
             m == Len(f)
             n == Len(h)
  <1>1. m \in Nat /\ n \in Nat /\ Len(g) = m /\ Len(e) = n
    BY LenProperties DEF Reread
  <1>2. Len(x) = m + n /\ \A i \in 1 .. m + n : x[i] = IF i <= m THEN f[i] ELSE h[i - m]
    BY ConcatProperties
  <1>3. Len(y) = m + n /\ \A i \in 1 .. m + n : y[i] = IF i <= m THEN g[i] ELSE e[i - m]
    <2>1. /\ Len(y) = Len(g) + Len(e)
          /\ \A i \in 1 .. Len(g) + Len(e) : y[i] = IF i <= Len(g) THEN g[i] ELSE e[i - Len(g)]
      BY ConcatProperties
    <2> HIDE DEF y, m, n
    <2> QED
      BY <1>1, <2>1
  <1>4. /\ \A k \in 1 .. m : \E q : f[k] = ReturnedEvent(g[k], q)
        /\ \A k \in 1 .. n : \E q : h[k] = ReturnedEvent(e[k], q)
    BY DEF Reread
  <1> HIDE DEF x, y, m, n
  <1>5. ASSUME NEW i \in 1 .. m + n PROVE \E q : x[i] = ReturnedEvent(y[i], q)
    <2>1. CASE i <= m
      <3>1. i \in 1 .. m
        BY <1>1, <2>1
      <3> QED
        BY <1>2, <1>3, <1>4, <2>1, <3>1
    <2>2. CASE ~(i <= m)
      <3>1. i - m \in 1 .. n
        BY <1>1, <2>2
      <3>2. x[i] = h[i - m] /\ y[i] = e[i - m]
        BY <1>2, <1>3, <2>2
      <3> QED
        BY <1>4, <3>1, <3>2
    <2> QED
      BY <2>1, <2>2
  <1>6. Reread(x, y)
    BY <1>2, <1>3, <1>5 DEF Reread
  <1> QED
    BY <1>6 DEF x, y

\* Reread of several lists.
LEMMA RereadFlat ==
  ASSUME NEW S, NEW T, NEW f, NEW g, NEW m \in Nat,
         \A i \in 1 .. m : f[i] \in Seq(S), \A i \in 1 .. m : g[i] \in Seq(T),
         \A i \in 1 .. m : Reread(f[i], g[i])
  PROVE  Reread(Flat(f, m), Flat(g, m))
  <1> DEFINE X == {n \in Nat : n <= m => Reread(Flat(f, n), Flat(g, n))}
  <1>1. 0 \in X
    <2>1. Flat(f, 0) = << >> /\ Flat(g, 0) = << >>
      BY FlatEmpty DEF Flat
    <2>2. Len(<< >>) = 0 /\ \A k \in 1 .. 0 : FALSE
      OBVIOUS
    <2>3. Reread(<< >>, << >>)
      BY <2>2 DEF Reread
    <2> QED
      BY <2>1, <2>3
  <1>2. ASSUME NEW n \in Nat, n \in X PROVE n + 1 \in X
    <2> SUFFICES ASSUME n + 1 <= m PROVE Reread(Flat(f, n + 1), Flat(g, n + 1))
      OBVIOUS
    <2>1. n < m /\ n + 1 \in 1 .. m /\ Reread(Flat(f, n), Flat(g, n))
      BY <1>2
    <2>2. Flat(f, n + 1) = Flat(f, n) \o f[n + 1] /\ Flat(f, n) \in Seq(S) /\ f[n + 1] \in Seq(S)
      BY <2>1, FlatStep
    <2>3. Flat(g, n + 1) = Flat(g, n) \o g[n + 1] /\ Flat(g, n) \in Seq(T) /\ g[n + 1] \in Seq(T)
      BY <2>1, FlatStep
    <2>4. Reread(Flat(f, n) \o f[n + 1], Flat(g, n) \o g[n + 1])
      BY <2>1, <2>2, <2>3, RereadConcat
    <2> QED
      BY <2>2, <2>3, <2>4, Zenon
  <1> HIDE DEF X
  <1>3. Nat \subseteq X
    BY <1>1, <1>2, SetInduction
  <1> QED
    BY <1>3 DEF X

\* Events that were read agree with those that were written up to their numbers.
LEMMA Renumbered ==
  ASSUME NEW S, NEW x \in Seq(S), NEW E, Reread(x, E)
  PROVE  [k \in DOMAIN x |-> [x[k] EXCEPT !.sequence = k]]
           = [k \in 1 .. Len(E) |-> ReturnedEvent(E[k], k)]
  <1>1. DOMAIN x = 1 .. Len(E)
    BY LenProperties DEF Reread
  <1>2. ASSUME NEW k \in 1 .. Len(E)
        PROVE  [x[k] EXCEPT !.sequence = k] = ReturnedEvent(E[k], k)
    <2>1. PICK q : x[k] = ReturnedEvent(E[k], q)
      BY DEF Reread
    <2> QED
      BY <2>1 DEF ReturnedEvent
  <1> QED
    BY <1>1, <1>2

-----------------------------------------------------------------------------
(***************************************************************************)
(* The events of the logs that were read.                                  *)
(***************************************************************************)

KeptOf(in, ls) == [i \in 1 .. Len(in) |-> FirstN(in[i].events, Len(ls[i].rawEvents))]
Kept(in, ls, m) == Flat(KeptOf(in, ls), m)
OfBase(in, i) == in[i].algs # << >> /\ InBase(in[i].algs, in[1].algs)

\* The events of the logs so far are events that the base log could have.
LEMMA KeptIs ==
  ASSUME NEW in \in Inputs, NEW ls, NEW m \in Nat, m <= Len(in),
         \A i \in 1 .. m : ReadAs(in[i], ls[i]) /\ OfBase(in, i)
  PROVE  /\ in[1].algs \in Seq(AlgType) /\ Kept(in, ls, m) \in Seq(AgileEvents(in[1].algs))
         /\ \A i \in 1 .. m :
              /\ KeptOf(in, ls)[i] = FirstN(in[i].events, Len(ls[i].rawEvents))
              /\ KeptOf(in, ls)[i] \in Seq(AgileEvents(in[1].algs))
              /\ AgileEvents(in[i].algs) \subseteq AgileEvents(in[1].algs)
  <1> DEFINE A == in[1].algs
             f == KeptOf(in, ls)
  <1>1. Len(in) \in Nat /\ 1 <= Len(in) /\ \A i \in 1 .. Len(in) : IsLog(in[i])
    BY InputIs
  <1>2. A \in Seq(AlgType)
    BY <1>1, LogType, 1 \in 1 .. Len(in)
  <1>3. ASSUME NEW i \in 1 .. m
        PROVE  /\ f[i] = FirstN(in[i].events, Len(ls[i].rawEvents)) /\ f[i] \in Seq(AgileEvents(A))
               /\ AgileEvents(in[i].algs) \subseteq AgileEvents(A)
    <2>1. i \in 1 .. Len(in) /\ 1 \in 1 .. m
      BY <1>1
    <2>2. f[i] = FirstN(in[i].events, Len(ls[i].rawEvents))
      BY <2>1 DEF KeptOf
    <2>3. Len(ls[i].rawEvents) \in Whole(in[i]) /\ IsLog(in[i])
      BY <1>1, <2>1, RawIs
    <2>4. FirstN(in[i].events, Len(ls[i].rawEvents)) \in Seq(AgileEvents(in[i].algs))
      BY <2>3, WrittenBase
    <2>5. AgileEvents(in[i].algs) \subseteq AgileEvents(A)
      BY <2>1, EventsInBase DEF OfBase
    <2>6. f[i] \in Seq(AgileEvents(A))
      BY <2>2, <2>4, <2>5, SeqMonotonic
    <2> QED
      BY <2>2, <2>5, <2>6
  <1> HIDE DEF f
  <1>4. Flat(f, m) \in Seq(AgileEvents(A))
    <2>1. \A i \in 1 .. m : f[i] \in Seq(AgileEvents(A))
      BY <1>3
    <2> QED
      BY <2>1, FlatType, m \in 0 .. m
  <1> QED
    BY <1>2, <1>3, <1>4 DEF f, Kept

\* One more log.
LEMMA KeptNext ==
  ASSUME NEW in \in Inputs, NEW ls, NEW m \in Nat, m + 1 <= Len(in),
         \A i \in 1 .. m + 1 : ReadAs(in[i], ls[i]) /\ OfBase(in, i)
  PROVE  Kept(in, ls, m + 1) = Kept(in, ls, m) \o FirstN(in[m + 1].events, Len(ls[m + 1].rawEvents))
  <1> DEFINE f == KeptOf(in, ls)
             S == AgileEvents(in[1].algs)
  <1>1. \A i \in 1 .. m + 1 : f[i] = FirstN(in[i].events, Len(ls[i].rawEvents)) /\ f[i] \in Seq(S)
    BY KeptIs, m + 1 \in Nat
  <1> HIDE DEF f, S
  <1>2. m + 1 \in 1 .. m + 1
    OBVIOUS
  <1>3. FlattenSeq(FirstN(f, m + 1)) = FlattenSeq(FirstN(f, m)) \o f[m + 1]
    BY <1>1, <1>2, FlatNext
  <1> QED
    BY <1>1, <1>2, <1>3, Zenon DEF Kept, Flat, f

\* The first logs have the same events when others follow.
LEMMA KeptSame ==
  ASSUME NEW in, NEW ls, NEW lt, NEW m \in Nat, Len(in) \in Nat, m <= Len(in),
         \A i \in 1 .. m : ls[i] = lt[i]
  PROVE  Kept(in, ls, m) = Kept(in, lt, m)
  <1>1. \A i \in 1 .. m : i \in 1 .. Len(in)
    OBVIOUS
  <1>2. \A i \in 1 .. m : KeptOf(in, ls)[i] = KeptOf(in, lt)[i]
    BY <1>1 DEF KeptOf
  <1>3. FirstN(KeptOf(in, ls), m) = FirstN(KeptOf(in, lt), m)
    BY <1>2 DEF FirstN
  <1> QED
    BY <1>3 DEF Kept, Flat

\* Before the base log there are none.
LEMMA KeptFirst ==
  ASSUME NEW in, NEW ls
  PROVE  Kept(in, ls, 0) = << >>
  BY FlatEmpty DEF Kept, Flat

-----------------------------------------------------------------------------
(***************************************************************************)
(* AppendEvents.  The logs that were read have algorithms of the base log, *)
(* `out` has their events, also while those of a log are written, and the  *)
(* combined log is read as a log with these events.                        *)
(***************************************************************************)
Proper == \A i \in DOMAIN input : ProperSpec(input[i]) /\ ShortIDs(input[i])

Final == Combined(input[1].algs, Kept(input, logs, Len(input)))

NotRefused == cur = Len(input) + 1 => result # "error"
OnlyBaseAlgs ==
  result # "error" => \A i \in 1 .. Len(input) : i <= Len(logs) => OfBase(input, i)
Copied ==
  result = "none" /\ phase # "append" /\ cur # 1 =>
    out = Written(input[1].algs, Kept(input, logs, cur - 1))

\* The events of w from k + 1 to n.
Left(s, w, n, k) ==
  /\ s \in Seq(ReadEvents) /\ Len(s) = n - k
  /\ \A j \in 1 .. n - k : s[j] = ReturnedEvent(w.events[k + j], k + j)
Copying ==
  result = "none" /\ phase = "append" =>
    \E k \in 0 .. Len(logs[cur].rawEvents) :
      /\ Left(parsed, input[cur], Len(logs[cur].rawEvents), k)
      /\ out = Written(input[1].algs,
                       Kept(input, logs, cur - 1) \o FirstN(input[cur].events, k))
ReadsCombined == result = "none" /\ cur = Len(input) + 1 => Reads(Final)
ReadCombined ==
  result = "ok" => Len(logs) = Len(input) + 1 /\ ReadAs(Final, logs[Len(logs)])

AppendInv ==
  Proper =>
    NotRefused /\ OnlyBaseAlgs /\ Copied /\ Copying /\ ReadsCombined /\ ReadCombined

\* What is known of the logs that were read.
LEMMA LogsRead ==
  ASSUME ParseInv, AppendInv, Proper, result # "error"
  PROVE  /\ input \in Inputs /\ Len(input) \in Nat /\ 1 <= Len(input) /\ Len(logs) \in Nat
         /\ cur \in 1 .. Len(input) + 1
         /\ \A i \in 1 .. Len(input) :
              /\ IsLog(input[i]) /\ ProperSpec(input[i]) /\ ShortIDs(input[i])
              /\ i <= Len(logs) => ReadAs(input[i], logs[i]) /\ OfBase(input, i)
  <1>1. /\ input \in Inputs /\ Len(input) \in Nat /\ 1 <= Len(input)
        /\ DOMAIN input = 1 .. Len(input) /\ \A i \in 1 .. Len(input) : IsLog(input[i])
    BY InputIs DEF ParseInv
  <1>2. Len(logs) \in Nat /\ cur \in 1 .. Len(input) + 1
    BY DEF ParseInv, IsSeq
  <1>3. \A i \in 1 .. Len(input) : ProperSpec(input[i]) /\ ShortIDs(input[i])
    BY <1>1 DEF Proper
  <1>4. \A i \in 1 .. Len(input) : i <= Len(logs) => ReadAs(input[i], logs[i]) /\ OfBase(input, i)
    BY <1>3 DEF ParseInv, ParsedLogs, AppendInv, OnlyBaseAlgs
  <1> QED
    BY <1>1, <1>2, <1>3, <1>4

\* The combined log is about to be parsed, as a log with the events so far.
LEMMA StartsReading ==
  ASSUME NEW A \in Seq(AlgType), A # << >>, NEW E \in Seq(AgileEvents(A)),
         phase' = "first", r' = Written(A, E)
  PROVE  Reads(Combined(A, E))'
  <1>1. Cells(Combined(A, E)) = Written(A, E)
    BY CombinedIs
  <1>2. r' = Rest(Combined(A, E), 0)
    BY <1>1, CellsRest
  <1>3. PICK w : w = Combined(A, E)
    OBVIOUS
  <1>4. Reads(w)'
    BY <1>2, <1>3 DEF Reads
  <1> QED
    BY <1>3, <1>4

\* Nothing was written yet.
LEMMA AppendInvInit ==
  ASSUME ParseInit
  PROVE  AppendInv
  <1>1. input \in Inputs /\ cur = 1 /\ phase = "first" /\ logs = << >> /\ result = "none"
    BY DEF ParseInit
  <1>2. Len(input) \in Nat /\ 1 <= Len(input)
    BY <1>1, InputIs
  <1>3. cur # Len(input) + 1
    BY <1>1, <1>2
  <1>4. \A i \in 1 .. Len(input) : ~(i <= Len(logs))
    BY <1>1, <1>2, Len(<< >>) = 0
  <1> QED
    BY <1>1, <1>3, <1>4
       DEF AppendInv, NotRefused, OnlyBaseAlgs, Copied, Copying, ReadsCombined, ReadCombined

\* The combined log is not refused while it is read.
LEMMA AppendInvParsing ==
  ASSUME ParseInv, AppendInv, Proper, Parsing
  PROVE  AppendInv'
  <1>1. /\ UNCHANGED <<input, cur, logs, out>> /\ result = "none" /\ phase # "append"
        /\ Fail \/ (result' = "none" /\ phase' # "append")
    BY ParsingFrame
  <1>2. /\ input \in Inputs /\ Len(input) \in Nat /\ 1 <= Len(input)
        /\ \A i \in 1 .. Len(input) :
              /\ IsLog(input[i]) /\ ProperSpec(input[i]) /\ ShortIDs(input[i])
              /\ i <= Len(logs) => ReadAs(input[i], logs[i]) /\ OfBase(input, i)
    BY <1>1, LogsRead
  <1>3. Len(logs) = cur - 1
    BY <1>1 DEF ParseInv, Counted
  <1>4. ASSUME cur = Len(input) + 1
        PROVE  Reads(Final)' /\ result' = "none"
    <2>1. Len(logs) = Len(input)
      BY <1>2, <1>3, <1>4
    <2>2. \A i \in 1 .. Len(input) : ReadAs(input[i], logs[i]) /\ OfBase(input, i)
      BY <1>2, <2>1
    <2>3. PICK A : A = input[1].algs
      OBVIOUS
    <2>4. PICK E : E = Kept(input, logs, Len(input))
      OBVIOUS
    <2>5. A \in Seq(AlgType) /\ E \in Seq(AgileEvents(A)) /\ A # << >> /\ ProperSpec(input[1])
      <3>1. 1 \in 1 .. Len(input) /\ Len(input) <= Len(input)
        BY <1>2
      <3>2. A # << >> /\ ProperSpec(input[1])
        BY <1>2, <2>2, <2>3, <3>1 DEF OfBase
      <3> QED
        BY <1>2, <2>2, <2>3, <2>4, <3>1, <3>2, KeptIs
    <2>6. PICK w : w = Combined(A, E)
      OBVIOUS
    <2>7. IsLog(w) /\ w.algs = A /\ ~Cut(w)
      BY <2>5, <2>6, CombinedIs
    <2>8. ProperSpec(w)
      BY <2>3, <2>5, <2>7 DEF ProperSpec
    <2>9. Final = w /\ Final' = w
      BY <1>1, <2>3, <2>4, <2>6 DEF Final
    <2>10. Reads(w)
      BY <1>1, <1>4, <2>9 DEF AppendInv, ReadsCombined
    <2>11. Reads(w)' /\ result' = "none"
      BY <2>7, <2>8, <2>10, ParsingStep
    <2> QED
      BY <2>9, <2>11
  <1>5. NotRefused' /\ ReadsCombined'
    BY <1>1, <1>4 DEF NotRefused, ReadsCombined
  <1>6. OnlyBaseAlgs' /\ Copied' /\ Copying' /\ ReadCombined'
    BY <1>1 DEF AppendInv, OnlyBaseAlgs, Copied, Copying, ReadCombined, Fail
  <1> QED
    BY <1>5, <1>6 DEF AppendInv

\* The base log is kept as it is.
LEMMA AppendInvBase ==
  ASSUME ParseInv, AppendInv, Proper, ParsedBase, ParseInv'
  PROVE  AppendInv'
  <1>1. Running("loop") /\ cur = 1 /\ logs' = <<[specID |-> specID, rawEvents |-> parsed]>>
    BY DEF ParsedBase
  <1>2. /\ input \in Inputs /\ Len(input) \in Nat /\ 1 <= Len(input)
        /\ IsLog(input[1]) /\ ProperSpec(input[1])
    <2>1. result # "error"
      BY <1>1 DEF Running
    <2> QED
      BY <2>1, LogsRead
  <1>3. CASE specID = << >>
    <2>1. result' = "error" /\ UNCHANGED <<input, cur>>
      BY <1>3 DEF ParsedBase
    <2>2. cur' # Len(input') + 1
      BY <1>1, <1>2, <2>1
    <2> QED
      BY <2>1, <2>2
         DEF AppendInv, NotRefused, OnlyBaseAlgs, Copied, Copying, ReadsCombined, ReadCombined
  <1>4. CASE specID # << >>
    <2>1. /\ UNCHANGED <<input, result>> /\ cur' = 2 /\ phase' = "first"
          /\ r' = (IF 2 <= Len(input) THEN Cells(input[2]) ELSE out') /\ out' = Cells(input[1])
      BY <1>4 DEF ParsedBase, Parse
    <2>2. result' = "none" /\ result = "none"
      BY <1>1, <2>1 DEF Running
    <2>3. PICK w : w = input[1]
      OBVIOUS
    <2>4. PICK l : l = logs'[1]
      OBVIOUS
    <2>5. Len(logs') = 1 /\ l.specID = specID
      BY <1>1, <2>4
    <2>6. ReadAs(w, l) /\ IsLog(w) /\ input'[1] = w
      <3>1. 1 \in 1 .. Len(input') /\ 1 <= Len(logs') /\ ProperSpec(input'[1])
        BY <1>2, <2>1, <2>5
      <3>2. ReadAs(input'[1], logs'[1])
        BY <3>1 DEF ParseInv, ParsedLogs
      <3> QED
        BY <1>2, <2>1, <2>3, <2>4, <3>2
    <2>7. w.algs # << >> /\ w.algs \in Seq(AlgType)
      BY <1>4, <2>5, <2>6, LogType DEF ReadAs
    <2> DEFINE n == Len(l.rawEvents)
               E == FirstN(w.events, n)
    <2>8. n \in Whole(w)
      BY <2>6, RawIs
    <2>9. /\ E \in Seq(AgileEvents(w.algs)) /\ Cells(w) = Written(w.algs, E)
      BY <2>6, <2>8, WrittenBase
    <2>10. OfBase(input', 1)
      BY <2>6, <2>7 DEF OfBase, InBase
    <2>11. Kept(input', logs', 1) = E
      <3>1. \A i \in 1 .. 0 + 1 : i = 1
        OBVIOUS
      <3>2. \A i \in 1 .. 0 + 1 : ReadAs(input'[i], logs'[i]) /\ OfBase(input', i)
        BY <2>4, <2>6, <2>10, <3>1
      <3>3. Kept(input', logs', 0 + 1)
              = Kept(input', logs', 0) \o FirstN(input'[0 + 1].events, Len(logs'[0 + 1].rawEvents))
        BY <1>2, <2>1, <3>2, KeptNext, 0 \in Nat, 0 + 1 <= Len(input')
      <3>4. << >> \o E = E
        <4> HIDE DEF E
        <4> QED
          BY <2>9, ConcatEmptySeq
      <3> QED
        BY <2>4, <2>6, <3>3, <3>4, KeptFirst, 0 + 1 = 1
    <2>12. Copied'
      BY <2>1, <2>3, <2>6, <2>9, <2>11, 2 - 1 = 1 DEF Copied
    <2>13. NotRefused' /\ Copying' /\ ReadCombined'
      BY <2>1, <2>2 DEF NotRefused, Copying, ReadCombined
    <2>14. OnlyBaseAlgs'
      <3>1. \A i \in 1 .. Len(input') : i <= 1 => i = 1
        OBVIOUS
      <3> QED
        BY <2>5, <2>10, <3>1 DEF OnlyBaseAlgs
    <2>15. ReadsCombined'
      <3> SUFFICES ASSUME cur' = Len(input') + 1 PROVE Reads(Final)'
        BY DEF ReadsCombined
      <3>1. Len(input) = 1 /\ Len(input') = 1
        BY <1>2, <2>1
      <3>2. r' = Written(w.algs, E)
        BY <2>1, <2>3, <2>9, <3>1
      <3>3. PICK F : F = E
        OBVIOUS
      <3> HIDE DEF E
      <3>4. Reads(Combined(w.algs, F))'
        BY <2>1, <2>7, <2>9, <3>2, <3>3, StartsReading
      <3>5. Final' = Combined(w.algs, F)
        BY <2>6, <2>11, <3>1, <3>3 DEF Final
      <3>6. PICK u : u = Combined(w.algs, F)
        OBVIOUS
      <3> QED
        BY <3>4, <3>5, <3>6
    <2> QED
      BY <2>12, <2>13, <2>14, <2>15 DEF AppendInv
  <1> QED
    BY <1>3, <1>4

\* An additional log is appended if all of its algorithms are in the base log.
LEMMA AppendInvAdditional ==
  ASSUME ParseInv, AppendInv, Proper, ParsedAdditional, ParseInv'
  PROVE  AppendInv'
  <1> DEFINE l == [specID |-> specID, rawEvents |-> parsed]
  <1>1. Running("loop") /\ cur \in 2 .. Len(input) /\ logs' = Append(logs, l)
        /\ UNCHANGED <<input, cur, parsed, out>>
    BY DEF ParsedAdditional
  <1>2. result = "none" /\ phase = "loop"
    BY <1>1 DEF Running
  <1>3. /\ input \in Inputs /\ Len(input) \in Nat /\ 1 <= Len(input) /\ Len(logs) \in Nat
        /\ \A i \in 1 .. Len(input) :
              /\ IsLog(input[i]) /\ ProperSpec(input[i]) /\ ShortIDs(input[i])
              /\ i <= Len(logs) => ReadAs(input[i], logs[i]) /\ OfBase(input, i)
    BY <1>2, LogsRead
  <1>4. Len(logs) = cur - 1 /\ IsSeq(logs)
    BY <1>2 DEF ParseInv, Counted
  <1>5. cur \in 1 .. Len(input) /\ Len(logs) + 1 = cur /\ 1 <= Len(logs) /\ 1 \in 1 .. Len(logs)
        /\ cur # Len(input) + 1 /\ 1 \in 1 .. Len(input) /\ cur # 1
        /\ cur - 1 \in Nat /\ cur - 1 <= Len(input) /\ cur \in Nat
    BY <1>1, <1>3, <1>4
  <1>6. CASE specID = << >> \/ \E i \in DOMAIN specID : ~AlgInBase(specID[i])
    <2>1. result' = "error"
      BY <1>6 DEF ParsedAdditional
    <2>2. cur' # Len(input') + 1
      BY <1>1, <1>5
    <2> QED
      BY <2>1, <2>2
         DEF AppendInv, NotRefused, OnlyBaseAlgs, Copied, Copying, ReadsCombined, ReadCombined
  <1>7. CASE ~(specID = << >> \/ \E i \in DOMAIN specID : ~AlgInBase(specID[i]))
    <2>1. phase' = "append" /\ UNCHANGED result
      BY <1>7 DEF ParsedAdditional
    <2> HIDE DEF l
    <2>2. /\ Len(logs') = cur /\ logs'[cur] = l /\ \A i \in 1 .. Len(logs) : logs'[i] = logs[i]
      BY <1>1, <1>4, <1>5, AppendIs
    <2>3. ReadAs(input[cur], l)
      <3>1. cur \in 1 .. Len(input') /\ cur <= Len(logs') /\ ProperSpec(input'[cur])
        BY <1>1, <1>3, <1>5, <2>2
      <3> QED
        BY <1>1, <2>2, <3>1 DEF ParseInv, ParsedLogs
    <2>4. specID = input[cur].algs /\ logs[1].specID = input[1].algs
      BY <1>3, <1>5, <2>3 DEF ReadAs, l
    <2>5. OfBase(input, cur)
      BY <1>7, <2>4 DEF OfBase, InBase, AlgInBase
    <2>6. OnlyBaseAlgs'
      <3>1. ASSUME NEW i \in 1 .. Len(input), i <= cur PROVE OfBase(input, i)
        <4>1. i = cur \/ i <= Len(logs)
          BY <1>3, <1>4, <1>5, <3>1
        <4> QED
          BY <1>3, <2>5, <4>1
      <3> QED
        BY <1>1, <2>2, <3>1 DEF OnlyBaseAlgs
    <2>7. NotRefused' /\ Copied' /\ ReadsCombined' /\ ReadCombined'
      BY <1>1, <1>2, <1>5, <2>1 DEF NotRefused, Copied, ReadsCombined, ReadCombined
    <2> DEFINE w == input[cur]
               n == Len(l.rawEvents)
               K == Kept(input, logs, cur - 1)
    <2>8. /\ n \in Nat /\ parsed = ReturnedTo(w, n) /\ parsed \in Seq(ReadEvents)
          /\ l.rawEvents = parsed
      <3>1. l.rawEvents = parsed
        BY DEF l
      <3> QED
        BY <1>3, <1>5, <2>3, <3>1, RawIs
    <2>9. Left(parsed, w, n, 0)
      <3>1. First(w) = 1
        BY <2>5 DEF First, OfBase
      <3>2. \A j \in 1 .. n : ReturnedTo(w, n)[j] = ReturnedEvent(w.events[j], j - 1 + First(w))
        BY DEF ReturnedTo
      <3>3. n - 0 = n /\ \A j \in 1 .. n : 0 + j = j /\ j - 1 + 1 = j
        BY <2>8
      <3>4. Len(parsed) = n
        BY <2>8
      <3> HIDE DEF n, w
      <3> QED
        BY <2>8, <3>1, <3>2, <3>3, <3>4 DEF Left
    <2>10. K \o FirstN(w.events, 0) = K
      <3>1. \A i \in 1 .. cur - 1 : ReadAs(input[i], logs[i]) /\ OfBase(input, i)
        BY <1>3, <1>4, <1>5
      <3>2. K \in Seq(AgileEvents(input[1].algs))
        BY <1>3, <1>5, <3>1, KeptIs
      <3>3. FirstN(w.events, 0) = << >>
        BY DEF FirstN
      <3> HIDE DEF K
      <3>4. K \o << >> = K
        BY <3>2, ConcatEmptySeq
      <3> QED
        BY <3>3, <3>4, Zenon
    <2>11. out = Written(input[1].algs, K)
      BY <1>2, <1>5 DEF AppendInv, Copied
    <2>12. Kept(input, logs', cur - 1) = K
      BY <1>3, <1>4, <1>5, <2>2, KeptSame
    <2>13. Copying'
      <3>1. 0 \in 0 .. Len(logs'[cur].rawEvents)
        BY <2>2, <2>8
      <3>2. /\ Left(parsed, input[cur], Len(logs'[cur].rawEvents), 0)
            /\ out = Written(input[1].algs,
                             Kept(input, logs', cur - 1) \o FirstN(input[cur].events, 0))
        BY <2>2, <2>9, <2>10, <2>11, <2>12, Zenon
      <3> QED
        BY <1>1, <3>1, <3>2 DEF Copying
    <2> QED
      BY <2>6, <2>7, <2>13 DEF AppendInv
  <1> QED
    BY <1>6, <1>7

\* The next event of w is appended to those of a log of algorithms A with events K.
MayAppend(A, K, w, n, k, s) ==
  /\ A \in Seq(AlgType) /\ A # << >> /\ K \in Seq(AgileEvents(A))
  /\ IsLog(w) /\ Agile(w) /\ ShortIDs(w) /\ AgileEvents(w.algs) \subseteq AgileEvents(A)
  /\ n \in Whole(w) /\ k \in 0 .. n /\ s # << >> /\ Left(s, w, n, k)
  /\ ~\E i \in DOMAIN Head(s).digests : Head(s).digests[i].hash = "none"

WasAppended(A, K, w, n, k, s) ==
  /\ k + 1 \in 0 .. n /\ Left(Tail(s), w, n, k + 1)
  /\ Written(A, K \o FirstN(w.events, k + 1))
       = Written(A, K \o FirstN(w.events, k)) \o EventCells(Rewritten(Head(s)), TRUE)

\* The cells of one more event are those of the log with one more event.
LEMMA EventAppended ==
  ASSUME NEW A, NEW K, NEW w, NEW n, NEW k, NEW s, MayAppend(A, K, w, n, k, s)
  PROVE  WasAppended(A, K, w, n, k, s)
  <1> DEFINE u == w.events[k + 1]
             v == Head(s)
             f == FirstN(w.events, k)
             g == FirstN(w.events, k + 1)
             t == Tail(s)
  <1>0. /\ A \in Seq(AlgType) /\ A # << >> /\ K \in Seq(AgileEvents(A))
        /\ IsLog(w) /\ Agile(w) /\ ShortIDs(w) /\ AgileEvents(w.algs) \subseteq AgileEvents(A)
        /\ n \in Whole(w) /\ k \in 0 .. n /\ s # << >> /\ Left(s, w, n, k)
        /\ ~\E i \in DOMAIN v.digests : v.digests[i].hash = "none"
    BY DEF MayAppend
  <1>1. n \in Nat /\ n <= Len(w.events) /\ Len(w.events) \in Nat /\ k \in Nat
    BY <1>0, WholeCells, LogType
  <1>2. /\ s \in Seq(ReadEvents) /\ Len(s) = n - k
        /\ \A j \in 1 .. n - k : s[j] = ReturnedEvent(w.events[k + j], k + j)
    BY <1>0 DEF Left
  <1>3. Len(s) # 0 /\ Len(s) \in Nat
    BY <1>0, <1>2, EmptySeq, LenProperties
  <1>4. k + 1 \in 0 .. n /\ 1 \in 1 .. n - k /\ k + 1 \in 1 .. Len(w.events) /\ k \in 0 .. n
    BY <1>0, <1>1, <1>2, <1>3
  <1>5. v = s[1] /\ t \in Seq(ReadEvents) /\ Len(t) = Len(s) - 1
        /\ \A j \in 1 .. Len(t) : t[j] = s[j + 1]
    <2> DEFINE S == ReadEvents
    <2> HIDE DEF S
    <2>1. s \in Seq(S)
      BY <1>2 DEF S
    <2>2. Head(s) = s[1]
      BY <1>0, <2>1
    <2>3. Tail(s) \in Seq(S) /\ Len(Tail(s)) = Len(s) - 1
          /\ \A j \in 1 .. Len(Tail(s)) : Tail(s)[j] = s[j + 1]
      BY <1>0, <2>1, HeadTailProperties
    <2> QED
      BY <2>2, <2>3 DEF S
  <1>6. v = ReturnedEvent(u, k + 1)
    BY <1>2, <1>4, <1>5
  <1>7. u \in AgileEvents(w.algs) /\ u \in AgileEvents(A)
    <2>1. u \in AgileEvents(w.algs)
      BY <1>0, <1>4, LogType DEF AgileEvents
    <2> QED
      BY <1>0, <2>1
  <1>8. Left(t, w, n, k + 1)
    <2>1. n - (k + 1) = n - k - 1
          /\ \A j \in 1 .. n - (k + 1) : j + 1 \in 1 .. n - k /\ k + (j + 1) = k + 1 + j
      BY <1>1
    <2>2. Len(t) = n - (k + 1)
      BY <1>2, <1>5, <2>1
    <2> HIDE DEF t
    <2>3. \A j \in 1 .. n - (k + 1) : t[j] = ReturnedEvent(w.events[k + 1 + j], k + 1 + j)
      <3> SUFFICES ASSUME NEW j \in 1 .. n - (k + 1)
                   PROVE  t[j] = ReturnedEvent(w.events[k + 1 + j], k + 1 + j)
        OBVIOUS
      <3>1. t[j] = s[j + 1] /\ j + 1 \in 1 .. n - k /\ k + (j + 1) = k + 1 + j
        BY <1>5, <2>1, <2>2
      <3>2. s[j + 1] = ReturnedEvent(w.events[k + (j + 1)], k + (j + 1))
        BY <1>2, <3>1
      <3> QED
        BY <3>1, <3>2
    <2> QED
      BY <1>5, <2>2, <2>3 DEF Left
  <1>9. EventCells(Rewritten(v), TRUE) = EventCells(u, TRUE)
    <2>1. w.algs \in Seq(AlgType) /\ w.algs # << >> /\ \A i \in DOMAIN w.algs : w.algs[i].ID < 256
      BY <1>0, LogType DEF Agile, ShortIDs
    <2> HIDE DEF u
    <2> QED
      BY <1>0, <1>6, <1>7, <2>1, RewrittenCells
  <1>10. f \in Seq(AgileEvents(A))
    <2> DEFINE S == AgileEvents(A)
               e == w.events
    <2> HIDE DEF S, e
    <2>1. \A i \in 1 .. k : i \in 1 .. Len(w.events)
      BY <1>0, <1>1
    <2>2. \A i \in 1 .. k : e[i] \in S
      <3>1. \A i \in 1 .. k : w.events[i] \in AgileEvents(w.algs)
        BY <1>0, <2>1, LogType DEF AgileEvents
      <3> QED
        BY <1>0, <3>1 DEF S, e
    <2>3. [i \in 1 .. k |-> e[i]] \in Seq(S)
      BY <1>1, <2>2
    <2> QED
      BY <2>3 DEF FirstN, S, e
  <1>11. Append(f, u) = g
    BY <1>1, FrontNext
  <1> DEFINE E == K \o f
  <1>12. E \in Seq(AgileEvents(A))
    <2> HIDE DEF f
    <2> QED
      BY <1>0, <1>10, ConcatProperties
  <1> HIDE DEF f, g, u
  <1>13. Append(E, u) = K \o g
    <2>1. <<u>> \in Seq(AgileEvents(A))
      BY <1>7
    <2>2. Append(E, u) = E \o <<u>> /\ Append(f, u) = f \o <<u>>
      <3> HIDE DEF E
      <3> QED
        BY <1>7, <1>10, <1>12, AppendIsConcat
    <2>3. (K \o f) \o <<u>> = K \o (f \o <<u>>)
      BY <1>0, <1>10, <2>1, ConcatAssociative
    <2> QED
      BY <1>11, <2>2, <2>3, Zenon
  <1>14. Written(A, Append(E, u)) = Written(A, E) \o EventCells(u, TRUE)
    <2> HIDE DEF E
    <2> QED
      BY <1>0, <1>7, <1>12, WrittenNext
  <1>15. Written(A, K \o g) = Written(A, K \o f) \o EventCells(Rewritten(v), TRUE)
    BY <1>9, <1>13, <1>14, Zenon
  <1> QED
    BY <1>4, <1>8, <1>15 DEF f, g, WasAppended

\* AppendEvents writes an event.
LEMMA AppendInvEvent ==
  ASSUME ParseInv, AppendInv, Proper, AppendEvent
  PROVE  AppendInv'
  <1> DEFINE v == Head(parsed)
             none == \E i \in DOMAIN v.digests : v.digests[i].hash = "none"
  <1>1. /\ Running("append") /\ parsed # << >>
        /\ IF none THEN Fail
           ELSE /\ out' = out \o EventCells(Rewritten(v), TRUE)
                /\ parsed' = Tail(parsed)
                /\ UNCHANGED <<input, cur, phase, r, specID, sequence, event, logs, result>>
    BY Zenon DEF AppendEvent, Rewritten
  <1>2. result = "none" /\ phase = "append"
    BY <1>1 DEF Running
  <1>3. /\ input \in Inputs /\ Len(input) \in Nat /\ 1 <= Len(input) /\ Len(logs) \in Nat
        /\ \A i \in 1 .. Len(input) :
              /\ IsLog(input[i]) /\ ProperSpec(input[i]) /\ ShortIDs(input[i])
              /\ i <= Len(logs) => ReadAs(input[i], logs[i]) /\ OfBase(input, i)
    BY <1>2, LogsRead
  <1>4. Len(logs) = cur /\ cur \in 2 .. Len(input)
    BY <1>2 DEF ParseInv, Counted
  <1>5. cur \in 1 .. Len(input) /\ cur # Len(input) + 1 /\ 1 \in 1 .. Len(input) /\ 1 <= cur
        /\ cur - 1 \in Nat /\ cur - 1 <= Len(input) /\ cur \in Nat /\ cur <= Len(input)
    BY <1>3, <1>4
  <1>6. CASE none
    <2>1. result' = "error" /\ UNCHANGED <<input, cur>>
      BY <1>1, <1>6 DEF Fail
    <2>2. cur' # Len(input') + 1
      BY <1>5, <2>1
    <2> QED
      BY <2>1, <2>2
         DEF AppendInv, NotRefused, OnlyBaseAlgs, Copied, Copying, ReadsCombined, ReadCombined
  <1>7. CASE ~none
    <2>1. /\ out' = out \o EventCells(Rewritten(v), TRUE) /\ parsed' = Tail(parsed)
          /\ UNCHANGED <<input, cur, phase, logs, result>>
      BY <1>1, <1>7, Zenon
    <2> HIDE DEF none
    <2>2. OnlyBaseAlgs' /\ NotRefused' /\ Copied' /\ ReadsCombined' /\ ReadCombined'
      BY <1>2, <1>5, <2>1
         DEF AppendInv, OnlyBaseAlgs, NotRefused, Copied, ReadsCombined, ReadCombined
    <2> DEFINE w == input[cur]
               n == Len(logs[cur].rawEvents)
               A == input[1].algs
               K == Kept(input, logs, cur - 1)
    <2>3. PICK k \in 0 .. n :
            Left(parsed, w, n, k) /\ out = Written(A, K \o FirstN(w.events, k))
      BY <1>2 DEF AppendInv, Copying
    <2>4. ReadAs(w, logs[cur]) /\ OfBase(input, cur) /\ OfBase(input, 1) /\ IsLog(w) /\ ShortIDs(w)
      BY <1>3, <1>4, <1>5
    <2>5. n \in Whole(w)
      BY <2>4, RawIs
    <2>6. Agile(w) /\ A # << >>
      BY <2>4 DEF Agile, OfBase
    <2>7. A \in Seq(AlgType) /\ K \in Seq(AgileEvents(A))
      <3>1. \A i \in 1 .. cur - 1 : ReadAs(input[i], logs[i]) /\ OfBase(input, i)
        BY <1>3, <1>4, <1>5
      <3> QED
        BY <1>3, <1>5, <3>1, KeptIs
    <2>8. AgileEvents(w.algs) \subseteq AgileEvents(A)
      BY <2>4, EventsInBase DEF OfBase
    <2> HIDE DEF w, n, A, K
    <2>9. /\ k + 1 \in 0 .. n /\ Left(Tail(parsed), w, n, k + 1)
          /\ Written(A, K \o FirstN(w.events, k + 1))
               = Written(A, K \o FirstN(w.events, k)) \o EventCells(Rewritten(v), TRUE)
      <3>1. parsed # << >> /\ Left(parsed, w, n, k)
        BY <1>1, <2>3
      <3>2. ~\E i \in DOMAIN Head(parsed).digests : Head(parsed).digests[i].hash = "none"
        BY <1>7 DEF none
      <3>3. IsLog(w) /\ ShortIDs(w)
        BY <2>4
      <3> HIDE DEF v
      <3>4. v = Head(parsed)
        BY DEF v
      <3>5. /\ k + 1 \in 0 .. n /\ Left(Tail(parsed), w, n, k + 1)
            /\ Written(A, K \o FirstN(w.events, k + 1))
               = Written(A, K \o FirstN(w.events, k)) \o EventCells(Rewritten(Head(parsed)), TRUE)
        <4>1. MayAppend(A, K, w, n, k, parsed)
          BY <2>5, <2>6, <2>7, <2>8, <3>1, <3>2, <3>3, k \in 0 .. n, Zenon DEF MayAppend
        <4>2. WasAppended(A, K, w, n, k, parsed)
          BY <4>1, EventAppended
        <4> QED
          BY <4>2, Zenon DEF WasAppended
      <3> QED
        BY <3>4, <3>5, Zenon
    <2>10. out' = Written(A, K \o FirstN(w.events, k + 1))
      BY <2>1, <2>3, <2>9, Zenon
    <2>11. /\ k + 1 \in 0 .. Len(logs'[cur'].rawEvents)
           /\ Left(parsed', input'[cur'], Len(logs'[cur'].rawEvents), k + 1)
           /\ out' = Written(input'[1].algs,
                        Kept(input', logs', cur' - 1) \o FirstN(input'[cur'].events, k + 1))
      <3>1. input' = input /\ logs' = logs /\ cur' = cur /\ parsed' = Tail(parsed)
        BY <2>1
      <3>2. /\ k + 1 \in 0 .. Len(logs[cur].rawEvents)
            /\ Left(Tail(parsed), input[cur], Len(logs[cur].rawEvents), k + 1)
            /\ out' = Written(input[1].algs,
                        Kept(input, logs, cur - 1) \o FirstN(input[cur].events, k + 1))
        BY <2>9, <2>10, Zenon DEF w, n, A, K
      <3> QED
        BY <3>1, <3>2
    <2>12. Copying'
      BY <2>11 DEF Copying
    <2> QED
      BY <2>2, <2>12 DEF AppendInv
  <1> QED
    BY <1>6, <1>7

\* All the events of a log were appended.
LEMMA AppendInvAppended ==
  ASSUME ParseInv, AppendInv, Proper, Appended
  PROVE  AppendInv'
  <1>1. /\ Running("append") /\ parsed = << >> /\ UNCHANGED <<input, logs, out, result>>
        /\ cur' = cur + 1 /\ phase' = "first"
        /\ r' = IF cur + 1 <= Len(input) THEN Cells(input[cur + 1]) ELSE out'
    BY DEF Appended, Parse
  <1>2. result = "none" /\ phase = "append"
    BY <1>1 DEF Running
  <1>3. /\ input \in Inputs /\ Len(input) \in Nat /\ 1 <= Len(input) /\ Len(logs) \in Nat
        /\ \A i \in 1 .. Len(input) :
              /\ IsLog(input[i]) /\ ProperSpec(input[i]) /\ ShortIDs(input[i])
              /\ i <= Len(logs) => ReadAs(input[i], logs[i]) /\ OfBase(input, i)
    BY <1>2, LogsRead
  <1>4. Len(logs) = cur /\ cur \in 2 .. Len(input)
    BY <1>2 DEF ParseInv, Counted
  <1>5. /\ cur \in 1 .. Len(input) /\ 1 \in 1 .. Len(input) /\ 1 <= cur /\ cur + 1 - 1 = cur
        /\ cur - 1 \in Nat /\ cur - 1 + 1 = cur /\ cur \in Nat /\ cur <= Len(input)
    BY <1>3, <1>4
  <1>6. \A i \in 1 .. cur : ReadAs(input[i], logs[i]) /\ OfBase(input, i)
    BY <1>3, <1>4, <1>5
  <1> DEFINE w == input[cur]
             n == Len(logs[cur].rawEvents)
             A == input[1].algs
             K == Kept(input, logs, cur - 1)
  <1>7. PICK k \in 0 .. n :
            Left(parsed, w, n, k) /\ out = Written(A, K \o FirstN(w.events, k))
    BY <1>2 DEF AppendInv, Copying
  <1>8. n \in Nat
    BY <1>3, <1>5, <1>6, RawIs
  <1>9. k = n
    <2>1. Len(parsed) = n - k /\ Len(parsed) = 0
      BY <1>1, <1>7 DEF Left
    <2> HIDE DEF n
    <2> QED
      BY <1>8, <2>1
  <1>10. Kept(input, logs, cur) = K \o FirstN(w.events, n)
    <2>1. Kept(input, logs, cur - 1 + 1)
            = K \o FirstN(input[cur - 1 + 1].events, Len(logs[cur - 1 + 1].rawEvents))
      <3>1. cur - 1 + 1 <= Len(input)
            /\ \A i \in 1 .. cur - 1 + 1 : ReadAs(input[i], logs[i]) /\ OfBase(input, i)
        BY <1>5, <1>6
      <3> QED
        BY <1>3, <1>5, <3>1, KeptNext
    <2> QED
      BY <1>5, <2>1
  <1>11. out = Written(A, Kept(input, logs, cur))
    BY <1>7, <1>9, <1>10
  <1>12. Copied'
    BY <1>1, <1>5, <1>11 DEF Copied
  <1>13. NotRefused' /\ OnlyBaseAlgs' /\ Copying' /\ ReadCombined'
    BY <1>1, <1>2 DEF AppendInv, NotRefused, OnlyBaseAlgs, Copying, ReadCombined
  <1>14. ReadsCombined'
    <2> SUFFICES ASSUME cur' = Len(input') + 1 PROVE Reads(Final)'
      BY DEF ReadsCombined
    <2>1. cur = Len(input) /\ ~(cur + 1 <= Len(input))
      BY <1>1, <1>3, <1>5
    <2>2. PICK B : B = A
      OBVIOUS
    <2>3. PICK E : E = Kept(input, logs, cur)
      OBVIOUS
    <2>4. B \in Seq(AlgType) /\ E \in Seq(AgileEvents(B)) /\ B # << >>
      <3>1. B # << >>
        BY <1>5, <1>6, <2>2, 1 \in 1 .. cur DEF OfBase
      <3> QED
        BY <1>3, <1>5, <1>6, <2>2, <2>3, <3>1, KeptIs
    <2>5. r' = Written(B, E)
      BY <1>1, <1>11, <2>1, <2>2, <2>3
    <2>6. Reads(Combined(B, E))'
      BY <1>1, <2>4, <2>5, StartsReading
    <2>7. Final' = Combined(B, E)
      BY <1>1, <2>1, <2>2, <2>3 DEF Final
    <2>8. PICK u : u = Combined(B, E)
      OBVIOUS
    <2> QED
      BY <2>6, <2>7, <2>8
  <1> QED
    BY <1>12, <1>13, <1>14 DEF AppendInv

\* The combined log was read.
LEMMA AppendInvCombined ==
  ASSUME ParseInv, AppendInv, Proper, ParsedCombined
  PROVE  AppendInv'
  <1> DEFINE l == [specID |-> specID, rawEvents |-> parsed]
  <1>1. /\ Running("loop") /\ UNCHANGED <<input, cur>> /\ cur = Len(input) + 1 /\ r = << >>
        /\ result' = "ok" /\ logs' = Append(logs, l)
    BY DEF ParsedCombined
  <1>2. result = "none" /\ phase = "loop"
    BY <1>1 DEF Running
  <1>3. /\ input \in Inputs /\ Len(input) \in Nat /\ 1 <= Len(input) /\ Len(logs) \in Nat
        /\ \A i \in 1 .. Len(input) :
              /\ IsLog(input[i]) /\ ProperSpec(input[i]) /\ ShortIDs(input[i])
              /\ i <= Len(logs) => ReadAs(input[i], logs[i]) /\ OfBase(input, i)
    BY <1>2, LogsRead
  <1>4. Len(logs) = Len(input) /\ IsSeq(logs)
    BY <1>1, <1>2, <1>3 DEF ParseInv, Counted
  <1>5. \A i \in 1 .. Len(input) : ReadAs(input[i], logs[i]) /\ OfBase(input, i)
    BY <1>3, <1>4
  <1>6. ReadAs(Final, l)
    <2>1. Reads(Final)
      BY <1>1, <1>2 DEF AppendInv, ReadsCombined
    <2>2. IsLog(Final)
      <3>1. 1 \in 1 .. Len(input) /\ Len(input) <= Len(input)
        BY <1>3
      <3>2. input[1].algs # << >>
        BY <1>5, <3>1 DEF OfBase
      <3>3. /\ input[1].algs \in Seq(AlgType)
            /\ Kept(input, logs, Len(input)) \in Seq(AgileEvents(input[1].algs))
        BY <1>3, <1>5, <3>1, KeptIs
      <3> QED
        BY <3>2, <3>3, CombinedIs DEF Final
    <2>3. specID = Final.algs /\ \E n \in Whole(Final) : parsed = ReturnedTo(Final, n)
      BY <1>1, <1>2, <2>1, <2>2, EndOfLog
    <2> QED
      BY <2>3 DEF ReadAs
  <1> HIDE DEF l
  <1>7. /\ Len(logs') = Len(input) + 1 /\ logs'[Len(input) + 1] = l
        /\ \A i \in 1 .. Len(input) : logs'[i] = logs[i]
    BY <1>1, <1>4, AppendIs
  <1>8. Final' = Final
    <2>1. Kept(input, logs, Len(input)) = Kept(input, logs', Len(input))
      BY <1>3, <1>7, KeptSame, Len(input) <= Len(input)
    <2> QED
      BY <1>1, <2>1 DEF Final
  <1>9. ReadCombined'
    BY <1>1, <1>6, <1>7, <1>8 DEF ReadCombined
  <1>10. OnlyBaseAlgs'
    BY <1>1, <1>5 DEF OnlyBaseAlgs
  <1>11. NotRefused' /\ Copied' /\ Copying' /\ ReadsCombined'
    BY <1>1 DEF NotRefused, Copied, Copying, ReadsCombined
  <1> QED
    BY <1>9, <1>10, <1>11 DEF AppendInv

\* Every step of AppendEvents keeps to the events of the logs it was called with.
LEMMA AppendInvNext ==
  ASSUME ParseInv, ParseInv', AppendInv, [ParseNext]_parseVars
  PROVE  AppendInv'
  <1>1. CASE UNCHANGED parseVars
    <2>1. UNCHANGED <<input, cur, phase, r, specID, parsed, sequence, event, logs, out, result>>
      BY <1>1 DEF parseVars
    <2>2. Reads(Final)' <=> Reads(Final)
      BY <2>1 DEF Reads, AtEvent, AtDigest, EventsRead, Final
    <2>3. ReadsCombined' <=> ReadsCombined
      BY <2>1, <2>2 DEF ReadsCombined
    <2>4. (Copied' <=> Copied) /\ (Copying' <=> Copying) /\ (ReadCombined' <=> ReadCombined)
      BY <2>1 DEF Copied, Copying, ReadCombined, Final
    <2>5. (NotRefused' <=> NotRefused) /\ (OnlyBaseAlgs' <=> OnlyBaseAlgs) /\ (Proper' <=> Proper)
      BY <2>1 DEF NotRefused, OnlyBaseAlgs, Proper
    <2> QED
      BY <2>3, <2>4, <2>5 DEF AppendInv
  <1>2. CASE ParseNext
    <2>1. Parsing \/ (ParsedBase \/ ParsedAdditional) \/ (AppendEvent \/ Appended) \/ ParsedCombined
      BY <1>2, Zenon DEF ParseNext, Parsing
    <2>2. input' = input
      <3>1. CASE Parsing
        BY <3>1, ParsingFrame
      <3>2. CASE AppendEvent
        BY <3>2, Zenon DEF AppendEvent, Fail
      <3>3. CASE ParsedBase \/ ParsedAdditional \/ Appended \/ ParsedCombined
        BY <3>3 DEF ParsedBase, ParsedAdditional, Appended, ParsedCombined, Parse
      <3> QED
        BY <2>1, <3>1, <3>2, <3>3
    <2>3. CASE Proper
      BY <2>1, <2>3, AppendInvParsing, AppendInvBase, AppendInvAdditional, AppendInvEvent,
         AppendInvAppended, AppendInvCombined
    <2>4. CASE ~Proper
      BY <2>2, <2>4 DEF AppendInv, Proper
    <2> QED
      BY <2>3, <2>4
  <1> QED
    BY <1>1, <1>2

\* The combined log parses to the events of the base log and those of the others.
LEMMA AppendInvMeans ==
  ASSUME ParseInv, AppendInv
  PROVE  AppendKeepsEvents
  <1> SUFFICES ASSUME Proper
               PROVE  /\ cur = Len(input) + 1 => result # "error"
                      /\ result = "ok" =>
                           LET all == FlattenSeq([i \in 1 .. Len(input) |-> logs[i].rawEvents])
                           IN  Last(logs).rawEvents
                                 = [k \in DOMAIN all |-> [all[k] EXCEPT !.sequence = k]]
    BY DEF AppendKeepsEvents, Proper
  <1>1. cur = Len(input) + 1 => result # "error"
    BY DEF AppendInv, NotRefused
  <1>2. ASSUME result = "ok"
        PROVE  LET all == FlattenSeq([i \in 1 .. Len(input) |-> logs[i].rawEvents])
               IN  Last(logs).rawEvents = [k \in DOMAIN all |-> [all[k] EXCEPT !.sequence = k]]
    <2> DEFINE m == Len(input)
               f == [i \in 1 .. m |-> logs[i].rawEvents]
               all == FlattenSeq(f)
               g == KeptOf(input, logs)
               E == Kept(input, logs, m)
               A == input[1].algs
    <2>1. result # "error"
      BY <1>2
    <2>2. /\ input \in Inputs /\ m \in Nat /\ 1 <= m
          /\ \A i \in 1 .. m :
               /\ IsLog(input[i])
               /\ i <= Len(logs) => ReadAs(input[i], logs[i]) /\ OfBase(input, i)
      BY <2>1, LogsRead
    <2>3. Len(logs) = m + 1 /\ ReadAs(Final, logs[Len(logs)])
      BY <1>2 DEF AppendInv, ReadCombined
    <2>4. \A i \in 1 .. m : ReadAs(input[i], logs[i]) /\ OfBase(input, i)
      <3>1. \A i \in 1 .. m : i <= Len(logs)
        BY <2>2, <2>3
      <3> QED
        BY <2>2, <3>1
    <2>5. /\ A \in Seq(AlgType) /\ E \in Seq(AgileEvents(A))
          /\ \A i \in 1 .. m : /\ g[i] = FirstN(input[i].events, Len(logs[i].rawEvents))
                               /\ g[i] \in Seq(AgileEvents(A))
      BY <2>2, <2>4, KeptIs, m <= m
    <2>6. A # << >>
      BY <2>2, <2>4, 1 \in 1 .. m DEF OfBase
    <2>7. \A i \in 1 .. m : f[i] \in Seq(ReadEvents) /\ Reread(f[i], g[i])
      BY <2>2, <2>4, <2>5, RawIs
    <2>8. f = FirstN(f, m)
      BY DEF FirstN
    <2>9. IsLog(Final) /\ Final.algs = A /\ Final.events = E /\ Whole(Final) = {Len(E)}
      BY <2>5, <2>6, CombinedIs DEF Final
    <2>10. Last(logs) = logs[Len(logs)]
      BY DEF Last
    <2> HIDE DEF f, g, E, A, m
    <2>11. all = Flat(f, m) /\ E = Flat(g, m)
      BY <2>8 DEF Flat, E, Kept, g
    <2>12. Flat(f, m) \in Seq(ReadEvents)
      BY <2>2, <2>7, FlatType, m \in 0 .. m
    <2>13. Reread(Flat(f, m), Flat(g, m))
      BY <2>2, <2>5, <2>7, RereadFlat
    <2>14. [k \in DOMAIN all |-> [all[k] EXCEPT !.sequence = k]]
             = [k \in 1 .. Len(E) |-> ReturnedEvent(E[k], k)]
      <3> HIDE DEF all
      <3>1. all \in Seq(ReadEvents) /\ Reread(all, E)
        BY <2>11, <2>12, <2>13
      <3> QED
        BY <3>1, Renumbered
    <2>15. Last(logs).rawEvents = ReturnedTo(Final, Len(E))
      BY <2>3, <2>9, <2>10 DEF ReadAs
    <2>16. ReturnedTo(Final, Len(E)) = [k \in 1 .. Len(E) |-> ReturnedEvent(E[k], k)]
      <3>1. First(Final) = 1
        BY <2>6, <2>9 DEF First
      <3>2. \A k \in 1 .. Len(E) : k - 1 + 1 = k
        BY <2>5, LenProperties
      <3> QED
        BY <2>9, <3>1, <3>2 DEF ReturnedTo
    <2> QED
      BY <2>14, <2>15, <2>16 DEF all, f, m
  <1> QED
    BY <1>1, <1>2

\* AppendEvents returns a log that parses, to the events of the logs one after the other.
THEOREM EventsAppended == ParseSpec => []AppendKeepsEvents
  <1>1. ParseInit => ParseInv /\ AppendInv
    BY ParseInvInit, AppendInvInit
  <1>2. ParseInv /\ AppendInv /\ [ParseNext]_parseVars => ParseInv' /\ AppendInv'
    BY ParseInvNext, AppendInvNext
  <1>3. ParseInv /\ AppendInv => AppendKeepsEvents
    BY AppendInvMeans
  <1> QED
    BY <1>1, <1>2, <1>3, PTL DEF ParseSpec

===============================================================================
