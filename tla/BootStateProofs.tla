--------------------------- MODULE BootStateProofs ---------------------------
(***************************************************************************)
(* Proofs about SecureBoot and WinEvents, for any sequences of events.     *)
(*                                                                         *)
(* ParseSecurebootState decides event by event, from what it remembers of  *)
(* the events before; the properties speak of the whole log.  Fine says    *)
(* what is verified of one event and those before it, and the invariant    *)
(* that the loop has found every event so far to be fine, that its flags   *)
(* and the state it builds are what these events say, and that an event it *)
(* refuses is not fine.                                                    *)
(*                                                                         *)
(* ParseWinEvents also stops inside events, and inside aggregations of     *)
(* aggregations.  The places that were read so far (Placed) are those of   *)
(* the events before and, of the event that is read, those before the      *)
(* outermost aggregation that is open.  The frames say which one this is;  *)
(* a step leaves the places as they are or adds the last one, with what    *)
(* its sub-event makes of the values.  ELAM changes while an aggregation   *)
(* is read: the invariant has the driver at which the parser is.           *)
(***************************************************************************)
EXTENDS SecureBoot, WinEvents, FiniteSetTheorems, SequenceTheorems, WellFoundedInduction, TLAPS

-----------------------------------------------------------------------------
(***************************************************************************)
(* Sequences that list what is at some places of a log.                    *)
(***************************************************************************)

\* The places up to n + 1.
LEMMA UpToNext ==
  ASSUME NEW n \in Nat
  PROVE  \A k : k \in 1 .. n + 1 <=> k = n + 1 \/ k \in 1 .. n
  OBVIOUS

\* A place that is not listed changes nothing.
LEMMA ListsKeep ==
  ASSUME NEW n \in Nat, NEW S, n + 1 \notin S
  PROVE  S \cap 1 .. n + 1 = S \cap 1 .. n
  BY UpToNext

\* A place that is listed comes last.
LEMMA ListsNext ==
  ASSUME NEW n \in Nat, NEW S, n + 1 \in S, NEW V, NEW q \in Seq(V), NEW f, f[n + 1] \in V,
         Lists(q, S \cap 1 .. n, f)
  PROVE  Lists(Append(q, f[n + 1]), S \cap 1 .. n + 1, f)
  <1> DEFINE A == S \cap 1 .. n
             B == S \cap 1 .. n + 1
             x == f[n + 1]
             z == Append(q, x)
  <1>1. B = A \cup {n + 1} /\ n + 1 \notin A /\ \A k \in A : k \in 1 .. n
    BY UpToNext
  <1>2. IsFiniteSet(A)
    <2>1. IsFiniteSet(1 .. n) /\ A \subseteq 1 .. n
      BY FS_Interval
    <2> QED
      BY <2>1, FS_Subset
  <1>3. Len(q) = Cardinality(A) /\ \A k \in A : q[Cardinality({j \in A : j <= k})] = f[k]
    BY DEF Lists
  <1>4. /\ Len(q) \in Nat /\ Len(z) = Len(q) + 1 /\ z[Len(q) + 1] = x
        /\ \A k \in 1 .. Len(q) : z[k] = q[k]
    BY AppendProperties, LenProperties
  <1> HIDE DEF A, B, x, z
  <1>5. Cardinality(B) = Cardinality(A) + 1
    BY <1>1, <1>2, FS_AddElement
  <1>6. ASSUME NEW k \in A PROVE z[Cardinality({j \in B : j <= k})] = f[k]
    <2> DEFINE U == {j \in A : j <= k}
    <2>1. {j \in B : j <= k} = U
      BY <1>1
    <2>2. Cardinality(U) \in 1 .. Len(q)
      <3>1. U \subseteq A /\ k \in U
        BY <1>1
      <3> HIDE DEF U
      <3>2. IsFiniteSet(U) /\ Cardinality(U) <= Cardinality(A)
        BY <1>2, <3>1, FS_Subset
      <3>3. Cardinality(U) \in Nat /\ Cardinality(U) # 0
        BY <3>1, <3>2, FS_CardinalityType, FS_EmptySet
      <3> QED
        BY <1>3, <1>4, <3>2, <3>3
    <2> HIDE DEF U
    <2> QED
      BY <1>3, <1>4, <2>1, <2>2 DEF U
  <1>7. z[Cardinality({j \in B : j <= n + 1})] = x
    <2>1. {j \in B : j <= n + 1} = B
      BY <1>1
    <2> QED
      BY <1>3, <1>4, <1>5, <2>1
  <1>8. \A k \in B : z[Cardinality({j \in B : j <= k})] = f[k]
    BY <1>1, <1>6, <1>7 DEF x
  <1> QED
    BY <1>3, <1>4, <1>5, <1>8 DEF Lists, z, x, B

-----------------------------------------------------------------------------
(***************************************************************************)
(* The inductive invariant.  s is the log, n the number of events that the *)
(* loop has handled.                                                       *)
(***************************************************************************)

\* What is at place k.
Sep(s, i, k) == s[k].index = i /\ s[k].typ = "Separator"
Var(s, k) == s[k].index = 7 /\ s[k].typ = "EFIVariableDriverConfig"
VarOf(s, v, k) == Var(s, k) /\ s[k].data.name = v
Auth(s, k) == s[k].index = 7 /\ s[k].typ = "EFIVariableAuthority"
Action(s, k) == s[k].index = 7 /\ s[k].typ = "EFIAction"
Flag(s, k) == VarOf(s, "SecureBoot", k) /\ s[k].data.bytes = <<1>>
Load(s, k) == s[k].index = 2 /\ s[k].typ = "EFIBootServicesDriver"

\* No separator of register i is among the first n events.
Open(s, i, n) == \A j \in 1 .. n : ~Sep(s, i, j)

\* The event at k is as AcceptsAsVerified asks, given the events before it.
Fine7(s, k) ==
  /\ WellFormed(s[k])
  /\ s[k].typ = "Separator" => Open(s, 7, k - 1)
  /\ s[k].typ = "EFIVariableDriverConfig" =>
       /\ Open(s, 7, k - 1)
       /\ \A j \in 1 .. k - 1 : ~VarOf(s, s[k].data.name, j)
Fine2(s, k) ==
  /\ s[k].typ \in KnownTypes
  /\ s[k].typ = "Separator" => s[k].data.zero /\ s[k].digest = "data" /\ Open(s, 2, k - 1)
  /\ s[k].typ = "EFIBootServicesDriver" /\ Open(s, 2, k - 1) =>
       s[k].data.parses /\ ~PathError(s[k].data.path)
Fine(s, k) == (s[k].index = 7 => Fine7(s, k)) /\ (s[k].index = 2 => Fine2(s, k))

\* The flags of the loop.
Seen(s, n, s7, s2, sa, sv) ==
  /\ s7 <=> ~Open(s, 7, n)
  /\ s2 <=> ~Open(s, 2, n)
  /\ sa <=> \E k \in 1 .. n : Auth(s, k)
  /\ sv = {s[k].data.name : k \in {j \in 1 .. n : Var(s, j)}}

\* The keys of the variables, and the two flags of the state.
KeysSeen(s, n, keys) ==
  \A v \in KeyVars :
    /\ (\A k \in 1 .. n : ~VarOf(s, v, k)) => keys[v] = NoKeys
    /\ \A k \in 1 .. n : VarOf(s, v, k) => keys[v] = parseEfiSignatureList(s[k].data.sigs)
FlagsSeen(s, n, on, dma) ==
  /\ on <=> \E k \in 1 .. n : Flag(s, k)
  /\ dma <=> \E k \in 1 .. n : Action(s, k)

\* The authorities before and after the separator, and the drivers.
PreAt(s) == {k \in DOMAIN s : Auth(s, k) /\ ~s[k].data.shimVar /\ Open(s, 7, k - 1)}
PostAt(s) == {k \in DOMAIN s : Auth(s, k) /\ ~s[k].data.shimVar /\ ~Open(s, 7, k - 1)}
LoadsAt(s) == {k \in DOMAIN s : Load(s, k) /\ Open(s, 2, k - 1)}
CertAt(s) == [k \in DOMAIN s |-> s[k].data.cert]
PathAt(s) == [k \in DOMAIN s |-> DevicePath(s[k].data.path)]
ListsSeen(s, n, pre, post, sources) ==
  /\ Lists(pre, PreAt(s) \cap 1 .. n, CertAt(s))
  /\ Lists(post, PostAt(s) \cap 1 .. n, CertAt(s))
  /\ Lists(sources, LoadsAt(s) \cap 1 .. n, PathAt(s))

Certs == UNION {{s[k].data.cert : k \in DOMAIN s} : s \in Inputs}
Paths == UNION {{DevicePath(s[k].data.path) : k \in DOMAIN s} : s \in Inputs}

\* The flags are flags, and the state has its fields.
Shape ==
  /\ seenSeparator7 \in BOOLEAN /\ seenSeparator2 \in BOOLEAN /\ seenAuthority \in BOOLEAN
  /\ out = [Enabled |-> out.Enabled, Keys |-> out.Keys,
            PreSeparatorAuthority |-> out.PreSeparatorAuthority,
            PostSeparatorAuthority |-> out.PostSeparatorAuthority,
            DriverLoadSourceHints |-> out.DriverLoadSourceHints,
            DMAProtectionDisabled |-> out.DMAProtectionDisabled]
  /\ out.Enabled \in BOOLEAN /\ out.DMAProtectionDisabled \in BOOLEAN
  /\ out.Keys = [v \in KeyVars |-> out.Keys[v]]

Types ==
  /\ events \in Inputs
  /\ next \in 1 .. Len(events) + 1
  /\ result \in {"none", "ok", "error"}
  /\ Shape
  /\ out.PreSeparatorAuthority \in Seq(Certs) /\ out.PostSeparatorAuthority \in Seq(Certs)
  /\ driverSources \in Seq(Paths)

\* What the loop remembers of the events that it has handled.
SeenInv ==
  /\ Seen(events, next - 1, seenSeparator7, seenSeparator2, seenAuthority, seenVars)
  /\ KeysSeen(events, next - 1, out.Keys)
  /\ FlagsSeen(events, next - 1, out.Enabled, out.DMAProtectionDisabled)
  /\ ListsSeen(events, next - 1, out.PreSeparatorAuthority, out.PostSeparatorAuthority,
               driverSources)

\* The test after the loop.
LastTest == out.Enabled => seenAuthority /\ \A v \in {"PK", "KEK", "db"} : HasKeys(v)

\* What the loop has accepted, and what it has refused.
Verdict ==
  /\ \A k \in 1 .. next - 1 : Fine(events, k)
  /\ result = "ok" =>
       /\ next = Len(events) + 1 /\ LastTest
       /\ out.DriverLoadSourceHints =
            [k \in DOMAIN driverSources |-> SourceHint(driverSources[k])]
  /\ result = "error" =>
       \/ next <= Len(events) /\ ~Fine(events, next)
       \/ next = Len(events) + 1 /\ ~LastTest

IInv == Types /\ SeenInv /\ Verdict

-----------------------------------------------------------------------------
(***************************************************************************)
(* One more event.                                                         *)
(***************************************************************************)

\* The separators of a register with one more event.
LEMMA OpenNext ==
  ASSUME NEW n \in Nat, NEW s, NEW i
  PROVE  Open(s, i, n + 1) <=> Open(s, i, n) /\ ~Sep(s, i, n + 1)
  BY UpToNext DEF Open

\* The flags with one more event.
LEMMA SeenNext ==
  ASSUME NEW n \in Nat, NEW s, NEW s7, NEW s2, NEW sa, NEW sv, NEW t7, NEW t2, NEW ta, NEW tv,
         Seen(s, n, s7, s2, sa, sv),
         t7 <=> s7 \/ Sep(s, 7, n + 1),
         t2 <=> s2 \/ Sep(s, 2, n + 1),
         ta <=> sa \/ Auth(s, n + 1),
         Var(s, n + 1) => tv = sv \cup {s[n + 1].data.name},
         ~Var(s, n + 1) => tv = sv
  PROVE  Seen(s, n + 1, t7, t2, ta, tv)
  <1>1. t7 <=> ~Open(s, 7, n + 1)
    BY OpenNext DEF Seen
  <1>2. t2 <=> ~Open(s, 2, n + 1)
    BY OpenNext DEF Seen
  <1>3. ta <=> \E k \in 1 .. n + 1 : Auth(s, k)
    BY UpToNext DEF Seen
  <1>4. tv = {s[k].data.name : k \in {j \in 1 .. n + 1 : Var(s, j)}}
    <2> DEFINE A == {j \in 1 .. n : Var(s, j)}
               B == {j \in 1 .. n + 1 : Var(s, j)}
    <2>1. sv = {s[k].data.name : k \in A}
      BY DEF Seen
    <2>2. CASE Var(s, n + 1)
      <3>1. \A k : k \in B <=> k = n + 1 \/ k \in A
        BY <2>2, UpToNext
      <3> HIDE DEF A, B
      <3> QED
        BY <2>1, <2>2, <3>1 DEF B
    <2>3. CASE ~Var(s, n + 1)
      <3>1. \A k : k \in B <=> k \in A
        BY <2>3, UpToNext
      <3> HIDE DEF A, B
      <3> QED
        BY <2>1, <2>3, <3>1 DEF B
    <2> QED
      BY <2>2, <2>3
  <1> QED
    BY <1>1, <1>2, <1>3, <1>4 DEF Seen

\* The keys with one more event, a variable with a new name or any other event.
LEMMA KeysNext ==
  ASSUME NEW n \in Nat, NEW s, NEW keys, NEW nx, KeysSeen(s, n, keys),
         \A v \in KeyVars :
           /\ VarOf(s, v, n + 1) => /\ nx[v] = parseEfiSignatureList(s[n + 1].data.sigs)
                                    /\ \A j \in 1 .. n : ~VarOf(s, v, j)
           /\ ~VarOf(s, v, n + 1) => nx[v] = keys[v]
  PROVE  KeysSeen(s, n + 1, nx)
  <1> SUFFICES ASSUME NEW v \in KeyVars
               PROVE  /\ (\A k \in 1 .. n + 1 : ~VarOf(s, v, k)) => nx[v] = NoKeys
                      /\ \A k \in 1 .. n + 1 :
                           VarOf(s, v, k) => nx[v] = parseEfiSignatureList(s[k].data.sigs)
    BY DEF KeysSeen
  <1>1. CASE VarOf(s, v, n + 1)
    BY <1>1, UpToNext
  <1>2. CASE ~VarOf(s, v, n + 1)
    BY <1>2, UpToNext DEF KeysSeen
  <1> QED
    BY <1>1, <1>2

\* The two flags of the state with one more event.
LEMMA FlagsNext ==
  ASSUME NEW n \in Nat, NEW s, NEW on, NEW dma, NEW nxOn, NEW nxDMA, FlagsSeen(s, n, on, dma),
         nxOn <=> on \/ Flag(s, n + 1),
         nxDMA <=> dma \/ Action(s, n + 1)
  PROVE  FlagsSeen(s, n + 1, nxOn, nxDMA)
  BY UpToNext DEF FlagsSeen

\* The sequence q has grown to nx with what f has at n + 1, if that is in S.
Grown(nx, q, S, n, f) ==
  /\ n + 1 \in S => nx = Append(q, f[n + 1])
  /\ n + 1 \notin S => nx = q

\* A sequence that has grown lists one place more.
LEMMA GrownLists ==
  ASSUME NEW n \in Nat, NEW S, NEW V, NEW q \in Seq(V), NEW f, n + 1 \in S => f[n + 1] \in V,
         Lists(q, S \cap 1 .. n, f), NEW nx, Grown(nx, q, S, n, f)
  PROVE  nx \in Seq(V) /\ Lists(nx, S \cap 1 .. n + 1, f)
  <1>1. CASE n + 1 \in S
    <2>1. nx = Append(q, f[n + 1]) /\ f[n + 1] \in V
      BY <1>1 DEF Grown
    <2>2. nx \in Seq(V)
      BY <2>1, AppendProperties
    <2>3. Lists(Append(q, f[n + 1]), S \cap 1 .. n + 1, f)
      BY <1>1, <2>1, ListsNext
    <2> QED
      BY <2>1, <2>2, <2>3
  <1>2. CASE n + 1 \notin S
    <2>1. nx = q /\ S \cap 1 .. n + 1 = S \cap 1 .. n
      BY <1>2, ListsKeep DEF Grown
    <2> QED
      BY <2>1
  <1> QED
    BY <1>1, <1>2

\* The event is accepted: it is fine, and the loop remembers what it says.
Accepted ==
  /\ events' = events /\ next' = next + 1 /\ result' = result
  /\ result = "none" /\ next <= Len(events)
  /\ Fine(events, next)
  /\ Shape'
  /\ seenSeparator7' <=> seenSeparator7 \/ Sep(events, 7, next)
  /\ seenSeparator2' <=> seenSeparator2 \/ Sep(events, 2, next)
  /\ seenAuthority' <=> seenAuthority \/ Auth(events, next)
  /\ Var(events, next) => seenVars' = seenVars \cup {events[next].data.name}
  /\ ~Var(events, next) => seenVars' = seenVars
  /\ out'.Enabled <=> out.Enabled \/ Flag(events, next)
  /\ out'.DMAProtectionDisabled <=> out.DMAProtectionDisabled \/ Action(events, next)
  /\ \A v \in KeyVars :
       /\ VarOf(events, v, next) => /\ out'.Keys[v] = parseEfiSignatureList(events[next].data.sigs)
                                    /\ \A j \in 1 .. next - 1 : ~VarOf(events, v, j)
       /\ ~VarOf(events, v, next) => out'.Keys[v] = out.Keys[v]
  /\ Grown(out'.PreSeparatorAuthority, out.PreSeparatorAuthority, PreAt(events), next - 1,
           CertAt(events))
  /\ Grown(out'.PostSeparatorAuthority, out.PostSeparatorAuthority, PostAt(events), next - 1,
           CertAt(events))
  /\ Grown(driverSources', driverSources, LoadsAt(events), next - 1, PathAt(events))

\* The log is a sequence.
LEMMA LogType ==
  ASSUME Types
  PROVE  /\ Len(events) \in Nat /\ DOMAIN events = 1 .. Len(events)
         /\ next \in Nat /\ next - 1 \in Nat /\ (next - 1) + 1 = next
         /\ \A k \in DOMAIN events : CertAt(events)[k] \in Certs /\ PathAt(events)[k] \in Paths
  <1>1. IsSequence(events) /\ events \in Inputs
    BY InputsAssumption DEF Types
  <1>2. Len(events) \in Nat /\ DOMAIN events = 1 .. Len(events)
    BY <1>1, LenProperties DEF IsSequence
  <1>3. next \in Nat /\ next - 1 \in Nat /\ (next - 1) + 1 = next
    BY <1>2 DEF Types
  <1>4. \A k \in DOMAIN events : CertAt(events)[k] \in Certs /\ PathAt(events)[k] \in Paths
    BY <1>1 DEF CertAt, PathAt, Certs, Paths
  <1> QED
    BY <1>2, <1>3, <1>4

\* An event that is accepted keeps the invariant.
LEMMA AcceptedStep ==
  ASSUME IInv, Accepted
  PROVE  IInv'
  <1> DEFINE n == next - 1
             s == events
  <1>1. Types /\ SeenInv /\ Verdict
    BY DEF IInv
  <1>2. /\ Len(s) \in Nat /\ DOMAIN s = 1 .. Len(s) /\ n \in Nat /\ n + 1 = next /\ next \in Nat
        /\ next \in DOMAIN s
        /\ \A k \in DOMAIN s : CertAt(s)[k] \in Certs /\ PathAt(s)[k] \in Paths
    <2>1. next <= Len(events)
      BY DEF Accepted
    <2> QED
      BY <1>1, <2>1, LogType DEF Types
  <1>3. events' = s /\ next' - 1 = n + 1 /\ result' = "none" /\ next' \in 1 .. Len(s) + 1
    BY <1>2 DEF Accepted
  <1>4. Seen(s, n + 1, seenSeparator7', seenSeparator2', seenAuthority', seenVars')
    <2>1. Seen(s, n, seenSeparator7, seenSeparator2, seenAuthority, seenVars)
      BY <1>1 DEF SeenInv
    <2>2. /\ seenSeparator7' <=> seenSeparator7 \/ Sep(s, 7, n + 1)
          /\ seenSeparator2' <=> seenSeparator2 \/ Sep(s, 2, n + 1)
          /\ seenAuthority' <=> seenAuthority \/ Auth(s, n + 1)
          /\ Var(s, n + 1) => seenVars' = seenVars \cup {s[n + 1].data.name}
          /\ ~Var(s, n + 1) => seenVars' = seenVars
      BY <1>2, Zenon DEF Accepted
    <2> HIDE DEF n, s
    <2> QED
      BY <1>2, <2>1, <2>2, SeenNext
  <1>5. KeysSeen(s, n + 1, out'.Keys)
    <2>1. KeysSeen(s, n, out.Keys)
      BY <1>1 DEF SeenInv
    <2>2. \A v \in KeyVars :
            /\ VarOf(s, v, n + 1) => /\ out'.Keys[v] = parseEfiSignatureList(s[n + 1].data.sigs)
                                     /\ \A j \in 1 .. n : ~VarOf(s, v, j)
            /\ ~VarOf(s, v, n + 1) => out'.Keys[v] = out.Keys[v]
      BY <1>2 DEF Accepted
    <2> HIDE DEF n, s
    <2> QED
      BY <1>2, <2>1, <2>2, KeysNext
  <1>6. FlagsSeen(s, n + 1, out'.Enabled, out'.DMAProtectionDisabled)
    <2>1. FlagsSeen(s, n, out.Enabled, out.DMAProtectionDisabled)
      BY <1>1 DEF SeenInv
    <2>2. /\ out'.Enabled <=> out.Enabled \/ Flag(s, n + 1)
          /\ out'.DMAProtectionDisabled <=> out.DMAProtectionDisabled \/ Action(s, n + 1)
      BY <1>2, Zenon DEF Accepted
    <2> HIDE DEF n, s
    <2> QED
      BY <1>2, <2>1, <2>2, FlagsNext
  <1>7. /\ out'.PreSeparatorAuthority \in Seq(Certs)
        /\ Lists(out'.PreSeparatorAuthority, PreAt(s) \cap 1 .. n + 1, CertAt(s))
    <2>1. /\ out.PreSeparatorAuthority \in Seq(Certs)
          /\ Lists(out.PreSeparatorAuthority, PreAt(s) \cap 1 .. n, CertAt(s))
      BY <1>1 DEF Types, SeenInv, ListsSeen
    <2>2. Grown(out'.PreSeparatorAuthority, out.PreSeparatorAuthority, PreAt(s), n, CertAt(s))
      BY DEF Accepted
    <2> HIDE DEF n, s
    <2> QED
      BY <1>2, <2>1, <2>2, GrownLists
  <1>8. /\ out'.PostSeparatorAuthority \in Seq(Certs)
        /\ Lists(out'.PostSeparatorAuthority, PostAt(s) \cap 1 .. n + 1, CertAt(s))
    <2>1. /\ out.PostSeparatorAuthority \in Seq(Certs)
          /\ Lists(out.PostSeparatorAuthority, PostAt(s) \cap 1 .. n, CertAt(s))
      BY <1>1 DEF Types, SeenInv, ListsSeen
    <2>2. Grown(out'.PostSeparatorAuthority, out.PostSeparatorAuthority, PostAt(s), n, CertAt(s))
      BY DEF Accepted
    <2> HIDE DEF n, s
    <2> QED
      BY <1>2, <2>1, <2>2, GrownLists
  <1>9. driverSources' \in Seq(Paths) /\ Lists(driverSources', LoadsAt(s) \cap 1 .. n + 1, PathAt(s))
    <2>1. driverSources \in Seq(Paths) /\ Lists(driverSources, LoadsAt(s) \cap 1 .. n, PathAt(s))
      BY <1>1 DEF Types, SeenInv, ListsSeen
    <2>2. Grown(driverSources', driverSources, LoadsAt(s), n, PathAt(s))
      BY DEF Accepted
    <2> HIDE DEF n, s
    <2> QED
      BY <1>2, <2>1, <2>2, GrownLists
  <1>10. \A k \in 1 .. n + 1 : Fine(s, k)
    <2>1. Fine(s, n + 1) /\ \A k \in 1 .. n : Fine(s, k)
      BY <1>1, <1>2 DEF Accepted, Verdict
    <2> QED
      BY <1>2, <2>1, UpToNext
  <1>11. Shape' /\ events \in Inputs
    BY <1>1 DEF Accepted, Types
  <1> HIDE DEF n, s
  <1>12. Types'
    BY <1>3, <1>7, <1>8, <1>9, <1>11 DEF Types, s
  <1>13. SeenInv'
    BY <1>3, <1>4, <1>5, <1>6, <1>7, <1>8, <1>9 DEF SeenInv, ListsSeen
  <1>14. Verdict'
    BY <1>3, <1>10 DEF Verdict
  <1> QED
    BY <1>12, <1>13, <1>14 DEF IInv

\* An event that is refused is not fine.
LEMMA RejectedStep ==
  ASSUME IInv, result = "none", next <= Len(events), ~Fine(events, next), Reject
  PROVE  IInv'
  <1>1. /\ result' = "error" /\ events' = events /\ next' = next /\ out' = out
        /\ seenSeparator7' = seenSeparator7 /\ seenSeparator2' = seenSeparator2
        /\ seenAuthority' = seenAuthority /\ seenVars' = seenVars /\ driverSources' = driverSources
    BY DEF Reject, loopVars
  <1>2. Types'
    BY <1>1 DEF IInv, Types, Shape
  <1>3. SeenInv'
    BY <1>1 DEF IInv, SeenInv
  <1>4. Verdict'
    BY <1>1 DEF IInv, Verdict
  <1> QED
    BY <1>2, <1>3, <1>4 DEF IInv

\* An event that is not for a sequence leaves it as it is.
LEMMA Unlisted ==
  ASSUME Types
  PROVE  /\ ~Auth(events, next) =>
              \A q : /\ Grown(q, q, PreAt(events), next - 1, CertAt(events))
                     /\ Grown(q, q, PostAt(events), next - 1, CertAt(events))
         /\ ~(Load(events, next) /\ Open(events, 2, next - 1)) =>
              \A q : Grown(q, q, LoadsAt(events), next - 1, PathAt(events))
  <1>1. (next - 1) + 1 = next
    BY LogType
  <1> QED
    BY <1>1 DEF Grown, PreAt, PostAt, LoadsAt

\* The flags say what the events before the one at next are.
LEMMA FlagsSay ==
  ASSUME IInv
  PROVE  /\ seenSeparator7 <=> ~Open(events, 7, next - 1)
         /\ seenSeparator2 <=> ~Open(events, 2, next - 1)
         /\ \A v : v \in seenVars <=> \E j \in 1 .. next - 1 : VarOf(events, v, j)
  <1>1. Seen(events, next - 1, seenSeparator7, seenSeparator2, seenAuthority, seenVars)
    BY DEF IInv, SeenInv
  <1>2. seenVars = {events[k].data.name : k \in {j \in 1 .. next - 1 : Var(events, j)}}
    BY <1>1 DEF Seen
  <1>3. \A v : v \in seenVars <=> \E j \in 1 .. next - 1 : VarOf(events, v, j)
    BY <1>2 DEF VarOf
  <1> QED
    BY <1>1, <1>3, Zenon DEF Seen

\* What an event that no list is made of leaves as it is.
Plain ==
  /\ ~Var(events, next) /\ ~Auth(events, next)
  /\ ~(Load(events, next) /\ Open(events, 2, next - 1))

\* An event that is accepted and only sets flags.
LEMMA PlainStep ==
  ASSUME IInv, Handling, Accept, Plain, Fine(events, next), Shape',
         seenAuthority' = seenAuthority, seenVars' = seenVars, driverSources' = driverSources,
         seenSeparator7' <=> seenSeparator7 \/ Sep(events, 7, next),
         seenSeparator2' <=> seenSeparator2 \/ Sep(events, 2, next),
         out'.Enabled = out.Enabled, out'.Keys = out.Keys,
         out'.PreSeparatorAuthority = out.PreSeparatorAuthority,
         out'.PostSeparatorAuthority = out.PostSeparatorAuthority,
         out'.DMAProtectionDisabled <=> out.DMAProtectionDisabled \/ Action(events, next)
  PROVE  IInv'
  <1>1. Types
    BY DEF IInv
  <1>2. /\ \A q : /\ Grown(q, q, PreAt(events), next - 1, CertAt(events))
                  /\ Grown(q, q, PostAt(events), next - 1, CertAt(events))
                  /\ Grown(q, q, LoadsAt(events), next - 1, PathAt(events))
    BY <1>1, Unlisted DEF Plain
  <1>3. ~Var(events, next) /\ ~Auth(events, next) /\ ~Flag(events, next)
        /\ \A v : ~VarOf(events, v, next)
    BY DEF Plain, Flag, VarOf
  <1>4. /\ events' = events /\ next' = next + 1 /\ result' = result
        /\ result = "none" /\ next <= Len(events)
    BY DEF Accept, Handling
  <1>5. /\ seenAuthority' <=> seenAuthority \/ Auth(events, next)
        /\ out'.Enabled <=> out.Enabled \/ Flag(events, next)
    BY <1>3
  <1>6. /\ \A v \in KeyVars :
            /\ VarOf(events, v, next) =>
                 /\ out'.Keys[v] = parseEfiSignatureList(events[next].data.sigs)
                 /\ \A j \in 1 .. next - 1 : ~VarOf(events, v, j)
            /\ ~VarOf(events, v, next) => out'.Keys[v] = out.Keys[v]
        /\ Var(events, next) => seenVars' = seenVars \cup {events[next].data.name}
        /\ ~Var(events, next) => seenVars' = seenVars
    BY <1>3
  <1>7. /\ Grown(out'.PreSeparatorAuthority, out.PreSeparatorAuthority, PreAt(events), next - 1,
                 CertAt(events))
        /\ Grown(out'.PostSeparatorAuthority, out.PostSeparatorAuthority, PostAt(events), next - 1,
                 CertAt(events))
        /\ Grown(driverSources', driverSources, LoadsAt(events), next - 1, PathAt(events))
    BY <1>2
  <1>8. Accepted
    BY <1>4, <1>5, <1>6, <1>7, Zenon DEF Accepted
  <1> QED
    BY <1>8, AcceptedStep

\* Events that are not looked at.
LEMMA SkipStep ==
  ASSUME IInv, Skip
  PROVE  IInv'
  <1>1. /\ Handling /\ Accept /\ out' = out
        /\ seenSeparator7' = seenSeparator7 /\ seenSeparator2' = seenSeparator2
        /\ seenAuthority' = seenAuthority /\ seenVars' = seenVars /\ driverSources' = driverSources
    BY DEF Skip, loopVars
  <1>2. \/ events[next].index \notin {7, 2}
        \/ /\ events[next].index = 2
           /\ events[next].typ \in KnownTypes \ {"Separator", "EFIBootServicesDriver"}
        \/ /\ events[next].index = 2 /\ events[next].typ = "EFIBootServicesDriver"
           /\ seenSeparator2
    BY DEF Skip, e
  <1>3. seenSeparator2 => ~Open(events, 2, next - 1)
    BY FlagsSay
  <1>4. Fine(events, next)
    BY <1>2, <1>3 DEF Fine, Fine2, KnownTypes
  <1>5. Plain /\ ~Sep(events, 7, next) /\ ~Sep(events, 2, next) /\ ~Action(events, next)
    BY <1>2, <1>3 DEF Plain, Sep, Action, Var, Auth, Load
  <1>6. Shape'
    BY <1>1 DEF IInv, Types, Shape
  <1>7. /\ seenSeparator7' <=> seenSeparator7 \/ Sep(events, 7, next)
        /\ seenSeparator2' <=> seenSeparator2 \/ Sep(events, 2, next)
        /\ out'.DMAProtectionDisabled <=> out.DMAProtectionDisabled \/ Action(events, next)
    BY <1>1, <1>5
  <1> QED
    BY <1>1, <1>4, <1>5, <1>6, <1>7, PlainStep

\* Events of a kind that their register does not have.
LEMMA UnexpectedTypeStep ==
  ASSUME IInv, UnexpectedType
  PROVE  IInv'
  <1>1. /\ result = "none" /\ next <= Len(events) /\ Reject
        /\ \/ events[next].index \in {7, 2} /\ events[next].typ \notin KnownTypes
           \/ events[next].index = 7 /\ events[next].typ \in {"EFIBootServicesDriver", "PostCode"}
    BY DEF UnexpectedType, Handling, e
  <1>2. ~Fine(events, next)
    BY <1>1 DEF Fine, Fine7, Fine2, WellFormed, KnownTypes
  <1> QED
    BY <1>1, <1>2, RejectedStep

\* The separator of PCR 7.
LEMMA Separator7Step ==
  ASSUME IInv, Separator7
  PROVE  IInv'
  <1>1. /\ Handling /\ result = "none" /\ next <= Len(events)
        /\ events[next].index = 7 /\ events[next].typ = "Separator"
    BY DEF Separator7, At, Handling, e
  <1>2. seenSeparator7 <=> ~Open(events, 7, next - 1)
    BY FlagsSay
  <1>3. CASE seenSeparator7 \/ ~e.data.zero \/ ~digestEquals(e)
    <2>1. Reject
      BY <1>3 DEF Separator7
    <2>2. ~Fine(events, next)
      BY <1>1, <1>2, <1>3 DEF Fine, Fine7, WellFormed, digestEquals, e
    <2> QED
      BY <1>1, <2>1, <2>2, RejectedStep
  <1>4. CASE ~(seenSeparator7 \/ ~e.data.zero \/ ~digestEquals(e))
    <2>1. /\ Accept /\ seenSeparator7' = TRUE /\ out' = out /\ seenSeparator2' = seenSeparator2
          /\ seenAuthority' = seenAuthority /\ seenVars' = seenVars
          /\ driverSources' = driverSources
      BY <1>4 DEF Separator7
    <2>2. Fine(events, next)
      BY <1>1, <1>2, <1>4 DEF Fine, Fine7, WellFormed, digestEquals, e
    <2>3. Plain /\ Sep(events, 7, next) /\ ~Sep(events, 2, next) /\ ~Action(events, next)
      BY <1>1 DEF Plain, Sep, Action, Var, Auth, Load
    <2>4. Shape'
      BY <2>1 DEF IInv, Types, Shape
    <2>5. /\ seenSeparator7' <=> seenSeparator7 \/ Sep(events, 7, next)
          /\ seenSeparator2' <=> seenSeparator2 \/ Sep(events, 2, next)
          /\ out'.DMAProtectionDisabled <=> out.DMAProtectionDisabled \/ Action(events, next)
      BY <2>1, <2>3
    <2> QED
      BY <1>1, <2>1, <2>2, <2>3, <2>4, <2>5, PlainStep
  <1> QED
    BY <1>3, <1>4

\* The separator of PCR 2.
LEMMA Separator2Step ==
  ASSUME IInv, Separator2
  PROVE  IInv'
  <1>1. /\ Handling /\ result = "none" /\ next <= Len(events)
        /\ events[next].index = 2 /\ events[next].typ = "Separator"
    BY DEF Separator2, At, Handling, e
  <1>2. seenSeparator2 <=> ~Open(events, 2, next - 1)
    BY FlagsSay
  <1>3. CASE seenSeparator2 \/ ~e.data.zero \/ ~digestEquals(e)
    <2>1. Reject
      BY <1>3 DEF Separator2
    <2>2. ~Fine(events, next)
      BY <1>1, <1>2, <1>3 DEF Fine, Fine2, digestEquals, e
    <2> QED
      BY <1>1, <2>1, <2>2, RejectedStep
  <1>4. CASE ~(seenSeparator2 \/ ~e.data.zero \/ ~digestEquals(e))
    <2>1. /\ Accept /\ seenSeparator2' = TRUE /\ out' = out /\ seenSeparator7' = seenSeparator7
          /\ seenAuthority' = seenAuthority /\ seenVars' = seenVars
          /\ driverSources' = driverSources
      BY <1>4 DEF Separator2
    <2>2. Fine(events, next)
      BY <1>1, <1>2, <1>4 DEF Fine, Fine2, KnownTypes, digestEquals, e
    <2>3. Plain /\ Sep(events, 2, next) /\ ~Sep(events, 7, next) /\ ~Action(events, next)
      BY <1>1 DEF Plain, Sep, Action, Var, Auth, Load
    <2>4. Shape'
      BY <2>1 DEF IInv, Types, Shape
    <2>5. /\ seenSeparator7' <=> seenSeparator7 \/ Sep(events, 7, next)
          /\ seenSeparator2' <=> seenSeparator2 \/ Sep(events, 2, next)
          /\ out'.DMAProtectionDisabled <=> out.DMAProtectionDisabled \/ Action(events, next)
      BY <2>1, <2>3
    <2> QED
      BY <1>1, <2>1, <2>2, <2>3, <2>4, <2>5, PlainStep
  <1> QED
    BY <1>3, <1>4

\* Actions of the firmware.
LEMMA EFIActionStep ==
  ASSUME IInv, EFIAction
  PROVE  IInv'
  <1>1. /\ Handling /\ result = "none" /\ next <= Len(events)
        /\ events[next].index = 7 /\ events[next].typ = "EFIAction"
    BY DEF EFIAction, At, Handling, e
  <1>2. CASE e.data.string # "DMA Protection Disabled" \/ ~digestEquals(e)
    <2>1. Reject
      BY <1>2 DEF EFIAction
    <2>2. ~Fine(events, next)
      BY <1>1, <1>2 DEF Fine, Fine7, WellFormed, digestEquals, e
    <2> QED
      BY <1>1, <2>1, <2>2, RejectedStep
  <1>3. CASE ~(e.data.string # "DMA Protection Disabled" \/ ~digestEquals(e))
    <2>1. /\ Accept /\ out' = [out EXCEPT !.DMAProtectionDisabled = TRUE]
          /\ seenSeparator7' = seenSeparator7 /\ seenSeparator2' = seenSeparator2
          /\ seenAuthority' = seenAuthority /\ seenVars' = seenVars
          /\ driverSources' = driverSources
      BY <1>3 DEF EFIAction, loopVars
    <2>2. Fine(events, next)
      <3>1. events[next].data.string = "DMA Protection Disabled" /\ events[next].digest = "data"
        BY <1>3 DEF digestEquals, e
      <3>2. WellFormed(events[next])
        BY <1>1, <3>1 DEF WellFormed
      <3> QED
        BY <1>1, <3>2 DEF Fine, Fine7
    <2>3. Plain /\ ~Sep(events, 2, next) /\ ~Sep(events, 7, next) /\ Action(events, next)
      BY <1>1 DEF Plain, Sep, Action, Var, Auth, Load
    <2>4. Shape
      BY DEF IInv, Types
    <2>5. /\ Shape' /\ out'.Enabled = out.Enabled /\ out'.Keys = out.Keys
          /\ out'.PreSeparatorAuthority = out.PreSeparatorAuthority
          /\ out'.PostSeparatorAuthority = out.PostSeparatorAuthority
          /\ out'.DMAProtectionDisabled = TRUE
      BY <2>1, <2>4 DEF Shape
    <2>6. /\ seenSeparator7' <=> seenSeparator7 \/ Sep(events, 7, next)
          /\ seenSeparator2' <=> seenSeparator2 \/ Sep(events, 2, next)
          /\ out'.DMAProtectionDisabled <=> out.DMAProtectionDisabled \/ Action(events, next)
      BY <2>1, <2>3, <2>5
    <2> QED
      BY <1>1, <2>1, <2>2, <2>3, <2>5, <2>6, PlainStep
  <1> QED
    BY <1>2, <1>3

\* A variable of one byte.
LEMMA OneByte ==
  ASSUME NEW s, IsSequence(s), Len(s) = 1
  PROVE  s[1] = 1 <=> s = <<1>>
  <1>1. DOMAIN s = 1 .. 1 /\ s = [k \in 1 .. 1 |-> s[k]]
    BY LenProperties DEF IsSequence
  <1>2. ASSUME s[1] = 1 PROVE s = <<1>>
    BY <1>1, <1>2
  <1> QED
    BY <1>2

\* A variable.
LEMMA DriverConfigStep ==
  ASSUME IInv, EFIVariableDriverConfig
  PROVE  IInv'
  <1> DEFINE d == events[next].data
  <1>1. /\ Handling /\ result = "none" /\ next <= Len(events)
        /\ events[next].index = 7 /\ events[next].typ = "EFIVariableDriverConfig"
    BY DEF EFIVariableDriverConfig, At, Handling, e
  <1>2. /\ seenSeparator7 <=> ~Open(events, 7, next - 1)
        /\ d.name \in seenVars <=> \E j \in 1 .. next - 1 : VarOf(events, d.name, j)
    BY FlagsSay
  <1>3. CASE \/ ~e.data.parses \/ e.data.name \in seenVars \/ seenSeparator7
             \/ ~digestEquals(e) \/ VariableError(e.data)
    <2>1. Reject
      BY <1>3 DEF EFIVariableDriverConfig
    <2>2. ~Fine(events, next)
      BY <1>1, <1>2, <1>3 DEF Fine, Fine7, WellFormed, digestEquals, e
    <2> QED
      BY <1>1, <2>1, <2>2, RejectedStep
  <1>4. CASE ~(\/ ~e.data.parses \/ e.data.name \in seenVars \/ seenSeparator7
               \/ ~digestEquals(e) \/ VariableError(e.data))
    <2>1. /\ Accept /\ out' = Assign(d) /\ seenVars' = seenVars \cup {d.name}
          /\ seenSeparator7' = seenSeparator7 /\ seenSeparator2' = seenSeparator2
          /\ seenAuthority' = seenAuthority /\ driverSources' = driverSources
      BY <1>4 DEF EFIVariableDriverConfig, e
    <2>2. d.parses /\ d.name \notin seenVars /\ ~seenSeparator7 /\ events[next].digest = "data"
          /\ ~VariableError(d)
      BY <1>4 DEF e, digestEquals
    <2>3. Fine(events, next)
      BY <1>1, <1>2, <2>2 DEF Fine, Fine7, WellFormed
    <2>4. /\ Var(events, next) /\ ~Auth(events, next) /\ ~Load(events, next)
          /\ ~Sep(events, 7, next) /\ ~Sep(events, 2, next) /\ ~Action(events, next)
      BY <1>1 DEF Sep, Action, Var, Auth, Load
    <2>5. \A j \in 1 .. next - 1 : ~VarOf(events, d.name, j)
      BY <1>2, <2>2
    <2>6. /\ Shape' /\ out'.DMAProtectionDisabled = out.DMAProtectionDisabled
          /\ out'.PreSeparatorAuthority = out.PreSeparatorAuthority
          /\ out'.PostSeparatorAuthority = out.PostSeparatorAuthority
          /\ d.name = "SecureBoot" => out'.Enabled = (d.bytes[1] = 1)
          /\ d.name # "SecureBoot" => out'.Enabled = out.Enabled
          /\ \A v \in KeyVars :
               /\ d.name = v => out'.Keys[v] = parseEfiSignatureList(d.sigs)
               /\ d.name # v => out'.Keys[v] = out.Keys[v]
      <3> HIDE DEF d
      <3>1. Shape
        BY DEF IInv, Types
      <3>2. CASE d.name = "SecureBoot"
        <4>1. out' = [out EXCEPT !.Enabled = (d.bytes[1] = 1)]
          BY <2>1, <3>2 DEF Assign
        <4> QED
          BY <2>1, <3>1, <3>2, <4>1 DEF Shape, KeyVars
      <3>3. CASE d.name \in KeyVars
        <4>1. d.name # "SecureBoot"
          BY <3>3 DEF KeyVars
        <4>2. out' = [out EXCEPT !.Keys[d.name] = parseEfiSignatureList(d.sigs)]
          BY <2>1, <3>3, <4>1 DEF Assign
        <4> QED
          BY <2>1, <3>1, <3>3, <4>1, <4>2 DEF Shape
      <3>4. CASE d.name # "SecureBoot" /\ d.name \notin KeyVars
        <4>1. out' = out
          BY <2>1, <3>4 DEF Assign
        <4> QED
          BY <2>1, <3>1, <3>4, <4>1 DEF Shape
      <3> QED
        BY <3>2, <3>3, <3>4
    <2>7. out'.Enabled <=> out.Enabled \/ Flag(events, next)
      <3>1. CASE d.name = "SecureBoot"
        <4>1. ~out.Enabled
          <5>1. FlagsSeen(events, next - 1, out.Enabled, out.DMAProtectionDisabled)
            BY DEF IInv, SeenInv
          <5>2. \A j \in 1 .. next - 1 : ~Flag(events, j)
            BY <2>5, <3>1 DEF Flag
          <5> QED
            BY <5>1, <5>2 DEF FlagsSeen
        <4>2. d.bytes[1] = 1 <=> d.bytes = <<1>>
          <5>1. Len(d.bytes) = 1
            BY <2>2, <3>1 DEF VariableError
          <5>2. IsSequence(d.bytes)
            <6>1. events \in Inputs /\ next \in DOMAIN events
              BY <1>1, LogType DEF IInv, Types
            <6> QED
              BY <1>1, <6>1, InputsAssumption
          <5> QED
            BY <5>1, <5>2, OneByte
        <4>3. Flag(events, next) <=> d.bytes = <<1>>
          BY <2>4, <3>1 DEF Flag, VarOf
        <4> QED
          BY <2>6, <3>1, <4>1, <4>2, <4>3
      <3>2. CASE d.name # "SecureBoot"
        <4>1. ~Flag(events, next) /\ out'.Enabled = out.Enabled
          BY <2>6, <3>2 DEF Flag, VarOf
        <4> QED
          BY <4>1
      <3> QED
        BY <3>1, <3>2
    <2>8. \A v \in KeyVars :
            /\ VarOf(events, v, next) => /\ out'.Keys[v] = parseEfiSignatureList(d.sigs)
                                         /\ \A j \in 1 .. next - 1 : ~VarOf(events, v, j)
            /\ ~VarOf(events, v, next) => out'.Keys[v] = out.Keys[v]
      <3>1. \A v : VarOf(events, v, next) <=> d.name = v
        BY <2>4 DEF VarOf
      <3> QED
        BY <2>5, <2>6, <3>1
    <2>9. /\ Grown(out'.PreSeparatorAuthority, out.PreSeparatorAuthority, PreAt(events), next - 1,
                   CertAt(events))
          /\ Grown(out'.PostSeparatorAuthority, out.PostSeparatorAuthority, PostAt(events),
                   next - 1, CertAt(events))
          /\ Grown(driverSources', driverSources, LoadsAt(events), next - 1, PathAt(events))
      <3>1. Types
        BY DEF IInv
      <3>2. \A q : /\ Grown(q, q, PreAt(events), next - 1, CertAt(events))
                   /\ Grown(q, q, PostAt(events), next - 1, CertAt(events))
                   /\ Grown(q, q, LoadsAt(events), next - 1, PathAt(events))
        BY <2>4, <3>1, Unlisted
      <3> QED
        BY <2>1, <2>6, <3>2
    <2>10. /\ events' = events /\ next' = next + 1 /\ result' = result
      BY <2>1 DEF Accept
    <2>11. /\ seenSeparator7' <=> seenSeparator7 \/ Sep(events, 7, next)
           /\ seenSeparator2' <=> seenSeparator2 \/ Sep(events, 2, next)
           /\ seenAuthority' <=> seenAuthority \/ Auth(events, next)
           /\ out'.DMAProtectionDisabled <=> out.DMAProtectionDisabled \/ Action(events, next)
      BY <2>1, <2>4, <2>6
    <2>12. Accepted
      BY <1>1, <2>1, <2>3, <2>4, <2>6, <2>7, <2>8, <2>9, <2>10, <2>11, Zenon DEF Accepted
    <2> QED
      BY <2>12, AcceptedStep
  <1> QED
    BY <1>3, <1>4

\* No certificate, or one, at the end of a sequence.
LEMMA ConcatCerts ==
  ASSUME NEW V, NEW q \in Seq(V), NEW c \in V
  PROVE  q \o << >> = q /\ q \o <<c>> = Append(q, c)
  OBVIOUS

\* An authority.
LEMMA AuthorityStep ==
  ASSUME IInv, EFIVariableAuthority
  PROVE  IInv'
  <1> DEFINE d == events[next].data
             pre == out.PreSeparatorAuthority
             post == out.PostSeparatorAuthority
  <1>1. /\ Handling /\ result = "none" /\ next <= Len(events)
        /\ events[next].index = 7 /\ events[next].typ = "EFIVariableAuthority"
    BY DEF EFIVariableAuthority, At, Handling, e
  <1>2. seenSeparator7 <=> ~Open(events, 7, next - 1)
    BY FlagsSay
  <1>3. CASE ~e.data.parses \/ AuthorityError(e.data) \/ ~AuthorityDigest
    <2>1. Reject
      BY <1>3 DEF EFIVariableAuthority
    <2>2. ~Fine(events, next)
      BY <1>1, <1>3 DEF Fine, Fine7, WellFormed, digestEquals, AuthorityDigest, e
    <2> QED
      BY <1>1, <2>1, <2>2, RejectedStep
  <1>4. CASE ~(~e.data.parses \/ AuthorityError(e.data) \/ ~AuthorityDigest)
    <2>1. /\ Accept /\ seenAuthority' = TRUE
          /\ out' = IF seenSeparator7
                      THEN [out EXCEPT !.PostSeparatorAuthority = @ \o AuthorityCerts(d)]
                      ELSE [out EXCEPT !.PreSeparatorAuthority = @ \o AuthorityCerts(d)]
          /\ seenSeparator7' = seenSeparator7 /\ seenSeparator2' = seenSeparator2
          /\ seenVars' = seenVars /\ driverSources' = driverSources
      BY <1>4 DEF EFIVariableAuthority, e
    <2>2. Fine(events, next)
      <3>1. d.parses /\ ~AuthorityError(d)
            /\ (events[next].digest = "data" \/ (ErrSigMissingGUID(d) /\ events[next].digest = "shim"))
        BY <1>4 DEF e, digestEquals, AuthorityDigest
      <3>2. WellFormed(events[next])
        BY <1>1, <3>1 DEF WellFormed
      <3> QED
        BY <1>1, <3>2 DEF Fine, Fine7
    <2>3. /\ Auth(events, next) /\ ~Var(events, next) /\ ~Load(events, next)
          /\ ~Sep(events, 7, next) /\ ~Sep(events, 2, next) /\ ~Action(events, next)
          /\ ~Flag(events, next) /\ \A v : ~VarOf(events, v, next)
      BY <1>1 DEF Sep, Action, Var, Auth, Load, Flag, VarOf
    <2>4. Shape /\ Types /\ pre \in Seq(Certs) /\ post \in Seq(Certs)
      BY DEF IInv, Types
    <2>5. /\ Shape' /\ out'.DMAProtectionDisabled = out.DMAProtectionDisabled
          /\ out'.Enabled = out.Enabled /\ out'.Keys = out.Keys
          /\ seenSeparator7 => /\ out'.PreSeparatorAuthority = pre
                               /\ out'.PostSeparatorAuthority = post \o AuthorityCerts(d)
          /\ ~seenSeparator7 => /\ out'.PreSeparatorAuthority = pre \o AuthorityCerts(d)
                                /\ out'.PostSeparatorAuthority = post
      <3> HIDE DEF d
      <3>1. CASE seenSeparator7
        <4>1. out' = [out EXCEPT !.PostSeparatorAuthority = post \o AuthorityCerts(d)]
          BY <2>1, <3>1
        <4> QED
          BY <2>1, <2>4, <3>1, <4>1 DEF Shape
      <3>2. CASE ~seenSeparator7
        <4>1. out' = [out EXCEPT !.PreSeparatorAuthority = pre \o AuthorityCerts(d)]
          BY <2>1, <3>2
        <4> QED
          BY <2>1, <2>4, <3>2, <4>1 DEF Shape
      <3> QED
        BY <3>1, <3>2
    <2>6. /\ next - 1 + 1 = next /\ next \in DOMAIN events
          /\ CertAt(events)[next] = d.cert /\ d.cert \in Certs
      BY <1>1, <2>4, LogType DEF Types, CertAt
    <2>7. /\ d.shimVar => /\ pre \o AuthorityCerts(d) = pre /\ post \o AuthorityCerts(d) = post
          /\ ~d.shimVar => /\ pre \o AuthorityCerts(d) = Append(pre, d.cert)
                           /\ post \o AuthorityCerts(d) = Append(post, d.cert)
      BY <2>4, <2>6, ConcatCerts DEF AuthorityCerts
    <2>8. /\ Grown(out'.PreSeparatorAuthority, pre, PreAt(events), next - 1, CertAt(events))
          /\ Grown(out'.PostSeparatorAuthority, post, PostAt(events), next - 1, CertAt(events))
      <3>1. /\ next \in PreAt(events) <=> ~d.shimVar /\ ~seenSeparator7
            /\ next \in PostAt(events) <=> ~d.shimVar /\ seenSeparator7
        BY <1>2, <2>3, <2>6 DEF PreAt, PostAt
      <3> HIDE DEF d, pre, post
      <3> QED
        BY <2>5, <2>6, <2>7, <3>1 DEF Grown
    <2>9. Grown(driverSources', driverSources, LoadsAt(events), next - 1, PathAt(events))
      BY <2>1, <2>3, <2>4, Unlisted
    <2>10. /\ events' = events /\ next' = next + 1 /\ result' = result
      BY <2>1 DEF Accept
    <2>11. /\ seenSeparator7' <=> seenSeparator7 \/ Sep(events, 7, next)
           /\ seenSeparator2' <=> seenSeparator2 \/ Sep(events, 2, next)
           /\ seenAuthority' <=> seenAuthority \/ Auth(events, next)
           /\ out'.Enabled <=> out.Enabled \/ Flag(events, next)
           /\ out'.DMAProtectionDisabled <=> out.DMAProtectionDisabled \/ Action(events, next)
      BY <2>1, <2>3, <2>5
    <2>12. Accepted
      BY <1>1, <2>1, <2>2, <2>3, <2>5, <2>8, <2>9, <2>10, <2>11, Zenon DEF Accepted
    <2> QED
      BY <2>12, AcceptedStep
  <1> QED
    BY <1>3, <1>4

\* A driver.
LEMMA DriverStep ==
  ASSUME IInv, EFIBootServicesDriver
  PROVE  IInv'
  <1> DEFINE d == events[next].data
  <1>1. /\ Handling /\ result = "none" /\ next <= Len(events) /\ ~seenSeparator2
        /\ events[next].index = 2 /\ events[next].typ = "EFIBootServicesDriver"
    BY DEF EFIBootServicesDriver, At, Handling, e
  <1>2. seenSeparator2 <=> ~Open(events, 2, next - 1)
    BY FlagsSay
  <1>3. CASE ~e.data.parses \/ PathError(e.data.path)
    <2>1. Reject
      BY <1>3 DEF EFIBootServicesDriver
    <2>2. ~Fine(events, next)
      BY <1>1, <1>2, <1>3 DEF Fine, Fine2, e
    <2> QED
      BY <1>1, <2>1, <2>2, RejectedStep
  <1>4. CASE ~(~e.data.parses \/ PathError(e.data.path))
    <2>1. /\ Accept /\ driverSources' = Append(driverSources, DevicePath(d.path)) /\ out' = out
          /\ seenSeparator7' = seenSeparator7 /\ seenSeparator2' = seenSeparator2
          /\ seenAuthority' = seenAuthority /\ seenVars' = seenVars
      BY <1>4 DEF EFIBootServicesDriver, e
    <2>2. Fine(events, next)
      BY <1>1, <1>4 DEF Fine, Fine2, KnownTypes, e
    <2>3. /\ Load(events, next) /\ ~Var(events, next) /\ ~Auth(events, next)
          /\ ~Sep(events, 7, next) /\ ~Sep(events, 2, next) /\ ~Action(events, next)
          /\ ~Flag(events, next) /\ \A v : ~VarOf(events, v, next)
      BY <1>1 DEF Sep, Action, Var, Auth, Load, Flag, VarOf
    <2>4. Types /\ Shape
      BY DEF IInv, Types
    <2>5. Shape'
      BY <2>1, <2>4 DEF Shape
    <2>6. /\ Grown(out'.PreSeparatorAuthority, out.PreSeparatorAuthority, PreAt(events), next - 1,
                   CertAt(events))
          /\ Grown(out'.PostSeparatorAuthority, out.PostSeparatorAuthority, PostAt(events),
                   next - 1, CertAt(events))
      BY <2>1, <2>3, <2>4, Unlisted
    <2>7. Grown(driverSources', driverSources, LoadsAt(events), next - 1, PathAt(events))
      <3>1. next - 1 + 1 = next /\ next \in DOMAIN events
        BY <1>1, <2>4, LogType DEF Types
      <3>2. next \in LoadsAt(events) /\ PathAt(events)[next] = DevicePath(d.path)
        BY <1>1, <1>2, <2>3, <3>1 DEF LoadsAt, PathAt
      <3> QED
        BY <2>1, <3>1, <3>2 DEF Grown
    <2>8. /\ events' = events /\ next' = next + 1 /\ result' = result
      BY <2>1 DEF Accept
    <2>9. /\ seenSeparator7' <=> seenSeparator7 \/ Sep(events, 7, next)
          /\ seenSeparator2' <=> seenSeparator2 \/ Sep(events, 2, next)
          /\ seenAuthority' <=> seenAuthority \/ Auth(events, next)
          /\ out'.Enabled <=> out.Enabled \/ Flag(events, next)
          /\ out'.DMAProtectionDisabled <=> out.DMAProtectionDisabled \/ Action(events, next)
      BY <2>1, <2>3
    <2>10. Accepted
      BY <1>1, <2>1, <2>2, <2>3, <2>5, <2>6, <2>7, <2>8, <2>9, Zenon DEF Accepted
    <2> QED
      BY <2>10, AcceptedStep
  <1> QED
    BY <1>3, <1>4

\* The end of the loop.
LEMMA FinishStep ==
  ASSUME IInv, Finish
  PROVE  IInv'
  <1>1. /\ result = "none" /\ next > Len(events) /\ events' = events /\ next' = next
        /\ out' = [out EXCEPT !.DriverLoadSourceHints =
                     [k \in DOMAIN driverSources |-> SourceHint(driverSources[k])]]
        /\ result' = IF LastTest THEN "ok" ELSE "error"
        /\ seenSeparator7' = seenSeparator7 /\ seenSeparator2' = seenSeparator2
        /\ seenAuthority' = seenAuthority /\ seenVars' = seenVars /\ driverSources' = driverSources
    BY DEF Finish, loopVars, LastTest
  <1>2. Types /\ SeenInv /\ Verdict /\ Shape
    BY DEF IInv, Types
  <1>3. /\ Shape' /\ out'.Enabled = out.Enabled /\ out'.Keys = out.Keys
        /\ out'.PreSeparatorAuthority = out.PreSeparatorAuthority
        /\ out'.PostSeparatorAuthority = out.PostSeparatorAuthority
        /\ out'.DMAProtectionDisabled = out.DMAProtectionDisabled
        /\ out'.DriverLoadSourceHints =
             [k \in DOMAIN driverSources |-> SourceHint(driverSources[k])]
    BY <1>1, <1>2 DEF Shape
  <1>4. next = Len(events) + 1
    BY <1>1, <1>2, LogType DEF Types
  <1>5. LastTest' <=> LastTest
    BY <1>1, <1>3 DEF LastTest, HasKeys
  <1>6. Types'
    BY <1>1, <1>2, <1>3 DEF Types
  <1>7. SeenInv'
    BY <1>1, <1>2, <1>3 DEF SeenInv
  <1>8. Verdict'
    <2>1. CASE LastTest
      <3>1. result' = "ok" /\ LastTest'
        BY <1>1, <1>5, <2>1
      <3> QED
        BY <1>1, <1>2, <1>3, <1>4, <3>1 DEF Verdict
    <2>2. CASE ~LastTest
      <3>1. result' = "error" /\ ~LastTest'
        BY <1>1, <1>5, <2>2
      <3> QED
        BY <1>1, <1>2, <1>3, <1>4, <3>1 DEF Verdict
    <2> QED
      BY <2>1, <2>2
  <1> QED
    BY <1>6, <1>7, <1>8 DEF IInv

\* Before the loop, nothing has been handled.
LEMMA InitIInv ==
  ASSUME Init
  PROVE  IInv
  <1>1. 1 .. next - 1 = {} /\ next = 1
    BY DEF Init
  <1>2. Shape
    BY DEF Init, Shape
  <1>3. Types
    <2>1. events \in Inputs /\ IsSequence(events)
      BY InputsAssumption DEF Init
    <2>2. Len(events) \in Nat
      BY <2>1, LenProperties DEF IsSequence
    <2>3. << >> \in Seq(Certs) /\ << >> \in Seq(Paths)
      OBVIOUS
    <2> QED
      BY <1>2, <2>1, <2>2, <2>3 DEF Init, Types
  <1>4. SeenInv
    <2>1. Seen(events, next - 1, seenSeparator7, seenSeparator2, seenAuthority, seenVars)
      BY <1>1 DEF Init, Seen, Open
    <2>2. KeysSeen(events, next - 1, out.Keys)
      BY <1>1 DEF Init, KeysSeen
    <2>3. FlagsSeen(events, next - 1, out.Enabled, out.DMAProtectionDisabled)
      BY <1>1 DEF Init, FlagsSeen
    <2>4. \A S, f : Lists(<< >>, S \cap 1 .. next - 1, f)
      <3>1. \A S : S \cap 1 .. next - 1 = {}
        BY <1>1
      <3> QED
        BY <3>1, FS_EmptySet DEF Lists
    <2> QED
      BY <2>1, <2>2, <2>3, <2>4 DEF Init, SeenInv, ListsSeen
  <1>5. Verdict
    BY <1>1 DEF Init, Verdict
  <1> QED
    BY <1>3, <1>4, <1>5 DEF IInv

\* The invariant holds in every state.
LEMMA Invariance == Spec => []IInv
  <1>1. Init => IInv
    BY InitIInv
  <1>2. IInv /\ [Next]_vars => IInv'
    <2> SUFFICES ASSUME IInv, [Next]_vars PROVE IInv'
      OBVIOUS
    <2>1. CASE Next
      BY <2>1, SkipStep, UnexpectedTypeStep, Separator7Step, EFIActionStep, DriverConfigStep,
         AuthorityStep, Separator2Step, DriverStep, FinishStep DEF Next
    <2>2. CASE vars' = vars
      <3>1. /\ events' = events /\ next' = next /\ result' = result /\ out' = out
            /\ seenSeparator7' = seenSeparator7 /\ seenSeparator2' = seenSeparator2
            /\ seenAuthority' = seenAuthority /\ seenVars' = seenVars
            /\ driverSources' = driverSources
        BY <2>2 DEF vars, loopVars
      <3>2. Types'
        BY <3>1 DEF IInv, Types, Shape
      <3>3. SeenInv'
        BY <3>1 DEF IInv, SeenInv
      <3>4. Verdict'
        BY <3>1 DEF IInv, Verdict, LastTest, HasKeys
      <3> QED
        BY <3>2, <3>3, <3>4 DEF IInv
    <2> QED
      BY <2>1, <2>2
  <1> QED
    BY <1>1, <1>2, PTL DEF Spec

-----------------------------------------------------------------------------
(***************************************************************************)
(* What is verified of the whole log, in terms of its events one by one.   *)
(***************************************************************************)

\* An event is before the separator if no event up to it is one.
LEMMA BeforeIsOpen ==
  ASSUME Types, NEW i
  PROVE  \A k \in Of(i) : /\ k \in BeforeSeparator(i) <=> Open(events, i, k)
                          /\ Open(events, i, k) <=> Open(events, i, k - 1) /\ ~Sep(events, i, k)
  <1> SUFFICES ASSUME NEW k \in Of(i)
               PROVE  /\ k \in BeforeSeparator(i) <=> Open(events, i, k)
                      /\ Open(events, i, k) <=> Open(events, i, k - 1) /\ ~Sep(events, i, k)
    OBVIOUS
  <1>1. Len(events) \in Nat /\ DOMAIN events = 1 .. Len(events) /\ k \in 1 .. Len(events)
    BY LogType DEF Of
  <1>2. \A j : j \in Separators(i) <=> j \in 1 .. Len(events) /\ Sep(events, i, j)
    BY <1>1 DEF Separators, Of, Sep
  <1>3. Open(events, i, k) <=> Open(events, i, k - 1) /\ ~Sep(events, i, k)
    <2>1. k - 1 \in Nat /\ (k - 1) + 1 = k
      BY <1>1
    <2> QED
      BY <2>1, OpenNext
  <1>4. k \in BeforeSeparator(i) <=> \A j \in Separators(i) : k < j
    BY DEF BeforeSeparator
  <1>5. ASSUME \A j \in Separators(i) : k < j PROVE Open(events, i, k)
    BY <1>1, <1>2, <1>5 DEF Open
  <1>6. ASSUME Open(events, i, k) PROVE \A j \in Separators(i) : k < j
    BY <1>1, <1>2, <1>6 DEF Open
  <1> QED
    BY <1>3, <1>4, <1>5, <1>6

\* What AcceptsAsVerified asks of a log but for the keys.
Verified ==
  /\ \A k \in Of(7) : WellFormed(events[k])
  /\ WellOrdered
  /\ DriversParse

\* If every event is fine, so is the log.
LEMMA FineIsVerified ==
  ASSUME Types, \A k \in DOMAIN events : Fine(events, k)
  PROVE  Verified
  <1>1. Len(events) \in Nat /\ DOMAIN events = 1 .. Len(events)
    BY LogType
  <1>2. /\ \A k \in Of(7) : k \in DOMAIN events /\ events[k].index = 7 /\ Fine7(events, k)
        /\ \A k \in Of(2) : k \in DOMAIN events /\ events[k].index = 2 /\ Fine2(events, k)
    BY DEF Of, Fine
  <1>3. \A k \in Of(7) : WellFormed(events[k])
    BY <1>2 DEF Fine7
  <1>4. /\ \A j, k \in Separators(7) : ~(j < k)
        /\ \A j, k \in Separators(2) : ~(j < k)
    <2>1. \A i : \A k \in Separators(i) : k \in Of(i) /\ k \in 1 .. Len(events) /\ Sep(events, i, k)
                                          /\ events[k].typ = "Separator"
      BY <1>1 DEF Separators, Of, Sep
    <2>2. \A k \in Separators(7) : Open(events, 7, k - 1)
      BY <1>2, <2>1 DEF Fine7
    <2>3. \A k \in Separators(2) : Open(events, 2, k - 1)
      BY <1>2, <2>1 DEF Fine2
    <2>4. \A i : \A j, k \in Separators(i) : j < k => j \in 1 .. k - 1 /\ Sep(events, i, j)
      BY <1>1, <2>1
    <2> QED
      BY <2>2, <2>3, <2>4 DEF Open
  <1>5. \A k \in Variables : /\ k \in Of(7) /\ k \in 1 .. Len(events)
                             /\ Var(events, k) /\ ~Sep(events, 7, k)
                             /\ Open(events, 7, k - 1)
                             /\ \A j \in 1 .. k - 1 : ~VarOf(events, events[k].data.name, j)
    BY <1>1, <1>2 DEF Variables, Fine7, Var, Sep
  <1>6. Variables \subseteq BeforeSeparator(7)
    BY <1>5, BeforeIsOpen
  <1>7. \A j, k \in Variables : events[j].data.name = events[k].data.name => ~(j < k)
    <2>1. \A j, k \in Variables : j < k => j \in 1 .. k - 1
      BY <1>1, <1>5
    <2> QED
      BY <1>5, <2>1 DEF VarOf
  <1>8. \A i : \A j \in Of(i) : j \in Int
    BY <1>1 DEF Of
  <1>9. \A i : \A j \in Separators(i) : j \in Int
    BY <1>8 DEF Separators
  <1>10. WellOrdered
    <2>1. \A j, k \in Separators(7) : j = k
      BY <1>4, <1>9
    <2>2. \A j, k \in Variables : events[j].data.name = events[k].data.name => j = k
      BY <1>5, <1>7, <1>8
    <2> QED
      BY <1>6, <2>1, <2>2 DEF WellOrdered
  <1>11. DriversParse
    <2>1. \A j, k \in Separators(2) : j = k
      BY <1>4, <1>9
    <2>2. ASSUME NEW k \in Of(2), k \in BeforeSeparator(2) PROVE Open(events, 2, k - 1)
      BY <2>2, BeforeIsOpen
    <2> QED
      BY <1>2, <2>1, <2>2 DEF DriversParse, Fine2
  <1> QED
    BY <1>3, <1>10, <1>11 DEF Verified

\* If the log is fine, so is every event.
LEMMA VerifiedIsFine ==
  ASSUME Types, Verified
  PROVE  \A k \in DOMAIN events : Fine(events, k)
  <1>1. Len(events) \in Nat /\ DOMAIN events = 1 .. Len(events)
    BY LogType
  <1>2. SUFFICES ASSUME NEW k \in DOMAIN events PROVE Fine(events, k)
    OBVIOUS
  <1>3. \A i : \A j \in 1 .. k - 1 : /\ j # k
                                     /\ Sep(events, i, j) => j \in Separators(i)
    BY <1>1, <1>2 DEF Separators, Of, Sep
  <1>4. \A i : /\ \A j, m \in Separators(i) : j = m
               /\ Sep(events, i, k)
               => Open(events, i, k - 1)
    <2>1. \A i : Sep(events, i, k) => k \in Separators(i)
      BY <1>2 DEF Separators, Of, Sep
    <2> QED
      BY <1>3, <2>1 DEF Open
  <1>5. ASSUME events[k].index = 7 PROVE Fine7(events, k)
    <2>1. k \in Of(7) /\ WellFormed(events[k])
      BY <1>2, <1>5 DEF Verified, Of
    <2>2. ASSUME events[k].typ = "Separator" PROVE Open(events, 7, k - 1)
      BY <1>4, <1>5, <2>2 DEF Verified, WellOrdered, Sep
    <2>3. ASSUME events[k].typ = "EFIVariableDriverConfig"
          PROVE  /\ Open(events, 7, k - 1)
                 /\ \A j \in 1 .. k - 1 : ~VarOf(events, events[k].data.name, j)
      <3>1. k \in Variables /\ k \in BeforeSeparator(7)
        BY <2>1, <2>3 DEF Verified, WellOrdered, Variables
      <3>2. Open(events, 7, k - 1)
        BY <2>1, <3>1, BeforeIsOpen
      <3>3. ASSUME NEW j \in 1 .. k - 1, VarOf(events, events[k].data.name, j) PROVE FALSE
        <4>1. j \in Variables /\ events[j].data.name = events[k].data.name /\ j # k
          BY <1>1, <1>2, <3>3 DEF VarOf, Var, Variables, Of
        <4> QED
          BY <3>1, <4>1 DEF Verified, WellOrdered
      <3> QED
        BY <3>2, <3>3
    <2> QED
      BY <2>1, <2>2, <2>3 DEF Fine7
  <1>6. ASSUME events[k].index = 2 PROVE Fine2(events, k)
    <2>1. k \in Of(2)
      BY <1>2, <1>6 DEF Of
    <2>2. /\ events[k].typ \in KnownTypes
          /\ events[k].typ = "Separator" => events[k].data.zero /\ events[k].digest = "data"
          /\ events[k].typ = "EFIBootServicesDriver" /\ k \in BeforeSeparator(2) =>
               events[k].data.parses /\ ~PathError(events[k].data.path)
      BY <2>1 DEF Verified, DriversParse
    <2>3. ASSUME events[k].typ = "Separator" PROVE Open(events, 2, k - 1)
      BY <1>4, <1>6, <2>3 DEF Verified, DriversParse, Sep
    <2>4. ASSUME events[k].typ = "EFIBootServicesDriver", Open(events, 2, k - 1)
          PROVE  k \in BeforeSeparator(2)
      BY <2>1, <2>4, BeforeIsOpen DEF Sep
    <2> QED
      BY <2>2, <2>3, <2>4 DEF Fine2
  <1> QED
    BY <1>5, <1>6 DEF Fine

\* The values of one kind are none exactly if no signature is of that kind.
LEMMA NoValues ==
  ASSUME NEW sigs, IsSequence(sigs), NEW kind
  PROVE  SignatureValues(sigs, kind) = << >> <=> \A k \in DOMAIN sigs : sigs[k].kind # kind
  <1> DEFINE of == {k \in DOMAIN sigs : sigs[k].kind = kind}
  <1>1. IsFiniteSet(of)
    <2>1. DOMAIN sigs = 1 .. Len(sigs) /\ Len(sigs) \in Nat
      BY LenProperties DEF IsSequence
    <2>2. IsFiniteSet(1 .. Len(sigs)) /\ of \subseteq 1 .. Len(sigs)
      BY <2>1, FS_Interval
    <2> QED
      BY <2>2, FS_Subset
  <1>2. of = {} <=> \A k \in DOMAIN sigs : sigs[k].kind # kind
    OBVIOUS
  <1>3. SignatureValues(sigs, kind) = [n \in 1 .. Cardinality(of) |-> sigs[Nth(of, n)].value]
    BY DEF SignatureValues
  <1> HIDE DEF of
  <1>4. Cardinality(of) \in Nat /\ (Cardinality(of) = 0 <=> of = {})
    BY <1>1, FS_CardinalityType, FS_EmptySet
  <1>5. DOMAIN SignatureValues(sigs, kind) = 1 .. Cardinality(of)
    BY <1>3
  <1>6. CASE of = {}
    <2>1. SignatureValues(sigs, kind) = [n \in 1 .. 0 |-> sigs[Nth(of, n)].value]
      BY <1>3, <1>4, <1>6
    <2>2. SignatureValues(sigs, kind) = << >>
      BY <2>1
    <2> QED
      BY <1>2, <1>6, <2>2
  <1>7. CASE of # {}
    <2>1. 1 \in DOMAIN SignatureValues(sigs, kind)
      BY <1>4, <1>5, <1>7
    <2>2. SignatureValues(sigs, kind) # << >>
      BY <2>1
    <2> QED
      BY <1>2, <1>7, <2>2
  <1> QED
    BY <1>6, <1>7

\* Signatures that all parse give a key or a hash exactly if there is one.
LEMMA KeysParsed ==
  ASSUME NEW sigs, IsSequence(sigs), ~SignatureError(sigs)
  PROVE  LET k == parseEfiSignatureList(sigs)
         IN  k.keys # << >> \/ k.hashes # << >> <=> sigs # << >>
  <1> DEFINE p == parseEfiSignatureList(sigs)
  <1>1. p.keys = SignatureValues(sigs, "x509") /\ p.hashes = SignatureValues(sigs, "sha256")
    BY DEF parseEfiSignatureList
  <1>2. \A k \in DOMAIN sigs : sigs[k].kind \in {"x509", "sha256"}
    BY DEF SignatureError
  <1>3. sigs = << >> <=> DOMAIN sigs = {}
    <2>1. sigs \in Seq({sigs[k] : k \in DOMAIN sigs}) /\ DOMAIN sigs = 1 .. Len(sigs)
          /\ Len(sigs) \in Nat
      BY LenProperties DEF IsSequence
    <2>2. Len(sigs) = 0 <=> sigs = << >>
      BY <2>1, EmptySeq
    <2>3. Len(sigs) = 0 <=> 1 .. Len(sigs) = {}
      BY <2>1
    <2> QED
      BY <2>1, <2>2, <2>3
  <1>4. p.keys = << >> /\ p.hashes = << >> <=> DOMAIN sigs = {}
    BY <1>1, <1>2, NoValues
  <1> QED
    BY <1>3, <1>4

\* After the loop, the last test is what AcceptsAsVerified asks of the keys.
LEMMA TestIsVerified ==
  ASSUME IInv, next = Len(events) + 1
  PROVE  /\ out.Enabled <=> EnabledInLog
         /\ LastTest <=> (EnabledInLog => KeysSpecified)
  <1>1. /\ Types /\ SeenInv /\ Len(events) \in Nat /\ DOMAIN events = 1 .. Len(events)
        /\ next - 1 = Len(events) /\ events \in Inputs
    BY LogType DEF IInv, Types
  <1>2. \A k \in DOMAIN events : Fine(events, k)
    BY <1>1 DEF IInv, Verdict
  <1>3. out.Enabled <=> EnabledInLog
    <2>1. FlagsSeen(events, Len(events), out.Enabled, out.DMAProtectionDisabled)
      BY <1>1 DEF SeenInv
    <2>2. EnabledInLog <=> \E k \in 1 .. Len(events) : Flag(events, k)
      BY <1>1 DEF EnabledInLog, Named, Variables, Of, Flag, VarOf, Var
    <2> QED
      BY <2>1, <2>2 DEF FlagsSeen
  <1>4. seenAuthority <=> \E k \in Of(7) : events[k].typ = "EFIVariableAuthority"
    <2>1. Seen(events, Len(events), seenSeparator7, seenSeparator2, seenAuthority, seenVars)
      BY <1>1 DEF SeenInv
    <2>2. (\E k \in Of(7) : events[k].typ = "EFIVariableAuthority")
            <=> \E k \in 1 .. Len(events) : Auth(events, k)
      BY <1>1 DEF Of, Auth
    <2> QED
      BY <2>1, <2>2 DEF Seen
  <1>5. ASSUME NEW v \in {"PK", "KEK", "db"}
        PROVE  HasKeys(v) <=> \E k \in Named(v) : events[k].data.sigs # << >>
    <2>1. KeysSeen(events, Len(events), out.Keys) /\ v \in KeyVars
      BY <1>1 DEF SeenInv, KeyVars
    <2>2. \A k : k \in Named(v) <=> k \in 1 .. Len(events) /\ VarOf(events, v, k)
      BY <1>1 DEF Named, Variables, Of, VarOf, Var
    <2>3. CASE Named(v) = {}
      <3>1. out.Keys[v] = NoKeys
        BY <2>1, <2>2, <2>3 DEF KeysSeen
      <3>2. ~HasKeys(v)
        BY <3>1 DEF HasKeys, NoKeys
      <3> QED
        BY <2>3, <3>2
    <2>4. CASE Named(v) # {}
      <3>1. \A k \in Named(v) : out.Keys[v] = parseEfiSignatureList(events[k].data.sigs)
        BY <2>1, <2>2 DEF KeysSeen
      <3>2. \A k \in Named(v) : HasKeys(v) <=> events[k].data.sigs # << >>
        <4> SUFFICES ASSUME NEW k \in Named(v)
                     PROVE  HasKeys(v) <=> events[k].data.sigs # << >>
          OBVIOUS
        <4>1. /\ k \in DOMAIN events /\ events[k].index = 7
              /\ events[k].typ = "EFIVariableDriverConfig" /\ events[k].data.name = v
          BY DEF Named, Variables, Of
        <4>2. IsSequence(events[k].data.sigs)
          BY <1>1, <4>1, InputsAssumption
        <4>3. ~SignatureError(events[k].data.sigs)
          <5>1. WellFormed(events[k])
            BY <1>2, <4>1 DEF Fine, Fine7
          <5> QED
            BY <2>1, <4>1, <5>1 DEF WellFormed, VariableError
        <4> QED
          BY <3>1, <4>2, <4>3, KeysParsed DEF HasKeys
      <3> QED
        BY <2>4, <3>2
    <2> QED
      BY <2>3, <2>4
  <1>6. LastTest <=> (EnabledInLog => KeysSpecified)
    BY <1>3, <1>4, <1>5, Zenon DEF LastTest, KeysSpecified
  <1> QED
    BY <1>3, <1>6

\* Every set of naturals that is not empty has a least element.
LEMMA LeastPlace ==
  ASSUME NEW T, T \subseteq Nat, T # {}
  PROVE  \E n \in T : \A m \in T : n <= m
  <1> DEFINE R == OpToRel(<, Nat)
  <1>1. IsWellFoundedOn(R, Nat)
    BY NatLessThanWellFounded
  <1>2. \A x, y \in Nat : <<x, y>> \in R <=> x < y
    BY DEF OpToRel
  <1> HIDE DEF R
  <1>3. PICK x \in T : \A y \in T : ~(<<y, x>> \in R)
    BY <1>1, WFMin
  <1>4. \A y \in T : x \in Nat /\ y \in Nat /\ ~(y < x)
    BY <1>2, <1>3
  <1> QED
    BY <1>4

\* The first end marker ends a path, and a path without one ends where its data does.
LEMMA PathEnds ==
  ASSUME NEW path, IsSequence(path)
  PROVE  /\ Len(path) \in Nat /\ DOMAIN path = 1 .. Len(path)
         /\ EndOfPath(path) \in 1 .. Len(path) + 1
         /\ EndOfPath(path) # Len(path) + 1 => path[EndOfPath(path)] = "end"
         /\ \A j \in 1 .. EndOfPath(path) - 1 : path[j] # "end"
  <1>1. Len(path) \in Nat /\ DOMAIN path = 1 .. Len(path)
    BY LenProperties DEF IsSequence
  <1> DEFINE Ends == {k \in DOMAIN path : path[k] = "end"}
             IsEnd(k) == path[k] = "end" /\ \A j \in 1 .. k - 1 : path[j] # "end"
  <1>2. CASE Ends # {}
    <2>1. PICK n \in Ends : \A m \in Ends : n <= m
      <3>1. Ends \subseteq Nat
        BY <1>1
      <3> HIDE DEF Ends
      <3> QED
        BY <1>2, <3>1, LeastPlace
    <2>2. n \in DOMAIN path /\ IsEnd(n)
      BY <1>1, <2>1
    <2>3. EndOfPath(path) = CHOOSE k \in DOMAIN path : IsEnd(k)
      BY <1>2 DEF EndOfPath
    <2> HIDE DEF IsEnd
    <2>4. EndOfPath(path) \in DOMAIN path /\ IsEnd(EndOfPath(path))
      BY <2>2, <2>3
    <2> QED
      BY <1>1, <2>4 DEF IsEnd
  <1>3. CASE Ends = {}
    <2>1. EndOfPath(path) = Len(path) + 1 /\ \A j \in DOMAIN path : path[j] # "end"
      BY <1>3 DEF EndOfPath
    <2> QED
      BY <1>1, <2>1
  <1> QED
    BY <1>2, <1>3

\* The hint says if the path, up to its end, leads over PCI.
LEMMA HintIs ==
  ASSUME NEW path, IsSequence(path)
  PROVE  SourceHint(DevicePath(path)) = IF FromPCI(path) THEN "PciMmioSource" ELSE "UnknownSource"
  <1> DEFINE m == EndOfPath(path)
             p == DevicePath(path)
  <1>1. /\ Len(path) \in Nat /\ DOMAIN path = 1 .. Len(path) /\ m \in 1 .. Len(path) + 1
        /\ m # Len(path) + 1 => path[m] = "end"
        /\ \A j \in 1 .. m - 1 : path[j] # "end"
    BY PathEnds
  <1>2. DOMAIN p = 1 .. m - 1 /\ \A j \in 1 .. m - 1 : p[j] = path[j]
    <2>1. path \in Seq({path[k] : k \in DOMAIN path})
      BY DEF IsSequence
    <2>2. 1 \in 1 .. Len(path) + 1 /\ m - 1 \in (1 - 1) .. Len(path)
      BY <1>1
    <2>3. p = SubSeq(path, 1, m - 1)
      BY DEF DevicePath
    <2> HIDE DEF m, p
    <2>4. p = [i \in 1 .. m - 1 |-> path[i]]
      BY <1>1, <2>3
    <2> QED
      BY <2>4
  <1> HIDE DEF m, p
  <1>3. ASSUME NEW j \in DOMAIN p, NEW k \in DOMAIN p, j < k, p[j] = "pci", p[k] = "offset"
        PROVE  FromPCI(path)
    <2>1. k \in DOMAIN path /\ path[k] = "offset" /\ j \in 1 .. k - 1 /\ path[j] = "pci"
      BY <1>1, <1>2, <1>3
    <2>2. \A i \in 1 .. k - 1 : path[i] # "end"
      BY <1>1, <1>2, <1>3
    <2> QED
      BY <2>1, <2>2 DEF FromPCI
  <1>4. ASSUME FromPCI(path)
        PROVE  \E j, k \in DOMAIN p : j < k /\ p[j] = "pci" /\ p[k] = "offset"
    <2>1. PICK k \in DOMAIN path : /\ path[k] = "offset"
                                   /\ \E i \in 1 .. k - 1 : path[i] = "pci"
                                   /\ \A i \in 1 .. k - 1 : path[i] # "end"
      BY <1>4 DEF FromPCI
    <2>2. PICK j \in 1 .. k - 1 : path[j] = "pci"
      BY <2>1
    <2>3. ~(m \in 1 .. k - 1) /\ k # m
      BY <1>1, <2>1
    <2>4. k \in DOMAIN p /\ j \in DOMAIN p /\ j < k
      BY <1>1, <1>2, <2>1, <2>2, <2>3
    <2> QED
      BY <1>2, <2>1, <2>2, <2>4
  <1> QED
    BY <1>3, <1>4 DEF SourceHint, p

\* The rank of a place among places.
LEMMA RankIn ==
  ASSUME NEW n \in Nat, NEW S, S \subseteq 1 .. n, NEW k \in S
  PROVE  Cardinality({j \in S : j <= k}) \in 1 .. Cardinality(S)
  <1> DEFINE U == {j \in S : j <= k}
  <1>1. IsFiniteSet(S)
    <2>1. IsFiniteSet(1 .. n)
      BY FS_Interval
    <2> QED
      BY <2>1, FS_Subset
  <1>2. U \subseteq S /\ k \in U
    OBVIOUS
  <1> HIDE DEF U
  <1>3. IsFiniteSet(U) /\ Cardinality(U) <= Cardinality(S)
    BY <1>1, <1>2, FS_Subset
  <1>4. Cardinality(U) \in Nat /\ Cardinality(U) # 0 /\ Cardinality(S) \in Nat
    BY <1>1, <1>2, <1>3, FS_CardinalityType, FS_EmptySet
  <1> QED
    BY <1>3, <1>4 DEF U

\* The length of a function on the first naturals.
LEMMA LenIs ==
  ASSUME NEW V, NEW n \in Nat, NEW q \in [1 .. n -> V]
  PROVE  Len(q) = n
  <1>1. q \in Seq(V)
    BY SeqDef
  <1>2. 1 .. Len(q) = 1 .. n /\ Len(q) \in Nat
    BY <1>1, LenProperties
  <1> QED
    BY <1>2

-----------------------------------------------------------------------------
(***************************************************************************)
(* The theorems.                                                           *)
(***************************************************************************)

\* ParseSecurebootState returns a state exactly if the log meets the conditions of
\* AcceptsAsVerified, which speak of all its events at once, whatever the log and
\* the order in which PCR 2 and PCR 7 come in it.
THEOREM SecureBootAccepts == Spec => []AcceptsAsVerified
  <1>1. ASSUME IInv PROVE AcceptsAsVerified
    <2>1. Types /\ Verdict /\ DOMAIN events = 1 .. Len(events) /\ Len(events) \in Nat
          /\ next - 1 + 1 = next /\ next \in Nat
      BY <1>1, LogType DEF IInv
    <2>2. CASE next = Len(events) + 1
      <3>1. Verified
        <4>1. \A k \in DOMAIN events : Fine(events, k)
          BY <2>1, <2>2 DEF Verdict
        <4> QED
          BY <2>1, <4>1, FineIsVerified
      <3>2. LastTest <=> (EnabledInLog => KeysSpecified)
        BY <1>1, <2>2, TestIsVerified
      <3>3. result # "none" => (result = "ok" <=> LastTest)
        <4>1. result \in {"none", "ok", "error"}
          BY <2>1 DEF Types
        <4> QED
          BY <2>1, <2>2, <4>1 DEF Verdict
      <3> QED
        BY <3>1, <3>2, <3>3, Zenon DEF AcceptsAsVerified, Verified
    <2>3. CASE next # Len(events) + 1
      <3>1. next \in DOMAIN events
        BY <2>1, <2>3 DEF Types
      <3>2. result # "none" => result = "error" /\ ~Fine(events, next)
        BY <2>1, <2>3 DEF Verdict, Types
      <3>3. ~Fine(events, next) => ~Verified
        BY <2>1, <3>1, VerifiedIsFine
      <3>4. result = "error" => result # "ok"
        OBVIOUS
      <3> QED
        BY <3>2, <3>3, <3>4, Zenon DEF AcceptsAsVerified, Verified
    <2> QED
      BY <2>2, <2>3
  <1> QED
    BY <1>1, Invariance, PTL

\* The state that is returned is the one the log describes, whatever the log.
THEOREM SecureBootState == Spec => []StateAsMeasured
  <1>1. ASSUME IInv, result = "ok" PROVE StateAsMeasured
    <2> DEFINE before == Authorities \cap BeforeSeparator(7)
               after  == Authorities \ BeforeSeparator(7)
               certs  == [k \in Authorities |-> events[k].data.cert]
               hints  == [k \in Drivers |-> IF FromPCI(events[k].data.path) THEN "PciMmioSource"
                                                                            ELSE "UnknownSource"]
               all == 1 .. Len(events)
    <2>1. /\ Types /\ SeenInv /\ DOMAIN events = all /\ Len(events) \in Nat
          /\ next = Len(events) + 1 /\ next - 1 = Len(events) /\ events \in Inputs
      BY <1>1, LogType DEF IInv, Verdict, Types
    <2>2. out.Enabled <=> EnabledInLog
      BY <1>1, <2>1, TestIsVerified
    <2>3. ASSUME NEW v \in KeyVars
          PROVE  \/ Named(v) = {} /\ out.Keys[v] = NoKeys
                 \/ \E k \in Named(v) : out.Keys[v] = parseEfiSignatureList(events[k].data.sigs)
      <3>1. KeysSeen(events, Len(events), out.Keys)
        BY <2>1 DEF SeenInv
      <3>2. \A k : k \in Named(v) <=> k \in 1 .. Len(events) /\ VarOf(events, v, k)
        BY <2>1 DEF Named, Variables, Of, VarOf, Var
      <3> QED
        BY <3>1, <3>2 DEF KeysSeen
    <2>4. out.DMAProtectionDisabled <=> \E k \in Of(7) : events[k].typ = "EFIAction"
      <3>1. FlagsSeen(events, Len(events), out.Enabled, out.DMAProtectionDisabled)
        BY <2>1 DEF SeenInv
      <3>2. (\E k \in Of(7) : events[k].typ = "EFIAction") <=> \E k \in all : Action(events, k)
        BY <2>1 DEF Of, Action
      <3> QED
        BY <3>1, <3>2 DEF FlagsSeen
    <2>5. ListsSeen(events, Len(events), out.PreSeparatorAuthority, out.PostSeparatorAuthority,
                    driverSources)
      BY <2>1 DEF SeenInv
    <2>6. PreAt(events) \cap all = before /\ PostAt(events) \cap all = after
      <3>1. \A k \in Authorities : /\ k \in Of(7) /\ ~Sep(events, 7, k)
        BY DEF Authorities, Sep
      <3>2. \A k \in Authorities : k \in BeforeSeparator(7) <=> Open(events, 7, k - 1)
        BY <2>1, <3>1, BeforeIsOpen
      <3>3. \A k : k \in Authorities <=> k \in DOMAIN events /\ Auth(events, k)
                                         /\ ~events[k].data.shimVar
        BY DEF Authorities, Auth, Of
      <3> QED
        BY <2>1, <3>2, <3>3 DEF PreAt, PostAt
    <2>7. LoadsAt(events) \cap all = Drivers
      <3>1. \A k \in Of(2) : events[k].typ = "EFIBootServicesDriver" =>
              (k \in BeforeSeparator(2) <=> Open(events, 2, k - 1))
        BY <2>1, BeforeIsOpen DEF Sep
      <3>2. \A k : k \in BeforeSeparator(2) => k \in Of(2)
        BY DEF BeforeSeparator
      <3>3. \A k : k \in Of(2) <=> k \in all /\ events[k].index = 2
        BY <2>1 DEF Of
      <3> QED
        BY <2>1, <3>1, <3>2, <3>3 DEF LoadsAt, Drivers, Load
    <2>8. \A k \in Authorities : k \in DOMAIN events
      BY DEF Authorities, Of
    <2>9. /\ Lists(out.PreSeparatorAuthority, before, certs)
          /\ Lists(out.PostSeparatorAuthority, after, certs)
      <3>1. /\ Lists(out.PreSeparatorAuthority, before, CertAt(events))
            /\ Lists(out.PostSeparatorAuthority, after, CertAt(events))
        BY <2>5, <2>6 DEF ListsSeen
      <3>2. \A k \in Authorities : CertAt(events)[k] = certs[k]
        BY <2>8 DEF CertAt
      <3>3. before \subseteq Authorities /\ after \subseteq Authorities
        OBVIOUS
      <3> HIDE DEF before, after, certs
      <3> QED
        BY <3>1, <3>2, <3>3 DEF Lists
    <2>10. Lists(out.DriverLoadSourceHints, Drivers, hints)
      <3> DEFINE q == out.DriverLoadSourceHints
      <3>1. driverSources \in Seq(Paths) /\ Lists(driverSources, Drivers, PathAt(events))
        BY <2>1, <2>5, <2>7 DEF ListsSeen, Types
      <3>2. q = [k \in DOMAIN driverSources |-> SourceHint(driverSources[k])]
        BY <1>1 DEF IInv, Verdict
      <3>3. DOMAIN driverSources = 1 .. Len(driverSources) /\ Len(driverSources) \in Nat
        BY <3>1, LenProperties
      <3>4. Drivers \subseteq all
        BY <2>7
      <3>5. \A k \in Drivers : /\ PathAt(events)[k] = DevicePath(events[k].data.path)
                               /\ IsSequence(events[k].data.path)
        <4>1. \A k \in Drivers : k \in DOMAIN events /\ events[k].typ = "EFIBootServicesDriver"
          BY <2>1, <3>4 DEF Drivers
        <4> QED
          BY <2>1, <4>1, InputsAssumption DEF PathAt
      <3>6. \A k \in Drivers : SourceHint(PathAt(events)[k]) = hints[k]
        BY <3>5, HintIs
      <3>7. Len(q) = Len(driverSources)
        <4> DEFINE V == {SourceHint(driverSources[k]) : k \in 1 .. Len(driverSources)}
        <4> HIDE DEF q
        <4>1. q \in [1 .. Len(driverSources) -> V]
          BY <3>2, <3>3
        <4> HIDE DEF V
        <4> QED
          BY <3>3, <4>1, LenIs
      <3>8. \A k \in Drivers : q[Cardinality({j \in Drivers : j <= k})] = hints[k]
        <4> SUFFICES ASSUME NEW k \in Drivers
                     PROVE  q[Cardinality({j \in Drivers : j <= k})] = hints[k]
          OBVIOUS
        <4>1. Cardinality({j \in Drivers : j <= k}) \in 1 .. Cardinality(Drivers)
          BY <2>1, <3>4, RankIn
        <4>2. /\ Len(driverSources) = Cardinality(Drivers)
              /\ driverSources[Cardinality({j \in Drivers : j <= k})] = PathAt(events)[k]
          BY <3>1 DEF Lists
        <4> HIDE DEF q, hints
        <4> QED
          BY <3>2, <3>3, <3>6, <4>1, <4>2
      <3> QED
        BY <3>1, <3>7, <3>8 DEF Lists
    <2> QED
      BY <2>2, <2>3, <2>4, <2>9, <2>10, Zenon DEF StateAsMeasured
  <1>2. ASSUME IInv PROVE StateAsMeasured
    BY <1>1, <1>2 DEF StateAsMeasured
  <1> QED
    BY <1>2, Invariance, PTL

-----------------------------------------------------------------------------
(***************************************************************************)
(* The sub-events of a block that are outside aggregations.                *)
(***************************************************************************)

\* A block is a sequence, and only aggregations have sub-events.
IsBlock(b) ==
  /\ IsSequence(b)
  /\ \A p \in DOMAIN b : b[p].len \in Nat /\ (b[p].typ \notin Aggregations => b[p].len = 0)

\* The place after a sub-event and those it contains.
After(b, p) == p + 1 + b[p].len

\* A block has as many sub-events as its length, and places after it are later.
LEMMA BlockType ==
  ASSUME NEW b, IsBlock(b)
  PROVE  /\ Len(b) \in Nat /\ DOMAIN b = 1 .. Len(b)
         /\ \A p \in 1 .. Len(b) : /\ b[p].len \in Nat /\ After(b, p) \in Nat /\ p < After(b, p)
                                   /\ b[p].typ \notin Aggregations => After(b, p) = p + 1
  <1>1. Len(b) \in Nat /\ DOMAIN b = 1 .. Len(b)
    BY LenProperties DEF IsBlock, IsSequence
  <1> QED
    BY <1>1 DEF IsBlock, After

\* A set that has 0, and n + 1 whenever it has n, has every natural number.
LEMMA AllPlaces ==
  ASSUME NEW S, 0 \in S, \A n \in Nat : n \in S => n + 1 \in S
  PROVE  Nat \subseteq S
  <1> DEFINE T == Nat \ S
  <1> SUFFICES ASSUME T # {} PROVE FALSE
    OBVIOUS
  <1>1. PICK n \in T : \A m \in T : n <= m
    BY LeastPlace
  <1>2. n # 0 /\ n \in Nat
    BY <1>1
  <1>3. n - 1 \in Nat /\ ~(n <= n - 1) /\ (n - 1) + 1 = n
    BY <1>2
  <1>4. n - 1 \in S
    BY <1>1, <1>3
  <1> QED
    BY <1>1, <1>3, <1>4

\* t says of each of the first m places of b if it is outside aggregations.
Starts(t, b, p) == p = 1 \/ \E q \in 1 .. p - 1 : t[q] /\ q + 1 + b[q].len = p
TopTo(t, b, m) == t = [p \in 1 .. m |-> Starts(t, b, p)]

\* For each m there is such a t: it is built place by place.
LEMMA TopExists ==
  ASSUME NEW b, NEW m \in Nat
  PROVE  \E t : TopTo(t, b, m)
  <1> DEFINE S == {n \in Nat : \E t : TopTo(t, b, n)}
  <1>1. 0 \in S
    <2> DEFINE t == [p \in 1 .. 0 |-> FALSE]
    <2>1. t = [p \in 1 .. 0 |-> Starts(t, b, p)]
      <3>1. \A p \in 1 .. 0 : FALSE
        OBVIOUS
      <3> QED
        BY <3>1
    <2> QED
      BY <2>1 DEF TopTo
  <1>2. ASSUME NEW n \in Nat, n \in S PROVE n + 1 \in S
    <2>1. PICK t : TopTo(t, b, n)
      BY <1>2
    <2> DEFINE u == [p \in 1 .. n + 1 |-> Starts(t, b, p)]
    <2>2. \A q \in 1 .. n : u[q] = t[q]
      <3>1. \A q \in 1 .. n : t[q] = Starts(t, b, q)
        BY <2>1 DEF TopTo
      <3>2. \A q \in 1 .. n : q \in 1 .. n + 1
        OBVIOUS
      <3> QED
        BY <3>1, <3>2
    <2>3. ASSUME NEW p \in 1 .. n + 1 PROVE Starts(t, b, p) = Starts(u, b, p)
      <3>1. \A q \in 1 .. p - 1 : q \in 1 .. n
        OBVIOUS
      <3>2. \A q \in 1 .. p - 1 : u[q] = t[q]
        BY <2>2, <3>1
      <3> HIDE DEF u
      <3>3. (\E q \in 1 .. p - 1 : t[q] /\ q + 1 + b[q].len = p)
              <=> (\E q \in 1 .. p - 1 : u[q] /\ q + 1 + b[q].len = p)
        BY <3>2, Zenon
      <3> QED
        BY <3>3, Zenon DEF Starts
    <2>4. u = [p \in 1 .. n + 1 |-> Starts(u, b, p)]
      <3>1. \A p \in 1 .. n + 1 : u[p] = Starts(u, b, p)
        BY <2>3
      <3> QED
        BY <3>1
    <2>5. TopTo(u, b, n + 1)
      <3> HIDE DEF u
      <3> QED
        BY <2>4 DEF TopTo
    <2> QED
      BY <2>5
  <1> HIDE DEF S
  <1>3. Nat \subseteq S
    BY <1>1, <1>2, AllPlaces
  <1> QED
    BY <1>3 DEF S

\* The places outside aggregations are the first one, and those after another.
LEMMA TopIs ==
  ASSUME NEW b, IsBlock(b)
  PROVE  /\ TopLevel(b) \subseteq 1 .. Len(b)
         /\ 1 <= Len(b) => 1 \in TopLevel(b)
         /\ \A p \in TopLevel(b) : After(b, p) <= Len(b) => After(b, p) \in TopLevel(b)
         /\ \A p \in TopLevel(b) : p = 1 \/ \E q \in TopLevel(b) : After(b, q) = p
  <1> DEFINE L == Len(b)
             t == CHOOSE g : TopTo(g, b, L)
  <1>1. L \in Nat /\ \A p \in 1 .. L : After(b, p) \in Nat /\ p < After(b, p)
    BY BlockType
  <1>2. TopTo(t, b, L)
    BY <1>1, TopExists
  <1>3. TopLevel(b) = {p \in 1 .. L : t[p]}
    BY DEF TopLevel, TopTo, Starts
  <1> HIDE DEF t, L
  <1>4. \A p \in 1 .. L : t[p] = Starts(t, b, p)
    BY <1>2 DEF TopTo
  <1>5. ASSUME NEW p \in 1 .. L
        PROVE  p \in TopLevel(b) <=> p = 1 \/ \E q \in TopLevel(b) : After(b, q) = p
    <2>1. \A q \in TopLevel(b) : After(b, q) = p => q \in 1 .. p - 1
      BY <1>1, <1>3
    <2>2. \A q \in 1 .. p - 1 : q \in 1 .. L
      BY <1>1
    <2>3. t[p] <=> p = 1 \/ \E q \in 1 .. p - 1 : t[q] /\ After(b, q) = p
      BY <1>4 DEF Starts, After
    <2> QED
      BY <1>3, <2>1, <2>2, <2>3
  <1> QED
    BY <1>1, <1>3, <1>5 DEF L

\* What is inside an aggregation is not outside one.
LEMMA TopGap ==
  ASSUME NEW b, IsBlock(b), NEW p \in TopLevel(b), NEW t \in TopLevel(b), p < t
  PROVE  After(b, p) <= t
  <1> DEFINE T == TopLevel(b)
             Bad == {y \in T : \E x \in T : x < y /\ ~(After(b, x) <= y)}
  <1> SUFFICES ASSUME Bad # {} PROVE FALSE
    OBVIOUS
  <1>1. \A x \in T : x \in Nat /\ x # 0 /\ After(b, x) \in Nat /\ x < After(b, x)
    BY TopIs, BlockType
  <1>2. PICK y \in Bad : \A z \in Bad : y <= z
    BY <1>1, LeastPlace
  <1>3. PICK x \in T : x < y /\ ~(After(b, x) <= y)
    BY <1>2
  <1>4. y # 1
    BY <1>1, <1>3
  <1>5. PICK q \in T : After(b, q) = y
    BY <1>2, <1>4, TopIs
  <1> HIDE DEF T
  <1>6. \A z \in T : z < y => z \notin Bad
    BY <1>1, <1>2
  <1>7. CASE q = x
    BY <1>3, <1>5, <1>7, <1>1
  <1>8. CASE x < q
    <2>1. After(b, x) <= q
      BY <1>1, <1>5, <1>6, <1>8
    <2> QED
      BY <1>1, <1>3, <1>5, <2>1
  <1>9. CASE q < x
    <2>1. After(b, q) <= x
      BY <1>3, <1>6, <1>9
    <2> QED
      BY <1>1, <1>2, <1>3, <1>5, <2>1
  <1> QED
    BY <1>1, <1>7, <1>8, <1>9

-----------------------------------------------------------------------------
(***************************************************************************)
(* Places.  A place is an event and a sub-event outside aggregations; s is *)
(* the log, n the number of events that are handled, and c the sub-event   *)
(* that comes next in the event after them, 0 if it is not being read.     *)
(***************************************************************************)

\* The event at i is a tagged one before the separator of its register.
Tagged(s, i) == s[i].index \in {12, 13} /\ s[i].typ = "EventTag" /\ Open(s, s[i].index, i - 1)

PlacesTo(s, n, c) ==
  {r \in Nat \X Nat :
     \/ r[1] \in 1 .. n /\ Tagged(s, r[1]) /\ r[2] \in TopLevel(s[r[1]].block)
     \/ c # 0 /\ r[1] = n + 1 /\ r[2] \in TopLevel(s[n + 1].block) /\ r[2] < c}

\* An event that is not looked at has no places.
LEMMA PlacesSkip ==
  ASSUME NEW s, NEW n \in Nat, ~Tagged(s, n + 1)
  PROVE  PlacesTo(s, n + 1, 0) = PlacesTo(s, n, 0)
  BY UpToNext DEF PlacesTo

\* Before the first sub-event of a block there is none.
LEMMA PlacesFirst ==
  ASSUME NEW s, NEW n \in Nat, IsBlock(s[n + 1].block)
  PROVE  PlacesTo(s, n, 1) = PlacesTo(s, n, 0)
  <1>1. \A p \in TopLevel(s[n + 1].block) : p \in Nat /\ ~(p < 1)
    BY TopIs, BlockType
  <1> QED
    BY <1>1 DEF PlacesTo

\* At the end of a block all its places were read.
LEMMA PlacesEnd ==
  ASSUME NEW s, NEW n \in Nat, Tagged(s, n + 1), IsBlock(s[n + 1].block),
         NEW c \in Nat, c > Len(s[n + 1].block)
  PROVE  PlacesTo(s, n + 1, 0) = PlacesTo(s, n, c)
  <1>1. Len(s[n + 1].block) \in Nat
    BY BlockType
  <1>2. \A p \in TopLevel(s[n + 1].block) : p \in Nat /\ p < c
    BY <1>1, TopIs
  <1> QED
    BY <1>1, <1>2, UpToNext DEF PlacesTo

\* A sub-event that was read is one more place, the last one.
LEMMA PlacesAdd ==
  ASSUME NEW s, NEW n \in Nat, IsBlock(s[n + 1].block), NEW p \in TopLevel(s[n + 1].block)
  PROVE  /\ PlacesTo(s, n, After(s[n + 1].block, p)) = PlacesTo(s, n, p) \cup {<<n + 1, p>>}
         /\ <<n + 1, p>> \notin PlacesTo(s, n, p)
         /\ \A r \in PlacesTo(s, n, p) : Before(r, <<n + 1, p>>)
  <1> DEFINE b == s[n + 1].block
             T == TopLevel(b)
             a == After(b, p)
  <1>1. \A t \in T : t \in Nat /\ t # 0 /\ t < After(b, t) /\ After(b, t) \in Nat
    BY TopIs, BlockType
  <1>2. \A t \in T : t < a <=> t = p \/ t < p
    <2> TAKE t \in T
    <2>1. CASE t < p
      BY <1>1, <2>1
    <2>2. CASE t = p
      BY <1>1, <2>2
    <2>3. CASE p < t
      <3>1. a <= t
        BY <2>3, TopGap
      <3> QED
        BY <1>1, <2>3, <3>1
    <2> QED
      BY <1>1, <2>1, <2>2, <2>3
  <1>3. p \in T /\ p \in Nat /\ p # 0 /\ a # 0 /\ n + 1 \in Nat /\ n + 1 \notin 1 .. n
    BY <1>1
  <1> HIDE DEF T, a
  <1>4. ASSUME NEW r
        PROVE  r \in PlacesTo(s, n, a) <=> r \in PlacesTo(s, n, p) \/ r = <<n + 1, p>>
    <2>1. CASE r \in Nat \X Nat
      <3>1. PICK x \in Nat, y \in Nat : r = <<x, y>>
        BY <2>1
      <3>2. r[1] = x /\ r[2] = y /\ (r = <<n + 1, p>> <=> x = n + 1 /\ y = p)
        BY <3>1
      <3> QED
        BY <1>2, <1>3, <2>1, <3>2 DEF PlacesTo, T
    <2>2. CASE r \notin Nat \X Nat
      BY <1>3, <2>2 DEF PlacesTo
    <2> QED
      BY <2>1, <2>2
  <1>5. <<n + 1, p>> \notin PlacesTo(s, n, p)
    BY <1>3 DEF PlacesTo
  <1>6. ASSUME NEW r \in PlacesTo(s, n, p) PROVE Before(r, <<n + 1, p>>)
    BY <1>3 DEF PlacesTo, Before
  <1> QED
    BY <1>4, <1>5, <1>6 DEF a

\* What the properties call reports are places.
LEMMA ReportsAre ==
  ASSUME NEW typ, next \in Nat \ {0}, \A i \in 1 .. next - 1 : Tagged(events, i)
         => IsBlock(events[i].block)
  PROVE  Reports(typ) = {r \in PlacesTo(events, next - 1, 0) : Sub(r).typ = typ}
  <1>1. \A i : i \in Considered <=> i \in 1 .. next - 1 /\ Tagged(events, i)
    BY DEF Considered, Tagged, Open, Sep
  <1>2. \A i \in Considered : \A p \in TopLevel(events[i].block) : p \in Nat /\ i \in Nat
    BY <1>1, TopIs, BlockType
  <1>3. ASSUME NEW r
        PROVE  r \in UNION {{i} \X TopLevel(events[i].block) : i \in Considered}
                 <=> r \in PlacesTo(events, next - 1, 0)
    <2>1. r \in UNION {{i} \X TopLevel(events[i].block) : i \in Considered}
            <=> \E i \in Considered : \E p \in TopLevel(events[i].block) : r = <<i, p>>
      OBVIOUS
    <2>2. r \in PlacesTo(events, next - 1, 0)
            <=> \E i, p \in Nat : r = <<i, p>> /\ i \in Considered
              /\ p \in TopLevel(events[i].block)
      BY <1>1 DEF PlacesTo
    <2> QED
      BY <1>2, <2>1, <2>2
  <1> QED
    BY <1>3 DEF Reports

-----------------------------------------------------------------------------
(***************************************************************************)
(* The fields of an aggregation, as its sub-events are read.               *)
(***************************************************************************)

\* A set of places that is not empty has a last one.
LEMMA GreatestPlace ==
  ASSUME NEW n \in Nat, NEW S, S \subseteq 1 .. n, S # {}
  PROVE  \E m \in S : \A x \in S : x <= m
  <1> DEFINE T == {k \in Nat : n - k \in S}
  <1>1. PICK x \in S : TRUE
    OBVIOUS
  <1>2. n - x \in Nat /\ n - (n - x) = x
    BY <1>1
  <1>3. n - x \in T
    BY <1>1, <1>2
  <1>4. T \subseteq Nat /\ T # {}
    BY <1>3
  <1>5. PICK k \in T : \A j \in T : k <= j
    <2> HIDE DEF T
    <2> QED
      BY <1>4, LeastPlace
  <1>6. ASSUME NEW y \in S PROVE y <= n - k
    <2>1. n - y \in Nat /\ n - (n - y) = y
      OBVIOUS
    <2>2. k <= n - y /\ k \in Nat
      BY <1>5, <2>1
    <2> QED
      BY <2>1, <2>2
  <1> QED
    BY <1>5, <1>6

\* The last sub-event of kind f among Q.
LastAt(b, Q, f, q) ==
  Q \subseteq Nat /\ q \in Q /\ b[q].typ = f /\ \A t \in Q : b[t].typ = f => t <= q

\* A field has the value of the last sub-event of its kind, if there is one.
LEMMA FieldIs ==
  ASSUME NEW b, NEW Q, NEW fields, NEW f \in fields, NEW q, LastAt(b, Q, f, q)
  PROVE  FieldsOf(b, Q, fields)[f] = b[q].value
  <1> DEFINE c == CHOOSE x \in Q : b[x].typ = f /\ \A t \in Q : b[t].typ = f => t <= x
  <1>1. c \in Q /\ b[c].typ = f /\ \A t \in Q : b[t].typ = f => t <= c
    BY DEF LastAt
  <1>2. FieldsOf(b, Q, fields)[f] = IF \E x \in Q : b[x].typ = f THEN b[c].value ELSE Unset(f)
    BY DEF FieldsOf
  <1> HIDE DEF c
  <1>3. c = q
    BY <1>1 DEF LastAt
  <1> QED
    BY <1>2, <1>3 DEF LastAt

\* A field without a sub-event of its kind is unset.
LEMMA FieldUnset ==
  ASSUME NEW b, NEW Q, NEW fields, NEW f \in fields, \A q \in Q : b[q].typ # f
  PROVE  FieldsOf(b, Q, fields)[f] = Unset(f)
  BY DEF FieldsOf

\* A field that has a value other than its first was reported.
LEMMA FieldReported ==
  ASSUME NEW b, NEW Q, NEW fields, NEW f \in fields, FieldsOf(b, Q, fields)[f] # Unset(f)
  PROVE  \E q \in Q : b[q].typ = f
  BY DEF FieldsOf

\* The fields are a function of their names.
LEMMA FieldsDomain ==
  ASSUME NEW b, NEW Q, NEW fields
  PROVE  FieldsOf(b, Q, fields) = [f \in fields |-> FieldsOf(b, Q, fields)[f]]
  BY DEF FieldsOf

\* One more sub-event sets its own field and no other.
LEMMA FieldsNext ==
  ASSUME NEW b, NEW a \in Nat, NEW p \in Nat, a < p, NEW fields
  PROVE  FieldsOf(b, a + 1 .. p, fields)
           = IF b[p].typ \in fields
               THEN [FieldsOf(b, a + 1 .. p - 1, fields) EXCEPT ![b[p].typ] = b[p].value]
               ELSE FieldsOf(b, a + 1 .. p - 1, fields)
  <1> DEFINE Q == a + 1 .. p - 1
             R == a + 1 .. p
             A == FieldsOf(b, Q, fields)
             B == FieldsOf(b, R, fields)
  <1>1. /\ Q \subseteq Nat /\ R \subseteq Nat /\ p - 1 \in Nat /\ p \in R /\ \A t \in R : t <= p
        /\ R = Q \cup {p} /\ Q \subseteq 1 .. p - 1
    OBVIOUS
  <1> HIDE DEF Q, R
  <1>2. ASSUME b[p].typ \in fields PROVE B[b[p].typ] = b[p].value
    <2>1. LastAt(b, R, b[p].typ, p)
      BY <1>1 DEF LastAt
    <2> QED
      BY <1>2, <2>1, FieldIs
  <1>3. ASSUME NEW f \in fields, b[p].typ # f PROVE B[f] = A[f]
    <2>1. CASE \A q \in Q : b[q].typ # f
      <3>1. \A q \in R : b[q].typ # f
        BY <1>1, <1>3, <2>1
      <3>2. A[f] = Unset(f)
        BY <2>1, FieldUnset, Zenon
      <3>3. B[f] = Unset(f)
        BY <3>1, FieldUnset, Zenon
      <3> QED
        BY <3>2, <3>3
    <2>2. CASE \E q \in Q : b[q].typ = f
      <3> DEFINE S == {q \in Q : b[q].typ = f}
      <3>1. S \subseteq 1 .. p - 1 /\ S # {}
        BY <1>1, <2>2
      <3>2. PICK q \in S : \A t \in S : t <= q
        <4> HIDE DEF S
        <4> QED
          BY <1>1, <3>1, GreatestPlace
      <3>3. LastAt(b, Q, f, q)
        BY <1>1, <3>2 DEF LastAt
      <3>4. LastAt(b, R, f, q)
        BY <1>1, <1>3, <3>3 DEF LastAt
      <3> HIDE DEF S
      <3>6. A[f] = b[q].value
        BY <3>3, FieldIs
      <3>7. B[f] = b[q].value
        BY <3>4, FieldIs
      <3> QED
        BY <3>6, <3>7
    <2> QED
      BY <2>1, <2>2
  <1>4. A = [f \in fields |-> A[f]] /\ B = [f \in fields |-> B[f]]
    <2> QED
      BY FieldsDomain
  <1> HIDE DEF A, B
  <1>5. b[p].typ \in fields => B = [A EXCEPT ![b[p].typ] = b[p].value]
    BY <1>2, <1>3, <1>4
  <1>6. b[p].typ \notin fields => B = A
    BY <1>3, <1>4
  <1> QED
    BY <1>5, <1>6 DEF A, B, Q, R

\* The fields of the aggregation a when the sub-events before p are read.
FieldsRead(b, a, p, fields) == FieldsOf(b, a + 1 .. p - 1, fields)

\* What the sub-event x makes of the fields.
SetBy(A, x, fields) == IF x.typ \in fields THEN [A EXCEPT ![x.typ] = x.value] ELSE A

\* The fields up to the next place are set by the sub-event in between.
LEMMA FieldsUpTo ==
  ASSUME NEW b, NEW a \in Nat, NEW p \in Nat, a < p, NEW fields
  PROVE  FieldsRead(b, a, p + 1, fields) = SetBy(FieldsRead(b, a, p, fields), b[p], fields)
  <1>1. (p + 1) - 1 = p
    OBVIOUS
  <1> QED
    BY <1>1, FieldsNext DEF FieldsRead, SetBy

-----------------------------------------------------------------------------
(***************************************************************************)
(* Frames.  The outermost is that of an aggregation outside the others,    *)
(* which ends where its frame does, and no frame ends after one around it. *)
(***************************************************************************)

\* The values of the sub-events of a log.
ValuesIn(s) ==
  UNION {{s[k].block[p].value : p \in DOMAIN s[k].block} :
           k \in {i \in DOMAIN s : s[i].typ = "EventTag"}}
WinValues == {"nil", "zero"} \cup UNION {ValuesIn(s) : s \in WinInputs}

KindOf(x) == IF x.typ = "elamAggregation" THEN "elam" ELSE "lma"
FieldSet(kind) == IF kind = "elam" THEN ELAMFields ELSE LMAFields
FrameType ==
  [kind : {"lma", "elam"}, end : Nat,
   fields : [LMAFields -> WinValues] \cup [ELAMFields -> WinValues]]

FramesNest(p, fs) ==
  /\ fs \in Seq(FrameType)
  /\ \A i \in 1 .. Len(fs) :
       p <= fs[i].end /\ fs[i].fields \in [FieldSet(fs[i].kind) -> WinValues]
  /\ \A i, j \in 1 .. Len(fs) : i <= j => fs[j].end <= fs[i].end /\ fs[j].kind = fs[i].kind

\* a is the aggregation of the outermost frame.
Outer(b, p, fs, a) ==
  /\ a \in TopLevel(b) /\ b[a].typ \in Aggregations /\ After(b, a) = fs[1].end /\ a < p
  /\ fs[1].kind = KindOf(b[a])
  /\ fs[1].kind = "lma" => Len(fs) = 1 /\ fs[1].fields = FieldsRead(b, a, p, LMAFields)
OuterOf(b, fs) == CHOOSE a \in TopLevel(b) : After(b, a) = fs[1].end

FramesOK(b, p, fs) ==
  /\ FramesNest(p, fs)
  /\ fs = << >> /\ p <= Len(b) => p \in TopLevel(b)
  /\ fs # << >> => Outer(b, p, fs, OuterOf(b, fs))

\* Two aggregations outside the others do not end at the same place.
LEMMA OuterIs ==
  ASSUME NEW b, IsBlock(b), NEW fs, NEW a \in TopLevel(b), After(b, a) = fs[1].end
  PROVE  OuterOf(b, fs) = a
  <1> DEFINE c == CHOOSE x \in TopLevel(b) : After(b, x) = fs[1].end
  <1>1. c \in TopLevel(b) /\ After(b, c) = fs[1].end
    OBVIOUS
  <1>2. \A x \in TopLevel(b) : x \in Nat /\ x < After(b, x) /\ After(b, x) \in Nat
    BY TopIs, BlockType
  <1> HIDE DEF c
  <1>3. ~(c < a)
    <2> SUFFICES ASSUME c < a PROVE FALSE
      OBVIOUS
    <2>1. After(b, c) <= a
      BY <1>1, TopGap
    <2> QED
      BY <1>1, <1>2, <2>1
  <1>4. ~(a < c)
    <2> SUFFICES ASSUME a < c PROVE FALSE
      OBVIOUS
    <2>1. After(b, a) <= c
      BY <1>1, TopGap
    <2> QED
      BY <1>1, <1>2, <2>1
  <1>5. c = a
    BY <1>1, <1>2, <1>3, <1>4
  <1> QED
    BY <1>5 DEF OuterOf, c

\* What the frames of a block say of the innermost.
LEMMA InnerFrame ==
  ASSUME NEW b, IsBlock(b), NEW p \in Nat, NEW fs, FramesOK(b, p, fs), fs # << >>
  PROVE  /\ Len(fs) \in Nat \ {0} /\ 1 \in 1 .. Len(fs) /\ Len(fs) \in 1 .. Len(fs)
         /\ fs[Len(fs)] \in FrameType /\ fs[1] \in FrameType
         /\ p <= fs[Len(fs)].end /\ fs[Len(fs)].end <= fs[1].end
         /\ fs[Len(fs)].fields \in [FieldSet(fs[Len(fs)].kind) -> WinValues]
         /\ fs[Len(fs)].kind = fs[1].kind
         /\ fs[1].kind = "lma" => Len(fs) = 1
         /\ Outer(b, p, fs, OuterOf(b, fs))
  <1>1. fs \in Seq(FrameType)
    BY DEF FramesOK, FramesNest
  <1>2. Len(fs) \in Nat /\ Len(fs) # 0 /\ DOMAIN fs = 1 .. Len(fs)
    BY <1>1, LenProperties, EmptySeq
  <1>3. 1 \in 1 .. Len(fs) /\ Len(fs) \in 1 .. Len(fs)
    BY <1>2
  <1>4. fs[1] \in FrameType /\ fs[Len(fs)] \in FrameType
    BY <1>1, <1>3, ElementOfSeq
  <1> QED
    BY <1>2, <1>3, <1>4 DEF FramesOK, FramesNest, Outer

\* The frame of an aggregation when its reading starts.
NewFrame(b, p, kind) ==
  [kind |-> kind, end |-> After(b, p), fields |-> [f \in FieldSet(kind) |-> Unset(f)]]

\* A new frame has the type of frames.
LEMMA NewFrameType ==
  ASSUME NEW b, IsBlock(b), NEW p \in 1 .. Len(b), NEW kind \in {"lma", "elam"}
  PROVE  /\ NewFrame(b, p, kind) \in FrameType
         /\ NewFrame(b, p, kind).kind = kind /\ NewFrame(b, p, kind).end = After(b, p)
         /\ NewFrame(b, p, kind).fields = [f \in FieldSet(kind) |-> Unset(f)]
         /\ NewFrame(b, p, kind).fields \in [FieldSet(kind) -> WinValues]
  <1>1. After(b, p) \in Nat
    BY BlockType
  <1>2. [f \in FieldSet(kind) |-> Unset(f)] \in [FieldSet(kind) -> WinValues]
    BY DEF Unset, WinValues
  <1>3. [f \in FieldSet(kind) |-> Unset(f)]
          \in [LMAFields -> WinValues] \cup [ELAMFields -> WinValues]
    BY <1>2 DEF FieldSet
  <1> QED
    BY <1>1, <1>2, <1>3 DEF NewFrame, FrameType

\* Before its sub-events are read the fields of an aggregation are unset.
LEMMA NoFields ==
  ASSUME NEW b, NEW p \in Nat, NEW fields
  PROVE  FieldsRead(b, p, p + 1, fields) = [f \in fields |-> Unset(f)]
  <1>1. \A q : q \notin p + 1 .. (p + 1) - 1
    OBVIOUS
  <1> QED
    BY <1>1 DEF FieldsRead, FieldsOf

\* The reading of an aggregation starts.
LEMMA FramesStart ==
  ASSUME NEW b, IsBlock(b), NEW p \in TopLevel(b), b[p].typ \in Aggregations, NEW fs,
         fs = <<NewFrame(b, p, KindOf(b[p]))>>
  PROVE  FramesOK(b, p + 1, fs) /\ OuterOf(b, fs) = p
  <1> DEFINE k == KindOf(b[p])
             x == NewFrame(b, p, k)
  <1>1. p \in 1 .. Len(b) /\ Len(b) \in Nat
    BY TopIs, BlockType
  <1>2. k \in {"lma", "elam"}
    BY DEF KindOf
  <1>3. /\ x \in FrameType /\ x.kind = k /\ x.end = After(b, p)
        /\ x.fields = [f \in FieldSet(k) |-> Unset(f)] /\ x.fields \in [FieldSet(k) -> WinValues]
    <2> HIDE DEF k
    <2>1. /\ NewFrame(b, p, k) \in FrameType
          /\ NewFrame(b, p, k).kind = k /\ NewFrame(b, p, k).end = After(b, p)
          /\ NewFrame(b, p, k).fields = [f \in FieldSet(k) |-> Unset(f)]
          /\ NewFrame(b, p, k).fields \in [FieldSet(k) -> WinValues]
      BY <1>1, <1>2, NewFrameType, Zenon
    <2> HIDE DEF x
    <2> QED
      BY <2>1 DEF x
  <1> HIDE DEF x, k
  <1>4. fs = <<x>> /\ fs \in Seq(FrameType) /\ Len(fs) = 1 /\ fs[1] = x /\ fs # << >>
    BY <1>3 DEF x, k
  <1>5. OuterOf(b, fs) = p
    BY <1>3, <1>4, OuterIs
  <1>6. p + 1 <= After(b, p) /\ p < p + 1 /\ (p + 1) - 1 = p /\ p \in Nat
    BY <1>1, BlockType DEF After
  <1>7. FramesNest(p + 1, fs)
    <2>1. \A i \in 1 .. Len(fs) : i = 1 /\ fs[i] = x
      BY <1>4
    <2>2. x.end \in Nat /\ p + 1 <= x.end /\ x.end <= x.end
      BY <1>1, <1>3, <1>6, BlockType
    <2> QED
      BY <1>3, <1>4, <2>1, <2>2 DEF FramesNest
  <1>8. k = "lma" => x.fields = FieldsRead(b, p, p + 1, LMAFields)
    BY <1>3, <1>6, NoFields DEF FieldSet
  <1>9. Outer(b, p + 1, fs, p)
    BY <1>3, <1>4, <1>6, <1>8 DEF Outer, k
  <1> QED
    BY <1>4, <1>5, <1>7, <1>9 DEF FramesOK

\* The innermost frame with a field that has been set.
SetTop(fs, t, v) == [fs EXCEPT ![Len(fs)].fields[t] = v]

\* A sub-event of an aggregation sets a field.
LEMMA FramesSet ==
  ASSUME NEW b, IsBlock(b), NEW p \in 1 .. Len(b), NEW fs, FramesOK(b, p, fs), fs # << >>,
         p < fs[Len(fs)].end, b[p].typ \in FieldSet(fs[Len(fs)].kind), b[p].value \in WinValues,
         NEW g, g = SetTop(fs, b[p].typ, b[p].value)
  PROVE  /\ FramesOK(b, p + 1, g) /\ OuterOf(b, g) = OuterOf(b, fs)
         /\ g # << >> /\ Len(g) = Len(fs)
         /\ \A i \in 1 .. Len(fs) : g[i].kind = fs[i].kind /\ g[i].end = fs[i].end
         /\ g[Len(g)].fields = [fs[Len(fs)].fields EXCEPT ![b[p].typ] = b[p].value]
  <1> DEFINE L == Len(fs)
             y == fs[L]
             z == [kind |-> y.kind, end |-> y.end,
                   fields |-> [y.fields EXCEPT ![b[p].typ] = b[p].value]]
             a == OuterOf(b, fs)
  <1>1. /\ L \in Nat \ {0} /\ 1 \in 1 .. L /\ L \in 1 .. L /\ y \in FrameType /\ fs[1] \in FrameType
        /\ y.end <= fs[1].end /\ y.fields \in [FieldSet(y.kind) -> WinValues] /\ y.kind = fs[1].kind
        /\ fs[1].kind = "lma" => L = 1
        /\ Outer(b, p, fs, a)
    BY BlockType, InnerFrame
  <1>2. /\ fs \in Seq(FrameType)
        /\ \A i \in 1 .. L : fs[i].fields \in [FieldSet(fs[i].kind) -> WinValues]
        /\ \A i, j \in 1 .. L : i <= j => fs[j].end <= fs[i].end /\ fs[j].kind = fs[i].kind
    BY DEF FramesOK, FramesNest
  <1>3. \A i \in 1 .. L : fs[i] \in FrameType
    BY <1>2, ElementOfSeq
  <1> HIDE DEF y
  <1>4. /\ z.kind = y.kind /\ z.end = y.end
        /\ z.fields = [y.fields EXCEPT ![b[p].typ] = b[p].value]
        /\ z = [kind |-> z.kind, end |-> z.end, fields |-> z.fields]
    OBVIOUS
  <1>5. z.fields \in [FieldSet(y.kind) -> WinValues]
    <2> HIDE DEF z
    <2> QED
      BY <1>1, <1>4 DEF y
  <1>6. z \in FrameType
    <2>1. y.kind \in {"lma", "elam"} /\ y.end \in Nat
      BY <1>1 DEF FrameType
    <2> HIDE DEF z
    <2> QED
      BY <1>4, <1>5, <2>1 DEF FrameType, FieldSet
  <1>7. g = [fs EXCEPT ![L] = z]
    <2>1. z = [y EXCEPT !.fields[b[p].typ] = b[p].value]
      BY <1>1 DEF FrameType
    <2> HIDE DEF z
    <2> QED
      BY <1>1, <1>2, <2>1 DEF y, SetTop
  <1> HIDE DEF z, L
  <1>8. g \in Seq(FrameType) /\ Len(g) = L /\ \A i \in 1 .. L : g[i] = IF i = L THEN z ELSE fs[i]
    <2>1. fs \in Seq(FrameType) /\ L \in 1 .. Len(fs) /\ L = Len(fs)
      BY <1>1, <1>2 DEF L
    <2> HIDE DEF L
    <2> QED
      BY <1>6, <1>7, <2>1, ExceptSeq
  <1>9. /\ \A i \in 1 .. L : g[i].kind = fs[i].kind /\ g[i].end = fs[i].end
        /\ g # << >> /\ g[L].fields = z.fields
    BY <1>1, <1>4, <1>8 DEF y
  <1>10. \A i \in 1 .. L : p + 1 <= fs[i].end /\ fs[i].end \in Nat
    BY <1>1, <1>2, <1>3 DEF y, FrameType, L
  <1>11. \A i \in 1 .. L : g[i].fields \in [FieldSet(fs[i].kind) -> WinValues]
    BY <1>2, <1>5, <1>8 DEF y
  <1>12. FramesNest(p + 1, g)
    BY <1>2, <1>8, <1>9, <1>10, <1>11 DEF FramesNest
  <1>13. After(b, a) = g[1].end /\ a \in TopLevel(b)
    BY <1>1, <1>9 DEF Outer
  <1>14. OuterOf(b, g) = a
    BY <1>13, OuterIs
  <1>15. Outer(b, p + 1, g, a)
    <2>1. a \in Nat /\ a < p /\ p \in Nat /\ (p + 1) - 1 = p /\ a < p + 1
      BY <1>1, TopIs, BlockType DEF Outer
    <2>2. ASSUME fs[1].kind = "lma"
          PROVE  g[1].fields = FieldsRead(b, a, p + 1, LMAFields)
      <3>1. L = 1 /\ y.fields = FieldsRead(b, a, p, LMAFields)
        BY <1>1, <2>2 DEF Outer, y
      <3>2. g[1].fields = [y.fields EXCEPT ![b[p].typ] = b[p].value]
        BY <1>4, <1>9, <3>1
      <3>3. b[p].typ \in LMAFields
        BY <1>1, <2>2 DEF FieldSet, y, L
      <3> HIDE DEF a
      <3>4. FieldsRead(b, a, p + 1, LMAFields)
              = [FieldsRead(b, a, p, LMAFields) EXCEPT ![b[p].typ] = b[p].value]
        <4>1. FieldsRead(b, a, p + 1, LMAFields)
                = SetBy(FieldsRead(b, a, p, LMAFields), b[p], LMAFields)
          BY <2>1, FieldsUpTo
        <4> QED
          BY <3>3, <4>1 DEF SetBy
      <3> QED
        BY <3>1, <3>2, <3>4
    <2> QED
      BY <1>1, <1>8, <1>9, <1>13, <2>1, <2>2 DEF Outer
  <1> QED
    BY <1>4, <1>8, <1>9, <1>12, <1>14, <1>15 DEF FramesOK, L, y

\* A sub-event of a loaded module that is not one of its fields.
LEMMA FramesMove ==
  ASSUME NEW b, IsBlock(b), NEW p \in 1 .. Len(b), NEW fs, FramesOK(b, p, fs), fs # << >>,
         p < fs[Len(fs)].end, fs[Len(fs)].kind = "lma", b[p].typ \notin LMAFields
  PROVE  FramesOK(b, p + 1, fs)
  <1> DEFINE a == OuterOf(b, fs)
  <1>1. /\ Len(fs) = 1 /\ fs[1] \in FrameType /\ Outer(b, p, fs, a)
    BY BlockType, InnerFrame
  <1> HIDE DEF a
  <1>2. a \in Nat /\ a < p /\ p \in Nat /\ (p + 1) - 1 = p /\ a < p + 1 /\ fs[1].end \in Nat
    BY <1>1, TopIs, BlockType DEF Outer, FrameType
  <1>3. FieldsRead(b, a, p + 1, LMAFields) = FieldsRead(b, a, p, LMAFields)
    <2>1. FieldsRead(b, a, p + 1, LMAFields)
            = SetBy(FieldsRead(b, a, p, LMAFields), b[p], LMAFields)
      BY <1>2, FieldsUpTo
    <2> QED
      BY <2>1 DEF SetBy
  <1>4. Outer(b, p + 1, fs, a)
    BY <1>1, <1>2, <1>3 DEF Outer
  <1>5. \A i \in 1 .. Len(fs) : i = 1 /\ p + 1 <= fs[i].end
    BY <1>1, <1>2
  <1>6. FramesNest(p + 1, fs)
    BY <1>5 DEF FramesOK, FramesNest
  <1> QED
    BY <1>4, <1>6 DEF FramesOK, a

\* The reading of a nested aggregation starts.
CanPush(b, p, fs) ==
  /\ IsBlock(b) /\ p \in 1 .. Len(b) /\ FramesOK(b, p, fs) /\ fs # << >>
  /\ p < fs[Len(fs)].end /\ fs[Len(fs)].kind = "elam" /\ After(b, p) <= fs[Len(fs)].end
Pushed(b, p, fs, g) ==
  /\ FramesOK(b, p + 1, g) /\ OuterOf(b, g) = OuterOf(b, fs)
  /\ g # << >> /\ Len(g) = Len(fs) + 1 /\ g[Len(fs) + 1] = NewFrame(b, p, "elam")
  /\ \A i \in 1 .. Len(fs) : g[i] = fs[i]

\* The frames with one for the nested aggregation are as they should be.
LEMMA FramesPush ==
  ASSUME NEW b, NEW p, NEW fs, CanPush(b, p, fs)
  PROVE  Pushed(b, p, fs, Append(fs, NewFrame(b, p, "elam")))
  <1> USE DEF CanPush
  <1> DEFINE g == Append(fs, NewFrame(b, p, "elam"))
  <1> DEFINE L == Len(fs)
             x == NewFrame(b, p, "elam")
             a == OuterOf(b, fs)
  <1>1. /\ L \in Nat \ {0} /\ 1 \in 1 .. L /\ L \in 1 .. L /\ fs[1] \in FrameType
        /\ fs[L].kind = fs[1].kind /\ fs[L] \in FrameType
        /\ Outer(b, p, fs, a)
    BY BlockType, InnerFrame
  <1>2. /\ fs \in Seq(FrameType)
        /\ \A i \in 1 .. L : fs[i].fields \in [FieldSet(fs[i].kind) -> WinValues]
        /\ \A i, j \in 1 .. L : i <= j => fs[j].end <= fs[i].end /\ fs[j].kind = fs[i].kind
    BY DEF FramesOK, FramesNest
  <1>3. \A i \in 1 .. L : fs[i] \in FrameType /\ fs[i].end \in Nat
    <2>1. \A i \in 1 .. L : fs[i] \in FrameType
      BY <1>2, ElementOfSeq
    <2> QED
      BY <2>1 DEF FrameType
  <1>4. /\ x \in FrameType /\ x.kind = "elam" /\ x.end = After(b, p)
        /\ x.fields \in [FieldSet("elam") -> WinValues]
    BY NewFrameType
  <1>5. After(b, p) \in Nat /\ p + 1 <= After(b, p) /\ p \in Nat
    BY BlockType DEF After
  <1> HIDE DEF x, a
  <1>6. /\ g \in Seq(FrameType) /\ Len(g) = L + 1 /\ g[L + 1] = x
        /\ \A i \in 1 .. L : g[i] = fs[i]
    BY <1>2, <1>4, AppendProperties DEF x
  <1> HIDE DEF g
  <1> HIDE DEF L
  <1>7. \A i \in 1 .. L : p + 1 <= fs[i].end /\ After(b, p) <= fs[i].end /\ fs[i].kind = "elam"
    BY <1>1, <1>2, <1>3, <1>5 DEF L
  <1>8. \A i \in 1 .. L + 1 : i = L + 1 \/ i \in 1 .. L
    BY <1>1
  <1>9. \A i \in 1 .. L + 1 : p + 1 <= g[i].end
          /\ g[i].fields \in [FieldSet(g[i].kind) -> WinValues]
    BY <1>2, <1>4, <1>5, <1>6, <1>7, <1>8
  <1>10. ASSUME NEW i \in 1 .. L + 1, NEW j \in 1 .. L + 1, i <= j
         PROVE  g[j].end <= g[i].end /\ g[j].kind = g[i].kind
    <2>1. CASE j \in 1 .. L
      <3>1. i \in 1 .. L
        BY <1>1, <1>10, <2>1
      <3> QED
        BY <1>2, <1>6, <1>10, <2>1, <3>1
    <2>2. CASE j = L + 1
      BY <1>4, <1>5, <1>6, <1>7, <1>8, <2>2
    <2> QED
      BY <1>8, <2>1, <2>2
  <1>11. FramesNest(p + 1, g)
    BY <1>6, <1>9, <1>10 DEF FramesNest
  <1>12. g[1] = fs[1] /\ g # << >> /\ fs[1].kind = "elam"
    BY <1>1, <1>6, <1>7
  <1>13. OuterOf(b, g) = a /\ a < p + 1
    <2>1. a \in TopLevel(b) /\ After(b, a) = g[1].end /\ a < p
      BY <1>1, <1>12 DEF Outer
    <2>2. a \in Nat
      BY <2>1, TopIs
    <2>3. OuterOf(b, g) = a
      BY <2>1, OuterIs, Zenon
    <2> QED
      BY <1>5, <2>1, <2>2, <2>3
  <1>14. Outer(b, p + 1, g, a)
    BY <1>1, <1>12, <1>13 DEF Outer
  <1> QED
    BY <1>6, <1>11, <1>12, <1>13, <1>14 DEF FramesOK, Pushed, L, x, a, g

\* n frames are left if those that have no data after q are not.
Pops(fs, q, n) ==
  /\ n \in 0 .. Len(fs) - 1
  /\ \A i \in 1 .. n : fs[i].end > q
  /\ \A i \in n + 1 .. Len(fs) - 1 : fs[i].end <= q

\* An ELAM aggregation is left, and with it those around it that end at the same place.
CanPop(b, p, fs, q, n) ==
  /\ IsBlock(b) /\ p \in Nat /\ FramesOK(b, p, fs) /\ fs # << >> /\ fs[Len(fs)].kind = "elam"
  /\ q \in {p, p + 1} /\ q <= fs[Len(fs)].end /\ (Len(fs) = 1 => q = fs[1].end)
  /\ Pops(fs, q, n)
Popped(b, fs, q, n, g) ==
  /\ FramesOK(b, q, g)
  /\ n # 0 => OuterOf(b, g) = OuterOf(b, fs) /\ g # << >> /\ Len(g) = n /\ g[1] = fs[1]
  /\ n = 0 => g = << >> /\ q = fs[1].end

\* The frames that are left are as they should be.
LEMMA FramesPop ==
  ASSUME NEW b, NEW p, NEW fs, NEW q, NEW n, CanPop(b, p, fs, q, n)
  PROVE  Popped(b, fs, q, n, SubSeq(fs, 1, n))
  <1> USE DEF CanPop
  <1> DEFINE g == SubSeq(fs, 1, n)
  <1> SUFFICES Popped(b, fs, q, n, g)
    OBVIOUS
  <1> DEFINE L == Len(fs)
             a == OuterOf(b, fs)
  <1>1. /\ L \in Nat \ {0} /\ 1 \in 1 .. L /\ L \in 1 .. L /\ fs[1] \in FrameType
        /\ fs[L].kind = fs[1].kind /\ fs[L] \in FrameType /\ fs[L].end <= fs[1].end
        /\ Outer(b, p, fs, a)
    BY InnerFrame
  <1>2. /\ fs \in Seq(FrameType)
        /\ \A i \in 1 .. L : fs[i].fields \in [FieldSet(fs[i].kind) -> WinValues]
        /\ \A i, j \in 1 .. L : i <= j => fs[j].end <= fs[i].end /\ fs[j].kind = fs[i].kind
    BY DEF FramesOK, FramesNest
  <1>3. \A i \in 1 .. L : fs[i] \in FrameType /\ fs[i].end \in Nat
    <2>1. \A i \in 1 .. L : fs[i] \in FrameType
      BY <1>2, ElementOfSeq
    <2> QED
      BY <2>1 DEF FrameType
  <1>4. a \in TopLevel(b) /\ After(b, a) = fs[1].end /\ fs[1].kind = "elam" /\ a < p /\ a \in Nat
    BY <1>1, TopIs DEF Outer
  <1> HIDE DEF a
  <1>5. n \in Nat /\ n <= L /\ \A i \in 1 .. n : i \in 1 .. L
    BY <1>1 DEF Pops
  <1>6. /\ g \in Seq(FrameType) /\ Len(g) = n /\ \A i \in 1 .. n : g[i] = fs[i]
    <2>1. \A i \in 1 .. n : fs[i] \in FrameType
      BY <1>3, <1>5
    <2> QED
      BY <1>2, <1>5, <2>1, SubSeqProperties
  <1> HIDE DEF g
  <1>7. FramesNest(q, g)
    <2>1. \A i \in 1 .. n : q <= fs[i].end
      BY <1>3, <1>5 DEF Pops
    <2> HIDE DEF L
    <2>2. \A i \in 1 .. n : q <= g[i].end /\ g[i].fields \in [FieldSet(g[i].kind) -> WinValues]
      BY <1>2, <1>5, <1>6, <2>1
    <2>3. \A i, j \in 1 .. n : i <= j => g[j].end <= g[i].end /\ g[j].kind = g[i].kind
      BY <1>2, <1>5, <1>6
    <2> QED
      BY <1>6, <2>2, <2>3 DEF FramesNest
  <1>8. CASE n = 0
    <2>1. g = << >>
      BY <1>6, <1>8, EmptySeq
    <2>2. q = fs[1].end
      <3>1. CASE L = 1
        BY <3>1
      <3>2. CASE L # 1
        <4>1. 1 \in n + 1 .. L - 1
          <5>1. L \in Nat /\ L # 0
            BY <1>1
          <5> HIDE DEF L
          <5> QED
            BY <1>8, <3>2, <5>1
        <4>2. fs[1].end <= q
          BY <4>1 DEF Pops
        <4> QED
          BY <1>1, <1>3, <4>2
      <3> QED
        BY <3>1, <3>2
    <2>3. q <= Len(b) => q \in TopLevel(b)
      BY <1>4, <2>2, TopIs
    <2> QED
      BY <1>7, <1>8, <2>1, <2>2, <2>3 DEF FramesOK, Popped
  <1>9. CASE n # 0
    <2>1. g[1] = fs[1] /\ g # << >>
      BY <1>5, <1>6, <1>9
    <2>2. OuterOf(b, g) = a
      BY <1>4, <2>1, OuterIs
    <2>3. Outer(b, q, g, a)
      <3>1. a < q
        BY <1>4
      <3> QED
        BY <1>1, <1>4, <2>1, <3>1 DEF Outer
    <2> QED
      BY <1>6, <1>7, <1>9, <2>1, <2>2, <2>3 DEF FramesOK, Popped, a
  <1> QED
    BY <1>8, <1>9

\* The place after an aggregation that is outside others is outside aggregations.
LEMMA FramesLeft ==
  ASSUME NEW b, IsBlock(b), NEW p \in Nat, NEW fs, FramesOK(b, p, fs), fs # << >>, p = fs[1].end
  PROVE  FramesOK(b, p, << >>)
  <1> DEFINE a == OuterOf(b, fs)
  <1>1. a \in TopLevel(b) /\ After(b, a) = p
    BY InnerFrame DEF Outer
  <1> HIDE DEF a
  <1>2. p <= Len(b) => p \in TopLevel(b)
    BY <1>1, TopIs
  <1>3. FramesNest(p, << >>)
    BY DEF FramesNest
  <1> QED
    BY <1>2, <1>3 DEF FramesOK

\* Outside aggregations there is no frame.
LEMMA FramesNone ==
  ASSUME NEW b, IsBlock(b), NEW p \in Nat, p <= Len(b) => p \in TopLevel(b)
  PROVE  FramesOK(b, p, << >>)
  BY DEF FramesOK, FramesNest

-----------------------------------------------------------------------------
(***************************************************************************)
(* The types of what ParseWinEvents keeps.                                 *)
(***************************************************************************)

\* Maps that are indexed by values of the log.
Maps(V) == UNION {[S -> V] : S \in SUBSET WinValues}
ModuleType == [fields : [LMAFields -> WinValues], ImageBase : Seq(WinValues)]
WinRecords ==
  [latched : [ByteLatches -> BOOLEAN], ternary : [Ternaries -> {"Unknown", "True", "False"}],
   BootCount : WinValues, ColdBoot : BOOLEAN, BitlockerUnlocks : Seq(WinValues),
   LoadedModules : Maps(ModuleType), ELAM : Maps([ELAMFields -> WinValues])]

WinTypes ==
  /\ events \in WinInputs
  /\ next \in 1 .. Len(events) + 1
  /\ result \in {"none", "ok", "error"}
  /\ win \in WinRecords
  /\ seenSeparator = {i \in {12, 13} : ~Open(events, i, next - 1)}
  /\ pos \in Nat
  /\ pos = 0 => frames = << >>
  /\ pos # 0 => /\ next <= Len(events) /\ Tagged(events, next) /\ pos <= Len(e.block) + 1
                /\ FramesOK(e.block, pos, frames)

\* What is true of every log.
LEMMA WinLog ==
  ASSUME NEW s \in WinInputs
  PROVE  /\ Len(s) \in Nat
         /\ \A k \in 1 .. Len(s) : Tagged(s, k) =>
              IsBlock(s[k].block)
                /\ \A p \in 1 .. Len(s[k].block) : s[k].block[p].value \in WinValues
  <1>1. IsSequence(s)
    BY WinInputsAssumption
  <1>2. Len(s) \in Nat /\ DOMAIN s = 1 .. Len(s)
    BY <1>1, LenProperties DEF IsSequence
  <1>3. ASSUME NEW k \in 1 .. Len(s), Tagged(s, k)
        PROVE  IsBlock(s[k].block)
               /\ \A p \in 1 .. Len(s[k].block) : s[k].block[p].value \in WinValues
    <2>1. s[k].typ = "EventTag" /\ k \in DOMAIN s
      BY <1>2, <1>3 DEF Tagged
    <2>2. IsBlock(s[k].block)
      BY <2>1, WinInputsAssumption DEF IsBlock
    <2>3. DOMAIN s[k].block = 1 .. Len(s[k].block)
      BY <2>2, BlockType
    <2>4. \A p \in DOMAIN s[k].block : s[k].block[p].value \in ValuesIn(s)
      BY <2>1 DEF ValuesIn
    <2>5. ValuesIn(s) \subseteq WinValues
      BY DEF WinValues
    <2> QED
      BY <2>2, <2>3, <2>4, <2>5
  <1> QED
    BY <1>2, <1>3

\* w and v have the same values, but perhaps of the field f.
OnlyField(w, v, f) ==
  /\ f # "latched" => v.latched = w.latched
  /\ f # "ternary" => v.ternary = w.ternary
  /\ f # "BootCount" => v.BootCount = w.BootCount
  /\ f # "ColdBoot" => v.ColdBoot = w.ColdBoot
  /\ f # "BitlockerUnlocks" => v.BitlockerUnlocks = w.BitlockerUnlocks
  /\ f # "LoadedModules" => v.LoadedModules = w.LoadedModules
  /\ f # "ELAM" => v.ELAM = w.ELAM

\* What it is to set one of the values: BootCount,
LEMMA SetBootCount ==
  ASSUME NEW w \in WinRecords, NEW x \in WinValues, NEW v, v = [w EXCEPT !.BootCount = x]
  PROVE  v \in WinRecords /\ OnlyField(w, v, "BootCount") /\ v.BootCount = x
  BY DEF WinRecords, OnlyField

\* ColdBoot,
LEMMA SetColdBoot ==
  ASSUME NEW w \in WinRecords, NEW x \in BOOLEAN, NEW v, v = [w EXCEPT !.ColdBoot = x]
  PROVE  v \in WinRecords /\ OnlyField(w, v, "ColdBoot") /\ v.ColdBoot = x
  BY DEF WinRecords, OnlyField

\* BitlockerUnlocks,
LEMMA AddUnlock ==
  ASSUME NEW w \in WinRecords, NEW x \in WinValues,
         NEW v, v = [w EXCEPT !.BitlockerUnlocks = Append(@, x)]
  PROVE  /\ v \in WinRecords /\ OnlyField(w, v, "BitlockerUnlocks")
         /\ v.BitlockerUnlocks = Append(w.BitlockerUnlocks, x)
  <1>1. Append(w.BitlockerUnlocks, x) \in Seq(WinValues)
    BY AppendProperties DEF WinRecords
  <1> QED
    BY <1>1 DEF WinRecords, OnlyField

\* One more entry of a map.
LEMMA PutType ==
  ASSUME NEW V, NEW f \in Maps(V), NEW k \in WinValues, NEW x \in V
  PROVE  /\ Put(f, k, x) \in Maps(V)
         /\ DOMAIN Put(f, k, x) = DOMAIN f \cup {k}
         /\ \A y \in DOMAIN f \cup {k} : Put(f, k, x)[y] = IF y = k THEN x ELSE f[y]
  <1>1. PICK S \in SUBSET WinValues : f \in [S -> V]
    BY DEF Maps
  <1>2. Put(f, k, x) \in [S \cup {k} -> V]
    BY <1>1 DEF Put
  <1>3. S \cup {k} \in SUBSET WinValues
    OBVIOUS
  <1> QED
    BY <1>2, <1>3 DEF Maps, Put

\* LoadedModules,
LEMMA SetModules ==
  ASSUME NEW w \in WinRecords, NEW x \in Maps(ModuleType), NEW v, v = [w EXCEPT !.LoadedModules = x]
  PROVE  v \in WinRecords /\ OnlyField(w, v, "LoadedModules") /\ v.LoadedModules = x
  BY DEF WinRecords, OnlyField

\* and ELAM.
LEMMA SetELAM ==
  ASSUME NEW w \in WinRecords, NEW x \in Maps([ELAMFields -> WinValues]), NEW v,
         v = [w EXCEPT !.ELAM = x]
  PROVE  v \in WinRecords /\ OnlyField(w, v, "ELAM") /\ v.ELAM = x
  BY DEF WinRecords, OnlyField

-----------------------------------------------------------------------------
(***************************************************************************)
(* What a step does.  The places that were read, without the one that is   *)
(* being read, are the same, or there is one more, the last, and the       *)
(* values have changed as its sub-event says.  ELAM is another matter: it  *)
(* changes while an aggregation is read.                                   *)
(***************************************************************************)

Cur(b, p, fs) == IF fs = << >> THEN p ELSE OuterOf(b, fs)
Placed == PlacesTo(events, next - 1, Cur(e.block, pos, frames))

\* The sub-event at a place, and the fields of the module that was loaded there.
SubAt(s, r) == s[r[1]].block[r[2]]
ModuleAt(s, r) == FieldsOf(s[r[1]].block, Subs(s[r[1]].block, r[2]), LMAFields)

\* What the sub-event x, of register i, makes of the values.
BooleansBy(x, w, v) ==
  /\ v.latched = IF x.typ \in ByteLatches
                   THEN [w.latched EXCEPT ![x.typ] = @ \/ x.value # "zero"] ELSE w.latched
  /\ v.ternary = IF x.typ \in Ternaries
                   THEN [w.ternary EXCEPT ![x.typ] = IF x.value = "zero" THEN "False"
                                                     ELSE IF @ = "Unknown" THEN "True" ELSE @]
                   ELSE w.ternary
CountsBy(x, i, w, v) ==
  /\ v.BootCount = IF x.typ = "bootCounter" THEN x.value ELSE w.BootCount
  /\ x.typ = "bootCounter" => w.BootCount \in {"zero", x.value}
  /\ v.ColdBoot = IF x.typ = "transferControl" THEN x.value = "one" ELSE w.ColdBoot
  /\ v.BitlockerUnlocks = IF x.typ = "bitlockerUnlock" /\ i = 12
                            THEN Append(w.BitlockerUnlocks, x.value) ELSE w.BitlockerUnlocks
Loaded(M, F) ==
  Put(M, HashHex(F), [fields |-> F,
                      ImageBase |-> Bases(F) \o (IF HashHex(F) \in DOMAIN M
                                                   THEN M[HashHex(F)].ImageBase ELSE << >>)])
ModulesBy(x, F, w, v) ==
  v.LoadedModules = IF x.typ = "loadedModuleAggregation" THEN Loaded(w.LoadedModules, F)
                                                         ELSE w.LoadedModules
ReadAs(s, r, w, v) ==
  /\ BooleansBy(SubAt(s, r), w, v)
  /\ CountsBy(SubAt(s, r), s[r[1]].index, w, v)
  /\ ModulesBy(SubAt(s, r), ModuleAt(s, r), w, v)

Kept == events' = events /\ Placed' = Placed /\ OnlyField(win, win', "ELAM")
ReadAt(r) ==
  /\ events' = events
  /\ r[1] = next /\ next \in 1 .. Len(events) /\ Tagged(events, next) /\ r[2] \in TopLevel(e.block)
  /\ r = <<next, r[2]>> /\ After(e.block, r[2]) <= Len(e.block) + 1
  /\ Placed' = Placed \cup {r} /\ r \notin Placed /\ \A s \in Placed : Before(s, r)
  /\ ReadAs(events, r, win, win')

\* While an event is read.
LEMMA InEvent ==
  ASSUME WinTypes, pos # 0
  PROVE  /\ next \in Nat \ {0} /\ next \in 1 .. Len(events) /\ Tagged(events, next)
         /\ next - 1 \in Nat /\ (next - 1) + 1 = next
         /\ IsBlock(e.block) /\ Len(e.block) \in Nat /\ FramesOK(e.block, pos, frames)
         /\ \A p \in 1 .. Len(e.block) : e.block[p].value \in WinValues
  <1>1. Len(events) \in Nat
    BY WinLog DEF WinTypes
  <1>2. next \in 1 .. Len(events) /\ Tagged(events, next)
    BY <1>1 DEF WinTypes
  <1>3. IsBlock(e.block) /\ \A p \in 1 .. Len(e.block) : e.block[p].value \in WinValues
    BY <1>2, WinLog DEF WinTypes, e
  <1> QED
    BY <1>1, <1>2, <1>3, BlockType DEF WinTypes

\* An error leaves what was read.
LEMMA RefuseStep ==
  ASSUME WinTypes, Refuse
  PROVE  WinTypes' /\ Kept
  BY DEF WinTypes, Refuse, Kept, Placed, OnlyField, e

\* An event that is not looked at, or is a separator.
LEMMA PassStep ==
  ASSUME WinTypes, Outside, ~Tagged(events, next), NextEvent, UNCHANGED win,
         seenSeparator' = {i \in {12, 13} : ~Open(events, i, next)}
  PROVE  WinTypes' /\ Kept
  <1>1. Len(events) \in Nat /\ next \in 1 .. Len(events) /\ next \in Nat /\ next # 0
    BY WinLog DEF WinTypes, Outside, Handling
  <1>2. /\ events' = events /\ next' = next + 1 /\ pos' = 0 /\ frames' = << >> /\ result' = result
        /\ win' = win /\ (next + 1) - 1 = next /\ next - 1 \in Nat /\ (next - 1) + 1 = next
    BY <1>1 DEF NextEvent
  <1>3. WinTypes'
    BY <1>1, <1>2 DEF WinTypes
  <1>4. pos = 0 /\ frames = << >>
    BY DEF WinTypes, Outside
  <1>5. Placed = PlacesTo(events, next - 1, 0) /\ Placed' = PlacesTo(events, next, 0)
    BY <1>2, <1>4 DEF Placed, Cur
  <1>6. Placed' = Placed
    BY <1>2, <1>5, PlacesSkip
  <1> QED
    BY <1>2, <1>3, <1>6 DEF Kept, OnlyField

\* The reading of a block starts.
LEMMA BlockStarts ==
  ASSUME WinTypes, Outside, Tagged(events, next), pos' = 1,
         UNCHANGED <<events, next, result, win, seenSeparator, frames>>
  PROVE  WinTypes' /\ Kept
  <1>1. Len(events) \in Nat /\ next \in 1 .. Len(events) /\ next \in Nat /\ next # 0
    BY WinLog DEF WinTypes, Outside, Handling
  <1>2. IsBlock(e.block) /\ Len(e.block) \in Nat
    BY <1>1, WinLog, BlockType DEF WinTypes, e
  <1>3. pos = 0 /\ frames = << >> /\ frames' = << >> /\ e' = e /\ next - 1 \in Nat
          /\ (next - 1) + 1 = next
    BY <1>1 DEF WinTypes, Outside, e
  <1>4. FramesOK(e.block, 1, << >>)
    BY <1>2, TopIs, FramesNone
  <1>5. WinTypes'
    BY <1>1, <1>2, <1>3, <1>4 DEF WinTypes
  <1>6. Placed = PlacesTo(events, next - 1, 0) /\ Placed' = PlacesTo(events, next - 1, 1)
    BY <1>3 DEF Placed, Cur
  <1>7. Placed' = Placed
    BY <1>2, <1>3, <1>6, PlacesFirst DEF e
  <1> QED
    BY <1>5, <1>7 DEF Kept, OnlyField

\* The reading of a block ends.
LEMMA BlockEnds ==
  ASSUME WinTypes, EndBlock
  PROVE  WinTypes' /\ Kept
  <1>1. pos \in Nat /\ pos # 0 /\ frames = << >> /\ pos > Len(e.block)
    BY DEF EndBlock, Reading, WinTypes
  <1>2. /\ next \in Nat \ {0} /\ next \in 1 .. Len(events) /\ Tagged(events, next)
        /\ next - 1 \in Nat /\ (next - 1) + 1 = next /\ IsBlock(e.block)
    BY <1>1, InEvent
  <1>3. /\ events' = events /\ next' = next + 1 /\ pos' = 0 /\ frames' = << >> /\ result' = result
        /\ win' = win /\ (next + 1) - 1 = next /\ seenSeparator' = seenSeparator
    BY <1>2 DEF EndBlock, NextEvent
  <1>4. \A i : Open(events, i, next) <=> Open(events, i, next - 1)
    <2>1. \A k : k \in 1 .. next <=> k = next \/ k \in 1 .. next - 1
      BY <1>2, UpToNext
    <2>2. \A i : ~Sep(events, i, next)
      BY <1>2 DEF Tagged, Sep
    <2> QED
      BY <2>1, <2>2 DEF Open
  <1>5. Len(events) \in Nat
    BY WinLog DEF WinTypes
  <1>6. WinTypes'
    BY <1>2, <1>3, <1>4, <1>5 DEF WinTypes
  <1>7. Placed = PlacesTo(events, next - 1, pos) /\ Placed' = PlacesTo(events, next, 0)
    BY <1>1, <1>3 DEF Placed, Cur
  <1>8. Placed' = Placed
    BY <1>1, <1>2, <1>7, PlacesEnd DEF e
  <1> QED
    BY <1>3, <1>6, <1>8 DEF Kept, OnlyField

\* A place is left: that of the sub-event p, for the one after it and what it contains.
LEMMA PlaceLeft ==
  ASSUME WinTypes, pos # 0, NEW p \in TopLevel(e.block), Cur(e.block, pos, frames) = p,
         events' = events, next' = next, pos' = After(e.block, p), frames' = << >>
  PROVE  LET r == <<next, p>>
         IN  Placed' = Placed \cup {r} /\ r \notin Placed /\ \A s \in Placed : Before(s, r)
  <1>1. next - 1 \in Nat /\ (next - 1) + 1 = next /\ IsBlock(e.block) /\ next \in 1 .. Len(events)
    BY InEvent
  <1>2. Placed = PlacesTo(events, next - 1, p)
    BY DEF Placed
  <1>3. Placed' = PlacesTo(events, next - 1, After(e.block, p))
    BY DEF Placed, Cur
  <1>4. e = events[next] /\ e = events[(next - 1) + 1]
    BY <1>1 DEF e
  <1>5. /\ PlacesTo(events, next - 1, After(e.block, p))
             = PlacesTo(events, next - 1, p) \cup {<<next, p>>}
        /\ <<next, p>> \notin PlacesTo(events, next - 1, p)
        /\ \A r \in PlacesTo(events, next - 1, p) : Before(r, <<next, p>>)
    BY <1>1, <1>4, PlacesAdd
  <1> QED
    BY <1>2, <1>3, <1>5

\* What is at pos in a block.
LEMMA InBlockAt ==
  ASSUME WinTypes, InBlock
  PROVE  /\ pos \in TopLevel(e.block) /\ pos \in 1 .. Len(e.block) /\ pos \in Nat /\ pos # 0
         /\ Cur(e.block, pos, frames) = pos /\ h.value \in WinValues
         /\ h = SubAt(events, <<next, pos>>) /\ IsBlock(e.block) /\ result = "none"
  <1>1. pos \in Nat /\ pos # 0 /\ frames = << >> /\ pos <= Len(e.block)
    BY DEF WinTypes, InBlock, Reading
  <1>2. IsBlock(e.block) /\ Len(e.block) \in Nat /\ FramesOK(e.block, pos, frames)
        /\ \A p \in 1 .. Len(e.block) : e.block[p].value \in WinValues
    BY <1>1, InEvent
  <1> QED
    BY <1>1, <1>2 DEF FramesOK, Cur, h, SubAt, e, InBlock, Reading

\* A sub-event that is no aggregation is read.
LEMMA ScalarStep ==
  ASSUME WinTypes, InBlock, Advance, h.typ \notin Aggregations, win' \in WinRecords,
         BooleansBy(h, win, win'), CountsBy(h, e.index, win, win'),
         win'.LoadedModules = win.LoadedModules
  PROVE  WinTypes' /\ ReadAt(<<next, pos>>)
  <1>1. /\ pos \in TopLevel(e.block) /\ pos \in 1 .. Len(e.block) /\ pos \in Nat /\ pos # 0
        /\ Cur(e.block, pos, frames) = pos /\ h = SubAt(events, <<next, pos>>) /\ IsBlock(e.block)
    BY InBlockAt
  <1>2. /\ events' = events /\ next' = next /\ pos' = pos + 1 /\ result' = result
        /\ seenSeparator' = seenSeparator /\ frames = << >> /\ frames' = << >> /\ e' = e
    BY DEF Advance, InBlock, e
  <1>3. After(e.block, pos) = pos + 1 /\ Len(e.block) \in Nat
    BY <1>1, BlockType DEF h
  <1>4. FramesOK(e.block, pos + 1, << >>)
    <2>1. pos + 1 <= Len(e.block) => pos + 1 \in TopLevel(e.block)
      BY <1>1, <1>3, TopIs
    <2> QED
      BY <1>1, <2>1, FramesNone
  <1>5. pos + 1 \in Nat /\ pos + 1 # 0 /\ pos + 1 <= Len(e.block) + 1
    BY <1>1, <1>3
  <1>6. WinTypes'
    BY <1>1, <1>2, <1>4, <1>5 DEF WinTypes
  <1> DEFINE r == <<next, pos>>
  <1>7. Placed' = Placed \cup {r} /\ r \notin Placed /\ \A s \in Placed : Before(s, r)
    BY <1>1, <1>2, <1>3, PlaceLeft
  <1>8. r[1] = next /\ r[2] = pos /\ e.index = events[r[1]].index
    BY DEF e
  <1>9. ReadAs(events, r, win, win')
    <2>1. ModulesBy(h, ModuleAt(events, r), win, win')
      BY DEF ModulesBy, Aggregations
    <2> HIDE DEF r
    <2> QED
      BY <1>1, <1>8, <2>1 DEF ReadAs, r
  <1>10. next \in 1 .. Len(events) /\ Tagged(events, next)
    BY <1>1, InEvent
  <1> HIDE DEF r
  <1> QED
    BY <1>1, <1>2, <1>3, <1>5, <1>6, <1>7, <1>8, <1>9, <1>10 DEF ReadAt, r

Stepped == WinTypes' /\ (Kept \/ \E r : ReadAt(r))

\* readBooleanByteEvent and readBooleanInt64Event.
LEMMA BooleanStep ==
  ASSUME WinTypes, ReadBoolean
  PROVE  Stepped
  <1>1. CASE ~h.ok
    BY <1>1, RefuseStep DEF ReadBoolean, Stepped
  <1>2. CASE h.ok
    <2>1. InBlock /\ Advance /\ h.typ \in ByteLatches \cup Ternaries
      BY <1>2 DEF ReadBoolean
    <2>2. win \in WinRecords
      BY DEF WinTypes
    <2>3. win.latched \in [ByteLatches -> BOOLEAN]
            /\ win.ternary \in [Ternaries -> {"Unknown", "True", "False"}]
      BY <2>2 DEF WinRecords
    <2>4. h.typ \notin Aggregations
            /\ h.typ \notin {"bootCounter", "transferControl", "bitlockerUnlock"}
      BY <2>1 DEF ByteLatches, Ternaries, Aggregations
    <2>5. CASE h.typ \in ByteLatches
      <3> DEFINE x == win.latched[h.typ] \/ h.value # "zero"
      <3>1. win' = [win EXCEPT !.latched[h.typ] = x]
        BY <1>2, <2>2, <2>5 DEF ReadBoolean, WinRecords
      <3>2. x \in BOOLEAN
        BY <2>3, <2>5
      <3>3. win.latched[h.typ] \in BOOLEAN
        BY <2>3, <2>5
      <3> HIDE DEF x
      <3>4. /\ win' \in WinRecords /\ OnlyField(win, win', "latched")
            /\ win'.latched = [win.latched EXCEPT ![h.typ] = x]
        BY <2>2, <2>5, <3>1, <3>2 DEF WinRecords, OnlyField
      <3>5. h.typ \notin Ternaries
        BY <2>5 DEF ByteLatches, Ternaries
      <3>6. BooleansBy(h, win, win')
        <4>1. win'.ternary = win.ternary
          BY <3>4 DEF OnlyField
        <4>2. win'.latched = [win.latched EXCEPT ![h.typ] = win.latched[h.typ] \/ h.value # "zero"]
          BY <3>4, Zenon DEF x
        <4> QED
          BY <2>5, <3>5, <4>1, <4>2, Zenon DEF BooleansBy
      <3>7. CountsBy(h, e.index, win, win') /\ win'.LoadedModules = win.LoadedModules
        BY <2>4, <3>4 DEF CountsBy, OnlyField
      <3> QED
        BY <2>1, <2>4, <3>4, <3>6, <3>7, ScalarStep DEF Stepped
    <2>6. CASE h.typ \in Ternaries
      <3> DEFINE x == IF h.value = "zero" THEN "False"
                      ELSE IF win.ternary[h.typ] = "Unknown" THEN "True" ELSE win.ternary[h.typ]
      <3>1. h.typ \notin ByteLatches
        BY <2>6 DEF ByteLatches, Ternaries
      <3>2. win' = [win EXCEPT !.ternary[h.typ] = x]
        BY <1>2, <2>2, <3>1 DEF ReadBoolean, WinRecords
      <3>3. x \in {"Unknown", "True", "False"}
        BY <2>3, <2>6
      <3> HIDE DEF x
      <3>4. /\ win' \in WinRecords /\ OnlyField(win, win', "ternary")
            /\ win'.ternary = [win.ternary EXCEPT ![h.typ] = x]
        BY <2>2, <2>6, <3>2, <3>3 DEF WinRecords, OnlyField
      <3>5. BooleansBy(h, win, win')
        <4>1. win'.latched = win.latched
          BY <3>4 DEF OnlyField
        <4>2. win'.ternary
                = [win.ternary EXCEPT ![h.typ] =
                     IF h.value = "zero" THEN "False"
                     ELSE IF win.ternary[h.typ] = "Unknown" THEN "True" ELSE win.ternary[h.typ]]
          BY <3>4, Zenon DEF x
        <4> QED
          BY <2>6, <3>1, <4>1, <4>2, Zenon DEF BooleansBy
      <3>6. CountsBy(h, e.index, win, win') /\ win'.LoadedModules = win.LoadedModules
        BY <2>4, <3>4 DEF CountsBy, OnlyField
      <3> QED
        BY <2>1, <2>4, <3>4, <3>5, <3>6, ScalarStep DEF Stepped
    <2> QED
      BY <2>1, <2>5, <2>6
  <1> QED
    BY <1>1, <1>2

\* readBootCounter.
LEMMA BootCounterStep ==
  ASSUME WinTypes, readBootCounter
  PROVE  Stepped
  <1> DEFINE bad == ~h.ok \/ (win.BootCount # "zero" /\ win.BootCount # h.value)
  <1>1. CASE bad
    BY <1>1, RefuseStep DEF readBootCounter, Stepped
  <1>2. CASE ~bad
    <2>1. InBlock /\ Advance /\ h.typ = "bootCounter" /\ win' = [win EXCEPT !.BootCount = h.value]
      BY <1>2 DEF readBootCounter
    <2>2. win \in WinRecords /\ h.value \in WinValues
      BY <2>1, InBlockAt DEF WinTypes
    <2>3. win' \in WinRecords /\ OnlyField(win, win', "BootCount") /\ win'.BootCount = h.value
      BY <2>1, <2>2, SetBootCount
    <2>4. h.typ \notin Aggregations /\ BooleansBy(h, win, win')
      BY <2>1, <2>3 DEF BooleansBy, OnlyField, ByteLatches, Ternaries, Aggregations
    <2>5. CountsBy(h, e.index, win, win') /\ win'.LoadedModules = win.LoadedModules
      BY <1>2, <2>1, <2>3 DEF CountsBy, OnlyField
    <2> QED
      BY <2>1, <2>3, <2>4, <2>5, ScalarStep DEF Stepped
  <1> QED
    BY <1>1, <1>2

\* readTransferControl.
LEMMA TransferStep ==
  ASSUME WinTypes, readTransferControl
  PROVE  Stepped
  <1>1. CASE ~h.ok
    BY <1>1, RefuseStep DEF readTransferControl, Stepped
  <1>2. CASE h.ok
    <2>1. /\ InBlock /\ Advance /\ h.typ = "transferControl"
          /\ win' = [win EXCEPT !.ColdBoot = (h.value = "one")]
      BY <1>2 DEF readTransferControl
    <2>2. win \in WinRecords /\ (h.value = "one") \in BOOLEAN
      BY DEF WinTypes
    <2>3. /\ win' \in WinRecords /\ OnlyField(win, win', "ColdBoot")
          /\ win'.ColdBoot = (h.value = "one")
      BY <2>1, <2>2, SetColdBoot
    <2>4. h.typ \notin Aggregations /\ BooleansBy(h, win, win')
      BY <2>1, <2>3 DEF BooleansBy, OnlyField, ByteLatches, Ternaries, Aggregations
    <2>5. CountsBy(h, e.index, win, win') /\ win'.LoadedModules = win.LoadedModules
      BY <2>1, <2>3 DEF CountsBy, OnlyField
    <2> QED
      BY <2>1, <2>3, <2>4, <2>5, ScalarStep DEF Stepped
  <1> QED
    BY <1>1, <1>2

\* readBitlockerUnlock.
LEMMA UnlockStep ==
  ASSUME WinTypes, readBitlockerUnlock
  PROVE  Stepped
  <1>1. CASE ~h.ok
    BY <1>1, RefuseStep DEF readBitlockerUnlock, Stepped
  <1>2. CASE h.ok
    <2>1. /\ InBlock /\ Advance /\ h.typ = "bitlockerUnlock"
          /\ win' = IF e.index = 13 THEN win
                    ELSE [win EXCEPT !.BitlockerUnlocks = Append(@, h.value)]
      BY <1>2 DEF readBitlockerUnlock
    <2>2. win \in WinRecords /\ h.value \in WinValues
      BY <2>1, InBlockAt DEF WinTypes
    <2>3. pos # 0
      BY <2>1, InBlockAt
    <2>4. e.index \in {12, 13}
      BY <2>3, InEvent DEF Tagged, e
    <2>5. /\ win' \in WinRecords /\ OnlyField(win, win', "BitlockerUnlocks")
          /\ win'.BitlockerUnlocks = IF e.index = 12 THEN Append(win.BitlockerUnlocks, h.value)
                                     ELSE win.BitlockerUnlocks
      <3>1. CASE e.index = 13
        BY <2>1, <2>2, <3>1 DEF OnlyField
      <3>2. CASE e.index = 12
        BY <2>1, <2>2, <3>2, AddUnlock
      <3> QED
        BY <2>4, <3>1, <3>2
    <2>6. h.typ \notin Aggregations /\ BooleansBy(h, win, win')
      BY <2>1, <2>5 DEF BooleansBy, OnlyField, ByteLatches, Ternaries, Aggregations
    <2>7. CountsBy(h, e.index, win, win') /\ win'.LoadedModules = win.LoadedModules
      BY <2>1, <2>5 DEF CountsBy, OnlyField
    <2> QED
      BY <2>1, <2>5, <2>6, <2>7, ScalarStep DEF Stepped
  <1> QED
    BY <1>1, <1>2

\* A sub-event that is not known.
LEMMA UnknownStep ==
  ASSUME WinTypes, UnknownSIPAEvent
  PROVE  Stepped
  <1>1. CASE ~h.ok
    BY <1>1, RefuseStep DEF UnknownSIPAEvent, Stepped
  <1>2. CASE h.ok
    <2>1. InBlock /\ Advance /\ h.typ \notin Scalars \cup Aggregations /\ win' = win
      BY <1>2 DEF UnknownSIPAEvent
    <2>2. win' \in WinRecords
      BY <2>1 DEF WinTypes
    <2>3. h.typ \notin Aggregations /\ BooleansBy(h, win, win')
      BY <2>1 DEF BooleansBy, Scalars
    <2>4. CountsBy(h, e.index, win, win') /\ win'.LoadedModules = win.LoadedModules
      BY <2>1 DEF CountsBy, Scalars
    <2> QED
      BY <2>1, <2>2, <2>3, <2>4, ScalarStep DEF Stepped
  <1> QED
    BY <1>1, <1>2

\* In an aggregation.
LEMMA InFrames ==
  ASSUME WinTypes, Reading, frames # << >>
  PROVE  LET b == e.block
             a == OuterOf(b, frames)
         IN  /\ pos \in Nat /\ pos # 0 /\ IsBlock(b) /\ Len(b) \in Nat /\ FramesOK(b, pos, frames)
             /\ pos <= Len(b) + 1
             /\ Cur(b, pos, frames) = a /\ a \in TopLevel(b) /\ a \in Nat /\ a # 0 /\ a < pos
             /\ a \in 1 .. Len(b)
             /\ b[a].typ \in Aggregations /\ After(b, a) = frames[1].end
             /\ frames[1].kind = KindOf(b[a]) /\ Top.kind = frames[1].kind
             /\ Top.end \in Nat /\ frames[1].end \in Nat
             /\ pos <= Top.end /\ Top.end <= frames[1].end
             /\ Len(frames) \in Nat \ {0}
             /\ Top.fields \in [FieldSet(Top.kind) -> WinValues]
             /\ Top.kind = "lma" =>
                  /\ Len(frames) = 1 /\ Top = frames[1]
                  /\ Top.fields = FieldsRead(b, a, pos, LMAFields)
  <1> DEFINE b == e.block
             a == OuterOf(b, frames)
  <1>1. pos \in Nat /\ pos # 0 /\ pos <= Len(b) + 1
    BY DEF WinTypes, Reading
  <1>2. IsBlock(b) /\ Len(b) \in Nat /\ FramesOK(b, pos, frames)
    BY <1>1, InEvent
  <1> HIDE DEF b
  <1>3. /\ Len(frames) \in Nat \ {0}
        /\ Top \in FrameType /\ frames[1] \in FrameType
        /\ pos <= Top.end /\ Top.end <= frames[1].end
        /\ Top.fields \in [FieldSet(Top.kind) -> WinValues]
        /\ Top.kind = frames[1].kind
        /\ frames[1].kind = "lma" => Len(frames) = 1
        /\ Outer(b, pos, frames, a)
    BY <1>1, <1>2, InnerFrame DEF Top
  <1> HIDE DEF a
  <1>4. a \in TopLevel(b) /\ a \in Nat /\ a # 0 /\ a \in 1 .. Len(b)
    BY <1>2, <1>3, TopIs DEF Outer
  <1>5. Top.end \in Nat /\ frames[1].end \in Nat
    BY <1>3 DEF FrameType
  <1>6. Cur(b, pos, frames) = a
    BY DEF Cur, a
  <1> QED
    BY <1>1, <1>2, <1>3, <1>4, <1>5, <1>6 DEF Outer, Top, a, b

\* A step in a block that goes on.
LEMMA TypesInBlock ==
  ASSUME WinTypes, pos # 0, UNCHANGED <<events, next, result, seenSeparator>>,
         pos' \in Nat, pos' # 0, pos' <= Len(e.block) + 1, FramesOK(e.block, pos', frames'),
         win' \in WinRecords
  PROVE  WinTypes'
  BY DEF WinTypes, e

\* A step in an aggregation that goes on.
LEMMA AggregationGoesOn ==
  ASSUME WinTypes, Reading, frames # << >>, UNCHANGED <<events, next, result, seenSeparator>>,
         pos' \in Nat, pos' # 0, pos' <= Len(e.block) + 1, FramesOK(e.block, pos', frames'),
         frames' # << >>, OuterOf(e.block, frames') = OuterOf(e.block, frames),
         win' \in WinRecords, OnlyField(win, win', "ELAM")
  PROVE  WinTypes' /\ Kept
  <1>1. pos # 0
    BY InFrames
  <1>2. WinTypes'
    BY <1>1, TypesInBlock
  <1>3. Placed' = Placed
    BY DEF Placed, Cur, e
  <1> QED
    BY <1>2, <1>3 DEF Kept

\* The end of an aggregation that is outside others.
LEMMA AggregationEnds ==
  ASSUME WinTypes, Reading, frames # << >>, UNCHANGED <<events, next, result, seenSeparator>>,
         pos' = frames[1].end, pos' <= Len(e.block) + 1, frames' = << >>,
         FramesOK(e.block, pos', << >>), win' \in WinRecords,
         win'.latched = win.latched, win'.ternary = win.ternary, win'.BootCount = win.BootCount,
         win'.ColdBoot = win.ColdBoot, win'.BitlockerUnlocks = win.BitlockerUnlocks,
         LET r == <<next, OuterOf(e.block, frames)>>
         IN  ModulesBy(SubAt(events, r), ModuleAt(events, r), win, win')
  PROVE  WinTypes' /\ ReadAt(<<next, OuterOf(e.block, frames)>>)
  <1> DEFINE a == OuterOf(e.block, frames)
             r == <<next, a>>
  <1>1. /\ pos # 0 /\ a \in TopLevel(e.block) /\ Cur(e.block, pos, frames) = a
        /\ frames[1].end \in Nat /\ frames[1].end # 0 /\ e.block[a].typ \in Aggregations
        /\ After(e.block, a) = frames[1].end
    BY InFrames
  <1> HIDE DEF a
  <1>2. WinTypes'
    BY <1>1, TypesInBlock
  <1>3. Placed' = Placed \cup {r} /\ r \notin Placed /\ \A s \in Placed : Before(s, r)
    BY <1>1, PlaceLeft
  <1>4. r[1] = next /\ r[2] = a /\ SubAt(events, r) = e.block[a]
    BY DEF SubAt, e
  <1>5. next \in 1 .. Len(events) /\ Tagged(events, next)
    BY <1>1, InEvent
  <1>6. ReadAs(events, r, win, win')
    <2>1. ModulesBy(SubAt(events, r), ModuleAt(events, r), win, win')
      BY DEF a
    <2> HIDE DEF r
    <2>2. BooleansBy(SubAt(events, r), win, win')
      BY <1>1, <1>4 DEF BooleansBy, ByteLatches, Ternaries, Aggregations
    <2>3. CountsBy(SubAt(events, r), events[r[1]].index, win, win')
      BY <1>1, <1>4 DEF CountsBy, Aggregations
    <2> QED
      BY <2>1, <2>2, <2>3 DEF ReadAs
  <1>7. ReadAt(r)
    <2> HIDE DEF r
    <2> QED
      BY <1>1, <1>3, <1>4, <1>5, <1>6 DEF ReadAt, r
  <1> QED
    BY <1>2, <1>7 DEF a

\* The reading of an aggregation outside others starts.
LEMMA StartStep ==
  ASSUME WinTypes, StartAggregation
  PROVE  WinTypes' /\ Kept /\ OuterOf(e.block, frames') = pos
  <1>1. InBlock /\ h.typ \in Aggregations /\ frames = << >>
    BY DEF StartAggregation, InBlock
  <1>2. /\ pos \in TopLevel(e.block) /\ pos \in 1 .. Len(e.block) /\ pos \in Nat /\ pos # 0
        /\ Cur(e.block, pos, frames) = pos /\ IsBlock(e.block)
    BY <1>1, InBlockAt
  <1>3. frames' = <<NewFrame(e.block, pos, KindOf(e.block[pos]))>>
    BY DEF StartAggregation, NewFrame, KindOf, Frame, FieldSet, After, h
  <1>4. FramesOK(e.block, pos + 1, frames') /\ OuterOf(e.block, frames') = pos
    BY <1>1, <1>2, <1>3, FramesStart DEF h
  <1>5. pos' = pos + 1 /\ UNCHANGED <<events, next, result, seenSeparator>> /\ win' = win
    BY DEF StartAggregation
  <1>6. pos' \in Nat /\ pos' # 0 /\ pos' <= Len(e.block) + 1 /\ win' \in WinRecords
    BY <1>2, <1>5, BlockType DEF WinTypes
  <1>7. WinTypes'
    BY <1>2, <1>4, <1>5, <1>6, TypesInBlock
  <1>8. frames' # << >>
    BY <1>3
  <1>9. Placed' = Placed
    BY <1>2, <1>4, <1>5, <1>8 DEF Placed, Cur, e
  <1> QED
    BY <1>4, <1>5, <1>7, <1>9 DEF Kept, OnlyField

\* A field is set.
LEMMA SetFieldStep ==
  ASSUME WinTypes, Reading, frames # << >>, pos < Top.end, pos <= Len(e.block),
         h.typ \in FieldSet(Top.kind), SetField
  PROVE  /\ WinTypes' /\ Kept /\ frames' # << >>
         /\ OuterOf(e.block, frames') = OuterOf(e.block, frames) /\ Len(frames') = Len(frames)
         /\ \A i \in 1 .. Len(frames) : frames'[i].kind = frames[i].kind
              /\ frames'[i].end = frames[i].end
         /\ frames'[Len(frames)].fields = [Top.fields EXCEPT ![h.typ] = h.value]
  <1> DEFINE b == e.block
             L == Len(frames)
             g == SetTop(frames, b[pos].typ, b[pos].value)
  <1>1. pos \in Nat /\ pos # 0 /\ IsBlock(b) /\ Len(b) \in Nat /\ FramesOK(b, pos, frames)
    BY InFrames
  <1>2. pos \in 1 .. Len(b) /\ b[pos].value \in WinValues
    BY <1>1, InEvent
  <1>3. frames' = g /\ pos' = pos + 1 /\ UNCHANGED <<events, next, result, win, seenSeparator>>
    BY DEF SetField, SetTop, h
  <1>4. pos < frames[L].end /\ b[pos].typ \in FieldSet(frames[L].kind) /\ frames # << >>
    BY DEF Top, h
  <1> HIDE DEF b
  <1>5. /\ FramesOK(b, pos + 1, g) /\ OuterOf(b, g) = OuterOf(b, frames)
        /\ g # << >> /\ Len(g) = Len(frames)
        /\ \A i \in 1 .. Len(frames) : g[i].kind = frames[i].kind /\ g[i].end = frames[i].end
        /\ g[Len(g)].fields = [frames[L].fields EXCEPT ![b[pos].typ] = b[pos].value]
    BY <1>1, <1>2, <1>4, FramesSet
  <1> HIDE DEF g
  <1>6. pos' \in Nat /\ pos' # 0 /\ pos' <= Len(b) + 1 /\ win' \in WinRecords
        /\ OnlyField(win, win', "ELAM")
    BY <1>1, <1>2, <1>3 DEF WinTypes, OnlyField
  <1>7. WinTypes' /\ Kept
    BY <1>3, <1>5, <1>6, AggregationGoesOn DEF b
  <1> QED
    BY <1>3, <1>5, <1>7 DEF b, Top, h

\* A sub-event of a loaded module.
LEMMA LMASubEventStep ==
  ASSUME WinTypes, LMASubEvent
  PROVE  WinTypes' /\ Kept
  <1>1. Reading /\ frames # << >> /\ Top.kind = "lma" /\ pos < Top.end /\ pos <= Len(e.block)
    BY DEF LMASubEvent, More, In
  <1>2. CASE h.typ \in LMAFields /\ SetField
    <2>1. h.typ \in FieldSet(Top.kind)
      BY <1>1, <1>2 DEF FieldSet
    <2> QED
      BY <1>1, <1>2, <2>1, SetFieldStep
  <1>3. CASE h.typ = "moduleSVN" /\ Advance /\ UNCHANGED win
    <2>1. /\ pos \in Nat /\ pos # 0 /\ IsBlock(e.block) /\ Len(e.block) \in Nat
          /\ FramesOK(e.block, pos, frames)
      BY <1>1, InFrames
    <2>2. pos \in 1 .. Len(e.block) /\ h.typ \notin LMAFields
      BY <1>1, <1>3, <2>1 DEF LMAFields
    <2>3. FramesOK(e.block, pos + 1, frames)
      BY <1>1, <2>1, <2>2, FramesMove DEF Top, h
    <2>4. /\ pos' = pos + 1 /\ UNCHANGED <<events, next, result, win, seenSeparator>>
          /\ frames' = frames
      BY <1>3 DEF Advance
    <2>5. pos' \in Nat /\ pos' # 0 /\ pos' <= Len(e.block) + 1 /\ win' \in WinRecords
          /\ OnlyField(win, win', "ELAM")
      BY <2>1, <2>2, <2>4 DEF WinTypes, OnlyField
    <2> QED
      BY <1>1, <2>3, <2>4, <2>5, AggregationGoesOn
  <1>4. CASE Refuse
    BY <1>4, RefuseStep
  <1> QED
    BY <1>2, <1>3, <1>4 DEF LMASubEvent

\* Where the data of an aggregation end, all its sub-events were read.
LEMMA AllFieldsRead ==
  ASSUME NEW b, IsBlock(b), NEW a \in 1 .. Len(b), NEW fields
  PROVE  FieldsRead(b, a, After(b, a), fields) = FieldsOf(b, Subs(b, a), fields)
  <1>1. Len(b) \in Nat /\ b[a].len \in Nat
    BY BlockType
  <1>2. After(b, a) - 1 = a + b[a].len
    BY <1>1 DEF After
  <1> QED
    BY <1>2 DEF FieldsRead, Subs

\* The end of a loaded module: it is a place that was read.
LEMMA LMAEndStep ==
  ASSUME WinTypes, LMAEnd
  PROVE  /\ WinTypes' /\ win'.ELAM = win.ELAM
         /\ ReadAt(<<next, OuterOf(e.block, frames)>>)
  <1> DEFINE b == e.block
             a == OuterOf(b, frames)
             F == Top.fields
             r == <<next, a>>
             M == win.LoadedModules
             k == HashHex(F)
             before == IF k \in DOMAIN M THEN M[k].ImageBase ELSE << >>
             x == [fields |-> F, ImageBase |-> Bases(F) \o before]
  <1>1. Reading /\ frames # << >> /\ Top.kind = "lma" /\ pos = Top.end
    BY DEF LMAEnd, AtEnd, In
  <1>2. /\ IsBlock(b) /\ FramesOK(b, pos, frames) /\ pos \in Nat /\ a \in 1 .. Len(b)
        /\ b[a].typ \in Aggregations /\ After(b, a) = frames[1].end /\ "lma" = KindOf(b[a])
        /\ Top = frames[1] /\ F = FieldsRead(b, a, pos, LMAFields) /\ F \in [LMAFields -> WinValues]
        /\ pos <= Len(b) + 1
    BY <1>1, InFrames DEF FieldSet
  <1>3. F = ModuleAt(events, r) /\ b[a] = SubAt(events, r)
    <2>1. r[1] = next /\ r[2] = a /\ b = events[next].block
      BY DEF e
    <2> HIDE DEF a, b, r
    <2>2. FieldsRead(b, a, pos, LMAFields) = FieldsOf(b, Subs(b, a), LMAFields)
      BY <1>1, <1>2, AllFieldsRead
    <2> QED
      BY <1>2, <2>1, <2>2 DEF ModuleAt, SubAt
  <1>4. b[a].typ = "loadedModuleAggregation"
    BY <1>2 DEF KindOf, Aggregations
  <1>5. win \in WinRecords /\ M \in Maps(ModuleType)
    BY DEF WinTypes, WinRecords
  <1> HIDE DEF F
  <1>6. F["imageBase"] \in WinValues /\ F["authenticodeHash"] \in WinValues
    BY <1>2 DEF LMAFields
  <1>7. k \in WinValues
    BY <1>6 DEF HashHex, WinValues
  <1>8. Bases(F) \in Seq(WinValues)
    BY <1>6 DEF Bases
  <1>9. before \in Seq(WinValues)
    <2>1. PICK S \in SUBSET WinValues : M \in [S -> ModuleType]
      BY <1>5 DEF Maps
    <2>2. k \in DOMAIN M => M[k] \in ModuleType
      BY <2>1
    <2> QED
      BY <2>2 DEF ModuleType
  <1> HIDE DEF before, k
  <1>10. x \in ModuleType
    <2>1. Bases(F) \o before \in Seq(WinValues)
      BY <1>8, <1>9, ConcatProperties
    <2> QED
      BY <1>2, <2>1 DEF ModuleType
  <1> HIDE DEF x
  <1>11. Put(M, k, x) \in Maps(ModuleType)
    BY <1>5, <1>7, <1>10, PutType
  <1>12. win' = [win EXCEPT !.LoadedModules = Put(M, k, x)]
    BY DEF LMAEnd, k, x, before, F
  <1>13. Put(M, k, x) = Loaded(M, F)
    BY DEF Loaded, k, x, before
  <1> HIDE DEF M
  <1>14. win' \in WinRecords /\ OnlyField(win, win', "LoadedModules")
           /\ win'.LoadedModules = Loaded(M, F)
    BY <1>5, <1>11, <1>12, <1>13, SetModules
  <1>15. ModulesBy(SubAt(events, r), ModuleAt(events, r), win, win')
    BY <1>3, <1>4, <1>14 DEF ModulesBy, M
  <1>16. UNCHANGED <<events, next, result, seenSeparator>> /\ pos' = pos /\ frames' = << >>
    BY DEF LMAEnd
  <1>17. FramesOK(b, pos, << >>)
    BY <1>1, <1>2, FramesLeft
  <1> HIDE DEF a, b
  <1>18. WinTypes' /\ ReadAt(r)
    BY <1>1, <1>2, <1>14, <1>15, <1>16, <1>17, AggregationEnds DEF OnlyField, a, b
  <1> QED
    BY <1>14, <1>18 DEF OnlyField, a, b

\* An ELAM aggregation is left: one around it goes on, or the one outside others ends too.
Left(q) ==
  \/ /\ Kept /\ frames' # << >> /\ q < frames[1].end /\ frames'[1] = frames[1]
     /\ Len(frames') \in 1 .. Len(frames) - 1
     /\ OuterOf(e.block, frames') = OuterOf(e.block, frames)
  \/ ReadAt(<<next, OuterOf(e.block, frames)>>) /\ frames' = << >> /\ q = frames[1].end

\* A call of readELAMAggregation returns.
LEMMA ReturnStep ==
  ASSUME WinTypes, Reading, frames # << >>, Top.kind = "elam", NEW q \in {pos, pos + 1},
         q <= Top.end, q <= Len(e.block) + 1, Len(frames) = 1 => q = frames[1].end,
         ReturnAt(q), win' \in WinRecords, OnlyField(win, win', "ELAM")
  PROVE  WinTypes' /\ Left(q)
  <1> DEFINE b == e.block
             a == OuterOf(b, frames)
  <1>1. /\ IsBlock(b) /\ FramesOK(b, pos, frames) /\ pos \in Nat /\ pos # 0 /\ a \in 1 .. Len(b)
        /\ b[a].typ \in Aggregations /\ "elam" = KindOf(b[a]) /\ Len(frames) \in Nat \ {0}
        /\ frames[1].end \in Nat
    BY InFrames
  <1>2. PICK n : Pops(frames, q, n) /\ frames' = SubSeq(frames, 1, n)
    BY DEF ReturnAt, Pops
  <1>3. /\ FramesOK(b, q, frames')
        /\ n # 0 => /\ OuterOf(b, frames') = a /\ frames' # << >> /\ Len(frames') = n
                    /\ frames'[1] = frames[1]
        /\ n = 0 => frames' = << >> /\ q = frames[1].end
    <2>1. frames[Len(frames)].kind = "elam" /\ q <= frames[Len(frames)].end
      BY DEF Top
    <2>2. CanPop(b, pos, frames, q, n)
      BY <1>1, <1>2, <2>1 DEF CanPop
    <2>3. Popped(b, frames, q, n, frames')
      BY <1>2, <2>2, FramesPop
    <2> QED
      BY <2>3 DEF Popped
  <1>4. UNCHANGED <<events, next, result, seenSeparator>> /\ pos' = q /\ q \in Nat /\ q # 0
    BY <1>1 DEF ReturnAt
  <1>5. CASE n # 0
    <2>1. WinTypes' /\ Kept
      BY <1>3, <1>4, <1>5, AggregationGoesOn
    <2>2. q < frames[1].end /\ n \in 1 .. Len(frames) - 1
      BY <1>1, <1>2, <1>4, <1>5 DEF Pops
    <2> QED
      BY <1>3, <1>5, <2>1, <2>2 DEF Left
  <1>6. CASE n = 0
    <2> DEFINE r == <<next, a>>
    <2>1. SubAt(events, r).typ = "elamAggregation"
      <3>1. SubAt(events, r) = b[a]
        BY DEF SubAt, e
      <3> QED
        BY <1>1, <3>1 DEF KindOf
    <2>2. ModulesBy(SubAt(events, r), ModuleAt(events, r), win, win')
      BY <2>1 DEF ModulesBy, OnlyField
    <2>3. /\ win'.latched = win.latched /\ win'.ternary = win.ternary
               /\ win'.BootCount = win.BootCount
          /\ win'.ColdBoot = win.ColdBoot /\ win'.BitlockerUnlocks = win.BitlockerUnlocks
      BY DEF OnlyField
    <2>4. WinTypes' /\ ReadAt(r)
      BY <1>3, <1>4, <1>6, <2>2, <2>3, AggregationEnds
    <2> QED
      BY <1>3, <1>6, <2>4 DEF Left
  <1> QED
    BY <1>5, <1>6

\* To leave an ELAM aggregation is a step.
LEMMA LeftIsStep ==
  ASSUME NEW q, WinTypes', Left(q)
  PROVE  Stepped
  BY DEF Left, Stepped

\* A nested aggregation is read.
LEMMA PushStep ==
  ASSUME WinTypes, Reading, frames # << >>, Top.kind = "elam", pos < Top.end, pos <= Len(e.block),
         Fits, frames' = Append(frames, Frame("elam", ELAMFields)), pos' = pos + 1,
         UNCHANGED <<events, next, result, win, seenSeparator>>
  PROVE  /\ WinTypes' /\ Kept /\ frames' # << >>
         /\ OuterOf(e.block, frames') = OuterOf(e.block, frames)
         /\ Len(frames') = Len(frames) + 1
              /\ frames'[Len(frames) + 1] = NewFrame(e.block, pos, "elam")
         /\ \A i \in 1 .. Len(frames) : frames'[i] = frames[i]
  <1> DEFINE b == e.block
             g == Append(frames, NewFrame(b, pos, "elam"))
  <1>1. pos \in Nat /\ pos # 0 /\ IsBlock(b) /\ Len(b) \in Nat /\ FramesOK(b, pos, frames)
    BY InFrames
  <1>2. pos \in 1 .. Len(b) /\ After(b, pos) <= Top.end
    BY <1>1 DEF Fits, After, h
  <1>3. frames' = g
    BY DEF NewFrame, Frame, FieldSet, After, h
  <1>4. /\ FramesOK(b, pos + 1, g) /\ OuterOf(b, g) = OuterOf(b, frames)
        /\ g # << >> /\ Len(g) = Len(frames) + 1 /\ g[Len(frames) + 1] = NewFrame(b, pos, "elam")
        /\ \A i \in 1 .. Len(frames) : g[i] = frames[i]
    <2>1. /\ pos < frames[Len(frames)].end /\ frames[Len(frames)].kind = "elam"
          /\ After(b, pos) <= frames[Len(frames)].end
      BY <1>2 DEF Top
    <2>2. CanPush(b, pos, frames)
      BY <1>1, <1>2, <2>1 DEF CanPush
    <2>3. Pushed(b, pos, frames, g)
      BY <2>2, FramesPush
    <2> HIDE DEF g
    <2> QED
      BY <2>3 DEF Pushed
  <1> HIDE DEF g
  <1>5. pos' \in Nat /\ pos' # 0 /\ pos' <= Len(b) + 1 /\ win' \in WinRecords
        /\ OnlyField(win, win', "ELAM")
    BY <1>1, <1>2 DEF WinTypes, OnlyField
  <1>6. WinTypes' /\ Kept
    BY <1>3, <1>4, <1>5, AggregationGoesOn
  <1> QED
    BY <1>3, <1>4, <1>6

\* An error in an ELAM aggregation.
LEMMA ErrorStep ==
  ASSUME WinTypes, Reading, frames # << >>, Top.kind = "elam", NEW q \in {pos, pos + 1},
         NEW aligned,
         q <= Top.end, q <= Len(e.block) + 1, Error(q, aligned)
  PROVE  Stepped
  <1>1. CASE Refuse
    BY <1>1, RefuseStep DEF Stepped
  <1>2. CASE Len(frames) # 1 /\ ReturnAt(q) /\ UNCHANGED win
    <2>1. win' \in WinRecords /\ OnlyField(win, win', "ELAM")
      BY <1>2 DEF WinTypes, OnlyField
    <2> QED
      BY <1>2, <2>1, ReturnStep, LeftIsStep
  <1> QED
    BY <1>1, <1>2 DEF Error

\* A sub-event of an ELAM aggregation.
LEMMA ELAMSubEventStep ==
  ASSUME WinTypes, ELAMSubEvent
  PROVE  Stepped
  <1>1. Reading /\ frames # << >> /\ Top.kind = "elam" /\ pos < Top.end /\ pos <= Len(e.block)
    BY DEF ELAMSubEvent, More, In
  <1>2. pos \in Nat /\ Len(e.block) \in Nat /\ Top.end \in Nat
    BY <1>1, InFrames
  <1>3. CASE h.typ \in ELAMFields /\ SetField
    <2>1. h.typ \in FieldSet(Top.kind)
      BY <1>1, <1>3 DEF FieldSet
    <2> QED
      BY <1>1, <1>3, <2>1, SetFieldStep DEF Stepped
  <1>4. CASE /\ Fits /\ frames' = Append(frames, Frame("elam", ELAMFields)) /\ pos' = pos + 1
             /\ UNCHANGED <<events, next, result, win, seenSeparator>>
    BY <1>1, <1>4, PushStep DEF Stepped
  <1>5. CASE Error(pos + 1, h.empty \/ h.typ \in Aggregations)
    <2>1. pos + 1 <= Top.end /\ pos + 1 <= Len(e.block) + 1
      BY <1>1, <1>2
    <2> QED
      BY <1>1, <1>5, <2>1, ErrorStep
  <1> QED
    BY <1>3, <1>4, <1>5 DEF ELAMSubEvent

\* The end of an ELAM aggregation that has a name.
LEMMA NamedEnd ==
  ASSUME WinTypes, AtEnd("elam"),
         ReturnAt(pos), win' = [win EXCEPT !.ELAM = Put(@, Top.fields["elamKeyname"], Top.fields)]
  PROVE  /\ WinTypes' /\ Left(pos)
         /\ win'.ELAM = Put(win.ELAM, Top.fields["elamKeyname"], Top.fields)
  <1>1. Reading /\ frames # << >> /\ Top.kind = "elam" /\ pos = Top.end
    BY DEF AtEnd, In
  <1>2. /\ pos \in Nat /\ Top.fields \in [ELAMFields -> WinValues] /\ pos <= Len(e.block) + 1
        /\ pos <= Top.end
    BY <1>1, InFrames DEF FieldSet
  <1>3. Top.fields["elamKeyname"] \in WinValues
    BY <1>2 DEF ELAMFields
  <1>4. win \in WinRecords /\ win.ELAM \in Maps([ELAMFields -> WinValues])
    BY DEF WinTypes, WinRecords
  <1> DEFINE M == Put(win.ELAM, Top.fields["elamKeyname"], Top.fields)
  <1>5. M \in Maps([ELAMFields -> WinValues])
    BY <1>2, <1>3, <1>4, PutType
  <1>6. win' = [win EXCEPT !.ELAM = M]
    OBVIOUS
  <1> HIDE DEF M
  <1>7. win' \in WinRecords /\ OnlyField(win, win', "ELAM") /\ win'.ELAM = M
    BY <1>4, <1>5, <1>6, SetELAM
  <1>8. Len(frames) = 1 => pos = frames[1].end
    BY <1>1 DEF Top
  <1> QED
    BY <1>1, <1>2, <1>7, <1>8, ReturnStep DEF M

\* The end of an ELAM aggregation, with a name or without one.
LEMMA ELAMEndStep ==
  ASSUME WinTypes, ELAMEnd
  PROVE  Stepped
  <1>1. AtEnd("elam") /\ Reading /\ frames # << >> /\ Top.kind = "elam" /\ pos = Top.end
    BY DEF ELAMEnd, AtEnd, In
  <1>2. pos <= Len(e.block) + 1 /\ pos <= Top.end
    BY <1>1, InFrames
  <1>3. CASE Error(pos, TRUE)
    BY <1>1, <1>2, <1>3, ErrorStep
  <1>4. CASE ReturnAt(pos)
               /\ win' = [win EXCEPT !.ELAM = Put(@, Top.fields["elamKeyname"], Top.fields)]
    BY <1>1, <1>4, NamedEnd, LeftIsStep
  <1> QED
    BY <1>3, <1>4 DEF ELAMEnd

\* An event that is not looked at.
LEMMA SkipEventStep ==
  ASSUME WinTypes, SkipEvent
  PROVE  WinTypes' /\ Kept
  <1>1. Outside /\ NextEvent /\ win' = win /\ seenSeparator' = seenSeparator
    BY DEF SkipEvent
  <1>2. Len(events) \in Nat /\ next \in 1 .. Len(events) /\ next \in Nat /\ next # 0
    BY <1>1, WinLog DEF WinTypes, Outside, Handling
  <1>3. \A k : k \in 1 .. next <=> k = next \/ k \in 1 .. next - 1
    BY <1>2
  <1>4. ~Tagged(events, next)
    BY DEF SkipEvent, WinTypes, Tagged, e
  <1>5. \A i \in {12, 13} : ~Sep(events, i, next)
    BY DEF SkipEvent, Sep, e
  <1>6. \A i \in {12, 13} : Open(events, i, next) <=> Open(events, i, next - 1)
    BY <1>3, <1>5 DEF Open
  <1>7. seenSeparator' = {i \in {12, 13} : ~Open(events, i, next)}
    BY <1>1, <1>6 DEF WinTypes
  <1> QED
    BY <1>1, <1>4, <1>7, PassStep

\* A separator.
LEMMA SeparatorStep ==
  ASSUME WinTypes, Separator
  PROVE  WinTypes' /\ Kept
  <1>1. CASE Refuse
    BY <1>1, RefuseStep
  <1>2. CASE NextEvent /\ seenSeparator' = seenSeparator \cup {e.index} /\ UNCHANGED win
    <2>1. Outside /\ e.index \in {12, 13} /\ e.typ = "Separator"
      BY DEF Separator, Windows
    <2>2. Len(events) \in Nat /\ next \in 1 .. Len(events) /\ next \in Nat /\ next # 0
      BY <2>1, WinLog DEF WinTypes, Outside, Handling
    <2>3. \A k : k \in 1 .. next <=> k = next \/ k \in 1 .. next - 1
      BY <2>2
    <2>4. ~Tagged(events, next)
      BY <2>1 DEF Tagged, e
    <2>5. \A i : Sep(events, i, next) <=> i = e.index
      BY <2>1 DEF Sep, e
    <2>6. \A i : ~Open(events, i, next) <=> i = e.index \/ ~Open(events, i, next - 1)
      BY <2>3, <2>5 DEF Open
    <2>7. seenSeparator' = {i \in {12, 13} : ~Open(events, i, next)}
      BY <1>2, <2>1, <2>6 DEF WinTypes
    <2> QED
      BY <1>2, <2>1, <2>4, <2>7, PassStep
  <1> QED
    BY <1>1, <1>2 DEF Separator

\* A tagged event.
LEMMA EventTagStep ==
  ASSUME WinTypes, EventTag
  PROVE  WinTypes' /\ Kept
  <1>1. CASE Refuse
    BY <1>1, RefuseStep
  <1>2. CASE pos' = 1 /\ UNCHANGED <<events, next, result, win, seenSeparator, frames>>
    <2>1. Outside /\ Tagged(events, next)
      BY DEF EventTag, Windows, WinTypes, Tagged, e
    <2> QED
      BY <1>2, <2>1, BlockStarts
  <1> QED
    BY <1>1, <1>2 DEF EventTag

\* The end of the loop.
LEMMA FinishWinStep ==
  ASSUME WinTypes, FinishWin
  PROVE  WinTypes' /\ Kept
  BY DEF WinTypes, FinishWin, Kept, Placed, OnlyField, e

\* No step.
LEMMA WinStutter ==
  ASSUME WinTypes, UNCHANGED winVars
  PROVE  WinTypes' /\ Kept
  BY DEF WinTypes, winVars, Kept, Placed, OnlyField, e

\* Every step keeps the types and reads at most one place.
LEMMA WinStep ==
  ASSUME WinTypes, [WinNext]_winVars
  PROVE  Stepped
  <1>1. CASE SkipEvent
    BY <1>1, SkipEventStep DEF Stepped
  <1>2. CASE UnexpectedWinType
    BY <1>2, RefuseStep DEF UnexpectedWinType, Stepped
  <1>3. CASE Separator
    BY <1>3, SeparatorStep DEF Stepped
  <1>4. CASE EventTag
    BY <1>4, EventTagStep DEF Stepped
  <1>5. CASE ReadBoolean
    BY <1>5, BooleanStep
  <1>6. CASE readBootCounter
    BY <1>6, BootCounterStep
  <1>7. CASE readTransferControl
    BY <1>7, TransferStep
  <1>8. CASE readBitlockerUnlock
    BY <1>8, UnlockStep
  <1>9. CASE UnknownSIPAEvent
    BY <1>9, UnknownStep
  <1>10. CASE EndBlock
    BY <1>10, BlockEnds DEF Stepped
  <1>11. CASE StartAggregation
    BY <1>11, StartStep DEF Stepped
  <1>12. CASE Truncated
    BY <1>12, RefuseStep DEF Truncated, Stepped
  <1>13. CASE LMASubEvent
    BY <1>13, LMASubEventStep DEF Stepped
  <1>14. CASE LMAEnd
    BY <1>14, LMAEndStep DEF Stepped
  <1>15. CASE ELAMSubEvent
    BY <1>15, ELAMSubEventStep
  <1>16. CASE ELAMEnd
    BY <1>16, ELAMEndStep
  <1>17. CASE FinishWin
    BY <1>17, FinishWinStep DEF Stepped
  <1>18. CASE UNCHANGED winVars
    BY <1>18, WinStutter DEF Stepped
  <1> QED
    BY <1>1, <1>2, <1>3, <1>4, <1>5, <1>6, <1>7, <1>8, <1>9, <1>10, <1>11, <1>12, <1>13, <1>14,
       <1>15, <1>16, <1>17, <1>18, Zenon DEF WinNext

\* At the start nothing was read.
LEMMA WinStart ==
  ASSUME WinInit
  PROVE  WinTypes /\ Placed = {}
  <1>1. Len(events) \in Nat
    BY WinLog DEF WinInit
  <1>2. win \in WinRecords
    <2>1. NoFunction \in Maps(ModuleType) /\ NoFunction \in Maps([ELAMFields -> WinValues])
      <3>1. NoFunction \in [{} -> ModuleType] /\ NoFunction \in [{} -> [ELAMFields -> WinValues]]
        BY DEF NoFunction
      <3> QED
        BY <3>1 DEF Maps
    <2>2. "zero" \in WinValues /\ << >> \in Seq(WinValues)
      BY DEF WinValues
    <2> QED
      BY <2>1, <2>2 DEF WinInit, WinRecords
  <1>3. \A i : Open(events, i, next - 1)
    BY DEF WinInit, Open
  <1>4. WinTypes
    BY <1>1, <1>2, <1>3 DEF WinInit, WinTypes
  <1>5. Placed = PlacesTo(events, 0, 0)
    BY DEF WinInit, Placed, Cur
  <1> QED
    BY <1>4, <1>5 DEF PlacesTo

\* The types hold in every state.
LEMMA TypesHold == WinSpec => []WinTypes
  <1>1. WinInit => WinTypes
    BY WinStart
  <1>2. WinTypes /\ [WinNext]_winVars => WinTypes'
    BY WinStep DEF Stepped
  <1> QED
    BY <1>1, <1>2, PTL DEF WinSpec

\* What ParseWinEvents keeps has its types: it stays within the log and the block it
\* reads, aggregations nest, and the parser is inside the innermost.
THEOREM WinTypesHold == WinSpec => []TypeOK
  <1>1. ASSUME WinTypes PROVE TypeOK
    <2>1. win.latched \in [ByteLatches -> BOOLEAN]
            /\ win.ternary \in [Ternaries -> {"Unknown", "True", "False"}]
      BY <1>1 DEF WinTypes, WinRecords
    <2>2. seenSeparator \subseteq {12, 13}
      BY <1>1 DEF WinTypes
    <2>3. CASE pos = 0
      <3>1. frames = << >> /\ Len(frames) = 0
        BY <1>1, <2>3 DEF WinTypes
      <3> QED
        BY <1>1, <2>1, <2>2, <2>3, <3>1 DEF TypeOK, WinTypes
    <2>4. CASE pos # 0
      <3>1. /\ pos \in Nat /\ pos <= Len(e.block) + 1 /\ Len(e.block) \in Nat /\ IsBlock(e.block)
            /\ FramesOK(e.block, pos, frames) /\ next <= Len(events)
        BY <1>1, <2>4, InEvent DEF WinTypes
      <3>2. pos \in 1 .. Len(e.block) + 1
        BY <2>4, <3>1
      <3>3. frames # << >> => pos <= Top.end
        BY <3>1, InnerFrame DEF Top
      <3>4. ASSUME NEW i \in 2 .. Len(frames) PROVE frames[i - 1].end >= frames[i].end
        <4>1. frames \in Seq(FrameType) /\ Len(frames) \in Nat
          BY <3>1, LenProperties DEF FramesOK, FramesNest
        <4>2. i - 1 \in 1 .. Len(frames) /\ i \in 1 .. Len(frames) /\ i - 1 <= i
          BY <4>1
        <4>3. frames[i].end <= frames[i - 1].end
          BY <3>1, <4>2 DEF FramesOK, FramesNest
        <4> QED
          BY <4>3
      <3> QED
        BY <1>1, <2>1, <2>2, <2>4, <3>1, <3>2, <3>3, <3>4 DEF TypeOK, WinTypes
    <2> QED
      BY <2>3, <2>4
  <1> QED
    BY <1>1, TypesHold, PTL

-----------------------------------------------------------------------------
(***************************************************************************)
(* The signals say what the places D of the log s report.                  *)
(***************************************************************************)

LatchesIn(s, D, w) ==
  /\ \A f \in ByteLatches :
       w.latched[f] <=> \E r \in D : SubAt(s, r).typ = f /\ SubAt(s, r).value # "zero"
  /\ \A f \in Ternaries :
       w.ternary[f] = IF \A r \in D : SubAt(s, r).typ # f THEN "Unknown"
                      ELSE IF \E r \in D : SubAt(s, r).typ = f /\ SubAt(s, r).value = "zero"
                        THEN "False" ELSE "True"

\* One more place, and what its sub-event makes of the signals.
LEMMA LatchesAdd ==
  ASSUME NEW s, NEW D, NEW r, NEW w \in WinRecords, NEW v, LatchesIn(s, D, w),
         BooleansBy(SubAt(s, r), w, v)
  PROVE  LatchesIn(s, D \cup {r}, v)
  <1> DEFINE x == SubAt(s, r)
  <1>1. w.latched \in [ByteLatches -> BOOLEAN]
          /\ w.ternary \in [Ternaries -> {"Unknown", "True", "False"}]
    BY DEF WinRecords
  <1>2. ASSUME NEW f \in ByteLatches
        PROVE  v.latched[f] <=> \E t \in D \cup {r} : SubAt(s, t).typ = f
                 /\ SubAt(s, t).value # "zero"
    <2>1. w.latched[f] \in BOOLEAN
      BY <1>1
    <2>2. w.latched[f] <=> \E t \in D : SubAt(s, t).typ = f /\ SubAt(s, t).value # "zero"
      BY DEF LatchesIn
    <2>3. v.latched[f] <=> w.latched[f] \/ (x.typ = f /\ x.value # "zero")
      <3> HIDE DEF x
      <3>1. v.latched = IF x.typ \in ByteLatches
                          THEN [w.latched EXCEPT ![x.typ] = w.latched[x.typ] \/ x.value # "zero"]
                          ELSE w.latched
        BY DEF BooleansBy, x
      <3>2. CASE x.typ = f
        <4>1. v.latched[f] = (w.latched[f] \/ x.value # "zero")
          BY <1>1, <3>1, <3>2
        <4> QED
          BY <3>2, <4>1
      <3>3. CASE x.typ # f
        <4>1. v.latched[f] = w.latched[f]
          BY <1>1, <3>1, <3>3
        <4> QED
          BY <3>3, <4>1
      <3> QED
        BY <3>2, <3>3
    <2> QED
      BY <2>2, <2>3
  <1>3. ASSUME NEW f \in Ternaries
        PROVE  v.ternary[f] = IF \A t \in D \cup {r} : SubAt(s, t).typ # f THEN "Unknown"
                              ELSE IF \E t \in D \cup {r} : SubAt(s, t).typ = f
                                /\ SubAt(s, t).value = "zero"
                                THEN "False" ELSE "True"
    <2>1. w.ternary[f] = IF \A t \in D : SubAt(s, t).typ # f THEN "Unknown"
                         ELSE IF \E t \in D : SubAt(s, t).typ = f /\ SubAt(s, t).value = "zero"
                           THEN "False" ELSE "True"
      BY DEF LatchesIn
    <2>2. v.ternary[f] = IF x.typ # f THEN w.ternary[f] ELSE IF x.value = "zero" THEN "False"
                         ELSE IF w.ternary[f] = "Unknown" THEN "True" ELSE w.ternary[f]
      <3> HIDE DEF x
      <3> QED
        BY <1>1 DEF BooleansBy, x
    <2> QED
      BY <2>1, <2>2
  <1> QED
    BY <1>2, <1>3 DEF LatchesIn

-----------------------------------------------------------------------------
(***************************************************************************)
(* Sequences with a value for each of some places, in their order.         *)
(***************************************************************************)

\* Places are pairs of numbers, and r is after all of U.
AfterAll(U, r) == U \subseteq Nat \X Nat /\ r \in Nat \X Nat /\ \A s \in U : Before(s, r)

\* A place that is after all of U is none of them.
LEMMA BeforeOnce ==
  ASSUME NEW U, NEW r, AfterAll(U, r)
  PROVE  r \notin U /\ ~Before(r, r) /\ \A s \in U : Before(s, r) /\ ~Before(r, s)
  BY DEF AfterAll, Before

\* A place that is after all of U is the last.
LEMMA LastIs ==
  ASSUME NEW U, NEW r, AfterAll(U, r)
  PROVE  LastOf(U \cup {r}) = r
  <1> DEFINE S == U \cup {r}
             c == CHOOSE x \in S : \A t \in S : t = x \/ Before(t, x)
  <1>1. \A t \in S : t = r \/ Before(t, r)
    BY DEF AfterAll
  <1>2. c \in S /\ \A t \in S : t = c \/ Before(t, c)
    BY <1>1
  <1>3. c = r
    <2> HIDE DEF c
    <2> QED
      BY <1>2, BeforeOnce
  <1> QED
    BY <1>3 DEF LastOf

\* In the order of the places, and in the opposite order.
InOrder(q, U, f) ==
  /\ Len(q) = Cardinality(U)
  /\ \A r \in U : q[1 + Cardinality({s \in U : Before(s, r)})] = f[r]
LatestFirst(q, U, f) ==
  /\ Len(q) = Cardinality(U)
  /\ \A r \in U : q[1 + Cardinality({s \in U : Before(r, s)})] = f[r]

\* The places in a set before or after one of them are fewer than the set has.
LEMMA FewerOthers ==
  ASSUME NEW U, IsFiniteSet(U), NEW r \in U, NEW W, W \subseteq U, r \notin W
  PROVE  /\ Cardinality(U) \in Nat /\ Cardinality(W) \in Nat
         /\ 1 + Cardinality(W) \in 1 .. Cardinality(U)
  <1> DEFINE X == U \ {r}
  <1>1. IsFiniteSet(X) /\ Cardinality(X) = Cardinality(U) - 1
    BY FS_RemoveElement
  <1>2. W \subseteq X
    OBVIOUS
  <1> HIDE DEF X
  <1>3. IsFiniteSet(W) /\ Cardinality(W) <= Cardinality(X)
    BY <1>1, <1>2, FS_Subset
  <1>4. Cardinality(W) \in Nat /\ Cardinality(X) \in Nat /\ Cardinality(U) \in Nat
    BY <1>1, <1>3, FS_CardinalityType
  <1> QED
    BY <1>1, <1>3, <1>4

\* A place that is after the others adds its value at the end,
LEMMA InOrderAdd ==
  ASSUME NEW V, NEW q \in Seq(V), NEW U, IsFiniteSet(U), NEW r, AfterAll(U, r), NEW f, f[r] \in V,
         InOrder(q, U, f)
  PROVE  InOrder(Append(q, f[r]), U \cup {r}, f)
  <1> DEFINE S == U \cup {r}
             z == Append(q, f[r])
  <1>1. r \notin U /\ ~Before(r, r) /\ \A s \in U : Before(s, r) /\ ~Before(r, s)
    BY BeforeOnce
  <1>2. Len(q) = Cardinality(U) /\ Len(q) \in Nat
    BY LenProperties DEF InOrder
  <1>3. Cardinality(S) = Cardinality(U) + 1
    BY <1>1, FS_AddElement
  <1>4. Len(z) = Len(q) + 1 /\ z[Len(q) + 1] = f[r] /\ \A i \in 1 .. Len(q) : z[i] = q[i]
    BY AppendProperties
  <1> HIDE DEF z
  <1>5. ASSUME NEW t \in U PROVE z[1 + Cardinality({s \in S : Before(s, t)})] = f[t]
    <2> DEFINE W == {s \in U : Before(s, t)}
    <2>1. {s \in S : Before(s, t)} = W
      BY <1>1
    <2>2. W \subseteq U /\ t \notin W
      <3>1. ~Before(t, t)
        BY DEF AfterAll, Before
      <3> QED
        BY <3>1
    <2>3. q[1 + Cardinality(W)] = f[t]
      BY DEF InOrder
    <2> HIDE DEF W
    <2>4. 1 + Cardinality(W) \in 1 .. Len(q)
      BY <1>2, <2>2, FewerOthers
    <2> QED
      BY <1>4, <2>1, <2>3, <2>4
  <1>6. z[1 + Cardinality({s \in S : Before(s, r)})] = f[r]
    <2>1. {s \in S : Before(s, r)} = U
      BY <1>1
    <2>2. 1 + Cardinality(U) = Len(q) + 1
      BY <1>2
    <2> QED
      BY <1>4, <2>1, <2>2
  <1>7. \A t \in S : z[1 + Cardinality({s \in S : Before(s, t)})] = f[t]
    BY <1>5, <1>6
  <1>8. Len(z) = Cardinality(S)
    BY <1>2, <1>3, <1>4
  <1> HIDE DEF S
  <1>9. InOrder(z, S, f)
    BY <1>7, <1>8 DEF InOrder
  <1> QED
    BY <1>9 DEF z, S

\* or at the start.
LEMMA LatestFirstAdd ==
  ASSUME NEW V, NEW q \in Seq(V), NEW U, IsFiniteSet(U), NEW r, AfterAll(U, r), NEW f, f[r] \in V,
         LatestFirst(q, U, f)
  PROVE  LatestFirst(<<f[r]>> \o q, U \cup {r}, f)
  <1> DEFINE S == U \cup {r}
             z == <<f[r]>> \o q
  <1>1. r \notin U /\ ~Before(r, r) /\ \A s \in U : Before(s, r) /\ ~Before(r, s)
    BY BeforeOnce
  <1>2. Len(q) = Cardinality(U) /\ Len(q) \in Nat
    BY LenProperties DEF LatestFirst
  <1>3. Cardinality(S) = Cardinality(U) + 1
    BY <1>1, FS_AddElement
  <1>4. Len(z) = Len(q) + 1 /\ z[1] = f[r] /\ \A i \in 1 .. Len(q) : z[1 + i] = q[i]
    <2>1. <<f[r]>> \in Seq(V) /\ Len(<<f[r]>>) = 1
      OBVIOUS
    <2>2. /\ Len(z) = 1 + Len(q)
          /\ \A i \in 1 .. 1 + Len(q) : z[i] = IF i <= 1 THEN <<f[r]>>[i] ELSE q[i - 1]
      BY <2>1, ConcatProperties
    <2> HIDE DEF z
    <2>3. z[1] = f[r]
      BY <1>2, <2>2
    <2>4. ASSUME NEW i \in 1 .. Len(q) PROVE z[1 + i] = q[i]
      <3>1. 1 + i \in 1 .. 1 + Len(q) /\ ~(1 + i <= 1) /\ (1 + i) - 1 = i
        BY <1>2
      <3> QED
        BY <2>2, <3>1
    <2> QED
      BY <1>2, <2>2, <2>3, <2>4
  <1> HIDE DEF z
  <1>5. ASSUME NEW t \in U PROVE z[1 + Cardinality({s \in S : Before(t, s)})] = f[t]
    <2> DEFINE W == {s \in U : Before(t, s)}
    <2>1. {s \in S : Before(t, s)} = W \cup {r} /\ r \notin W
      BY <1>1
    <2>2. W \subseteq U /\ t \notin W
      <3>1. ~Before(t, t)
        BY DEF AfterAll, Before
      <3> QED
        BY <3>1
    <2>3. q[1 + Cardinality(W)] = f[t]
      BY DEF LatestFirst
    <2> HIDE DEF W
    <2>4. 1 + Cardinality(W) \in 1 .. Len(q) /\ Cardinality(W) \in Nat
      BY <1>2, <2>2, FewerOthers
    <2>5. Cardinality(W \cup {r}) = Cardinality(W) + 1
      BY <2>1, <2>2, FS_Subset, FS_AddElement
    <2>6. z[1 + (1 + Cardinality(W))] = f[t]
      BY <1>4, <2>3, <2>4
    <2>7. 1 + Cardinality(W \cup {r}) = 1 + (1 + Cardinality(W))
      BY <2>4, <2>5
    <2> QED
      BY <2>1, <2>6, <2>7
  <1>6. z[1 + Cardinality({s \in S : Before(r, s)})] = f[r]
    <2>1. {s \in S : Before(r, s)} = {}
      BY <1>1
    <2>2. Cardinality({s \in S : Before(r, s)}) = 0
      BY <2>1, FS_EmptySet, Zenon
    <2> DEFINE c == Cardinality({s \in S : Before(r, s)})
    <2> HIDE DEF c
    <2>3. c = 0
      BY <2>2 DEF c
    <2>4. z[1 + c] = f[r]
      BY <1>4, <2>3
    <2> QED
      BY <2>4 DEF c
  <1>7. \A t \in S : z[1 + Cardinality({s \in S : Before(t, s)})] = f[t]
    BY <1>5, <1>6
  <1>8. Len(z) = Cardinality(S)
    BY <1>2, <1>3, <1>4
  <1> HIDE DEF S
  <1>9. LatestFirst(z, S, f)
    BY <1>7, <1>8 DEF LatestFirst
  <1> QED
    BY <1>9 DEF z, S

\* A place that is after all of D is after some of them.
LEMMA AfterSome ==
  ASSUME NEW D, NEW r, AfterAll(D, r), NEW U, U \subseteq D
  PROVE  AfterAll(U, r)
  BY DEF AfterAll

-----------------------------------------------------------------------------
(***************************************************************************)
(* The boot counter, the unlocks and the transfers of control.             *)
(***************************************************************************)

ValueAt(s) == [r \in Nat \X Nat |-> SubAt(s, r).value]
OfType(s, D, t) == {r \in D : SubAt(s, r).typ = t}
UnlocksIn(s, D) == {r \in OfType(s, D, "bitlockerUnlock") : s[r[1]].index = 12}
CounterIn(s, D, w) ==
  {SubAt(s, r).value : r \in OfType(s, D, "bootCounter")} \ {"zero"} = {w.BootCount} \ {"zero"}
ColdIn(s, D, w) ==
  LET transfers == OfType(s, D, "transferControl")
  IN  w.ColdBoot <=> transfers # {} /\ SubAt(s, LastOf(transfers)).value = "one"
CountsIn(s, D, w) ==
  CounterIn(s, D, w) /\ ColdIn(s, D, w) /\ InOrder(w.BitlockerUnlocks, UnlocksIn(s, D), ValueAt(s))

\* One more place, and what its sub-event makes of the counts.
LEMMA CountsAdd ==
  ASSUME NEW s, NEW D, IsFiniteSet(D), NEW r, AfterAll(D, r), NEW w \in WinRecords, NEW v,
         CountsIn(s, D, w), SubAt(s, r).value \in WinValues,
         CountsBy(SubAt(s, r), s[r[1]].index, w, v)
  PROVE  CountsIn(s, D \cup {r}, v)
  <1> DEFINE x == SubAt(s, r)
             E == D \cup {r}
             i == s[r[1]].index
  <1>1. CounterIn(s, E, v)
    <2> DEFINE A == OfType(s, D, "bootCounter")
               B == OfType(s, E, "bootCounter")
               VA == {SubAt(s, t).value : t \in A}
               VB == {SubAt(s, t).value : t \in B}
    <2>1. VA \ {"zero"} = {w.BootCount} \ {"zero"}
      BY DEF CountsIn, CounterIn
    <2>2. CASE x.typ = "bootCounter"
      <3>1. B = A \cup {r}
        BY <2>2 DEF OfType
      <3> HIDE DEF A, B
      <3>2. VB = VA \cup {x.value}
        BY <3>1
      <3>3. v.BootCount = x.value /\ w.BootCount \in {"zero", x.value}
        BY <2>2 DEF CountsBy
      <3> HIDE DEF VA, VB, x
      <3>4. VB \ {"zero"} = {v.BootCount} \ {"zero"}
        BY <2>1, <3>2, <3>3
      <3> QED
        BY <3>4 DEF CounterIn, VB, B
    <2>3. CASE x.typ # "bootCounter"
      <3>1. B = A
        BY <2>3 DEF OfType
      <3>2. v.BootCount = w.BootCount
        BY <2>3 DEF CountsBy
      <3> QED
        BY <2>1, <3>1, <3>2 DEF CounterIn
    <2> QED
      BY <2>2, <2>3
  <1>2. ColdIn(s, E, v)
    <2> DEFINE A == OfType(s, D, "transferControl")
               B == OfType(s, E, "transferControl")
    <2>1. w.ColdBoot <=> A # {} /\ SubAt(s, LastOf(A)).value = "one"
      BY DEF CountsIn, ColdIn
    <2>2. CASE x.typ = "transferControl"
      <3>1. B = A \cup {r}
        BY <2>2 DEF OfType
      <3>2. A \subseteq D
        BY DEF OfType
      <3>3. LastOf(B) = r /\ B # {}
        <4> HIDE DEF A, B
        <4>1. AfterAll(A, r)
          BY <3>2, AfterSome
        <4> QED
          BY <3>1, <4>1, LastIs
      <3>4. v.ColdBoot = (x.value = "one")
        BY <2>2 DEF CountsBy
      <3> HIDE DEF B
      <3>5. v.ColdBoot <=> B # {} /\ SubAt(s, LastOf(B)).value = "one"
        BY <3>3, <3>4
      <3> QED
        BY <3>5 DEF ColdIn, B
    <2>3. CASE x.typ # "transferControl"
      <3>1. B = A
        BY <2>3 DEF OfType
      <3>2. v.ColdBoot = w.ColdBoot
        BY <2>3 DEF CountsBy
      <3> QED
        BY <2>1, <3>1, <3>2 DEF ColdIn
    <2> QED
      BY <2>2, <2>3
  <1>3. InOrder(v.BitlockerUnlocks, UnlocksIn(s, E), ValueAt(s))
    <2> DEFINE A == UnlocksIn(s, D)
               B == UnlocksIn(s, E)
               f == ValueAt(s)
    <2>1. InOrder(w.BitlockerUnlocks, A, f) /\ w.BitlockerUnlocks \in Seq(WinValues)
      BY DEF CountsIn, WinRecords
    <2>2. CASE x.typ = "bitlockerUnlock" /\ i = 12
      <3>1. B = A \cup {r}
        BY <2>2 DEF UnlocksIn, OfType
      <3>2. A \subseteq D
        BY DEF UnlocksIn, OfType
      <3>3. v.BitlockerUnlocks = Append(w.BitlockerUnlocks, x.value)
        BY <2>2 DEF CountsBy
      <3>4. f[r] = x.value
        BY DEF ValueAt, AfterAll
      <3> HIDE DEF A, B, f
      <3>5. IsFiniteSet(A) /\ AfterAll(A, r)
        BY <3>2, FS_Subset, AfterSome
      <3>6. InOrder(Append(w.BitlockerUnlocks, f[r]), A \cup {r}, f)
        BY <2>1, <3>4, <3>5, InOrderAdd
      <3> QED
        BY <3>1, <3>3, <3>4, <3>6 DEF A, B, f
    <2>3. CASE ~(x.typ = "bitlockerUnlock" /\ i = 12)
      <3>1. B = A
        BY <2>3 DEF UnlocksIn, OfType
      <3>2. v.BitlockerUnlocks = w.BitlockerUnlocks
        BY <2>3 DEF CountsBy
      <3> QED
        BY <2>1, <3>1, <3>2
    <2> QED
      BY <2>2, <2>3
  <1> QED
    BY <1>1, <1>2, <1>3 DEF CountsIn

-----------------------------------------------------------------------------
(***************************************************************************)
(* The loaded modules.                                                     *)
(***************************************************************************)

LoadsIn(s, D) == OfType(s, D, "loadedModuleAggregation")
HashAt(s, r) == HashHex(ModuleAt(s, r))
LoadsOf(s, D, k) == {r \in LoadsIn(s, D) : HashAt(s, r) = k}
BasedOf(s, D, k) == {r \in LoadsOf(s, D, k) : ModuleAt(s, r)["imageBase"] # "zero"}
BaseAt(s) == [r \in Nat \X Nat |-> ModuleAt(s, r)["imageBase"]]
ModuleIn(s, D, k, m) ==
  /\ m.fields = ModuleAt(s, LastOf(LoadsOf(s, D, k)))
  /\ LatestFirst(m.ImageBase, BasedOf(s, D, k), BaseAt(s))
ModulesIn(s, D, M) ==
  /\ DOMAIN M = {HashAt(s, r) : r \in LoadsIn(s, D)}
  /\ \A k \in DOMAIN M : ModuleIn(s, D, k, M[k])

\* One more place, and what its sub-event makes of the modules.
LEMMA ModulesAdd ==
  ASSUME NEW s, NEW D, IsFiniteSet(D), NEW r, AfterAll(D, r), NEW w \in WinRecords, NEW v,
         ModulesIn(s, D, w.LoadedModules), ModuleAt(s, r) \in [LMAFields -> WinValues],
         ModulesBy(SubAt(s, r), ModuleAt(s, r), w, v)
  PROVE  ModulesIn(s, D \cup {r}, v.LoadedModules)
  <1> DEFINE x == SubAt(s, r)
             E == D \cup {r}
             M == w.LoadedModules
             N == v.LoadedModules
             F == ModuleAt(s, r)
             c == HashHex(F)
             f == BaseAt(s)
  <1>1. CASE x.typ # "loadedModuleAggregation"
    <2>1. LoadsIn(s, E) = LoadsIn(s, D)
      BY <1>1 DEF LoadsIn, OfType
    <2>2. \A k : LoadsOf(s, E, k) = LoadsOf(s, D, k) /\ BasedOf(s, E, k) = BasedOf(s, D, k)
      BY <2>1 DEF LoadsOf, BasedOf
    <2>3. N = M
      BY <1>1 DEF ModulesBy
    <2> HIDE DEF E, M, N
    <2>4. \A k \in DOMAIN M : ModuleIn(s, E, k, M[k])
      BY <2>2 DEF ModulesIn, ModuleIn, M
    <2>5. DOMAIN M = {HashAt(s, t) : t \in LoadsIn(s, E)}
      BY <2>1 DEF ModulesIn, M
    <2>6. ModulesIn(s, E, N)
      BY <2>3, <2>4, <2>5 DEF ModulesIn
    <2> QED
      BY <2>6 DEF E, N
  <1>2. CASE x.typ = "loadedModuleAggregation"
    <2> DEFINE before == IF c \in DOMAIN M THEN M[c].ImageBase ELSE << >>
               m == [fields |-> F, ImageBase |-> Bases(F) \o before]
    <2>1. LoadsIn(s, E) = LoadsIn(s, D) \cup {r}
      BY <1>2 DEF LoadsIn, OfType
    <2>2. HashAt(s, r) = c
      BY DEF HashAt
    <2>3. F["imageBase"] \in WinValues /\ F["authenticodeHash"] \in WinValues
      BY DEF LMAFields
    <2>4. c \in WinValues
      BY <2>3 DEF HashHex, WinValues
    <2>5. M \in Maps(ModuleType)
      BY DEF WinRecords
    <2>6. PICK S \in SUBSET WinValues : M \in [S -> ModuleType]
      BY <2>5 DEF Maps
    <2>7. before \in Seq(WinValues) /\ Bases(F) \in Seq(WinValues)
      <3>1. c \in DOMAIN M => M[c] \in ModuleType
        BY <2>6
      <3> QED
        BY <2>3, <3>1 DEF ModuleType, Bases
    <2>8. m \in ModuleType
      <3>1. Bases(F) \o before \in Seq(WinValues)
        BY <2>7, ConcatProperties
      <3> HIDE DEF before, F
      <3> QED
        BY <3>1 DEF ModuleType, F
    <2>9. N = Put(M, c, m)
      BY <1>2 DEF ModulesBy, Loaded
    <2>10. m.fields = F /\ m.ImageBase = Bases(F) \o before
      OBVIOUS
    <2> HIDE DEF m, M, N, c
    <2>11. DOMAIN N = DOMAIN M \cup {c} /\ \A k \in DOMAIN N : N[k] = IF k = c THEN m ELSE M[k]
      BY <2>9 DEF Put
    <2>12. DOMAIN M = {HashAt(s, t) : t \in LoadsIn(s, D)}
             /\ \A k \in DOMAIN M : ModuleIn(s, D, k, M[k])
      BY DEF ModulesIn, M
    <2> HIDE DEF E
    <2>13. DOMAIN N = {HashAt(s, t) : t \in LoadsIn(s, E)}
      <3>1. {HashAt(s, t) : t \in LoadsIn(s, D) \cup {r}}
              = {HashAt(s, t) : t \in LoadsIn(s, D)} \cup {c}
        BY <2>2
      <3> QED
        BY <2>1, <2>11, <2>12, <3>1
    <2>14. ASSUME NEW k \in DOMAIN N, k # c PROVE ModuleIn(s, E, k, N[k])
      <3>1. LoadsOf(s, E, k) = LoadsOf(s, D, k)
        BY <2>1, <2>2, <2>14 DEF LoadsOf
      <3>2. BasedOf(s, E, k) = BasedOf(s, D, k)
        BY <3>1 DEF BasedOf
      <3>3. k \in DOMAIN M /\ N[k] = M[k]
        BY <2>11, <2>14
      <3>4. ModuleIn(s, D, k, M[k])
        BY <2>12, <3>3
      <3> QED
        BY <3>1, <3>2, <3>3, <3>4 DEF ModuleIn
    <2>15. ModuleIn(s, E, c, m)
      <3> DEFINE A == LoadsOf(s, D, c)
                 A2 == BasedOf(s, D, c)
                 B == LoadsOf(s, E, c)
                 B2 == BasedOf(s, E, c)
      <3>1. B = A \cup {r} /\ A \subseteq D /\ A2 \subseteq D
        BY <2>1, <2>2 DEF LoadsOf, BasedOf, LoadsIn, OfType
      <3>2. AfterAll(A, r) /\ AfterAll(A2, r) /\ IsFiniteSet(A2)
        <4> HIDE DEF A, A2
        <4> QED
          BY <3>1, AfterSome, FS_Subset
      <3>3. LastOf(B) = r
        <4> HIDE DEF A, B
        <4> QED
          BY <3>1, <3>2, LastIs
      <3>4. LatestFirst(before, A2, f)
        <4>1. CASE c \in DOMAIN M
          BY <2>12, <4>1 DEF ModuleIn
        <4>2. CASE c \notin DOMAIN M
          <5>1. \A t \in LoadsIn(s, D) : HashAt(s, t) # c
            BY <2>12, <4>2
          <5>2. A2 = {} /\ before = << >>
            BY <4>2, <5>1 DEF BasedOf, LoadsOf
          <5>3. Len(<< >>) = 0 /\ Cardinality({}) = 0
            BY FS_EmptySet
          <5> HIDE DEF A2, before
          <5> QED
            BY <5>2, <5>3 DEF LatestFirst
        <4> QED
          BY <4>1, <4>2
      <3>5. LatestFirst(m.ImageBase, B2, f)
        <4>1. CASE F["imageBase"] = "zero"
          <5>1. B2 = A2
            BY <3>1, <4>1 DEF BasedOf
          <5>2. Bases(F) = << >>
            BY <4>1 DEF Bases
          <5> HIDE DEF before
          <5>3. m.ImageBase = before
            BY <2>7, <2>10, <5>2, ConcatEmptySeq
          <5> QED
            BY <3>4, <5>1, <5>3
        <4>2. CASE F["imageBase"] # "zero"
          <5>1. B2 = A2 \cup {r}
            BY <3>1, <4>2 DEF BasedOf
          <5>2. f[r] = F["imageBase"]
            BY DEF BaseAt, AfterAll
          <5>3. m.ImageBase = <<f[r]>> \o before
            BY <2>10, <4>2, <5>2 DEF Bases
          <5> HIDE DEF before, A2, B2, f
          <5>4. LatestFirst(<<f[r]>> \o before, A2 \cup {r}, f)
            BY <2>3, <2>7, <3>2, <3>4, <5>2, LatestFirstAdd
          <5> QED
            BY <5>1, <5>3, <5>4
        <4> QED
          BY <4>1, <4>2
      <3> QED
        BY <2>10, <3>3, <3>5 DEF ModuleIn
    <2>16. \A k \in DOMAIN N : ModuleIn(s, E, k, N[k])
      BY <2>11, <2>14, <2>15
    <2>17. ModulesIn(s, E, N)
      BY <2>13, <2>16 DEF ModulesIn
    <2> QED
      BY <2>17 DEF E, N
  <1> QED
    BY <1>1, <1>2

\* The fields of an aggregation that is in the block have values of the log.
LEMMA FieldsType ==
  ASSUME NEW b, IsBlock(b), NEW a \in 1 .. Len(b), After(b, a) <= Len(b) + 1,
         \A p \in 1 .. Len(b) : b[p].value \in WinValues, NEW fields
  PROVE  FieldsOf(b, Subs(b, a), fields) \in [fields -> WinValues]
  <1> DEFINE Q == Subs(b, a)
             F == FieldsOf(b, Q, fields)
  <1>1. Len(b) \in Nat /\ b[a].len \in Nat /\ a + b[a].len <= Len(b)
    BY BlockType DEF After
  <1>2. Q \subseteq 1 .. Len(b) /\ Q \subseteq Nat
    BY <1>1 DEF Subs
  <1> HIDE DEF Q
  <1>3. ASSUME NEW f \in fields PROVE F[f] \in WinValues
    <2>1. CASE \A q \in Q : b[q].typ # f
      <3>1. F[f] = Unset(f)
        BY <2>1, FieldUnset, Zenon
      <3> QED
        BY <3>1 DEF Unset, WinValues
    <2>2. CASE \E q \in Q : b[q].typ = f
      <3> DEFINE S == {q \in Q : b[q].typ = f}
      <3>1. S \subseteq 1 .. Len(b) /\ S # {}
        BY <1>2, <2>2
      <3>2. PICK q \in S : \A t \in S : t <= q
        <4> HIDE DEF S
        <4> QED
          BY <1>1, <3>1, GreatestPlace
      <3>3. LastAt(b, Q, f, q)
        BY <1>2, <3>2 DEF LastAt
      <3>4. F[f] = b[q].value
        BY <3>3, FieldIs
      <3> QED
        BY <1>2, <3>2, <3>4
    <2> QED
      BY <2>1, <2>2
  <1>4. F = [f \in fields |-> F[f]]
    BY FieldsDomain
  <1> HIDE DEF F
  <1>5. F \in [fields -> WinValues]
    BY <1>3, <1>4
  <1> QED
    BY <1>5 DEF F, Q

ValuesInv ==
  /\ IsFiniteSet(Placed)
  /\ LatchesIn(events, Placed, win)
  /\ CountsIn(events, Placed, win)
  /\ ModulesIn(events, Placed, win.LoadedModules)

\* A place that was just read is the last, and has values of the log.
LEMMA ReadPlace ==
  ASSUME WinTypes, NEW r, ReadAt(r)
  PROVE  /\ AfterAll(Placed, r) /\ SubAt(events, r).value \in WinValues
         /\ ModuleAt(events, r) \in [LMAFields -> WinValues]
  <1> DEFINE b == e.block
             a == r[2]
  <1>1. /\ r[1] = next /\ next \in 1 .. Len(events) /\ Tagged(events, next) /\ a \in TopLevel(b)
        /\ r = <<next, a>> /\ After(b, a) <= Len(b) + 1 /\ \A s \in Placed : Before(s, r)
    BY DEF ReadAt
  <1>2. Len(events) \in Nat /\ IsBlock(b) /\ \A p \in 1 .. Len(b) : b[p].value \in WinValues
    BY <1>1, WinLog DEF WinTypes, e
  <1>3. a \in 1 .. Len(b) /\ b = events[r[1]].block /\ a \in Nat /\ next \in Nat
    BY <1>1, <1>2, TopIs, BlockType DEF e
  <1>4. Placed \subseteq Nat \X Nat
    BY DEF Placed, PlacesTo
  <1>5. AfterAll(Placed, r)
    BY <1>1, <1>3, <1>4 DEF AfterAll
  <1>6. FieldsOf(b, Subs(b, a), LMAFields) \in [LMAFields -> WinValues]
    <2> HIDE DEF a, b
    <2> QED
      BY <1>1, <1>2, <1>3, FieldsType
  <1> QED
    BY <1>2, <1>3, <1>5, <1>6 DEF SubAt, ModuleAt

\* Every step keeps the values what the places that were read report.
LEMMA ValuesStep ==
  ASSUME WinTypes, ValuesInv, Stepped
  PROVE  ValuesInv'
  <1>1. CASE Kept
    <2>1. /\ events' = events /\ Placed' = Placed /\ win'.latched = win.latched
          /\ win'.ternary = win.ternary /\ win'.BootCount = win.BootCount
          /\ win'.ColdBoot = win.ColdBoot /\ win'.BitlockerUnlocks = win.BitlockerUnlocks
          /\ win'.LoadedModules = win.LoadedModules
      BY <1>1 DEF Kept, OnlyField
    <2>2. LatchesIn(events, Placed, win')
      BY <2>1 DEF ValuesInv, LatchesIn
    <2>3. CountsIn(events, Placed, win')
      BY <2>1 DEF ValuesInv, CountsIn, CounterIn, ColdIn
    <2> QED
      BY <2>1, <2>2, <2>3 DEF ValuesInv
  <1>2. CASE \E r : ReadAt(r)
    <2>1. PICK r : ReadAt(r)
      BY <1>2
    <2>2. /\ AfterAll(Placed, r) /\ SubAt(events, r).value \in WinValues
          /\ ModuleAt(events, r) \in [LMAFields -> WinValues]
      BY <2>1, ReadPlace
    <2>3. events' = events /\ Placed' = Placed \cup {r} /\ ReadAs(events, r, win, win')
      BY <2>1 DEF ReadAt
    <2>4. win \in WinRecords
      BY DEF WinTypes
    <2>5. IsFiniteSet(Placed \cup {r})
      BY FS_AddElement DEF ValuesInv
    <2>6. LatchesIn(events, Placed \cup {r}, win')
      BY <2>3, <2>4, LatchesAdd DEF ReadAs, ValuesInv
    <2>7. CountsIn(events, Placed \cup {r}, win')
      BY <2>2, <2>3, <2>4, CountsAdd DEF ReadAs, ValuesInv
    <2>8. ModulesIn(events, Placed \cup {r}, win'.LoadedModules)
      BY <2>2, <2>3, <2>4, ModulesAdd DEF ReadAs, ValuesInv
    <2> QED
      BY <2>3, <2>5, <2>6, <2>7, <2>8 DEF ValuesInv
  <1> QED
    BY <1>1, <1>2 DEF Stepped

\* At the start there are no places and no values.
LEMMA ValuesStart ==
  ASSUME WinInit
  PROVE  ValuesInv
  <1>1. Placed = {}
    BY WinStart
  <1>2. IsFiniteSet({}) /\ Cardinality({}) = 0
    BY FS_EmptySet
  <1>3. LatchesIn(events, {}, win)
    BY DEF WinInit, LatchesIn
  <1>4. CounterIn(events, {}, win)
    BY DEF WinInit, CounterIn, OfType
  <1>5. ColdIn(events, {}, win)
    BY DEF WinInit, ColdIn, OfType
  <1>6. UnlocksIn(events, {}) = {} /\ win.BitlockerUnlocks = << >>
    BY DEF WinInit, UnlocksIn, OfType
  <1>7. InOrder(<< >>, {}, ValueAt(events))
    BY <1>2 DEF InOrder
  <1>8. ModulesIn(events, {}, win.LoadedModules)
    BY DEF WinInit, ModulesIn, LoadsIn, OfType, NoFunction
  <1> QED
    BY <1>1, <1>2, <1>3, <1>4, <1>5, <1>6, <1>7, <1>8 DEF ValuesInv, CountsIn

\* The values are what the places that were read report, in every state.
LEMMA ValuesHold == WinSpec => [](WinTypes /\ ValuesInv)
  <1>1. WinInit => WinTypes /\ ValuesInv
    BY WinStart, ValuesStart
  <1>2. WinTypes /\ ValuesInv /\ [WinNext]_winVars => WinTypes' /\ ValuesInv'
    BY WinStep, ValuesStep DEF Stepped
  <1> QED
    BY <1>1, <1>2, PTL DEF WinSpec

-----------------------------------------------------------------------------
(***************************************************************************)
(* What was read is what the log reports.                                  *)
(***************************************************************************)

\* Between events the places that were read are all reports of the events so far.
LEMMA SettledPlaces ==
  ASSUME WinTypes, pos = 0
  PROVE  /\ Placed = PlacesTo(events, next - 1, 0)
         /\ \A typ : Reports(typ) = OfType(events, Placed, typ)
         /\ \A r : Sub(r) = SubAt(events, r)
  <1>1. Placed = PlacesTo(events, next - 1, 0)
    BY DEF WinTypes, Placed, Cur
  <1>2. Len(events) \in Nat /\ next \in Nat \ {0} /\ \A i \in 1 .. next - 1 : i \in 1 .. Len(events)
    BY WinLog DEF WinTypes
  <1>3. \A i \in 1 .. next - 1 : Tagged(events, i) => IsBlock(events[i].block)
    BY <1>2, WinLog DEF WinTypes
  <1>4. \A r : Sub(r) = SubAt(events, r)
    BY DEF Sub, SubAt
  <1>5. ASSUME NEW typ PROVE Reports(typ) = OfType(events, Placed, typ)
    <2>1. Reports(typ) = {r \in PlacesTo(events, next - 1, 0) : Sub(r).typ = typ}
      BY <1>2, <1>3, ReportsAre
    <2> QED
      BY <1>1, <1>4, <2>1 DEF OfType
  <1> QED
    BY <1>1, <1>4, <1>5

\* Debugging and test signing are on if they were ever reported as on, code integrity
\* and DEP are on if they were reported and consistently so, and a report counts if it
\* is before the separator of its register: for every log.
THEOREM WinLatches == WinSpec => []LatchesAsReported
  <1>1. ASSUME WinTypes, ValuesInv PROVE LatchesAsReported
    <2> SUFFICES ASSUME pos = 0
                 PROVE  /\ \A f \in ByteLatches : win.latched[f] <=> \E v \in Values(f) : v # "zero"
                        /\ \A f \in Ternaries :
                             win.ternary[f] = IF Values(f) = {} THEN "Unknown"
                                              ELSE IF "zero" \in Values(f) THEN "False" ELSE "True"
      BY DEF LatchesAsReported, Settled
    <2>1. \A f : Values(f) = {SubAt(events, r).value : r \in OfType(events, Placed, f)}
      <3>1. \A f : Reports(f) = OfType(events, Placed, f)
        BY <1>1, SettledPlaces
      <3>2. \A r : Sub(r) = SubAt(events, r)
        BY <1>1, SettledPlaces
      <3> QED
        <4>1. ASSUME NEW f PROVE Values(f)
                     = {SubAt(events, r).value : r \in OfType(events, Placed, f)}
          <5>1. Values(f) = {Sub(r).value : r \in OfType(events, Placed, f)}
            BY <3>1 DEF Values
          <5> QED
            BY <3>2, <5>1
        <4> QED
          BY <4>1
    <2>2. LatchesIn(events, Placed, win)
      BY <1>1 DEF ValuesInv
    <2>3. ASSUME NEW f \in ByteLatches
          PROVE  win.latched[f] <=> \E v \in Values(f) : v # "zero"
      <3>1. (\E v \in Values(f) : v # "zero")
              <=> \E r \in Placed : SubAt(events, r).typ = f /\ SubAt(events, r).value # "zero"
        BY <2>1 DEF OfType
      <3>2. win.latched[f]
              <=> \E r \in Placed : SubAt(events, r).typ = f /\ SubAt(events, r).value # "zero"
        BY <2>2, Zenon DEF LatchesIn
      <3> QED
        BY <3>1, <3>2
    <2>4. ASSUME NEW f \in Ternaries
          PROVE  win.ternary[f] = IF Values(f) = {} THEN "Unknown"
                                  ELSE IF "zero" \in Values(f) THEN "False" ELSE "True"
      <3>1. Values(f) = {} <=> \A r \in Placed : SubAt(events, r).typ # f
        BY <2>1 DEF OfType
      <3>2. "zero" \in Values(f)
              <=> \E r \in Placed : SubAt(events, r).typ = f /\ SubAt(events, r).value = "zero"
        BY <2>1 DEF OfType
      <3> QED
        BY <2>2, <3>1, <3>2 DEF LatchesIn
    <2> QED
      BY <2>3, <2>4
  <1> QED
    BY <1>1, ValuesHold, PTL

\* A log with two boot counters is not accepted, each unlock is reported once and in
\* order, and the last transfer of control decides: for every log.
THEOREM WinCounts == WinSpec => []CountsAsReported
  <1>1. ASSUME WinTypes, ValuesInv PROVE CountsAsReported
    <2> DEFINE unlocks == {r \in Reports("bitlockerUnlock") : events[r[1]].index = 12}
               transfers == Reports("transferControl")
    <2> SUFFICES ASSUME pos = 0
                 PROVE  /\ Values("bootCounter") \ {"zero"} = {win.BootCount} \ {"zero"}
                        /\ Len(win.BitlockerUnlocks) = Cardinality(unlocks)
                        /\ \A r \in unlocks :
                             win.BitlockerUnlocks[1 + Cardinality({s \in unlocks : Before(s, r)})]
                               = Sub(r).value
                        /\ win.ColdBoot <=> transfers # {} /\ Sub(LastOf(transfers)).value = "one"
      BY DEF CountsAsReported, Settled
    <2>1. \A typ : Reports(typ) = OfType(events, Placed, typ)
      BY <1>1, SettledPlaces
    <2>2. \A r : Sub(r) = SubAt(events, r)
      BY <1>1, SettledPlaces
    <2>3. CountsIn(events, Placed, win)
      BY <1>1 DEF ValuesInv
    <2>4. Values("bootCounter") \ {"zero"} = {win.BootCount} \ {"zero"}
      BY <2>1, <2>2, <2>3 DEF Values, CountsIn, CounterIn
    <2>5. unlocks = UnlocksIn(events, Placed)
      BY <2>1 DEF UnlocksIn
    <2>6. InOrder(win.BitlockerUnlocks, unlocks, ValueAt(events))
      BY <2>3, <2>5 DEF CountsIn
    <2>7. \A r \in unlocks : ValueAt(events)[r] = Sub(r).value
      <3>1. \A r \in unlocks : r \in Nat \X Nat
        BY <2>5 DEF UnlocksIn, OfType, Placed, PlacesTo
      <3> QED
        BY <2>2, <3>1 DEF ValueAt
    <2>8. win.ColdBoot <=> transfers # {} /\ Sub(LastOf(transfers)).value = "one"
      BY <2>1, <2>2, <2>3 DEF CountsIn, ColdIn
    <2> HIDE DEF unlocks
    <2>9. /\ Len(win.BitlockerUnlocks) = Cardinality(unlocks)
          /\ \A r \in unlocks :
               win.BitlockerUnlocks[1 + Cardinality({s \in unlocks : Before(s, r)})] = Sub(r).value
      BY <2>6, <2>7 DEF InOrder
    <2> QED
      BY <2>4, <2>8, <2>9
  <1> QED
    BY <1>1, ValuesHold, PTL

\* LoadedModules has an entry for each hash of a loaded module and no other, with the
\* addresses of all loads, latest first, and the fields of the last: for every log.
THEOREM WinModules == WinSpec => []ModulesAsLoaded
  <1>1. ASSUME WinTypes, ValuesInv PROVE ModulesAsLoaded
    <2> DEFINE loads == Reports("loadedModuleAggregation")
               Fields(r) == FieldsOf(events[r[1]].block, Subs(events[r[1]].block, r[2]), LMAFields)
               LoadedAs(k) == {r \in loads : HashHex(Fields(r)) = k}
               M == win.LoadedModules
               Based(k) == {r \in LoadedAs(k) : Fields(r)["imageBase"] # "zero"}
    <2> SUFFICES ASSUME pos = 0
                 PROVE  /\ DOMAIN M = {HashHex(Fields(r)) : r \in loads}
                        /\ \A k \in DOMAIN M :
                             /\ M[k].fields = Fields(LastOf(LoadedAs(k)))
                             /\ Len(M[k].ImageBase) = Cardinality(Based(k))
                             /\ \A r \in Based(k) :
                                  M[k].ImageBase[1 + Cardinality({s \in Based(k) : Before(r, s)})]
                                    = Fields(r)["imageBase"]
      BY DEF ModulesAsLoaded, Settled
    <2>1. loads = LoadsIn(events, Placed)
      BY <1>1, SettledPlaces DEF LoadsIn
    <2>2. \A r : Fields(r) = ModuleAt(events, r)
      BY DEF ModuleAt
    <2>3. ModulesIn(events, Placed, M)
      BY <1>1 DEF ValuesInv
    <2> HIDE DEF loads, Fields, M
    <2>4. DOMAIN M = {HashHex(Fields(r)) : r \in loads}
      BY <2>1, <2>2, <2>3 DEF ModulesIn, HashAt
    <2>5. ASSUME NEW k \in DOMAIN M
          PROVE  /\ M[k].fields = Fields(LastOf(LoadedAs(k)))
                 /\ Len(M[k].ImageBase) = Cardinality(Based(k))
                 /\ \A r \in Based(k) :
                      M[k].ImageBase[1 + Cardinality({s \in Based(k) : Before(r, s)})]
                        = Fields(r)["imageBase"]
      <3>1. LoadedAs(k) = LoadsOf(events, Placed, k)
        BY <2>1, <2>2 DEF LoadsOf, HashAt
      <3>2. Based(k) = BasedOf(events, Placed, k)
        BY <2>2, <3>1 DEF BasedOf
      <3>3. ModuleIn(events, Placed, k, M[k])
        BY <2>3 DEF ModulesIn
      <3>4. \A r \in Based(k) : BaseAt(events)[r] = Fields(r)["imageBase"]
        <4>1. \A r \in Based(k) : r \in Nat \X Nat
          BY <3>2 DEF BasedOf, LoadsOf, LoadsIn, OfType, Placed, PlacesTo
        <4> HIDE DEF Based
        <4> QED
          BY <2>2, <4>1 DEF BaseAt
      <3> HIDE DEF LoadedAs, Based
      <3> QED
        BY <2>2, <3>1, <3>2, <3>3, <3>4 DEF ModuleIn, LatestFirst
    <2> QED
      BY <2>4, <2>5
  <1> QED
    BY <1>1, ValuesHold, PTL
-----------------------------------------------------------------------------
(***************************************************************************)
(* The drivers of early launch anti-malware.  ELAM changes while an        *)
(* aggregation is read: it has the drivers of the places that were read,   *)
(* and of the aggregation that is being read those before one of them.     *)
(***************************************************************************)

\* The aggregations of drivers with a name that are the ELAM aggregation p or in it, and
\* those of all aggregations among the places D.
LeavesOf(b, p) == {q \in {p} \cup Nested(b, p) : Leaf(b, q) /\ HasName(b, q)}
AllLeaves(s, D) ==
  UNION {{r[1]} \X LeavesOf(s[r[1]].block, r[2]) : r \in OfType(s, D, "elamAggregation")}
UsualAll(s, D) == \A r \in OfType(s, D, "elamAggregation") : Usual(s[r[1]].block, r[2])

\* What ELAM has if the drivers at the places P were read.
DriverAt(s, r) == FieldsOf(s[r[1]].block, Subs(s[r[1]].block, r[2]), ELAMFields)
NameAt(s, r) == DriverAt(s, r)["elamKeyname"]
DriversAt(s, P) ==
  [n \in {NameAt(s, r) : r \in P} |-> DriverAt(s, LastOf({r \in P : NameAt(s, r) = n}))]

\* In the usual ELAM aggregation a the driver q is read, or comes next.
Driver(b, a, p, fs, q) ==
  /\ Leaf(b, a) /\ HasName(b, a) /\ Len(fs) = 1 /\ q = a
  /\ fs[1].fields = FieldsRead(b, a, p, ELAMFields)
BetweenDrivers(b, a, p, fs, q) ==
  OfLeaves(b, a) /\ Len(fs) = 1 /\ q = p /\ q \in Nested(b, a)
NestedDriver(b, a, p, fs, q) ==
  /\ OfLeaves(b, a) /\ Len(fs) = 2 /\ q \in Nested(b, a) /\ q < p
  /\ fs[2].end = After(b, q) /\ fs[2].fields = FieldsRead(b, q, p, ELAMFields)
AtDriver(b, a, p, fs, q) ==
  Driver(b, a, p, fs, q) \/ BetweenDrivers(b, a, p, fs, q) \/ NestedDriver(b, a, p, fs, q)

\* The drivers of the aggregation a of the event n that come before q.
LeavesTo(s, n, a, q) == {n} \X {t \in LeavesOf(s[n].block, a) : t < q}

InELAM == frames # << >> /\ frames[1].kind = "elam"
OuterAt == OuterOf(e.block, frames)
ELAMRead ==
  ~InELAM => (UsualAll(events, Placed) => win.ELAM = DriversAt(events, AllLeaves(events, Placed)))
ELAMReading ==
  InELAM /\ Usual(e.block, OuterAt) =>
    \E q \in Nat :
      /\ AtDriver(e.block, OuterAt, pos, frames, q)
      /\ UsualAll(events, Placed) =>
           win.ELAM = DriversAt(events, AllLeaves(events, Placed)
                                \cup LeavesTo(events, next, OuterAt, q))
ELAMInv == ELAMRead /\ ELAMReading

\* An aggregation that is made of drivers starts with one, and after a driver comes
\* another, or the aggregation ends.
LEMMA DriversFollow ==
  ASSUME NEW b, IsBlock(b), NEW a \in 1 .. Len(b), After(b, a) <= Len(b) + 1, OfLeaves(b, a)
  PROVE  /\ a + 1 \in Nested(b, a)
         /\ \A q \in Nested(b, a) :
              /\ q \in Nat /\ a < q /\ q \in 1 .. Len(b) /\ q < After(b, q)
              /\ After(b, q) \in Nat /\ After(b, q) <= After(b, a)
              /\ After(b, q) < After(b, a) => After(b, q) \in Nested(b, a)
  <1> DEFINE N == Nested(b, a)
  <1>1. Len(b) \in Nat /\ a \in Nat /\ b[a].len \in Nat /\ After(b, a) = a + 1 + b[a].len
    BY BlockType DEF After
  <1>2. \A q \in N : /\ q \in Nat /\ a < q /\ q < After(b, a) /\ q \in 1 .. Len(b)
                     /\ b[q].typ = "elamAggregation" /\ b[q].len \in Nat /\ q < After(b, q)
                     /\ After(b, q) \in Nat
    <2>1. ASSUME NEW q \in N
          PROVE  q \in Nat /\ a < q /\ q < After(b, a) /\ q \in 1 .. Len(b)
                   /\ b[q].typ = "elamAggregation"
      BY <1>1 DEF Nested, Subs
    <2> QED
      BY <2>1, BlockType
  <1>3. ASSUME NEW x \in Nat, a < x, x < After(b, a)
        PROVE  x \in N \/ \E q \in N : q < x /\ x < After(b, q)
    <2>1. x \in Subs(b, a)
      BY <1>1, <1>3 DEF Subs
    <2>2. PICK q \in N : x \in {q} \cup Subs(b, q)
      BY <2>1 DEF OfLeaves
    <2>3. x \in Subs(b, q) => q < x /\ x < After(b, q)
      BY <1>2 DEF Subs, After
    <2> QED
      BY <2>2, <2>3
  <1>4. ASSUME NEW q \in N, NEW x \in Nat, q < x, x < After(b, q)
        PROVE  x < After(b, a) /\ x \notin N
    <2>1. x \in Subs(b, q)
      BY <1>2, <1>4 DEF Subs, After
    <2>2. x \in Subs(b, a)
      BY <2>1 DEF OfLeaves
    <2>3. b[x].typ \in ELAMFields
      BY <2>1 DEF OfLeaves, Leaf, Once
    <2> QED
      BY <1>1, <2>2, <2>3 DEF Subs, After, ELAMFields, Nested
  <1>5. a + 1 \in N
    <2>1. PICK q \in N : TRUE
      BY DEF OfLeaves
    <2>2. a + 1 < After(b, a)
      BY <1>1, <1>2, <2>1
    <2>3. a + 1 \in Nat /\ a < a + 1 /\ \A t \in N : ~(t < a + 1)
      BY <1>1, <1>2
    <2> HIDE DEF N
    <2>4. a + 1 \in N \/ \E t \in N : t < a + 1 /\ a + 1 < After(b, t)
      BY <1>3, <2>2, <2>3
    <2> QED
      BY <2>3, <2>4
  <1>6. ASSUME NEW q \in N
        PROVE  /\ After(b, q) \in Nat /\ After(b, q) <= After(b, a)
               /\ After(b, q) < After(b, a) => After(b, q) \in N
    <2> DEFINE x == After(b, q)
    <2>1. x \in Nat /\ q < x /\ x - 1 \in Nat
      BY <1>2 DEF After
    <2>2. x <= After(b, a)
      <3>1. CASE x = q + 1
        BY <1>1, <1>2, <3>1
      <3>2. CASE x # q + 1
        <4>1. q < x - 1 /\ x - 1 < x
          BY <1>2, <2>1, <3>2
        <4> HIDE DEF x
        <4>2. x - 1 < After(b, a)
          BY <1>4, <2>1, <4>1 DEF x
        <4> QED
          BY <1>1, <2>1, <4>2
      <3> QED
        BY <3>1, <3>2
    <2>3. ASSUME x < After(b, a), x \notin N PROVE FALSE
      <3> HIDE DEF x
      <3>1. a < x
        BY <1>1, <1>2, <2>1
      <3>2. PICK t \in N : t < x /\ x < After(b, t)
        BY <1>3, <2>1, <2>3, <3>1
      <3>3. CASE t = q
        BY <2>1, <3>2, <3>3 DEF x
      <3>4. CASE t < q
        <4>1. q < After(b, t)
          BY <1>2, <2>1, <3>2
        <4> QED
          BY <1>2, <1>4, <3>4, <4>1
      <3>5. CASE q < t
        BY <1>2, <1>4, <3>2, <3>5 DEF x
      <3> QED
        BY <1>2, <3>3, <3>4, <3>5
    <2> QED
      BY <2>1, <2>2, <2>3
  <1> QED
    BY <1>2, <1>5, <1>6
\* An aggregation of one driver has no other in it, and one that is made of drivers is
\* none itself.
LEMMA DriversAre ==
  ASSUME NEW b, IsBlock(b), NEW a \in 1 .. Len(b)
  PROVE  /\ Leaf(b, a) /\ HasName(b, a) => LeavesOf(b, a) = {a} /\ ~OfLeaves(b, a)
         /\ OfLeaves(b, a) => LeavesOf(b, a) = {q \in Nested(b, a) : HasName(b, q)}
  <1>1. Leaf(b, a) => Nested(b, a) = {}
    BY DEF Leaf, Once, Nested, ELAMFields
  <1>2. OfLeaves(b, a) => Nested(b, a) # {} /\ \A q \in Nested(b, a) : Leaf(b, q)
    BY DEF OfLeaves
  <1>3. Leaf(b, a) /\ HasName(b, a) => LeavesOf(b, a) = {a}
    BY <1>1 DEF LeavesOf
  <1>4. OfLeaves(b, a) => LeavesOf(b, a) = {q \in Nested(b, a) : HasName(b, q)}
    BY <1>1, <1>2 DEF LeavesOf
  <1> QED
    BY <1>1, <1>2, <1>3, <1>4

\* The drivers of an aggregation are in it.
LEMMA DriversInside ==
  ASSUME NEW b, IsBlock(b), NEW a \in 1 .. Len(b), NEW t \in LeavesOf(b, a)
  PROVE  t \in Nat /\ a <= t /\ t < After(b, a)
  <1>1. a \in Nat /\ b[a].len \in Nat /\ t \in {a} \cup Subs(b, a)
    BY BlockType DEF LeavesOf, Nested
  <1> QED
    BY <1>1 DEF Subs, After

\* With a driver that is read there is one more before the next place, if it has a name.
LEMMA OneMoreDriver ==
  ASSUME NEW b, IsBlock(b), NEW a \in 1 .. Len(b), After(b, a) <= Len(b) + 1, OfLeaves(b, a),
         NEW q \in Nested(b, a)
  PROVE  {t \in LeavesOf(b, a) : t < After(b, q)}
           = {t \in LeavesOf(b, a) : t < q} \cup (IF HasName(b, q) THEN {q} ELSE {})
  <1>1. \A t \in Nested(b, a) : t \in Nat /\ t < After(b, t) /\ After(b, t) \in Nat
    BY DriversFollow
  <1>0. b[q].len \in Nat
    BY DriversFollow, BlockType
  <1>2. LeavesOf(b, a) = {t \in Nested(b, a) : HasName(b, t)}
    BY DriversAre
  <1>3. ASSUME NEW t \in Nested(b, a), t < After(b, q) PROVE t <= q
    <2> SUFFICES ASSUME q < t PROVE FALSE
      BY <1>1
    <2>1. t \in Subs(b, q)
      BY <1>0, <1>1, <1>3 DEF Subs, After
    <2>2. b[t].typ \in ELAMFields
      BY <2>1 DEF OfLeaves, Leaf, Once
    <2> QED
      BY <2>2 DEF Nested, ELAMFields
  <1>4. \A t \in LeavesOf(b, a) : t < After(b, q) <=> t < q \/ t = q
    BY <1>1, <1>2, <1>3
  <1>5. q \in LeavesOf(b, a) <=> HasName(b, q)
    BY <1>2
  <1> QED
    BY <1>4, <1>5

\* A driver is added after those that were read.
LEMMA DriversAdd ==
  ASSUME NEW s, NEW P, NEW r, AfterAll(P, r)
  PROVE  DriversAt(s, P \cup {r}) = Put(DriversAt(s, P), NameAt(s, r), DriverAt(s, r))
  <1> DEFINE Q == P \cup {r}
             As(U, n) == {x \in U : NameAt(s, x) = n}
             k == NameAt(s, r)
             names == {NameAt(s, x) : x \in P}
  <1>1. {NameAt(s, x) : x \in Q} = names \cup {k}
    OBVIOUS
  <1>2. ASSUME NEW n \in names \cup {k}
        PROVE  DriverAt(s, LastOf(As(Q, n)))
                 = IF n = k THEN DriverAt(s, r) ELSE DriverAt(s, LastOf(As(P, n)))
    <2>1. CASE n = k
      <3>1. AfterAll(As(P, k), r)
        BY AfterSome
      <3>2. As(Q, k) = As(P, k) \cup {r}
        OBVIOUS
      <3> HIDE DEF As
      <3>3. LastOf(As(Q, k)) = r
        BY <3>1, <3>2, LastIs
      <3> QED
        BY <2>1, <3>3
    <2>2. CASE n # k
      <3>1. As(Q, n) = As(P, n)
        BY <2>2
      <3> QED
        BY <2>2, <3>1
    <2> QED
      BY <2>1, <2>2
  <1>3. DriversAt(s, Q) = [n \in names \cup {k} |-> DriverAt(s, LastOf(As(Q, n)))]
    BY <1>1 DEF DriversAt
  <1>4. DriversAt(s, P) = [n \in names |-> DriverAt(s, LastOf(As(P, n)))]
    BY DEF DriversAt
  <1> HIDE DEF As, k, names, Q
  <1>5. Put(DriversAt(s, P), k, DriverAt(s, r))
          = [n \in names \cup {k} |-> IF n = k THEN DriverAt(s, r)
                                      ELSE DriverAt(s, LastOf(As(P, n)))]
    BY <1>4 DEF Put
  <1>6. DriversAt(s, Q) = Put(DriversAt(s, P), k, DriverAt(s, r))
    BY <1>2, <1>3, <1>5
  <1> QED
    BY <1>6 DEF Q, k

\* A place more, with an ELAM aggregation or something else.
LEMMA LeavesAdd ==
  ASSUME NEW s, NEW D, NEW r
  PROVE  LET E == D \cup {r}
         IN  /\ SubAt(s, r).typ = "elamAggregation" =>
                  /\ AllLeaves(s, E)
                       = AllLeaves(s, D) \cup ({r[1]} \X LeavesOf(s[r[1]].block, r[2]))
                  /\ UsualAll(s, E) <=> UsualAll(s, D) /\ Usual(s[r[1]].block, r[2])
             /\ SubAt(s, r).typ # "elamAggregation" =>
                  AllLeaves(s, E) = AllLeaves(s, D) /\ (UsualAll(s, E) <=> UsualAll(s, D))
  <1> DEFINE E == D \cup {r}
             t == "elamAggregation"
             L(x) == {x[1]} \X LeavesOf(s[x[1]].block, x[2])
  <1>1. CASE SubAt(s, r).typ = t
    <2>1. OfType(s, E, t) = OfType(s, D, t) \cup {r}
      BY <1>1 DEF OfType
    <2>2. AllLeaves(s, E) = UNION {L(x) : x \in OfType(s, D, t) \cup {r}}
      BY <2>1 DEF AllLeaves
    <2>3. AllLeaves(s, D) = UNION {L(x) : x \in OfType(s, D, t)}
      BY DEF AllLeaves
    <2> HIDE DEF L
    <2>4. AllLeaves(s, E) = AllLeaves(s, D) \cup L(r)
      BY <2>2, <2>3
    <2>5. UsualAll(s, E) <=> UsualAll(s, D) /\ Usual(s[r[1]].block, r[2])
      BY <2>1 DEF UsualAll
    <2> QED
      BY <1>1, <2>4, <2>5 DEF L
  <1>2. CASE SubAt(s, r).typ # t
    <2>1. OfType(s, E, t) = OfType(s, D, t)
      BY <1>2 DEF OfType
    <2> QED
      BY <1>2, <2>1 DEF AllLeaves, UsualAll
  <1> QED
    BY <1>1, <1>2
\* What was read of the aggregation a is after the drivers of all places before it.
LEMMA DriverIsLast ==
  ASSUME WinTypes, Reading, frames # << >>, NEW q \in Nat, OuterAt <= q
  PROVE  AfterAll(AllLeaves(events, Placed) \cup LeavesTo(events, next, OuterAt, q), <<next, q>>)
  <1> DEFINE b == e.block
             a == OuterAt
             r == <<next, q>>
  <1>1. IsBlock(b) /\ a \in TopLevel(b) /\ a \in Nat /\ a \in 1 .. Len(b) /\ Cur(b, pos, frames) = a
    BY InFrames DEF OuterAt
  <1>2. next \in Nat \ {0} /\ next \in 1 .. Len(events) /\ next - 1 \in Nat /\ (next - 1) + 1 = next
    BY InEvent, InFrames
  <1>3. \A k \in 1 .. next - 1 : Tagged(events, k) => IsBlock(events[k].block)
    BY <1>2, WinLog DEF WinTypes
  <1>4. Placed = PlacesTo(events, next - 1, a) /\ b = events[next].block
    BY <1>1 DEF Placed, e
  <1> HIDE DEF a, b
  <1>5. ASSUME NEW x \in AllLeaves(events, Placed)
        PROVE  x \in Nat \X Nat /\ Before(x, r)
    <2>1. PICK y \in Placed : x \in {y[1]} \X LeavesOf(events[y[1]].block, y[2])
      BY DEF AllLeaves, OfType
    <2>2. PICK t \in LeavesOf(events[y[1]].block, y[2]) : x = <<y[1], t>>
      BY <2>1
    <2>3. y \in Nat \X Nat
      BY <1>4 DEF PlacesTo
    <2>4. CASE y[1] \in 1 .. next - 1 /\ Tagged(events, y[1])
                 /\ y[2] \in TopLevel(events[y[1]].block)
      <3>1. IsBlock(events[y[1]].block) /\ y[2] \in 1 .. Len(events[y[1]].block)
        BY <1>3, <2>4, TopIs
      <3>2. t \in Nat
        BY <2>2, <3>1, DriversInside
      <3>3. y[1] < next
        BY <1>2, <2>4
      <3> QED
        BY <2>2, <2>3, <3>2, <3>3 DEF Before
    <2>5. CASE y[1] = next /\ y[2] \in TopLevel(b) /\ y[2] < a
      <3>1. y[2] \in 1 .. Len(b) /\ After(b, y[2]) <= a /\ After(b, y[2]) \in Nat
        BY <1>1, <2>5, TopIs, TopGap, BlockType
      <3>2. t \in LeavesOf(b, y[2])
        BY <1>4, <2>2, <2>5
      <3>3. t \in Nat /\ t < After(b, y[2])
        BY <1>1, <3>1, <3>2, DriversInside
      <3>4. t < q
        BY <1>1, <3>1, <3>3 DEF a
      <3> QED
        BY <1>2, <2>2, <2>5, <3>3, <3>4 DEF Before
    <2> QED
      BY <1>2, <1>4, <2>4, <2>5 DEF PlacesTo
  <1>6. ASSUME NEW x \in LeavesTo(events, next, a, q)
        PROVE  x \in Nat \X Nat /\ Before(x, r)
    <2>1. PICK t \in LeavesOf(b, a) : t < q /\ x = <<next, t>>
      BY <1>4 DEF LeavesTo
    <2>2. t \in Nat
      BY <1>1, <2>1, DriversInside
    <2> QED
      BY <1>2, <2>1, <2>2 DEF Before
  <1> QED
    BY <1>2, <1>5, <1>6 DEF AfterAll, a

\* A step that neither reads an ELAM aggregation nor adds one.
LEMMA QuietStep ==
  ASSUME ELAMInv, ~InELAM, ~InELAM', win'.ELAM = win.ELAM, events' = events, NEW r,
         Placed' = Placed \/ (Placed' = Placed \cup {r} /\ SubAt(events, r).typ # "elamAggregation")
  PROVE  ELAMInv'
  <1>1. /\ AllLeaves(events, Placed') = AllLeaves(events, Placed)
        /\ UsualAll(events, Placed') <=> UsualAll(events, Placed)
    <2>1. CASE Placed' = Placed
      BY <2>1
    <2>2. CASE Placed' = Placed \cup {r} /\ SubAt(events, r).typ # "elamAggregation"
      BY <2>2, LeavesAdd
    <2> QED
      BY <2>1, <2>2
  <1>2. ELAMRead'
    BY <1>1 DEF ELAMInv, ELAMRead
  <1>3. ELAMReading'
    BY DEF ELAMReading
  <1> QED
    BY <1>2, <1>3 DEF ELAMInv

\* A step that changes nothing of this, such as an error.
LEMMA SameELAM ==
  ASSUME ELAMInv, UNCHANGED <<events, next, win, pos, frames>>
  PROVE  ELAMInv'
  BY DEF ELAMInv, ELAMRead, ELAMReading, InELAM, OuterAt, Placed, e

\* A sub-event outside aggregations.
LEMMA ScalarQuiet ==
  ASSUME WinTypes, ELAMInv, InBlock, Advance, h.typ \notin Aggregations, win'.ELAM = win.ELAM
  PROVE  ELAMInv'
  <1>1. /\ pos \in TopLevel(e.block) /\ pos \in 1 .. Len(e.block) /\ pos # 0
        /\ Cur(e.block, pos, frames) = pos
        /\ h = SubAt(events, <<next, pos>>) /\ IsBlock(e.block) /\ frames = << >>
    BY InBlockAt DEF InBlock
  <1>2. pos' = After(e.block, pos) /\ events' = events /\ next' = next /\ frames' = << >>
    BY <1>1, BlockType DEF Advance, h
  <1>3. Placed' = Placed \cup {<<next, pos>>}
    BY <1>1, <1>2, PlaceLeft
  <1>4. SubAt(events, <<next, pos>>).typ # "elamAggregation"
    BY <1>1 DEF Aggregations
  <1>5. ~InELAM /\ ~InELAM'
    BY <1>1, <1>2 DEF InELAM
  <1> QED
    BY <1>2, <1>3, <1>4, <1>5, QuietStep
\* A sub-event of a driver is one of its fields, and is there for the first time.
LEMMA FieldOfDriver ==
  ASSUME NEW b, IsBlock(b), NEW q \in 1 .. Len(b), Leaf(b, q), NEW p \in Nat, q < p, p < After(b, q)
  PROVE  /\ b[p].typ \in ELAMFields /\ b[p].ok
         /\ FieldsRead(b, q, p, ELAMFields)[b[p].typ] = Unset(b[p].typ)
  <1>1. q \in Nat /\ b[q].len \in Nat
    BY BlockType
  <1>2. p \in Subs(b, q) /\ q + 1 .. p - 1 \subseteq Subs(b, q) /\ p \notin q + 1 .. p - 1
    BY <1>1 DEF Subs, After
  <1>3. b[p].typ \in ELAMFields /\ b[p].ok /\ \A t \in Subs(b, q) : b[t].typ = b[p].typ => t = p
    BY <1>2 DEF Leaf, Once
  <1>4. \A t \in q + 1 .. p - 1 : b[t].typ # b[p].typ
    BY <1>2, <1>3
  <1>5. FieldsOf(b, q + 1 .. p - 1, ELAMFields)[b[p].typ] = Unset(b[p].typ)
    BY <1>3, <1>4, FieldUnset
  <1> QED
    BY <1>3, <1>5 DEF FieldsRead

\* The next sub-event of a usual aggregation: a field of the driver, or another driver.
LEMMA UsualGoesOn ==
  ASSUME WinTypes, Reading, InELAM, Usual(e.block, OuterAt), pos < Top.end, pos <= Len(e.block),
         NEW q \in Nat, AtDriver(e.block, OuterAt, pos, frames, q)
  PROVE  \/ /\ Driver(e.block, OuterAt, pos, frames, q)
                 \/ NestedDriver(e.block, OuterAt, pos, frames, q)
            /\ h.typ \in ELAMFields /\ h.typ # "elamAggregation" /\ h.ok /\ ~Duplicate
         \/ /\ BetweenDrivers(e.block, OuterAt, pos, frames, q)
            /\ h.typ = "elamAggregation" /\ h.typ \notin ELAMFields /\ Fits
  <1> DEFINE b == e.block
             a == OuterAt
  <1>1. /\ pos \in Nat /\ IsBlock(b) /\ Len(b) \in Nat /\ a \in Nat /\ a < pos /\ a \in 1 .. Len(b)
        /\ After(b, a) = frames[1].end /\ Top.end <= frames[1].end
    BY InFrames DEF InELAM, OuterAt
  <1>2. After(b, a) <= Len(b) + 1
    <2>1. b[a].len \in Nat /\ a + b[a].len <= Len(b)
      BY <1>1, BlockType DEF Usual
    <2> HIDE DEF a, b
    <2> QED
      BY <1>1, <2>1 DEF After
  <1>3. h = b[pos]
    BY DEF h
  <1> HIDE DEF a, b
  <1>4. CASE Driver(b, a, pos, frames, q)
    <2>1. Leaf(b, a) /\ Top = frames[1] /\ Top.fields = FieldsRead(b, a, pos, ELAMFields)
      BY <1>4 DEF Driver, Top
    <2>2. /\ h.typ \in ELAMFields /\ h.ok
          /\ FieldsRead(b, a, pos, ELAMFields)[h.typ] = Unset(h.typ)
      BY <1>1, <1>3, <2>1, FieldOfDriver
    <2>3. ~Duplicate
      BY <2>1, <2>2 DEF Duplicate
    <2> QED
      BY <1>4, <2>2, <2>3 DEF ELAMFields, a, b
  <1>5. CASE NestedDriver(b, a, pos, frames, q)
    <2>1. /\ OfLeaves(b, a) /\ q \in Nested(b, a) /\ q < pos /\ Top = frames[2]
               /\ Top.end = After(b, q)
          /\ Top.fields = FieldsRead(b, q, pos, ELAMFields)
      BY <1>5 DEF NestedDriver, Top
    <2>2. Leaf(b, q) /\ q \in 1 .. Len(b)
      BY <1>1, <1>2, <2>1, DriversFollow DEF OfLeaves
    <2>3. /\ h.typ \in ELAMFields /\ h.ok
          /\ FieldsRead(b, q, pos, ELAMFields)[h.typ] = Unset(h.typ)
      BY <1>1, <1>3, <2>1, <2>2, FieldOfDriver
    <2>4. ~Duplicate
      BY <2>1, <2>3 DEF Duplicate
    <2> QED
      BY <1>5, <2>3, <2>4 DEF ELAMFields, a, b
  <1>6. CASE BetweenDrivers(b, a, pos, frames, q)
    <2>1. OfLeaves(b, a) /\ pos \in Nested(b, a) /\ Top = frames[1]
      BY <1>6 DEF BetweenDrivers, Top
    <2>2. After(b, pos) <= After(b, a)
      BY <1>1, <1>2, <2>1, DriversFollow
    <2>3. Fits
      BY <1>1, <1>3, <2>1, <2>2 DEF Fits, After
    <2>4. h.typ = "elamAggregation"
      BY <1>3, <2>1 DEF Nested
    <2> QED
      BY <1>6, <2>3, <2>4 DEF ELAMFields, a, b
  <1> QED
    BY <1>4, <1>5, <1>6 DEF AtDriver, a, b

\* A step that goes on in the aggregation and reads no driver to its end.
LEMMA ELAMGoesOn ==
  ASSUME ELAMInv, InELAM, InELAM', Kept, next' = next, win' = win,
         OuterOf(e.block, frames') = OuterAt,
         Usual(e.block, OuterAt) =>
           \A q \in Nat : AtDriver(e.block, OuterAt, pos, frames, q)
                            => AtDriver(e.block, OuterAt, pos', frames', q)
  PROVE  ELAMInv'
  <1>1. events' = events /\ Placed' = Placed /\ e' = e
    BY DEF Kept, e
  <1>2. OuterAt' = OuterAt
    BY <1>1 DEF OuterAt
  <1>3. ELAMRead'
    BY DEF ELAMRead
  <1>4. ELAMReading'
    <2> SUFFICES ASSUME Usual(e.block, OuterAt)
                 PROVE  \E q \in Nat :
                          /\ AtDriver(e.block, OuterAt, pos', frames', q)
                          /\ UsualAll(events, Placed) =>
                               win.ELAM = DriversAt(events, AllLeaves(events, Placed)
                                                              \cup LeavesTo(events, next, OuterAt, q))
      BY <1>1, <1>2 DEF ELAMReading
    <2>1. PICK q \in Nat :
             /\ AtDriver(e.block, OuterAt, pos, frames, q)
             /\ UsualAll(events, Placed) =>
                  win.ELAM = DriversAt(events, AllLeaves(events, Placed)
                                                 \cup LeavesTo(events, next, OuterAt, q))
      BY DEF ELAMInv, ELAMReading
    <2> QED
      BY <2>1
  <1> QED
    BY <1>3, <1>4 DEF ELAMInv
\* An aggregation that is not as Windows writes it is left.
LEMMA UnusualLeft ==
  ASSUME WinTypes, Reading, InELAM, ~Usual(e.block, OuterAt), NEW q, Left(q), next' = next
  PROVE  ELAMInv'
  <1> DEFINE b == e.block
             a == OuterAt
             r == <<next, a>>
  <1>1. b[a].typ \in Aggregations /\ frames[1].kind = KindOf(b[a])
    BY InFrames DEF InELAM, OuterAt
  <1>2. b[a].typ = "elamAggregation"
    BY <1>1 DEF InELAM, KindOf
  <1>3. CASE Kept /\ frames' # << >> /\ frames'[1] = frames[1]
               /\ OuterOf(b, frames') = OuterOf(b, frames)
    <2>1. InELAM' /\ e' = e /\ OuterAt' = OuterAt
      BY <1>3 DEF InELAM, Kept, e, OuterAt
    <2> QED
      BY <2>1 DEF ELAMInv, ELAMRead, ELAMReading
  <1>4. CASE ReadAt(r) /\ frames' = << >>
    <2>1. events' = events /\ Placed' = Placed \cup {r} /\ SubAt(events, r) = b[a]
      BY <1>4 DEF ReadAt, SubAt, e
    <2>2. r[1] = next /\ r[2] = a /\ events[next].block = b
      BY DEF e
    <2> HIDE DEF r, a, b
    <2>3. ~UsualAll(events, Placed \cup {r})
      BY <1>2, <2>1, <2>2, LeavesAdd DEF a, b
    <2>4. ~InELAM'
      BY <1>4 DEF InELAM
    <2> QED
      BY <2>1, <2>3, <2>4 DEF ELAMInv, ELAMRead, ELAMReading
  <1> QED
    BY <1>3, <1>4 DEF Left, OuterAt

\* A field of a driver is set.
LEMMA ELAMFieldStep ==
  ASSUME WinTypes, ELAMInv, Reading, InELAM, pos < Top.end, pos <= Len(e.block),
         h.typ \in ELAMFields, SetField
  PROVE  ELAMInv'
  <1> DEFINE b == e.block
             a == OuterAt
  <1>1. frames # << >> /\ frames[1].kind = "elam"
    BY DEF InELAM
  <1>2. /\ pos \in Nat /\ IsBlock(b) /\ Len(b) \in Nat /\ a \in Nat /\ a < pos /\ a \in 1 .. Len(b)
        /\ Len(frames) \in Nat \ {0} /\ Top.kind = "elam"
    BY <1>1, InFrames DEF OuterAt
  <1>3. /\ Kept /\ frames' # << >>
        /\ OuterOf(b, frames') = OuterOf(b, frames) /\ Len(frames') = Len(frames)
        /\ \A i \in 1 .. Len(frames) : frames'[i].kind = frames[i].kind
             /\ frames'[i].end = frames[i].end
        /\ frames'[Len(frames)].fields = [Top.fields EXCEPT ![h.typ] = h.value]
    <2>1. h.typ \in FieldSet(Top.kind)
      BY <1>2 DEF FieldSet
    <2> QED
      BY <1>1, <2>1, SetFieldStep
  <1>4. InELAM' /\ next' = next /\ win' = win /\ pos' = pos + 1
    BY <1>1, <1>2, <1>3 DEF InELAM, SetField
  <1>5. h = b[pos]
    BY DEF h
  <1> HIDE DEF a, b
  <1>6. ASSUME NEW q \in Nat, q < pos, Top.fields = FieldsRead(b, q, pos, ELAMFields)
        PROVE  frames'[Len(frames)].fields = FieldsRead(b, q, pos', ELAMFields)
    <2>1. FieldsRead(b, q, pos + 1, ELAMFields)
            = SetBy(FieldsRead(b, q, pos, ELAMFields), b[pos], ELAMFields)
      BY <1>2, <1>6, FieldsUpTo
    <2> QED
      BY <1>3, <1>4, <1>5, <1>6, <2>1 DEF SetBy
  <1>7. ASSUME Usual(b, a), NEW q \in Nat, AtDriver(b, a, pos, frames, q)
        PROVE  AtDriver(b, a, pos', frames', q)
    <2>1. Driver(b, a, pos, frames, q) \/ NestedDriver(b, a, pos, frames, q)
      BY <1>7, UsualGoesOn DEF a, b
    <2>2. CASE Driver(b, a, pos, frames, q)
      <3>1. q = a /\ Len(frames) = 1 /\ Top.fields = FieldsRead(b, q, pos, ELAMFields)
        BY <2>2 DEF Driver, Top
      <3>2. frames'[1].fields = FieldsRead(b, a, pos', ELAMFields)
        BY <1>2, <1>6, <3>1
      <3> QED
        BY <1>3, <2>2, <3>2 DEF Driver, AtDriver
    <2>3. CASE NestedDriver(b, a, pos, frames, q)
      <3>1. q < pos /\ Len(frames) = 2 /\ Top.fields = FieldsRead(b, q, pos, ELAMFields)
        BY <2>3 DEF NestedDriver, Top
      <3>2. frames'[2].fields = FieldsRead(b, q, pos', ELAMFields)
        BY <1>6, <3>1
      <3>3. frames'[2].end = frames[2].end /\ q < pos'
        BY <1>2, <1>3, <1>4, <3>1
      <3> QED
        BY <1>3, <2>3, <3>2, <3>3 DEF NestedDriver, AtDriver
    <2> QED
      BY <2>1, <2>2, <2>3
  <1> QED
    BY <1>3, <1>4, <1>7, ELAMGoesOn DEF a, b, OuterAt

\* The reading of a nested aggregation starts.
LEMMA ELAMPushStep ==
  ASSUME WinTypes, ELAMInv, Reading, InELAM, pos < Top.end, pos <= Len(e.block),
         h.typ = "elamAggregation", Fits, frames' = Append(frames, Frame("elam", ELAMFields)),
         pos' = pos + 1, UNCHANGED <<events, next, result, win, seenSeparator>>
  PROVE  ELAMInv'
  <1> DEFINE b == e.block
             a == OuterAt
  <1>1. frames # << >> /\ frames[1].kind = "elam"
    BY DEF InELAM
  <1>2. /\ pos \in Nat /\ pos # 0 /\ IsBlock(b) /\ Len(b) \in Nat
             /\ Len(frames) \in Nat \ {0} /\ Top.kind = "elam"
    BY <1>1, InFrames DEF OuterAt
  <1>3. /\ Kept /\ frames' # << >> /\ OuterOf(b, frames') = OuterOf(b, frames)
        /\ Len(frames') = Len(frames) + 1 /\ frames'[Len(frames) + 1] = NewFrame(b, pos, "elam")
        /\ \A i \in 1 .. Len(frames) : frames'[i] = frames[i]
    BY <1>1, <1>2, PushStep
  <1>4. InELAM' /\ next' = next /\ win' = win
    BY <1>1, <1>2, <1>3 DEF InELAM
  <1> HIDE DEF a, b
  <1>5. ASSUME Usual(b, a), NEW q \in Nat, AtDriver(b, a, pos, frames, q)
        PROVE  AtDriver(b, a, pos', frames', q)
    <2>1. BetweenDrivers(b, a, pos, frames, q)
      BY <1>5, UsualGoesOn DEF a, b
    <2>2. OfLeaves(b, a) /\ Len(frames) = 1 /\ q = pos /\ q \in Nested(b, a)
      BY <2>1 DEF BetweenDrivers
    <2>3. pos \in 1 .. Len(b)
      BY <1>2 DEF b
    <2>4. /\ frames'[2] = NewFrame(b, pos, "elam") /\ Len(frames') = 2
      BY <1>3, <2>2
    <2>5. frames'[2].end = After(b, pos) /\ frames'[2].fields = [f \in ELAMFields |-> Unset(f)]
      BY <2>4 DEF NewFrame, FieldSet
    <2>6. FieldsRead(b, pos, pos + 1, ELAMFields) = [f \in ELAMFields |-> Unset(f)]
      BY <1>2, NoFields
    <2>7. q < pos'
      BY <1>2, <2>2
    <2> QED
      BY <2>2, <2>4, <2>5, <2>6, <2>7 DEF NestedDriver, AtDriver
  <1> QED
    BY <1>3, <1>4, <1>5, ELAMGoesOn DEF a, b, OuterAt

\* A sub-event of an ELAM aggregation.
LEMMA ELAMSubEventELAM ==
  ASSUME WinTypes, ELAMInv, ELAMSubEvent
  PROVE  ELAMInv'
  <1> DEFINE field == h.typ \in ELAMFields /\ h.ok /\ ~Duplicate
             nested == h.typ = "elamAggregation" /\ Fits
  <1>1. Reading /\ frames # << >> /\ Top.kind = "elam" /\ pos < Top.end /\ pos <= Len(e.block)
    BY DEF ELAMSubEvent, More, In
  <1>2. InELAM /\ pos \in Nat /\ Len(e.block) \in Nat /\ Top.end \in Nat
    BY <1>1, InFrames DEF InELAM
  <1>3. CASE field
    BY <1>1, <1>2, <1>3, ELAMFieldStep DEF ELAMSubEvent
  <1>4. CASE ~field /\ nested
    <2>1. /\ frames' = Append(frames, Frame("elam", ELAMFields)) /\ pos' = pos + 1
          /\ UNCHANGED <<events, next, result, win, seenSeparator>>
      BY <1>4 DEF ELAMSubEvent
    <2> QED
      BY <1>1, <1>2, <1>4, <2>1, ELAMPushStep
  <1>5. CASE ~field /\ ~nested
    <2>1. Error(pos + 1, h.empty \/ h.typ \in Aggregations)
      BY <1>5 DEF ELAMSubEvent
    <2>2. CASE Refuse
      BY <2>2, SameELAM DEF Refuse
    <2>3. CASE Len(frames) # 1 /\ ReturnAt(pos + 1) /\ UNCHANGED win
      <3>1. win' \in WinRecords /\ OnlyField(win, win', "ELAM")
        BY <2>3 DEF WinTypes, OnlyField
      <3>2. Left(pos + 1)
        BY <1>1, <1>2, <2>3, <3>1, ReturnStep
      <3>3. ~Usual(e.block, OuterAt)
        <4> SUFFICES ASSUME Usual(e.block, OuterAt) PROVE FALSE
          OBVIOUS
        <4>1. PICK q \in Nat : AtDriver(e.block, OuterAt, pos, frames, q)
          BY <1>2 DEF ELAMInv, ELAMReading
        <4> QED
          BY <1>1, <1>2, <1>5, <4>1, UsualGoesOn
      <3> QED
        BY <1>1, <1>2, <2>3, <3>2, <3>3, UnusualLeft DEF ReturnAt
    <2> QED
      BY <2>1, <2>2, <2>3 DEF Error
  <1> QED
    BY <1>3, <1>4, <1>5
\* Where the data of a driver end, it is read: with a name it is one more.
LEMMA DriverRead ==
  ASSUME WinTypes, Reading, InELAM, Usual(e.block, OuterAt), pos = Top.end, NEW q \in Nat,
         AtDriver(e.block, OuterAt, pos, frames, q)
  PROVE  /\ Top.fields = DriverAt(events, <<next, q>>) /\ OuterAt <= q
         /\ LeavesTo(events, next, OuterAt, pos)
              = LeavesTo(events, next, OuterAt, q)
                  \cup (IF Top.fields["elamKeyname"] # "zero" THEN {<<next, q>>} ELSE {})
         /\ Len(frames) = 1 => Top.fields["elamKeyname"] # "zero"
         /\ pos < frames[1].end =>
              OfLeaves(e.block, OuterAt) /\ Len(frames) = 2 /\ pos \in Nested(e.block, OuterAt)
  <1> DEFINE b == e.block
             a == OuterAt
             F == Top.fields
  <1>1. /\ pos \in Nat /\ IsBlock(b) /\ Len(b) \in Nat /\ a \in Nat /\ a < pos /\ a \in 1 .. Len(b)
        /\ After(b, a) = frames[1].end /\ Top.end <= frames[1].end
    BY InFrames DEF InELAM, OuterAt
  <1>2. After(b, a) <= Len(b) + 1
    <2>1. b[a].len \in Nat /\ a + b[a].len <= Len(b)
      BY <1>1, BlockType DEF Usual
    <2> HIDE DEF a, b
    <2> QED
      BY <1>1, <2>1 DEF After
  <1>3. DriverAt(events, <<next, q>>) = FieldsOf(b, Subs(b, q), ELAMFields)
    BY DEF DriverAt, e
  <1>4. b = events[next].block
    BY DEF e
  <1> HIDE DEF a, b
  <1>5. /\ q \in 1 .. Len(b) /\ pos = After(b, q) /\ F = FieldsRead(b, q, pos, ELAMFields)
        /\ \/ q = a /\ Leaf(b, a) /\ HasName(b, a) /\ Len(frames) = 1
           \/ a < q /\ q \in Nested(b, a) /\ OfLeaves(b, a) /\ Len(frames) = 2
    <2>1. CASE Driver(b, a, pos, frames, q)
      BY <1>1, <2>1 DEF Driver, Top
    <2>2. CASE NestedDriver(b, a, pos, frames, q)
      <3>1. OfLeaves(b, a) /\ q \in Nested(b, a)
        BY <2>2 DEF NestedDriver
      <3>2. a < q /\ q \in 1 .. Len(b)
        BY <1>1, <1>2, <3>1, DriversFollow
      <3> QED
        BY <2>2, <3>2 DEF NestedDriver, Top
    <2>3. CASE BetweenDrivers(b, a, pos, frames, q)
      <3>1. OfLeaves(b, a) /\ pos \in Nested(b, a) /\ Top = frames[1]
        BY <2>3 DEF BetweenDrivers, Top
      <3>2. pos < After(b, pos) /\ After(b, pos) <= After(b, a) /\ After(b, pos) \in Nat
        BY <1>1, <1>2, <3>1, DriversFollow
      <3>3. After(b, a) = pos
        BY <1>1, <3>1
      <3> QED
        BY <1>1, <3>2, <3>3
    <2> QED
      BY <2>1, <2>2, <2>3 DEF AtDriver, a, b
  <1>6. F = FieldsOf(b, Subs(b, q), ELAMFields)
    BY <1>1, <1>5, AllFieldsRead
  <1>7. F["elamKeyname"] # "zero" <=> HasName(b, q)
    BY <1>6 DEF HasName
  <1>8. LeavesTo(events, next, a, pos)
          = LeavesTo(events, next, a, q) \cup (IF HasName(b, q) THEN {<<next, q>>} ELSE {})
    <2>1. {t \in LeavesOf(b, a) : t < pos}
            = {t \in LeavesOf(b, a) : t < q} \cup (IF HasName(b, q) THEN {q} ELSE {})
      <3>1. CASE q = a /\ Leaf(b, a) /\ HasName(b, a)
        <4>1. LeavesOf(b, a) = {a}
          BY <1>1, <3>1, DriversAre
        <4> QED
          BY <1>1, <3>1, <4>1
      <3>2. CASE q \in Nested(b, a) /\ OfLeaves(b, a)
        BY <1>1, <1>2, <1>5, <3>2, OneMoreDriver
      <3> QED
        BY <1>5, <3>1, <3>2
    <2> QED
      BY <1>4, <2>1 DEF LeavesTo
  <1>9. pos < frames[1].end => OfLeaves(b, a) /\ Len(frames) = 2 /\ pos \in Nested(b, a)
    <2> SUFFICES ASSUME pos < After(b, a)
                 PROVE  OfLeaves(b, a) /\ Len(frames) = 2 /\ pos \in Nested(b, a)
      BY <1>1
    <2>1. q \in Nested(b, a) /\ OfLeaves(b, a) /\ Len(frames) = 2
      BY <1>1, <1>5
    <2> QED
      BY <1>1, <1>2, <1>5, <2>1, DriversFollow
  <1> QED
    BY <1>1, <1>3, <1>5, <1>6, <1>7, <1>8, <1>9 DEF a, b

\* A usual aggregation is left, or a driver that is in it.
LEMMA UsualLeft ==
  ASSUME WinTypes, Reading, InELAM, Usual(e.block, OuterAt), Left(pos), pos' = pos, next' = next,
         UsualAll(events, Placed) =>
           win'.ELAM = DriversAt(events, AllLeaves(events, Placed)
                                           \cup LeavesTo(events, next, OuterAt, pos)),
         pos < frames[1].end =>
           OfLeaves(e.block, OuterAt) /\ Len(frames) = 2 /\ pos \in Nested(e.block, OuterAt)
  PROVE  ELAMInv'
  <1> DEFINE b == e.block
             a == OuterAt
             r == <<next, a>>
  <1>1. /\ b[a].typ \in Aggregations /\ frames[1].kind = KindOf(b[a]) /\ pos \in Nat /\ IsBlock(b)
        /\ a \in 1 .. Len(b) /\ After(b, a) = frames[1].end
    BY InFrames DEF InELAM, OuterAt
  <1>2. b[a].typ = "elamAggregation"
    BY <1>1 DEF InELAM, KindOf
  <1>3. CASE /\ Kept /\ frames' # << >> /\ pos < frames[1].end /\ frames'[1] = frames[1]
             /\ Len(frames') \in 1 .. Len(frames) - 1 /\ OuterOf(b, frames') = OuterOf(b, frames)
    <2>1. /\ InELAM' /\ e' = e /\ OuterAt' = OuterAt /\ events' = events /\ Placed' = Placed
      BY <1>3 DEF InELAM, Kept, e, OuterAt
    <2>2. OfLeaves(b, a) /\ Len(frames') = 1 /\ pos \in Nested(b, a)
      <3>1. OfLeaves(b, a) /\ Len(frames) = 2 /\ pos \in Nested(b, a)
        BY <1>3
      <3>2. Len(frames') \in 1 .. 2 - 1
        BY <1>3, <3>1
      <3> QED
        BY <3>1, <3>2
    <2>3. AtDriver(b, a, pos', frames', pos)
      BY <2>2 DEF AtDriver, BetweenDrivers
    <2>4. ELAMRead'
      BY <2>1 DEF ELAMRead
    <2>5. ELAMReading'
      <3>1. /\ AtDriver(b, a, pos', frames', pos)
            /\ UsualAll(events, Placed) =>
                 win'.ELAM = DriversAt(events, AllLeaves(events, Placed)
                                       \cup LeavesTo(events, next, a, pos))
        BY <2>3
      <3>2. \E q \in Nat :
              /\ AtDriver(b, a, pos', frames', q)
              /\ UsualAll(events, Placed) =>
                   win'.ELAM = DriversAt(events, AllLeaves(events, Placed)
                                         \cup LeavesTo(events, next, a, q))
        BY <1>1, <3>1
      <3> QED
        BY <2>1, <3>2 DEF ELAMReading
    <2> QED
      BY <2>4, <2>5 DEF ELAMInv
  <1>4. CASE ReadAt(r) /\ frames' = << >> /\ pos = frames[1].end
    <2>1. events' = events /\ Placed' = Placed \cup {r} /\ SubAt(events, r) = b[a]
      BY <1>4 DEF ReadAt, SubAt, e
    <2>2. r[1] = next /\ r[2] = a /\ events[next].block = b
      BY DEF e
    <2> HIDE DEF r, a, b
    <2>3. /\ AllLeaves(events, Placed \cup {r})
               = AllLeaves(events, Placed) \cup ({next} \X LeavesOf(b, a))
          /\ UsualAll(events, Placed \cup {r}) => UsualAll(events, Placed)
      BY <1>2, <2>1, <2>2, LeavesAdd DEF a, b
    <2>4. \A t \in LeavesOf(b, a) : t < pos
      BY <1>1, <1>4, DriversInside
    <2>5. LeavesTo(events, next, a, pos) = {next} \X LeavesOf(b, a)
      BY <2>2, <2>4 DEF LeavesTo
    <2>6. ~InELAM'
      BY <1>4 DEF InELAM
    <2>7. ELAMRead'
      BY <2>1, <2>3, <2>5 DEF ELAMRead, a
    <2> QED
      BY <2>6, <2>7 DEF ELAMInv, ELAMReading
  <1> QED
    BY <1>3, <1>4 DEF Left, OuterAt

\* The end of an ELAM aggregation.
LEMMA ELAMEndELAM ==
  ASSUME WinTypes, ELAMInv, ELAMEnd
  PROVE  ELAMInv'
  <1> DEFINE a == OuterAt
             b == e.block
             named == Top.fields["elamKeyname"] # "zero"
             X == AllLeaves(events, Placed)
  <1>1. AtEnd("elam") /\ Reading /\ frames # << >> /\ Top.kind = "elam" /\ pos = Top.end
    BY DEF ELAMEnd, AtEnd, In
  <1>2. InELAM /\ pos \in Nat /\ pos <= Len(b) + 1 /\ pos <= Top.end
    BY <1>1, InFrames DEF InELAM
  <1>3. CASE Refuse
    BY <1>3, SameELAM DEF Refuse
  <1>4. CASE ~named /\ Len(frames) # 1 /\ ReturnAt(pos) /\ UNCHANGED win
    <2>1. win' \in WinRecords /\ OnlyField(win, win', "ELAM")
      BY <1>4 DEF WinTypes, OnlyField
    <2>2. Left(pos) /\ pos' = pos /\ next' = next
      BY <1>1, <1>2, <1>4, <2>1, ReturnStep DEF ReturnAt
    <2>3. CASE ~Usual(b, a)
      BY <1>1, <1>2, <2>2, <2>3, UnusualLeft
    <2>4. CASE Usual(b, a)
      <3>1. PICK q \in Nat :
              /\ AtDriver(b, a, pos, frames, q)
              /\ UsualAll(events, Placed) =>
                   win.ELAM = DriversAt(events, X \cup LeavesTo(events, next, a, q))
        BY <1>2, <2>4 DEF ELAMInv, ELAMReading
      <3>2. /\ LeavesTo(events, next, a, pos) = LeavesTo(events, next, a, q)
            /\ pos < frames[1].end => OfLeaves(b, a) /\ Len(frames) = 2 /\ pos \in Nested(b, a)
        BY <1>1, <1>2, <1>4, <2>4, <3>1, DriverRead
      <3> QED
        BY <1>1, <1>2, <1>4, <2>2, <2>4, <3>1, <3>2, UsualLeft
    <2> QED
      BY <2>3, <2>4
  <1>5. CASE /\ named /\ ReturnAt(pos)
             /\ win' = [win EXCEPT !.ELAM = Put(@, Top.fields["elamKeyname"], Top.fields)]
    <2>1. Left(pos) /\ win'.ELAM = Put(win.ELAM, Top.fields["elamKeyname"], Top.fields)
      BY <1>1, <1>5, NamedEnd
    <2>2. pos' = pos /\ next' = next
      BY <1>5 DEF ReturnAt
    <2>3. CASE ~Usual(b, a)
      BY <1>1, <1>2, <2>1, <2>2, <2>3, UnusualLeft
    <2>4. CASE Usual(b, a)
      <3>1. PICK q \in Nat :
              /\ AtDriver(b, a, pos, frames, q)
              /\ UsualAll(events, Placed) =>
                   win.ELAM = DriversAt(events, X \cup LeavesTo(events, next, a, q))
        BY <1>2, <2>4 DEF ELAMInv, ELAMReading
      <3> DEFINE r == <<next, q>>
                 P == X \cup LeavesTo(events, next, a, q)
      <3>2. /\ Top.fields = DriverAt(events, r) /\ a <= q
            /\ LeavesTo(events, next, a, pos) = LeavesTo(events, next, a, q) \cup {r}
            /\ pos < frames[1].end => OfLeaves(b, a) /\ Len(frames) = 2 /\ pos \in Nested(b, a)
        BY <1>1, <1>2, <1>5, <2>4, <3>1, DriverRead
      <3>3. AfterAll(P, r)
        BY <1>1, <3>2, DriverIsLast
      <3>4. P \cup {r} = X \cup LeavesTo(events, next, a, pos)
        BY <3>2
      <3> HIDE DEF P, r, X, a, b
      <3>5. DriversAt(events, P \cup {r})
              = Put(DriversAt(events, P), NameAt(events, r), DriverAt(events, r))
        BY <3>3, DriversAdd
      <3>6. UsualAll(events, Placed) =>
              win'.ELAM = DriversAt(events, X \cup LeavesTo(events, next, a, pos))
        BY <2>1, <3>1, <3>2, <3>4, <3>5 DEF NameAt, P
      <3> QED
        BY <1>1, <1>2, <2>1, <2>2, <2>4, <3>2, <3>6, UsualLeft DEF X, a, b
    <2> QED
      BY <2>3, <2>4
  <1> QED
    BY <1>3, <1>4, <1>5 DEF ELAMEnd, Error
\* The reading of an aggregation starts.
LEMMA StartELAM ==
  ASSUME WinTypes, ELAMInv, StartAggregation
  PROVE  ELAMInv'
  <1> DEFINE b == e.block
             X == AllLeaves(events, Placed)
  <1>1. InBlock /\ h.typ \in Aggregations /\ frames = << >> /\ h = b[pos]
    BY DEF StartAggregation, InBlock, h
  <1>2. pos \in 1 .. Len(b) /\ pos \in Nat /\ pos # 0 /\ IsBlock(b) /\ Len(b) \in Nat
    BY <1>1, InBlockAt, BlockType
  <1>3. frames' = <<NewFrame(b, pos, KindOf(b[pos]))>>
    BY DEF StartAggregation, NewFrame, KindOf, Frame, FieldSet, After, h
  <1>4. Kept /\ OuterOf(b, frames') = pos
    BY StartStep
  <1>5. pos' = pos + 1 /\ next' = next /\ win' = win /\ events' = events /\ e' = e
          /\ Placed' = Placed
    BY <1>4 DEF StartAggregation, Kept, e
  <1>6. OuterAt' = pos
    BY <1>4, <1>5 DEF OuterAt
  <1>7. ~InELAM
    BY <1>1 DEF InELAM
  <1> HIDE DEF b
  <1>8. CASE b[pos].typ # "elamAggregation"
    <2>1. frames'[1].kind = "lma"
      BY <1>3, <1>8 DEF KindOf, NewFrame
    <2>2. ~InELAM'
      BY <2>1 DEF InELAM
    <2> QED
      BY <1>5, <1>7, <2>2, QuietStep
  <1>9. CASE b[pos].typ = "elamAggregation"
    <2>1. /\ Len(frames') = 1 /\ frames'[1].kind = "elam" /\ frames' # << >>
          /\ frames'[1].fields = [f \in ELAMFields |-> Unset(f)]
      BY <1>3, <1>9 DEF KindOf, NewFrame, FieldSet
    <2>2. InELAM'
      BY <2>1 DEF InELAM
    <2>3. UsualAll(events, Placed) => win'.ELAM = DriversAt(events, X)
      BY <1>5, <1>7 DEF ELAMInv, ELAMRead
    <2>4. ASSUME Usual(b, pos)
          PROVE  \E q \in Nat : /\ AtDriver(b, pos, pos', frames', q)
                                /\ LeavesTo(events, next, pos, q) = {}
      <3>1. After(b, pos) <= Len(b) + 1
        BY <1>2, <2>4, BlockType DEF Usual, After
      <3>2. b = events[next].block
        BY DEF b, e
      <3>3. CASE Leaf(b, pos) /\ HasName(b, pos)
        <4>1. FieldsRead(b, pos, pos + 1, ELAMFields) = [f \in ELAMFields |-> Unset(f)]
          BY <1>2, NoFields
        <4>2. AtDriver(b, pos, pos', frames', pos)
          BY <1>5, <2>1, <3>3, <4>1 DEF AtDriver, Driver
        <4>3. LeavesOf(b, pos) = {pos}
          BY <1>2, <3>3, DriversAre
        <4>4. LeavesTo(events, next, pos, pos) = {}
          BY <1>2, <3>2, <4>3 DEF LeavesTo
        <4> QED
          BY <1>2, <4>2, <4>4
      <3>4. CASE OfLeaves(b, pos)
        <4>1. pos + 1 \in Nested(b, pos) /\ \A t \in Nested(b, pos) : t \in Nat /\ pos < t
          BY <1>2, <3>1, <3>4, DriversFollow
        <4>2. AtDriver(b, pos, pos', frames', pos + 1)
          BY <1>5, <2>1, <3>4, <4>1 DEF AtDriver, BetweenDrivers
        <4>3. LeavesOf(b, pos) \subseteq Nested(b, pos)
          BY <1>2, <3>4, DriversAre
        <4>4. \A t \in LeavesOf(b, pos) : ~(t < pos + 1)
          BY <1>2, <4>1, <4>3
        <4>5. LeavesTo(events, next, pos, pos + 1) = {}
          BY <3>2, <4>4 DEF LeavesTo
        <4>6. pos + 1 \in Nat
          BY <1>2
        <4> QED
          BY <4>2, <4>5, <4>6
      <3> QED
        BY <2>4, <3>3, <3>4 DEF Usual
    <2>5. ASSUME Usual(b, pos)
          PROVE  \E q \in Nat :
                   /\ AtDriver(b, pos, pos', frames', q)
                   /\ UsualAll(events, Placed) =>
                        win'.ELAM = DriversAt(events, X \cup LeavesTo(events, next, pos, q))
      <3>1. PICK q \in Nat : /\ AtDriver(b, pos, pos', frames', q)
                             /\ LeavesTo(events, next, pos, q) = {}
        BY <2>4, <2>5
      <3>2. X \cup LeavesTo(events, next, pos, q) = X
        BY <3>1
      <3> QED
        BY <2>3, <3>1, <3>2
    <2>6. ELAMReading'
      BY <1>5, <1>6, <2>5 DEF ELAMReading, b
    <2>7. ELAMRead'
      BY <2>2 DEF ELAMRead
    <2> QED
      BY <2>6, <2>7 DEF ELAMInv
  <1> QED
    BY <1>8, <1>9

\* Events that are not looked at, and the start and the end of a block.
LEMMA EventQuiet ==
  ASSUME WinTypes, ELAMInv, Kept, frames = << >>, frames' = << >>, win' = win
  PROVE  ELAMInv'
  <1>1. ~InELAM /\ ~InELAM' /\ win'.ELAM = win.ELAM /\ events' = events /\ Placed' = Placed
    BY DEF InELAM, Kept
  <1> QED
    BY <1>1, QuietStep

\* Loaded modules.
LEMMA LMASubEventELAM ==
  ASSUME WinTypes, ELAMInv, LMASubEvent
  PROVE  ELAMInv'
  <1>1. Reading /\ frames # << >> /\ Top.kind = "lma" /\ pos < Top.end /\ pos <= Len(e.block)
    BY DEF LMASubEvent, More, In
  <1>2. Kept /\ frames[1].kind = "lma" /\ Len(frames) \in Nat \ {0}
    BY <1>1, InFrames, LMASubEventStep
  <1>3. win' = win
    BY DEF LMASubEvent, SetField, Refuse
  <1>4. frames'[1].kind = "lma"
    <2>1. CASE h.typ \in LMAFields /\ SetField
      <3>1. h.typ \in FieldSet(Top.kind)
        BY <1>1, <2>1 DEF FieldSet
      <3>2. \A i \in 1 .. Len(frames) : frames'[i].kind = frames[i].kind
        BY <1>1, <2>1, <3>1, SetFieldStep
      <3> QED
        BY <1>2, <3>2
    <2>2. CASE frames' = frames
      BY <1>2, <2>2
    <2> QED
      BY <2>1, <2>2 DEF LMASubEvent, Advance, Refuse
  <1>5. ~InELAM /\ ~InELAM' /\ win'.ELAM = win.ELAM /\ events' = events /\ Placed' = Placed
    BY <1>2, <1>3, <1>4 DEF InELAM, Kept
  <1> QED
    BY <1>5, QuietStep

\* The end of a loaded module.
LEMMA LMAEndELAM ==
  ASSUME WinTypes, ELAMInv, LMAEnd
  PROVE  ELAMInv'
  <1> DEFINE r == <<next, OuterOf(e.block, frames)>>
  <1>1. Reading /\ frames # << >> /\ Top.kind = "lma" /\ frames' = << >>
    BY DEF LMAEnd, AtEnd, In
  <1>2. frames[1].kind = "lma" /\ frames[1].kind = KindOf(e.block[OuterOf(e.block, frames)])
    BY <1>1, InFrames
  <1>3. win'.ELAM = win.ELAM /\ ReadAt(r)
    BY LMAEndStep
  <1>4. SubAt(events, r) = e.block[OuterOf(e.block, frames)]
    BY DEF SubAt, e
  <1>5. SubAt(events, r).typ # "elamAggregation"
    BY <1>2, <1>4 DEF KindOf
  <1>6. ~InELAM /\ ~InELAM' /\ events' = events /\ Placed' = Placed \cup {r}
    BY <1>1, <1>2, <1>3 DEF InELAM, ReadAt
  <1> HIDE DEF r
  <1> QED
    BY <1>3, <1>5, <1>6, QuietStep

\* The sub-events outside aggregations.
LEMMA ScalarELAM ==
  ASSUME WinTypes, ELAMInv,
         ReadBoolean \/ readBootCounter \/ readTransferControl \/ readBitlockerUnlock
           \/ UnknownSIPAEvent
  PROVE  ELAMInv'
  <1>1. CASE Refuse
    BY <1>1, SameELAM DEF Refuse
  <1>2. CASE ~Refuse
    <2>1. win \in WinRecords
      BY DEF WinTypes
    <2>2. InBlock /\ Advance
      BY <1>2 DEF ReadBoolean, readBootCounter, readTransferControl, readBitlockerUnlock,
         UnknownSIPAEvent
    <2>3. h.typ \notin Aggregations
      BY DEF ReadBoolean, readBootCounter, readTransferControl, readBitlockerUnlock,
         UnknownSIPAEvent,
             ByteLatches, Ternaries, Aggregations
    <2>4. win'.ELAM = win.ELAM
      <3>1. CASE ReadBoolean
        <4>1. CASE h.typ \in ByteLatches
          BY <1>2, <2>1, <3>1, <4>1 DEF ReadBoolean, WinRecords
        <4>2. CASE h.typ \notin ByteLatches
          BY <1>2, <2>1, <3>1, <4>2 DEF ReadBoolean, WinRecords
        <4> QED
          BY <4>1, <4>2
      <3>2. CASE readBootCounter
        BY <1>2, <2>1, <3>2 DEF readBootCounter, WinRecords
      <3>3. CASE readTransferControl
        BY <1>2, <2>1, <3>3 DEF readTransferControl, WinRecords
      <3>4. CASE readBitlockerUnlock
        BY <1>2, <2>1, <3>4 DEF readBitlockerUnlock, WinRecords
      <3>5. CASE UnknownSIPAEvent
        BY <1>2, <3>5 DEF UnknownSIPAEvent
      <3> QED
        BY <3>1, <3>2, <3>3, <3>4, <3>5
    <2> QED
      BY <2>2, <2>3, <2>4, ScalarQuiet
  <1> QED
    BY <1>1, <1>2
\* Every step keeps ELAM what the drivers that were read report.
LEMMA ELAMStep ==
  ASSUME WinTypes, ELAMInv, [WinNext]_winVars
  PROVE  ELAMInv'
  <1>1. CASE SkipEvent
    <2>1. Kept /\ frames = << >> /\ frames' = << >> /\ win' = win
      BY <1>1, SkipEventStep DEF SkipEvent, Outside, NextEvent, WinTypes
    <2> QED
      BY <2>1, EventQuiet
  <1>2. CASE Refuse
    BY <1>2, SameELAM DEF Refuse
  <1>3. CASE Separator /\ ~Refuse
    <2>1. Kept /\ frames = << >> /\ frames' = << >> /\ win' = win
      BY <1>3, SeparatorStep DEF Separator, Windows, Outside, NextEvent, WinTypes
    <2> QED
      BY <2>1, EventQuiet
  <1>4. CASE EventTag /\ ~Refuse
    <2>1. Kept /\ frames = << >> /\ frames' = << >> /\ win' = win
      BY <1>4, EventTagStep DEF EventTag, Windows, Outside, WinTypes
    <2> QED
      BY <2>1, EventQuiet
  <1>5. CASE ReadBoolean \/ readBootCounter \/ readTransferControl \/ readBitlockerUnlock
             \/ UnknownSIPAEvent
    BY <1>5, ScalarELAM
  <1>6. CASE EndBlock
    <2>1. Kept /\ frames = << >> /\ frames' = << >> /\ win' = win
      BY <1>6, BlockEnds DEF EndBlock, NextEvent
    <2> QED
      BY <2>1, EventQuiet
  <1>7. CASE StartAggregation
    BY <1>7, StartELAM
  <1>8. CASE LMASubEvent
    BY <1>8, LMASubEventELAM
  <1>9. CASE LMAEnd
    BY <1>9, LMAEndELAM
  <1>10. CASE ELAMSubEvent
    BY <1>10, ELAMSubEventELAM
  <1>11. CASE ELAMEnd
    BY <1>11, ELAMEndELAM
  <1>12. CASE FinishWin \/ UNCHANGED winVars
    BY <1>12, SameELAM DEF FinishWin, winVars
  <1>13. (UnexpectedWinType \/ Truncated) => Refuse
    BY DEF UnexpectedWinType, Truncated
  <1> QED
    BY <1>1, <1>2, <1>3, <1>4, <1>5, <1>6, <1>7, <1>8, <1>9, <1>10, <1>11, <1>12, <1>13, Zenon
       DEF WinNext

\* At the start there are no drivers.
LEMMA ELAMStart ==
  ASSUME WinInit
  PROVE  ELAMInv
  <1>1. Placed = {} /\ frames = << >> /\ win.ELAM = NoFunction
    BY WinStart DEF WinInit
  <1>2. AllLeaves(events, {}) = {}
    BY DEF AllLeaves, OfType
  <1>3. DriversAt(events, {}) = NoFunction
    BY DEF DriversAt, NoFunction
  <1>4. ~InELAM
    BY <1>1 DEF InELAM
  <1> QED
    BY <1>1, <1>2, <1>3, <1>4 DEF ELAMInv, ELAMRead, ELAMReading

\* ELAM is what the drivers that were read report, in every state.
LEMMA ELAMHolds == WinSpec => [](WinTypes /\ ELAMInv)
  <1>1. WinInit => WinTypes /\ ELAMInv
    BY WinStart, ELAMStart
  <1>2. WinTypes /\ ELAMInv /\ [WinNext]_winVars => WinTypes' /\ ELAMInv'
    BY WinStep, ELAMStep DEF Stepped
  <1> QED
    BY <1>1, <1>2, PTL DEF WinSpec

\* From a log as Windows writes it ELAM has exactly the drivers that have a name, each
\* with the values of the last aggregation of this name: for every log.
THEOREM WinELAM == WinSpec => []ELAMAsReported
  <1>1. ASSUME WinTypes, ELAMInv PROVE ELAMAsReported
    <2> DEFINE at == Reports("elamAggregation")
               Block(r) == events[r[1]].block
               Leaves(r) == {q \in {r[2]} \cup Nested(Block(r), r[2]) :
                               Leaf(Block(r), q) /\ HasName(Block(r), q)}
               all == UNION {{r[1]} \X Leaves(r) : r \in at}
               Fields(r) == FieldsOf(Block(r), Subs(Block(r), r[2]), ELAMFields)
               Name(r) == Fields(r)["elamKeyname"]
    <2> SUFFICES ASSUME pos = 0, \A r \in at : Usual(Block(r), r[2])
                 PROVE  win.ELAM = [n \in {Name(r) : r \in all} |->
                                      Fields(LastOf({r \in all : Name(r) = n}))]
      BY DEF ELAMAsReported, Settled
    <2>1. at = OfType(events, Placed, "elamAggregation")
      BY <1>1, SettledPlaces
    <2>2. all = AllLeaves(events, Placed)
      BY <2>1 DEF AllLeaves, LeavesOf
    <2>3. UsualAll(events, Placed)
      BY <2>1 DEF UsualAll
    <2>4. ~InELAM
      BY <1>1 DEF WinTypes, InELAM
    <2>5. win.ELAM = DriversAt(events, AllLeaves(events, Placed))
      BY <1>1, <2>3, <2>4 DEF ELAMInv, ELAMRead
    <2>6. \A r : Fields(r) = DriverAt(events, r) /\ Name(r) = NameAt(events, r)
      BY DEF DriverAt, NameAt
    <2> HIDE DEF at, all
    <2>7. DriversAt(events, all) = [n \in {Name(r) : r \in all} |->
                                      Fields(LastOf({r \in all : Name(r) = n}))]
      BY DEF DriversAt, DriverAt, NameAt
    <2> QED
      BY <2>2, <2>5, <2>7
  <1> QED
    BY <1>1, ELAMHolds, PTL
-----------------------------------------------------------------------------
(***************************************************************************)
(* What is refused.  The event that is handled is not as Windows writes it,*)
(* or its boot counter differs.                                            *)
(***************************************************************************)

Separated == \E j \in 1 .. next - 1 : events[j].index = e.index /\ events[j].typ = "Separator"
Blamed ==
  \/ ~AsWritten(e, Separated)
  \/ \E q \in DOMAIN e.block : e.block[q].typ = "bootCounter" /\ e.block[q].value # win.BootCount
Refused == result' = "error" /\ UNCHANGED <<events, next, win>>

\* A tagged event is not as Windows writes it if a sub-event outside aggregations is not.
LEMMA BadSubEvent ==
  ASSUME WinTypes, pos # 0, NEW p \in TopLevel(e.block),
         LET b == e.block
         IN  \/ ~b[p].ok
             \/ b[p].typ = "elamAggregation" /\ ~Usual(b, p)
             \/ /\ b[p].typ = "loadedModuleAggregation"
                /\ \/ ~(p + b[p].len <= Len(b))
                   \/ \E q \in Subs(b, p) : ~b[q].ok
                   \/ ~Once(b, {q \in Subs(b, p) : b[q].typ # "moduleSVN"}, LMAFields)
  PROVE  Blamed
  <1>1. e.typ # "Separator"
    BY InEvent DEF Tagged, e
  <1> QED
    BY <1>1 DEF Blamed, AsWritten

\* An event that is refused before its sub-events are read.
LEMMA EventRefused ==
  ASSUME WinTypes, result = "none", UnexpectedWinType \/ Separator \/ EventTag, result' = "error"
  PROVE  Blamed /\ Refused
  <1>1. CASE UnexpectedWinType
    BY <1>1 DEF UnexpectedWinType, Refuse, Refused, Blamed, AsWritten
  <1>2. CASE Separator
    <2>1. Refuse /\ (e.index \in seenSeparator \/ ~e.wbcl \/ ~e.digest)
      BY <1>2 DEF Separator, NextEvent
    <2>2. e.index \in seenSeparator => Separated
      BY DEF WinTypes, Open, Sep, Separated
    <2> QED
      BY <1>2, <2>1, <2>2 DEF Separator, Refuse, Refused, Blamed, AsWritten
  <1>3. CASE EventTag
    <2>1. Refuse /\ e.typ = "EventTag" /\ (~e.parses \/ ~e.digest \/ ~e.container)
      BY <1>3 DEF EventTag
    <2> QED
      BY <2>1 DEF Refuse, Refused, Blamed, AsWritten
  <1> QED
    BY <1>1, <1>2, <1>3

\* A sub-event outside aggregations that is refused.
LEMMA ScalarRefused ==
  ASSUME WinTypes, result = "none", result' = "error",
         ReadBoolean \/ readBootCounter \/ readTransferControl \/ readBitlockerUnlock
           \/ UnknownSIPAEvent
  PROVE  Blamed /\ Refused
  <1>1. Refuse /\ InBlock
    BY DEF ReadBoolean, readBootCounter, readTransferControl, readBitlockerUnlock,
       UnknownSIPAEvent, Advance
  <1>2. /\ pos \in TopLevel(e.block) /\ pos \in 1 .. Len(e.block) /\ pos # 0 /\ IsBlock(e.block)
        /\ h = e.block[pos]
    BY <1>1, InBlockAt DEF h
  <1>3. \/ ~h.ok
        \/ h.typ = "bootCounter" /\ win.BootCount # h.value
    BY DEF ReadBoolean, readBootCounter, readTransferControl, readBitlockerUnlock,
       UnknownSIPAEvent, Advance
  <1>4. pos \in DOMAIN e.block
    BY <1>2, BlockType
  <1>5. Blamed
    <2>1. CASE ~h.ok
      BY <1>2, <2>1, BadSubEvent
    <2>2. CASE h.typ = "bootCounter" /\ win.BootCount # h.value
      BY <1>2, <1>4, <2>2 DEF Blamed
    <2> QED
      BY <1>3, <2>1, <2>2
  <1> QED
    BY <1>1, <1>5 DEF Refuse, Refused

\* The data of a block end before those of an aggregation.
LEMMA TruncatedRefused ==
  ASSUME WinTypes, Truncated
  PROVE  Blamed /\ Refused
  <1> DEFINE b == e.block
             a == OuterOf(b, frames)
  <1>1. Reading /\ frames # << >> /\ pos < Top.end /\ pos > Len(b) /\ Refuse
    BY DEF Truncated
  <1>2. /\ pos \in Nat /\ pos # 0 /\ IsBlock(b) /\ Len(b) \in Nat /\ a \in TopLevel(b) /\ a \in Nat
        /\ a \in 1 .. Len(b) /\ b[a].typ \in Aggregations /\ After(b, a) = frames[1].end
        /\ Top.end \in Nat /\ frames[1].end \in Nat /\ Top.end <= frames[1].end
    BY <1>1, InFrames
  <1> HIDE DEF a, b
  <1>3. ~(a + b[a].len <= Len(b))
    <2>1. b[a].len \in Nat
      BY <1>2, BlockType
    <2> QED
      BY <1>1, <1>2, <2>1 DEF After
  <1>4. ~Usual(b, a)
    BY <1>3 DEF Usual
  <1>5. Blamed
    BY <1>2, <1>3, <1>4, BadSubEvent DEF Aggregations, b
  <1> QED
    BY <1>1, <1>5 DEF Refuse, Refused

\* A sub-event of a loaded module that is refused.
LEMMA LMARefused ==
  ASSUME WinTypes, LMASubEvent, result = "none", result' = "error"
  PROVE  Blamed /\ Refused
  <1> DEFINE b == e.block
             a == OuterOf(b, frames)
             Q == {q \in Subs(b, a) : b[q].typ # "moduleSVN"}
  <1>1. /\ Reading /\ frames # << >> /\ Top.kind = "lma" /\ pos < Top.end /\ pos <= Len(b)
        /\ Refuse
        /\ ~(h.typ \in LMAFields /\ h.ok /\ ~Duplicate) /\ ~(h.typ = "moduleSVN" /\ h.ok)
    BY DEF LMASubEvent, More, In, SetField, Advance
  <1>2. /\ pos \in Nat /\ pos # 0 /\ IsBlock(b) /\ Len(b) \in Nat /\ a \in TopLevel(b) /\ a \in Nat
        /\ a \in 1 .. Len(b) /\ a < pos /\ b[a].typ \in Aggregations /\ After(b, a) = frames[1].end
        /\ frames[1].kind = KindOf(b[a]) /\ Top = frames[1]
        /\ Top.fields = FieldsRead(b, a, pos, LMAFields) /\ Top.kind = frames[1].kind
    BY <1>1, InFrames
  <1>3. h = b[pos]
    BY DEF h
  <1> HIDE DEF a, b
  <1>4. b[a].typ = "loadedModuleAggregation"
    BY <1>1, <1>2 DEF KindOf, Aggregations
  <1>5. pos \in Subs(b, a) /\ a + 1 .. pos - 1 \subseteq Subs(b, a) /\ pos \notin a + 1 .. pos - 1
    <2>1. b[a].len \in Nat
      BY <1>2, BlockType
    <2> QED
      BY <1>1, <1>2, <2>1 DEF Subs, After
  <1>6. \/ \E q \in Subs(b, a) : ~b[q].ok
        \/ ~Once(b, Q, LMAFields)
    <2> SUFFICES ASSUME \A q \in Subs(b, a) : b[q].ok, Once(b, Q, LMAFields) PROVE FALSE
      OBVIOUS
    <2>1. h.ok /\ h.typ # "moduleSVN"
      BY <1>1, <1>3, <1>5
    <2>2. pos \in Q
      BY <1>3, <1>5, <2>1
    <2>3. h.typ \in LMAFields /\ \A t \in Q : b[t].typ = h.typ => t = pos
      BY <1>3, <2>2 DEF Once
    <2>4. Duplicate
      BY <1>1, <2>1, <2>3
    <2>5. FieldsOf(b, a + 1 .. pos - 1, LMAFields)[h.typ] # Unset(h.typ)
      BY <1>2, <2>4 DEF Duplicate, FieldsRead
    <2>6. \A t \in a + 1 .. pos - 1 : b[t].typ # h.typ
      BY <1>5, <2>1, <2>3
    <2>7. FieldsOf(b, a + 1 .. pos - 1, LMAFields)[h.typ] = Unset(h.typ)
      BY <2>3, <2>6 DEF FieldsOf
    <2> QED
      BY <2>5, <2>7
  <1>7. Blamed
    BY <1>2, <1>4, <1>6, BadSubEvent DEF b
  <1> QED
    BY <1>1, <1>7 DEF Refuse, Refused

\* An ELAM aggregation that is refused.
LEMMA ELAMRefused ==
  ASSUME WinTypes, ELAMInv, ELAMSubEvent \/ ELAMEnd, result = "none", result' = "error"
  PROVE  Blamed /\ Refused
  <1> DEFINE b == e.block
             a == OuterAt
  <1>1. Reading /\ frames # << >> /\ Top.kind = "elam"
    BY DEF ELAMSubEvent, ELAMEnd, More, AtEnd, In
  <1>2. /\ pos # 0 /\ a \in TopLevel(b) /\ b[a].typ \in Aggregations
             /\ frames[1].kind = KindOf(b[a])
        /\ Top.kind = frames[1].kind
    BY <1>1, InFrames DEF OuterAt
  <1>3. InELAM /\ b[a].typ = "elamAggregation"
    BY <1>1, <1>2 DEF InELAM, KindOf
  <1>4. Refuse
    BY DEF ELAMSubEvent, ELAMEnd, Error, ReturnAt, SetField
  <1>5. ~Usual(b, a)
    <2> SUFFICES ASSUME Usual(b, a) PROVE FALSE
      OBVIOUS
    <2>1. PICK q \in Nat : AtDriver(b, a, pos, frames, q)
      BY <1>3 DEF ELAMInv, ELAMReading
    <2>2. CASE ELAMSubEvent
      <3>1. pos < Top.end /\ pos <= Len(b)
        BY <2>2 DEF ELAMSubEvent, More
      <3>2. ~(h.typ \in ELAMFields /\ h.ok /\ ~Duplicate) /\ ~(h.typ = "elamAggregation" /\ Fits)
        BY <2>2 DEF ELAMSubEvent, SetField
      <3> QED
        BY <1>1, <1>3, <2>1, <3>1, <3>2, UsualGoesOn
    <2>3. CASE ELAMEnd
      <3>1. pos = Top.end
        BY <2>3 DEF ELAMEnd, AtEnd
      <3>2. Top.fields["elamKeyname"] = "zero" /\ Len(frames) = 1
        BY <2>3 DEF ELAMEnd, Error, ReturnAt
      <3> QED
        BY <1>1, <1>3, <2>1, <3>1, <3>2, DriverRead
    <2> QED
      BY <2>2, <2>3
  <1>6. Blamed
    BY <1>2, <1>3, <1>5, BadSubEvent
  <1> QED
    BY <1>4, <1>6 DEF Refuse, Refused

\* No log of events as Windows writes them is refused, unless its boot counters differ:
\* an incomplete driver, an unknown sub-event, a module that is loaded again or the
\* separator of the other register costs nothing, in any log.
THEOREM WinAccepts == WinSpec => []AcceptsWellFormed
  <1>1. AcceptsWellFormed <=> (result = "error" => Blamed)
    BY DEF AcceptsWellFormed, Blamed, Separated
  <1>2. WinInit => AcceptsWellFormed
    BY <1>1 DEF WinInit
  <1>3. ASSUME WinTypes, ELAMInv, AcceptsWellFormed, [WinNext]_winVars
        PROVE  AcceptsWellFormed'
    <2> SUFFICES ASSUME result' = "error" PROVE Blamed'
      BY DEF AcceptsWellFormed, Blamed, Separated
    <2>1. CASE UNCHANGED winVars
      BY <1>1, <1>3, <2>1 DEF winVars, Blamed, Separated, e
    <2>2. CASE WinNext
      <3>1. result = "none"
        BY <2>2 DEF WinNext, SkipEvent, UnexpectedWinType, Separator, EventTag, ReadBoolean,
             readBootCounter, readTransferControl, readBitlockerUnlock, UnknownSIPAEvent, EndBlock,
             StartAggregation, Truncated, LMASubEvent, LMAEnd, ELAMSubEvent, ELAMEnd, FinishWin,
             Windows, Outside, Handling, InBlock, Reading, More, AtEnd, In
      <3>2. Blamed /\ Refused
        <4>1. CASE UnexpectedWinType \/ Separator \/ EventTag
          BY <1>3, <3>1, <4>1, EventRefused
        <4>2. CASE ReadBoolean \/ readBootCounter \/ readTransferControl \/ readBitlockerUnlock
                   \/ UnknownSIPAEvent
          BY <1>3, <3>1, <4>2, ScalarRefused
        <4>3. CASE Truncated
          BY <1>3, <4>3, TruncatedRefused
        <4>4. CASE LMASubEvent
          BY <1>3, <3>1, <4>4, LMARefused
        <4>5. CASE ELAMSubEvent \/ ELAMEnd
          BY <1>3, <3>1, <4>5, ELAMRefused
        <4>6. ~(SkipEvent \/ EndBlock \/ StartAggregation \/ LMAEnd \/ FinishWin)
          BY <3>1 DEF SkipEvent, EndBlock, StartAggregation, LMAEnd, FinishWin, NextEvent
        <4> QED
          BY <2>2, <4>1, <4>2, <4>3, <4>4, <4>5, <4>6 DEF WinNext
      <3> QED
        BY <3>2 DEF Refused, Blamed, Separated, e
    <2> QED
      BY <1>3, <2>1, <2>2
  <1> QED
    BY <1>2, <1>3, ELAMHolds, PTL DEF WinSpec

=============================================================================
