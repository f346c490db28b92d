------------------------------ MODULE WinEvents ------------------------------
(***************************************************************************)
(* ParseWinEvents (win_events.go): what the remote party concludes from    *)
(* the events of Windows that EventLog.Verify returned.  A tagged event of *)
(* PCR 12 or 13 has a block of sub-events; two of their kinds contain      *)
(* sub-events of their own, and an ELAM aggregation contains others.       *)
(*                                                                         *)
(* A block is the sequence of its sub-events as they follow in the data.   *)
(* The header of an aggregation is an element, and its `len` elements      *)
(* follow it; any other sub-event is one element, with its payload:        *)
(*   [typ, ok, empty, value, len]                                          *)
(* `ok` is FALSE if the payload has a size or a value that its kind cannot *)
(* have, or is larger than the data; `empty` if it has no bytes.  "zero"   *)
(* is the value that Go's variables have before they are assigned.         *)
(* The bytes of a payload are taken not to read as a sub-event themselves, *)
(* and aggregations to be at most two deep.                                *)
(***************************************************************************)
EXTENDS BootEvents

CONSTANT WinInputs  (* the sequences of events that ParseWinEvents is called with *)

Aggregations == {"loadedModuleAggregation", "elamAggregation"}

\* The events and the sub-events of a block are sequences.
ASSUME WinInputsAssumption ==
  \A s \in WinInputs :
    /\ IsSequence(s)
    /\ \A k \in DOMAIN s :
         s[k].typ = "EventTag" =>
           /\ IsSequence(s[k].block)
           /\ \A p \in DOMAIN s[k].block :
                /\ s[k].block[p].len \in Nat
                /\ s[k].block[p].typ \notin Aggregations => s[k].block[p].len = 0

VARIABLES
  win,            \* the WinEvents
  seenSeparator,  \* the registers with a separator so far
  pos,            \* the sub-event that is read, 0 if no block is being read
  frames          \* the aggregations that are being read, innermost last

winVars == <<events, next, result, win, seenSeparator, pos, frames>>

\* The fields of a module, and which are slices: these are nil at first and
\* something else even if they have no bytes.
Slices == {"authenticodeHash", "authoritySerial", "authoritySHA1Thumbprint", "elamMeasured",
           "elamPolicy", "elamConfiguration"}
LMAFields == {"imageBase", "authenticodeHash", "filePath", "imageSize", "hashAlgorithmID",
              "imageValidated", "authorityIssuer", "authorityPublisher", "authoritySerial",
              "authoritySHA1Thumbprint"}
ELAMFields == {"elamKeyname", "elamMeasured", "elamPolicy", "elamConfiguration"}
Unset(f) == IF f \in Slices THEN "nil" ELSE "zero"

ByteLatches == {"osKernelDebug", "bootDebugging", "testSigning"}
Ternaries == {"codeIntegrity", "dataExecutionPrevention"}
Scalars == ByteLatches \cup Ternaries \cup {"bootCounter", "bitlockerUnlock", "transferControl"}

NoFunction == [x \in {} |-> x]

WinInit ==
  /\ events \in WinInputs
  /\ next = 1
  /\ result = "none"
  /\ win = [latched |-> [f \in ByteLatches |-> FALSE], ternary |-> [f \in Ternaries |-> "Unknown"],
            BootCount |-> "zero", ColdBoot |-> FALSE, BitlockerUnlocks |-> << >>,
            LoadedModules |-> NoFunction, ELAM |-> NoFunction]
  /\ seenSeparator = {}
  /\ pos = 0
  /\ frames = << >>

-----------------------------------------------------------------------------
(***************************************************************************)
(* The loop over the events.                                               *)
(***************************************************************************)

Outside == Handling /\ pos = 0
Windows == Outside /\ e.index \in {12, 13}

NextEvent == next' = next + 1 /\ pos' = 0 /\ frames' = << >> /\ UNCHANGED <<events, result>>
Refuse == result' = "error" /\ UNCHANGED <<events, next, win, seenSeparator, pos, frames>>

\* Events of other registers, and tagged events after the separator.
SkipEvent ==
  /\ Outside
  /\ \/ e.index \notin {12, 13}
     \/ Windows /\ e.typ = "EventTag" /\ e.index \in seenSeparator
  /\ NextEvent
  /\ UNCHANGED <<win, seenSeparator>>

UnexpectedWinType ==
  /\ Windows
  /\ e.typ \notin {"EventTag", "Separator"}
  /\ Refuse

Separator ==
  /\ Windows
  /\ e.typ = "Separator"
  /\ IF e.index \in seenSeparator \/ ~e.wbcl \/ ~e.digest
       THEN Refuse
       ELSE NextEvent /\ seenSeparator' = seenSeparator \cup {e.index} /\ UNCHANGED win

\* ParseTaggedEventData, and the start of readWinEventBlock.
EventTag ==
  /\ Windows
  /\ e.typ = "EventTag" /\ e.index \notin seenSeparator
  /\ IF ~e.parses \/ ~e.digest \/ ~e.container
       THEN Refuse
       ELSE pos' = 1 /\ UNCHANGED <<events, next, result, win, seenSeparator, frames>>

-----------------------------------------------------------------------------
(***************************************************************************)
(* readWinEventBlock and readSIPAEvent: one sub-event outside aggregations.*)
(***************************************************************************)

Reading == result = "none" /\ pos > 0
InBlock == Reading /\ frames = << >> /\ pos <= Len(e.block)
h == e.block[pos]

Advance == pos' = pos + 1 /\ UNCHANGED <<events, next, result, seenSeparator, frames>>

EndBlock ==
  /\ Reading /\ frames = << >> /\ pos > Len(e.block)
  /\ NextEvent
  /\ UNCHANGED <<win, seenSeparator>>

\* Mutant: the last signal counts.
ReadBooleanLast ==
  /\ InBlock /\ h.typ \in ByteLatches \cup Ternaries
  /\ IF ~h.ok THEN Refuse
     ELSE /\ Advance
          /\ win' = IF h.typ \in ByteLatches
                      THEN [win EXCEPT !.latched[h.typ] = h.value # "zero"]
                      ELSE [win EXCEPT !.ternary[h.typ] =
                              IF h.value = "zero" THEN "False" ELSE "True"]

\* readBooleanByteEvent and readBooleanInt64Event: signals of a weaker state
\* latch on, signals of a stronger one latch off.
ReadBoolean ==
  /\ InBlock /\ h.typ \in ByteLatches \cup Ternaries
  /\ IF ~h.ok THEN Refuse
     ELSE /\ Advance
          /\ win' = IF h.typ \in ByteLatches
                      THEN [win EXCEPT !.latched[h.typ] = @ \/ h.value # "zero"]
                      ELSE [win EXCEPT !.ternary[h.typ] =
                              IF h.value = "zero" THEN "False"
                              ELSE IF @ = "Unknown" THEN "True" ELSE @]

readBootCounter ==
  /\ InBlock /\ h.typ = "bootCounter"
  /\ IF ~h.ok \/ (win.BootCount # "zero" /\ win.BootCount # h.value)
       THEN Refuse
       ELSE Advance /\ win' = [win EXCEPT !.BootCount = h.value]

readTransferControl ==
  /\ InBlock /\ h.typ = "transferControl"
  /\ IF ~h.ok THEN Refuse
     ELSE Advance /\ win' = [win EXCEPT !.ColdBoot = (h.value = "one")]

\* Mutant: the status is taken from both registers.
ReadBitlockerUnlockTwice ==
  /\ InBlock /\ h.typ = "bitlockerUnlock"
  /\ IF ~h.ok THEN Refuse
     ELSE Advance /\ win' = [win EXCEPT !.BitlockerUnlocks = Append(@, h.value)]

\* The status is in both registers and taken from the first.
readBitlockerUnlock ==
  /\ InBlock /\ h.typ = "bitlockerUnlock"
  /\ IF ~h.ok THEN Refuse
     ELSE /\ Advance
          /\ win' = IF e.index = 13 THEN win
                    ELSE [win EXCEPT !.BitlockerUnlocks = Append(@, h.value)]

\* Any other sub-event is consumed, if it ends in the block.
UnknownSIPAEvent ==
  /\ InBlock /\ h.typ \notin Scalars \cup Aggregations
  /\ IF ~h.ok THEN Refuse ELSE Advance /\ UNCHANGED win

-----------------------------------------------------------------------------
(***************************************************************************)
(* Aggregations.  A frame has the place where its data end and the local   *)
(* variables of the function that reads it.                                *)
(***************************************************************************)

Frame(kind, fields) ==
  [kind |-> kind, end |-> pos + 1 + h.len, fields |-> [f \in fields |-> Unset(f)]]
Top == frames[Len(frames)]
In(kind) == Reading /\ frames # << >> /\ Top.kind = kind
More(kind) == In(kind) /\ pos < Top.end
AtEnd(kind) == In(kind) /\ pos = Top.end

StartAggregation ==
  /\ InBlock /\ h.typ \in Aggregations
  /\ pos' = pos + 1
  /\ frames' = << IF h.typ = "elamAggregation" THEN Frame("elam", ELAMFields)
                                               ELSE Frame("lma", LMAFields) >>
  /\ UNCHANGED <<events, next, result, win, seenSeparator>>

\* The data of the block end before those of the aggregation.
Truncated ==
  /\ Reading /\ frames # << >> /\ pos < Top.end /\ pos > Len(e.block)
  /\ Refuse

SetField ==
  /\ frames' = [frames EXCEPT ![Len(frames)].fields[h.typ] = h.value]
  /\ pos' = pos + 1
  /\ UNCHANGED <<events, next, result, win, seenSeparator>>

Duplicate == Top.fields[h.typ] # Unset(h.typ)

\* readLoadedModuleAggregation.
LMASubEvent ==
  /\ More("lma") /\ pos <= Len(e.block)
  /\ IF h.typ \in LMAFields /\ h.ok /\ ~Duplicate THEN SetField
     ELSE IF h.typ = "moduleSVN" /\ h.ok THEN Advance /\ UNCHANGED win
     ELSE Refuse

\* Modules are by the hash of their code, "zero" if there is none or an empty one.
HashHex(fields) ==
  IF fields["authenticodeHash"] = "nil" THEN "zero" ELSE fields["authenticodeHash"]

Bases(fields) == IF fields["imageBase"] = "zero" THEN << >> ELSE <<fields["imageBase"]>>

Put(f, k, v) == [x \in DOMAIN f \cup {k} |-> IF x = k THEN v ELSE f[x]]

\* Mutant: a module that is loaded again replaces what was known of it.
LMAEndReplaces ==
  /\ AtEnd("lma")
  /\ win' = [win EXCEPT !.LoadedModules =
               Put(@, HashHex(Top.fields), [fields |-> Top.fields, ImageBase |-> Bases(Top.fields)])]
  /\ frames' = << >>
  /\ UNCHANGED <<events, next, result, seenSeparator, pos>>

LMAEnd ==
  /\ AtEnd("lma")
  /\ LET k == HashHex(Top.fields)
         before == IF k \in DOMAIN win.LoadedModules THEN win.LoadedModules[k].ImageBase
                                                     ELSE << >>
     IN  win' = [win EXCEPT !.LoadedModules =
                   Put(@, k, [fields |-> Top.fields,
                              ImageBase |-> Bases(Top.fields) \o before])]
  /\ frames' = << >>
  /\ UNCHANGED <<events, next, result, seenSeparator, pos>>

\* The end of a call of readELAMAggregation at p.  A call for a nested aggregation
\* returns to one that goes on if it has data left, and otherwise returns nil.
ReturnAt(p) ==
  /\ pos' = p
  /\ \E n \in 0 .. Len(frames) - 1 :
       /\ \A i \in 1 .. n : frames[i].end > p
       /\ \A i \in n + 1 .. Len(frames) - 1 : frames[i].end <= p
       /\ frames' = SubSeq(frames, 1, n)
  /\ UNCHANGED <<events, next, result, seenSeparator>>

\* Mutant: an error of a nested aggregation is returned.
ErrorReturned(p, aligned) == Refuse

\* An error in an aggregation.  The one of a nested aggregation is not looked at:
\* the outer one goes on with the data that the nested one has left.  These are
\* sub-events; if they start with the bytes of a payload, the outer one fails too.
Error(p, aligned) ==
  IF Len(frames) = 1 \/ ~aligned THEN Refuse ELSE ReturnAt(p) /\ UNCHANGED win

\* Mutant: the size of a nested aggregation is not compared with what is left.
FitsAlways == TRUE

Fits == pos + 1 + h.len <= Top.end

\* readELAMAggregation.
ELAMSubEvent ==
  /\ More("elam") /\ pos <= Len(e.block)
  /\ IF h.typ \in ELAMFields /\ h.ok /\ ~Duplicate THEN SetField
     ELSE IF h.typ = "elamAggregation" /\ Fits
       THEN /\ frames' = Append(frames, Frame("elam", ELAMFields))
            /\ pos' = pos + 1
            /\ UNCHANGED <<events, next, result, win, seenSeparator>>
     ELSE Error(pos + 1, h.empty \/ h.typ \in Aggregations)

\* Mutant: the first aggregation of a driver is kept.
ELAMEndFirst ==
  /\ AtEnd("elam")
  /\ IF Top.fields["elamKeyname"] = "zero"
       THEN Error(pos, TRUE)
       ELSE /\ ReturnAt(pos)
            /\ win' = IF Top.fields["elamKeyname"] \in DOMAIN win.ELAM THEN win
                      ELSE [win EXCEPT !.ELAM = Put(@, Top.fields["elamKeyname"], Top.fields)]

ELAMEnd ==
  /\ AtEnd("elam")
  /\ IF Top.fields["elamKeyname"] = "zero"
       THEN Error(pos, TRUE)
       ELSE /\ ReturnAt(pos)
            /\ win' = [win EXCEPT !.ELAM = Put(@, Top.fields["elamKeyname"], Top.fields)]

-----------------------------------------------------------------------------

FinishWin ==
  /\ result = "none" /\ next > Len(events)
  /\ result' = "ok"
  /\ UNCHANGED <<events, next, win, seenSeparator, pos, frames>>

WinNext ==
  \/ SkipEvent \/ UnexpectedWinType \/ Separator \/ EventTag
  \/ ReadBoolean \/ readBootCounter \/ readTransferControl \/ readBitlockerUnlock
  \/ UnknownSIPAEvent \/ EndBlock
  \/ StartAggregation \/ Truncated \/ LMASubEvent \/ LMAEnd \/ ELAMSubEvent \/ ELAMEnd
  \/ FinishWin

WinSpec == WinInit /\ [][WinNext]_winVars

-----------------------------------------------------------------------------
(***************************************************************************)
(* What the events report, read from the log and not from the state of the *)
(* parser.  A place is an event and a sub-event outside aggregations.      *)
(***************************************************************************)

Subs(b, p) == p + 1 .. p + b[p].len

TopLevel(b) ==
  LET top[p \in 1 .. Len(b)] ==
        p = 1 \/ \E q \in 1 .. p - 1 : top[q] /\ q + 1 + b[q].len = p
  IN  {p \in 1 .. Len(b) : top[p]}

\* The tagged events that came before the separator of their own register.
Considered ==
  {i \in 1 .. next - 1 :
     /\ events[i].index \in {12, 13} /\ events[i].typ = "EventTag"
     /\ ~\E j \in 1 .. i - 1 : events[j].index = events[i].index /\ events[j].typ = "Separator"}

Sub(r) == events[r[1]].block[r[2]]
Reports(typ) ==
  {r \in UNION {{i} \X TopLevel(events[i].block) : i \in Considered} : Sub(r).typ = typ}
Values(typ) == {Sub(r).value : r \in Reports(typ)}
Before(r, s) == r[1] < s[1] \/ (r[1] = s[1] /\ r[2] < s[2])
LastOf(S) == CHOOSE r \in S : \A s \in S : s = r \/ Before(s, r)

\* A state with the results of all events so far and nothing of the next one.
Settled == result # "error" /\ pos = 0

\* The fields that the sub-events Q of the block b report, by the last of a kind.
FieldsOf(b, Q, fields) ==
  [f \in fields |->
     IF \E q \in Q : b[q].typ = f
       THEN b[CHOOSE q \in Q : b[q].typ = f /\ \A t \in Q : b[t].typ = f => t <= q].value
       ELSE Unset(f)]

\* One type invariant: what ParseWinEvents keeps is of its types, aggregations
\* nest, and the parser is inside the innermost.
TypeOK ==
  /\ next \in 1 .. Len(events) + 1
  /\ result \in {"none", "ok", "error"}
  /\ win.latched \in [ByteLatches -> BOOLEAN]
  /\ win.ternary \in [Ternaries -> {"Unknown", "True", "False"}]
  /\ seenSeparator \subseteq {12, 13}
  /\ pos # 0 => next <= Len(events) /\ pos \in 1 .. Len(e.block) + 1
  /\ frames # << >> => pos # 0 /\ pos <= Top.end
  /\ \A i \in 2 .. Len(frames) : frames[i - 1].end >= frames[i].end

\* The signals of WinEvents say what the whole log reports: debugging and test
\* signing are on if they were EVER reported as on, code integrity and DEP are
\* "True" only if they were reported and CONSISTENTLY so, and a report counts
\* exactly if it is before the separator of the register it was measured into.
LatchesAsReported ==
  Settled =>
    /\ \A f \in ByteLatches : win.latched[f] <=> \E v \in Values(f) : v # "zero"
    /\ \A f \in Ternaries :
         win.ternary[f] = IF Values(f) = {} THEN "Unknown"
                          ELSE IF "zero" \in Values(f) THEN "False" ELSE "True"

\* A log that reports two boot counters is not accepted (readBootCounter takes a
\* counter of 0 that comes first for none), every unlock of a disk is reported
\* once and in order though both registers have it, and the last transfer of
\* control decides if the boot was a cold one.
CountsAsReported ==
  Settled =>
    LET unlocks == {r \in Reports("bitlockerUnlock") : events[r[1]].index = 12}
        transfers == Reports("transferControl")
    IN  /\ Values("bootCounter") \ {"zero"} = {win.BootCount} \ {"zero"}
        /\ Len(win.BitlockerUnlocks) = Cardinality(unlocks)
        /\ \A r \in unlocks :
             win.BitlockerUnlocks[1 + Cardinality({s \in unlocks : Before(s, r)})] = Sub(r).value
        /\ win.ColdBoot <=> transfers # {} /\ Sub(LastOf(transfers)).value = "one"

\* LoadedModules has an entry for each hash that a loaded module was reported
\* with and no other; ImageBase has the address of every load, latest first, and
\* the other fields are those of the last load.
ModulesAsLoaded ==
  Settled =>
    LET loads == Reports("loadedModuleAggregation")
        Fields(r) == FieldsOf(events[r[1]].block, Subs(events[r[1]].block, r[2]), LMAFields)
        Of(k) == {r \in loads : HashHex(Fields(r)) = k}
    IN  /\ DOMAIN win.LoadedModules = {HashHex(Fields(r)) : r \in loads}
        /\ \A k \in DOMAIN win.LoadedModules :
             LET at == {r \in Of(k) : Fields(r)["imageBase"] # "zero"}
                 m  == win.LoadedModules[k]
             IN  /\ m.fields = Fields(LastOf(Of(k)))
                 /\ Len(m.ImageBase) = Cardinality(at)
                 /\ \A r \in at :
                      m.ImageBase[1 + Cardinality({s \in at : Before(r, s)})]
                        = Fields(r)["imageBase"]

\* Sub-events of an aggregation that are of its fields and are there once.
Once(b, Q, fields) ==
  \A q \in Q : b[q].typ \in fields /\ b[q].ok /\ \A t \in Q : b[t].typ = b[q].typ => t = q

\* Windows writes ELAM aggregations that describe a driver, or that are made of
\* aggregations that do.
Leaf(b, p) == b[p].typ = "elamAggregation" /\ Once(b, Subs(b, p), ELAMFields)
HasName(b, p) == FieldsOf(b, Subs(b, p), ELAMFields)["elamKeyname"] # "zero"
Nested(b, p) == {q \in Subs(b, p) : b[q].typ = "elamAggregation"}
OfLeaves(b, p) ==
  /\ Nested(b, p) # {}
  /\ Subs(b, p) = UNION {{q} \cup Subs(b, q) : q \in Nested(b, p)}
  /\ \A q \in Nested(b, p) : Leaf(b, q)
Usual(b, p) == p + b[p].len <= Len(b) /\ ((Leaf(b, p) /\ HasName(b, p)) \/ OfLeaves(b, p))

\* From a log as Windows writes it ELAM has exactly the drivers that have a name
\* in the log, each with the values of the last aggregation of this name; an
\* aggregation without a name is left out and spoils no other.
ELAMAsReported ==
  Settled =>
    LET at == Reports("elamAggregation")
        Block(r) == events[r[1]].block
        Leaves(r) == {q \in {r[2]} \cup Nested(Block(r), r[2]) :
                        Leaf(Block(r), q) /\ HasName(Block(r), q)}
        all == UNION {{r[1]} \X Leaves(r) : r \in at}
        Fields(r) == FieldsOf(Block(r), Subs(Block(r), r[2]), ELAMFields)
        Name(r) == Fields(r)["elamKeyname"]
    IN  (\A r \in at : Usual(Block(r), r[2]))
        => win.ELAM = [n \in {Name(r) : r \in all} |->
                         Fields(LastOf({r \in all : Name(r) = n}))]

\* An event that is as Windows measures it.
AsWritten(v, separated) ==
  /\ v.digest
  /\ \/ v.typ = "Separator" /\ v.wbcl /\ ~separated
     \/ /\ v.typ = "EventTag" /\ v.parses /\ v.container
        /\ \A p \in TopLevel(v.block) :
             LET s == v.block[p]
                 fields == {q \in Subs(v.block, p) : v.block[q].typ # "moduleSVN"}
             IN  /\ s.ok
                 /\ s.typ = "elamAggregation" => Usual(v.block, p)
                 /\ s.typ = "loadedModuleAggregation" =>
                      /\ p + s.len <= Len(v.block)
                      /\ \A q \in Subs(v.block, p) : v.block[q].ok
                      /\ Once(v.block, fields, LMAFields)

\* ParseWinEvents refuses no log of well-formed events, if the boot counters in
\* it do not differ: one incomplete driver, an unknown sub-event, a module that
\* is loaded again or a separator of the other register costs nothing.
AcceptsWellFormed ==
  result = "error" =>
    \/ ~AsWritten(e, \E j \in 1 .. next - 1 : events[j].index = e.index
                                             /\ events[j].typ = "Separator")
    \/ \E q \in DOMAIN e.block : e.block[q].typ = "bootCounter" /\ e.block[q].value # win.BootCount

=============================================================================
