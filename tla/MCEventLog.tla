----------------------------- MODULE MCEventLog -----------------------------
(***************************************************************************)
(* The instance of EventLogReplay and EventLogParse that TLC checks.  The  *)
(* two share no state, so a behaviour is one of one of them:               *)
(* - "replay": PCR 0 and PCR 5, a SHA1 and a SHA256 bank, the              *)
(*   ExitBootServices events as the only digests, and the three            *)
(*   workarounds of eventlog_workarounds.go;                               *)
(* - "parse": logs of up to two events with up to two of five algorithms,  *)
(*   cut anywhere.                                                         *)
(***************************************************************************)
EXTENDS EventLogReplay, EventLogParse

CONSTANTS inv, succ, fail  (* the three ExitBootServices digests *)

MCWorkarounds == << <<inv, succ>>, <<inv, fail>>, <<inv, fail, succ>> >>
MCMeasurements == {<<0, inv>>, <<5, inv>>, <<5, succ>>}
MCBugs == {{}, {"sha1"}}
MCLogAlgs == {<<"sha1">>, <<"sha1", "sha256">>}

\* One register of one bank, and both banks with their registers in different
\* orders.
MCSelections ==
  { << <<"sha256", 5>> >>,
    << <<"sha1", 5>>, <<"sha1", 0>>, <<"sha256", 0>>, <<"sha256", 5>> >> }

-----------------------------------------------------------------------------
(***************************************************************************)
(* The logs that are parsed and combined.                                  *)
(***************************************************************************)

SHA1 == [ID |-> 4, Size |-> 1]
SHA256 == [ID |-> 11, Size |-> 2]
SHA256Short == [ID |-> 11, Size |-> 1]
SHA384 == [ID |-> 12, Size |-> 3]
Vendor == [ID |-> 267, Size |-> 3]  \* the low eight bits are those of SHA-256

Algorithms == {SHA1, SHA256, SHA256Short, SHA384, Vendor}

DigestBy(a, v) == [ID |-> a.ID, data |-> [i \in 1 .. a.Size |-> v]]

\* The digests of an event: those of some of the algorithms, in order.
DigestsFor(spec, v) ==
  {[i \in DOMAIN s |-> DigestBy(s[i], v)] :
     s \in {spec, << >>} \cup {<<spec[i]>> : i \in DOMAIN spec}}

NewEvent(i, typ, ds, data) == [index |-> i, typ |-> typ, digests |-> ds, data |-> data]

AgileEvents(spec) ==
  {NewEvent(7, 1, ds, <<1>>) : ds \in DigestsFor(spec, 4)} \cup
  {NewEvent(0, 3, ds, << >>) : ds \in DigestsFor(spec, 11)}

OldEvents ==
  {NewEvent(7, 1, <<DigestBy(SHA1, 4)>>, <<1, 0>>),
   NewEvent(0, 3, <<DigestBy(SHA1, 0)>>, <<5>>)}

LogOf(spec, written) ==
  LET w == [algs |-> spec, events |-> written, cut |-> 0]
  IN  [w EXCEPT !.cut = Len(CellsOf(w, Len(written)))]
Cuts(w) == {[w EXCEPT !.cut = n] : n \in 0 .. w.cut}

SpecIDs == {<<a>> : a \in Algorithms} \cup {s \in {<<a, b>> : a, b \in Algorithms} : s[1] # s[2]}

OneEvent == UNION {{LogOf(s, <<v>>) : v \in AgileEvents(s)} : s \in SpecIDs}
TwoEvents == UNION {{LogOf(s, <<v, w>>) : v, w \in AgileEvents(s)} :
                    s \in {<<SHA1, SHA256>>, <<SHA256, SHA384>>}}
OldLogs ==
  {LogOf(<< >>, <<v>>) : v \in OldEvents} \cup {LogOf(<< >>, <<v, w>>) : v, w \in OldEvents}

FullEvent(s) == NewEvent(7, 1, [i \in DOMAIN s |-> DigestBy(s[i], 4)], <<1>>)
BaseLogs ==
  {LogOf(s, << >>) : s \in SpecIDs} \cup {LogOf(s, <<FullEvent(s)>>) : s \in SpecIDs}

MCInputs ==
  {<<b>> : b \in BaseLogs}
  \cup {<<b, a>> : b \in BaseLogs, a \in OneEvent \cup OldLogs}
  \cup {<<b, a, c>> : b \in BaseLogs, a \in {w \in OneEvent : w.algs = <<SHA256>>}, c \in BaseLogs}
  \cup {<<b, b>> : b \in UNION {Cuts(w) : w \in OneEvent \cup TwoEvents \cup OldLogs}}

-----------------------------------------------------------------------------
VARIABLE part  \* the one of the two that runs: "replay" or "parse"

allVars == <<vars, parseVars, part>>

\* The one that does not run stays in one of its initial states.
MCInit ==
  /\ Init
  /\ ParseInit
  /\ \/ part = "replay" /\ input = <<LogOf(<<SHA1>>, << >>)>>
     \/ part = "parse" /\ startup = 0 /\ algs = <<"sha1">>

ReplayStep == part = "replay" /\ Next /\ UNCHANGED <<parseVars, part>>
ParseStep == part = "parse" /\ ParseNext /\ UNCHANGED <<vars, part>>

\* As in EventLogReplay, Verify runs to its end once it is called.
MCSpec ==
  /\ MCInit
  /\ [][ReplayStep \/ ParseStep]_allVars
  /\ WF_allVars(part = "replay" /\ VerifyCall /\ UNCHANGED <<parseVars, part>>)
=============================================================================
