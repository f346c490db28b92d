----------------------------- MODULE SecureBoot -----------------------------
(***************************************************************************)
(* ParseSecurebootState (secureboot.go): what the remote party concludes   *)
(* from the events that EventLog.Verify returned.  One action handles one  *)
(* event; the two registers that are looked at, PCR 7 and PCR 2, are       *)
(* interleaved in the log in any way.                                      *)
(*                                                                         *)
(* The parsers of payloads (internal/events.go) are modelled by what they  *)
(* return: a variable's data is a string of bytes or a list of signatures. *)
(* The digest of an event is the one of its data ("data"), of its data     *)
(* without the last byte ("shim", a bug of shim), or neither ("other").    *)
(***************************************************************************)
EXTENDS BootEvents

CONSTANT Inputs  (* the sequences of events that ParseSecurebootState is called with *)

\* The events, and the bytes, signatures and device paths in them, are sequences.
ASSUME InputsAssumption ==
  \A s \in Inputs :
    /\ IsSequence(s)
    /\ \A k \in DOMAIN s :
         /\ s[k].typ = "EFIVariableDriverConfig" =>
              IsSequence(s[k].data.bytes) /\ IsSequence(s[k].data.sigs)
         /\ s[k].typ = "EFIBootServicesDriver" => IsSequence(s[k].data.path)

VARIABLES
  out,             \* the SecurebootState
  seenSeparator7,
  seenSeparator2,
  seenAuthority,
  seenVars,
  driverSources    \* the device paths of the drivers loaded from PCR 2's events

loopVars == <<seenSeparator7, seenSeparator2, seenAuthority, seenVars, driverSources>>
vars == <<events, next, result, out, loopVars>>

NoKeys == [keys |-> << >>, hashes |-> << >>]
KeyVars == {"PK", "KEK", "db", "dbx"}

Init ==
  /\ events \in Inputs
  /\ next = 1
  /\ result = "none"
  /\ out = [Enabled |-> FALSE, Keys |-> [v \in KeyVars |-> NoKeys],
            PreSeparatorAuthority |-> << >>, PostSeparatorAuthority |-> << >>,
            DriverLoadSourceHints |-> << >>, DMAProtectionDisabled |-> FALSE]
  /\ seenSeparator7 = FALSE
  /\ seenSeparator2 = FALSE
  /\ seenAuthority = FALSE
  /\ seenVars = {}
  /\ driverSources = << >>

-----------------------------------------------------------------------------
(***************************************************************************)
(* The payloads.                                                           *)
(***************************************************************************)

KnownTypes == {"Separator", "EFIAction", "EFIVariableDriverConfig", "EFIVariableAuthority",
               "EFIBootServicesDriver", "PostCode"}

digestEquals(x) == x.digest = "data"

\* parseEfiSignatureList: a signature is [kind, parses, value].  Certificates and
\* SHA256 hashes are kept, any other kind is an error.
SignatureError(sigs) ==
  \E k \in DOMAIN sigs : sigs[k].kind \notin {"x509", "sha256"} \/ ~sigs[k].parses
Nth(S, n) == CHOOSE k \in S : Cardinality({j \in S : j <= k}) = n
SignatureValues(sigs, kind) ==
  LET of == {k \in DOMAIN sigs : sigs[k].kind = kind}
  IN  [n \in 1 .. Cardinality(of) |-> sigs[Nth(of, n)].value]
parseEfiSignatureList(sigs) ==
  [keys |-> SignatureValues(sigs, "x509"), hashes |-> SignatureValues(sigs, "sha256")]

\* ParseUEFIVariableAuthority: nothing for the variables of shim that hold no
\* certificate; otherwise one certificate, which may have no GUID before it.
AuthorityCerts(d) == IF d.shimVar THEN << >> ELSE <<d.cert>>
ErrSigMissingGUID(d) == ~d.shimVar /\ d.certParses /\ ~d.guid
AuthorityError(d) == ~d.shimVar /\ ~d.certParses

\* DevicePath: the elements before the end marker, each of which must parse.
EndOfPath(path) ==
  IF \E k \in DOMAIN path : path[k] = "end"
    THEN CHOOSE k \in DOMAIN path :
           path[k] = "end" /\ \A j \in 1 .. k - 1 : path[j] # "end"
    ELSE Len(path) + 1
PathError(path) == \E k \in 1 .. EndOfPath(path) - 1 : path[k] = "malformed"
DevicePath(path) == SubSeq(path, 1, EndOfPath(path) - 1)

\* Mutant: the elements may come in any order.
SourceHintAnyOrder(path) ==
  IF \E j, k \in DOMAIN path : path[j] = "pci" /\ path[k] = "offset"
    THEN "PciMmioSource" ELSE "UnknownSource"

\* A driver is from PCI-MMIO if a PCI device is followed by a relative offset.
SourceHint(path) ==
  IF \E j, k \in DOMAIN path : j < k /\ path[j] = "pci" /\ path[k] = "offset"
    THEN "PciMmioSource" ELSE "UnknownSource"

-----------------------------------------------------------------------------
(***************************************************************************)
(* The loop over the events.                                               *)
(***************************************************************************)

\* The loop is at an event of this register and type.
At(index, typ) == Handling /\ e.index = index /\ e.typ = typ

Accept == next' = next + 1 /\ UNCHANGED <<events, result>>
Reject == result' = "error" /\ UNCHANGED <<events, next, out, loopVars>>

\* Events of other registers, and of PCR 2 that are not looked at.
Skip ==
  /\ Handling
  /\ \/ e.index \notin {7, 2}
     \/ e.index = 2 /\ e.typ \in KnownTypes \ {"Separator", "EFIBootServicesDriver"}
     \/ e.index = 2 /\ e.typ = "EFIBootServicesDriver" /\ seenSeparator2
  /\ Accept
  /\ UNCHANGED <<out, loopVars>>

UnexpectedType ==
  /\ Handling
  /\ \/ e.index \in {7, 2} /\ e.typ \notin KnownTypes
     \/ e.index = 7 /\ e.typ \in {"EFIBootServicesDriver", "PostCode"}
  /\ Reject

Separator7 ==
  /\ At(7, "Separator")
  /\ IF seenSeparator7 \/ ~e.data.zero \/ ~digestEquals(e)
       THEN Reject
       ELSE /\ Accept
            /\ seenSeparator7' = TRUE
            /\ UNCHANGED <<out, seenSeparator2, seenAuthority, seenVars, driverSources>>

EFIAction ==
  /\ At(7, "EFIAction")
  /\ IF e.data.string # "DMA Protection Disabled" \/ ~digestEquals(e)
       THEN Reject
       ELSE /\ Accept
            /\ out' = [out EXCEPT !.DMAProtectionDisabled = TRUE]
            /\ UNCHANGED loopVars

\* What a variable with this data is refused for, once its name is known.
VariableError(d) ==
  \/ d.name = "SecureBoot" /\ Len(d.bytes) # 1
  \/ d.name \in KeyVars /\ SignatureError(d.sigs)

Assign(d) ==
  IF d.name = "SecureBoot" THEN [out EXCEPT !.Enabled = (d.bytes[1] = 1)]
  ELSE IF d.name \in KeyVars
    THEN [out EXCEPT !.Keys[d.name] = parseEfiSignatureList(d.sigs)]
  ELSE out

\* Mutant: a variable may come after the separator.
EFIVariableDriverConfigLate ==
  /\ At(7, "EFIVariableDriverConfig")
  /\ IF ~e.data.parses \/ e.data.name \in seenVars \/ ~digestEquals(e) \/ VariableError(e.data)
       THEN Reject
       ELSE /\ Accept
            /\ seenVars' = seenVars \cup {e.data.name}
            /\ out' = Assign(e.data)
            /\ UNCHANGED <<seenSeparator7, seenSeparator2, seenAuthority, driverSources>>

EFIVariableDriverConfig ==
  /\ At(7, "EFIVariableDriverConfig")
  /\ IF \/ ~e.data.parses
        \/ e.data.name \in seenVars
        \/ seenSeparator7
        \/ ~digestEquals(e)
        \/ VariableError(e.data)
       THEN Reject
       ELSE /\ Accept
            /\ seenVars' = seenVars \cup {e.data.name}
            /\ out' = Assign(e.data)
            /\ UNCHANGED <<seenSeparator7, seenSeparator2, seenAuthority, driverSources>>

\* The digest of an authority, with the workaround for shim's additional byte.
AuthorityDigest ==
  digestEquals(e) \/ (ErrSigMissingGUID(e.data) /\ e.digest = "shim")

EFIVariableAuthority ==
  /\ At(7, "EFIVariableAuthority")
  /\ IF ~e.data.parses \/ AuthorityError(e.data) \/ ~AuthorityDigest
       THEN Reject
       ELSE /\ Accept
            /\ seenAuthority' = TRUE
            /\ out' = IF seenSeparator7
                        THEN [out EXCEPT !.PostSeparatorAuthority = @ \o AuthorityCerts(e.data)]
                        ELSE [out EXCEPT !.PreSeparatorAuthority = @ \o AuthorityCerts(e.data)]
            /\ UNCHANGED <<seenSeparator7, seenSeparator2, seenVars, driverSources>>

Separator2 ==
  /\ At(2, "Separator")
  /\ IF seenSeparator2 \/ ~e.data.zero \/ ~digestEquals(e)
       THEN Reject
       ELSE /\ Accept
            /\ seenSeparator2' = TRUE
            /\ UNCHANGED <<out, seenSeparator7, seenAuthority, seenVars, driverSources>>

EFIBootServicesDriver ==
  /\ At(2, "EFIBootServicesDriver")
  /\ ~seenSeparator2
  /\ IF ~e.data.parses \/ PathError(e.data.path)
       THEN Reject
       ELSE /\ Accept
            /\ driverSources' = Append(driverSources, DevicePath(e.data.path))
            /\ UNCHANGED <<out, seenSeparator7, seenSeparator2, seenAuthority, seenVars>>

HasKeys(v) == out.Keys[v].keys # << >> \/ out.Keys[v].hashes # << >>

\* After the loop.
Finish ==
  /\ result = "none" /\ next > Len(events)
  /\ out' = [out EXCEPT !.DriverLoadSourceHints =
               [k \in DOMAIN driverSources |-> SourceHint(driverSources[k])]]
  /\ result' = IF out.Enabled => seenAuthority /\ \A v \in {"PK", "KEK", "db"} : HasKeys(v)
                 THEN "ok" ELSE "error"
  /\ UNCHANGED <<events, next, loopVars>>

Next ==
  \/ Skip \/ UnexpectedType
  \/ Separator7 \/ EFIAction \/ EFIVariableDriverConfig \/ EFIVariableAuthority
  \/ Separator2 \/ EFIBootServicesDriver
  \/ Finish

Spec == Init /\ [][Next]_vars

-----------------------------------------------------------------------------
(***************************************************************************)
(* Properties.                                                             *)
(***************************************************************************)

\* The places of the events of register i, of its separators, and before them.
Of(i) == {k \in DOMAIN events : events[k].index = i}
Separators(i) == {k \in Of(i) : events[k].typ = "Separator"}
BeforeSeparator(i) == {k \in Of(i) : \A j \in Separators(i) : k < j}
Variables == {k \in Of(7) : events[k].typ = "EFIVariableDriverConfig"}
Named(v) == {k \in Variables : events[k].data.name = v}

\* What the loop verifies of an event of PCR 7: its type is expected, its payload
\* can be parsed, and its digest is that of the payload.  Of the variable SecureBoot
\* it asks for one byte, and not for 0 or 1 as the comment in the code says
\* (secureboot.go:91).
WellFormed(x) ==
  /\ x.typ \in {"Separator", "EFIAction", "EFIVariableDriverConfig", "EFIVariableAuthority"}
  /\ x.typ = "Separator" => x.data.zero
  /\ x.typ = "EFIAction" => x.data.string = "DMA Protection Disabled"
  /\ x.typ = "EFIVariableDriverConfig" => x.data.parses /\ ~VariableError(x.data)
  /\ x.typ = "EFIVariableAuthority" => x.data.parses /\ ~AuthorityError(x.data)
  /\ \/ x.digest = "data"
     \/ x.typ = "EFIVariableAuthority" /\ ErrSigMissingGUID(x.data) /\ x.digest = "shim"

\* All variables come before the separator, once each, and there is at most one
\* separator.
WellOrdered ==
  /\ \A j, k \in Separators(7) : j = k
  /\ Variables \subseteq BeforeSeparator(7)
  /\ \A j, k \in Variables : events[j].data.name = events[k].data.name => j = k

\* PCR 2 has separators as PCR 7 has, and drivers that parse before its own.  The
\* digests of its other events are not looked at, although the comment in the code
\* says so of all events (secureboot.go:88).
DriversParse ==
  /\ \A j, k \in Separators(2) : j = k
  /\ \A k \in Of(2) :
       LET x == events[k]
       IN  /\ x.typ \in KnownTypes
           /\ x.typ = "Separator" => x.data.zero /\ x.digest = "data"
           /\ x.typ = "EFIBootServicesDriver" /\ k \in BeforeSeparator(2) =>
                x.data.parses /\ ~PathError(x.data.path)

EnabledInLog == \E k \in Named("SecureBoot") : events[k].data.bytes = <<1>>

\* An authority event, and platform, exchange and database keys.
KeysSpecified ==
  /\ \E k \in Of(7) : events[k].typ = "EFIVariableAuthority"
  /\ \A v \in {"PK", "KEK", "db"} : \E k \in Named(v) : events[k].data.sigs # << >>

\* ParseSecurebootState returns a state exactly if the events are as stated above,
\* each register taken by itself: what the loop remembers of the events before is
\* enough to see every violation, and how the log interleaves PCR 2 and PCR 7, with
\* one another and with other registers, makes no difference.  These are the
\* conditions that the comment at its start lists, but for two that the code does
\* not verify: a SecureBoot variable of 0 or 1, and the digests of PCR 2.
AcceptsAsVerified ==
  result # "none" =>
    (result = "ok" <=>
       /\ \A k \in Of(7) : WellFormed(events[k])
       /\ WellOrdered
       /\ EnabledInLog => KeysSpecified
       /\ DriversParse)

\* The authorities with a certificate, and the drivers that are looked at.
Authorities == {k \in Of(7) : events[k].typ = "EFIVariableAuthority" /\ ~events[k].data.shimVar}
Drivers == {k \in BeforeSeparator(2) : events[k].typ = "EFIBootServicesDriver"}

\* A PCI device before a relative offset, and no end of the path before them.
FromPCI(path) ==
  \E n \in DOMAIN path :
    /\ path[n] = "offset"
    /\ \E m \in 1 .. n - 1 : path[m] = "pci"
    /\ \A m \in 1 .. n - 1 : path[m] # "end"

\* The sequence s has what f has at the places S, in their order.
Lists(s, S, f) ==
  /\ Len(s) = Cardinality(S)
  /\ \A k \in S : s[Cardinality({j \in S : j <= k})] = f[k]

\* The state that is returned is the one the events describe: the keys are
\* those of the one variable of their name, SecureBoot is on if its variable
\* says so, the authorities are divided by the separator of PCR 7, whatever
\* PCR 2's does, and every driver before the separator of PCR 2 has a hint, in
\* order.
StateAsMeasured ==
  result = "ok" =>
    LET before == Authorities \cap BeforeSeparator(7)
        after  == Authorities \ BeforeSeparator(7)
        certs  == [k \in Authorities |-> events[k].data.cert]
        hints  == [k \in Drivers |-> IF FromPCI(events[k].data.path) THEN "PciMmioSource"
                                                                     ELSE "UnknownSource"]
    IN  /\ out.Enabled <=> EnabledInLog
        /\ \A v \in KeyVars :
             \/ Named(v) = {} /\ out.Keys[v] = NoKeys
             \/ \E k \in Named(v) : out.Keys[v] = parseEfiSignatureList(events[k].data.sigs)
        /\ Lists(out.PreSeparatorAuthority, before, certs)
        /\ Lists(out.PostSeparatorAuthority, after, certs)
        /\ out.DMAProtectionDisabled <=> \E k \in Of(7) : events[k].typ = "EFIAction"
        /\ Lists(out.DriverLoadSourceHints, Drivers, hints)

=============================================================================
