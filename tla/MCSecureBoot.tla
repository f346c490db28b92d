---------------------------- MODULE MCSecureBoot ----------------------------
(***************************************************************************)
(* The instance of SecureBoot that TLC checks: the logs of two machines    *)
(* that boot as they should, with secure boot on and off, and every log    *)
(* that one or two changes make of them: an event left out, repeated,      *)
(* exchanged with its neighbour, or replaced by any other.                 *)
(***************************************************************************)
EXTENDS SecureBoot

Event(i, t, d) == [index |-> i, typ |-> t, data |-> d, digest |-> "data"]
Sig(k, v) == [kind |-> k, parses |-> TRUE, value |-> v]

Sep(i) == Event(i, "Separator", [zero |-> TRUE])
Action(s) == Event(7, "EFIAction", [string |-> s])
Variable(n, b, s) ==
  Event(7, "EFIVariableDriverConfig", [parses |-> TRUE, name |-> n, bytes |-> b, sigs |-> s])
Flag(b) == Variable("SecureBoot", b, << >>)
Var(n, s) == Variable(n, << >>, s)
Authority(c) ==
  Event(7, "EFIVariableAuthority",
        [parses |-> TRUE, shimVar |-> FALSE, guid |-> TRUE, certParses |-> TRUE, cert |-> c])
\* The digest of a driver is that of its image, which is not in the event.
Driver(path) ==
  [Event(2, "EFIBootServicesDriver", [parses |-> TRUE, path |-> path]) EXCEPT !.digest = "other"]

PK  == Var("PK", <<Sig("x509", "pk")>>)
KEK == Var("KEK", <<Sig("sha256", "kek")>>)
db  == Var("db", <<Sig("sha256", "h1"), Sig("x509", "db"), Sig("sha256", "h2")>>)
dbx == Var("dbx", <<Sig("sha256", "h3")>>)
MissingGUID == [Authority("c3") EXCEPT !.data.guid = FALSE]

On ==
  << Driver(<<"acpi", "pci", "offset", "end", "malformed">>), Flag(<<1>>), PK,
     Event(4, "PostCode", [zero |-> FALSE]), KEK, db, dbx, Sep(2), Authority("c1"), Sep(7),
     Authority("c2") >>
Off ==
  << Flag(<<0>>), PK, Action("DMA Protection Disabled"),
     Driver(<<"offset", "pci">>), Driver(<<"pci", "offset">>), Sep(7), Sep(2) >>

Others ==
  { Flag(<<1>>), Flag(<<0>>), Flag(<<2>>),
    Flag(<< >>), Var("db", << >>), Var("PK", << >>),
    Var("dbx", <<Sig("rsa2048", "k")>>),
    Var("KEK", <<[Sig("x509", "kek") EXCEPT !.parses = FALSE]>>), Var("Boot0001", << >>),
    [db EXCEPT !.digest = "other"], [PK EXCEPT !.data.parses = FALSE],
    Action("UEFI Debug Mode"), Action("Exit"),
    [Action("DMA Protection Disabled") EXCEPT !.digest = "other"],
    MissingGUID, [MissingGUID EXCEPT !.digest = "shim"], [MissingGUID EXCEPT !.digest = "other"],
    [Authority("c1") EXCEPT !.digest = "shim"], [Authority("c1") EXCEPT !.data.certParses = FALSE],
    [Authority("c1") EXCEPT !.data.shimVar = TRUE],
    [Sep(7) EXCEPT !.data.zero = FALSE], [Sep(7) EXCEPT !.digest = "other"],
    [Sep(2) EXCEPT !.digest = "other"],
    Driver(<<"pci", "malformed", "end">>), [Driver(<< >>) EXCEPT !.data.parses = FALSE],
    Event(2, "PostCode", [zero |-> FALSE]), Event(2, "Unknown", [zero |-> FALSE]),
    Event(7, "PostCode", [zero |-> FALSE]), Event(7, "Unknown", [zero |-> FALSE]) }

Remove(s, k) == SubSeq(s, 1, k - 1) \o SubSeq(s, k + 1, Len(s))
Repeat(s, k) == Append(s, s[k])
Swap(s, k) == [s EXCEPT ![k] = s[k + 1], ![k + 1] = s[k]]

Small(s) ==
  {s} \cup {Remove(s, k) : k \in DOMAIN s} \cup {Repeat(s, k) : k \in DOMAIN s}
      \cup {Swap(s, k) : k \in 1 .. Len(s) - 1}
Replaced(s) == {[s EXCEPT ![k] = x] : k \in DOMAIN s, x \in Others}

MCInputs == UNION {Small(t) : t \in UNION {Small(s) \cup Replaced(s) : s \in {On, Off}}}
=============================================================================
