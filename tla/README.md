# A TLA+ model of go-attestation

This directory holds a formal model of the attestation library in `src/attest`: TLA+
modules that are model-checked by TLC on small instances, and theorems about them that are
checked by TLAPS for every value of the constants. `PROJECT.json` maps every definition to
the lines it models, and lists the runs, the mutants that show that every property can
fail, the hazards the properties are aimed at, and the theorems.

## 1. Inventory

go-attestation lets a *client* prove to a *remote party* what state it booted into. The
library is used on both sides. It has no threads of its own; what makes it hard is that a
TPM command, and not a call, is the unit of atomicity: the platform extends registers, and
other processes use the TPM, between any two commands; any of them can fail; and the
remote party gets values, quotes and logs that nothing ties together before they are
verified.

| Component (source) | State | Operations | Hard behaviour | What makes it correct |
|---|---|---|---|---|
| Platform attestation (`tpm.go`, `attest.go`) | quotes, PCR values and log being collected; bank loop; tries; last error | `AttestPlatform`, `attestPlatform`, `attestPCRs`, `readAllPCRs20`, `quote20`, `MeasurementLog` | log, registers and quote are taken at different moments; partial reads; banks that fail | what is returned is one state of each bank, and verifies |
| Quote verification (`attest.go`, `eventlog.go`) | `quoteVerified` bits in the caller's slice | `Verify`, `VerifyAll`, `validate20Quote`, `validate12Quote` | marks are sticky; failure halfway; slice sorted in place | a mark means that a quote covers the value |
| Event log replay (`eventlog.go`, `eventlog_workarounds.go`) | events, replays per register, invalid registers | `EventLog.Verify`, `replayEvents`, `replayPCR`, `extend`, `inject*` | map order; a bank with firmware bugs; missing ExitBootServices events | verified events are the measured ones, in order |
| TPM 2.0 keys and handles (`wrapped_tpm20.go`, `storage.go`, `application_key.go`) | transient and persistent handles, sessions, key blobs | `newAK`, `newKey`, `loadAK`, `loadKey`, `eks`, `activateCredential`, `close` | races to create the SRK; error paths; a process that ends halfway | nothing leaks, stored keys stay loadable |
| Secure boot state (`secureboot.go`) | the state being collected, which separators were seen | `ParseSecurebootState` | order of events over two registers; retries after a malformed GUID | the state tells which keys authorised boot |
| Windows boot events (`win_events.go`) | latched `WinEvents` fields | `ParseWinEvents`, `read*` | conflicting and repeated events; nested blocks | the result is what the log reports; conflicts are detected |
| Event log parsing (`eventlog.go`) | algorithms and events of the log | `ParseEventLog`, `AppendEvents` | sizes and algorithm IDs; logs combined | sequence numbers and digests are kept |
| Credential activation and certification (`activation.go`, `challenge.go`, `certification.go`) | secret, challenge | `Generate`, `ActivateCredential`, `CertificationParameters.Verify` | lost, duplicated and late challenges | the AK and the EK are in one TPM |
| EK and key templates (`wrapped_tpm20.go`, `tpm.go`) | package variables, persistent EKs | `rsaEkTemplate`, `eccEkTemplate`, `eks`, `getEndorsementKeyHandle` | shared through pointers by all TPM objects of a process | an EK is the one the manufacturer certified |
| Opening a TPM, TPM 1.2 (`attest.go`, `tpm_linux.go`, `tpm12_linux.go`, `key_linux.go`, `storage.go`) | open devices and TSS contexts, stored AKs | `OpenTPM`, `AvailableTPMs`, `Close`, `NewAK`, `LoadAK` | several TPMs; devices that are busy; errors halfway | nothing stays open, a stored AK meets its TPM |
| Windows (`tpm_windows.go`, `pcp_windows.go`, `key_windows.go`) | handles of provider, keys, stores and contexts; the keys the provider stores | `OpenTPM`, `NewAK`, `LoadAK`, `EKs`, `MeasurementLog`, `Close` | every call fails at will; names shared by all processes | each handle has one owner, a name gives the key that was stored |
| UEFI payload parsers (`internal/events.go`) | none | `ParseUEFIVariableData`, ... | sizes read from the data | bounded, no partial result |
| attest-tool, attribute certificates, x509 extensions, OIDs | none | printing, ASN.1 | none | not modelled |

Interaction: `AttestPlatform` calls the bank loop, which calls the TPM and then, on the
client, the same `AKPublic.Verify` the remote party calls. The remote party calls
`VerifyAll` and then `EventLog.Verify` on the same PCR values; only then are the events
parsed (`ParseSecurebootState`, `ParseWinEvents`). Keys made by `NewAK` are bound to the
EK by credential activation before any of this.

## 2. Modules

| Module | What it is |
|---|---|
| `Verifier` | what verification decides, as relations: `Validate20Quote`, `VerifyAll`, `ReplayPCR`, `EventLogVerify` |
| `Attestation` | client, TPM, platform and remote party together; uses `Verifier` |
| `AttestationAbstract` | the promise of remote attestation, with no quote, read or message in it |
| `AttestationProofs` | theorems about `Attestation` |
| `EventLogReplay` | `EventLog.Verify` loop by loop; shown to decide what `Verifier` says |
| `EventLogProofs` | theorems about `EventLogReplay` and `EventLogParse` |
| `QuoteVerify` | `Verify` and `VerifyAll` quote by quote, with the marks; shown to decide what `Verifier` says |
| `QuoteVerifyProofs` | theorems about `QuoteVerify` |
| `TPMHandles` | the operations on keys, command by command |
| `TPMHandlesProofs` | theorems about `TPMHandles` |
| `BootEvents` | what `SecureBoot` and `WinEvents` have in common: the loop over verified events |
| `SecureBoot` | `ParseSecurebootState` event by event |
| `BootStateProofs` | theorems about `SecureBoot` and `WinEvents` |
| `CredentialActivation` | how the remote party comes to trust AKs and application keys, with several TPMs |
| `CredentialActivationProofs` | theorems about `CredentialActivation` |
| `WinEvents` | `ParseWinEvents` event by event and sub-event by sub-event |
| `EventLogParse` | `ParseEventLog` and `AppendEvents` |
| `TPMProcess` | a process and the TPMs of its machine: opening, EKs and their templates, AKs that outlive the process |
| `TPMProcessProofs` | theorems about `TPMProcess` |
| `WindowsTPM` | the operations on Windows, call by call of the provider |
| `WindowsTPMProofs` | theorems about `WindowsTPM` |
| `MC...` | the instances TLC checks; `.cfg` files give the constants |

`Attestation` composes the parts: it uses the relations of `Verifier`, and `EventLogReplay`
and `QuoteVerify` show (`DecidesAsSpecified` in each) that the loops of the code decide
exactly these relations, so that the composed model does not have to run them.

**Data.** Hashing is free: the value of a register is the sequence of digests it was
extended with since its last reset, so that two values are equal exactly when the chains
are. A signature is free too: the only quotes are those the TPM issued. An event log is a
sequence of events in `EventLogReplay` and, where the order between registers does not
matter, a sequence of digests for each register in `Attestation`.

### Attestation

The platform (external) measures: `Measure` extends all banks of a register, one of them
wrongly if it has a firmware bug, and `LogMeasurement` or `ForgetMeasurement` completes it;
`ResetPCR` resets a register of the running OS (`Unlogged`), which can change while the
client works. The client's call is a sequence of commands: `MeasurementLog` or
`ConfigEventLog` (the caller passed the log), `ReadPCRs` for each `TPM2_PCR_Read` (which
may return only some of the registers asked for), `Quote`, `LocalVerify`, and for every
failure the error path to the next bank (`BankError`, `NextBank`). The remote party draws
nonces (`Challenge`) and verifies any combination of issued quotes, register values and
logs (`Verify`).

### EventLogReplay

The platform boots and writes a log, with its quirks: a bank extended wrongly, digests that
are measured and not logged, a startup locality, events that measure nothing. `Tamper`
changes the log once: an event is removed, changed, moved or added. `Verify` then runs:
`Replay` does all registers (the order of this loop cannot be observed), `Collect` visits
one register of the map, in any order, `Collected` sorts (any result that `sort.Slice` may
give, `SortBySequence`) and decides, `Workaround` starts again from the log as it is.

### QuoteVerify

A slice of PCRs is kept over several calls of `Verify` and `VerifyAll`, one step per quote.
TPM 1.2 quotes sort the slice (any result `sort.Slice` may give). Both marks and order stay
in the slice whatever the call returns. The 16-bit identifier of the hash algorithm in a quote is
cut to the eight bits of `HashAlg`, as in the code; the quotes of the AK are of algorithms whose
identifier has eight bits (all those of the TCG's registry), other quotes of any.

### TPMHandles

Several processes use one TPM through the kernel's resource manager: transient handles and
sessions are a process's own, persistent handles are shared. An operation is a sequence of
commands (`pc`), each of which can fail; a failing `ReadPublic` leads to the creation of
the key whatever the reason of the failure was, as in the code. `EvictControl` fails if
another process has put a key at the handle. `Crash` ends a process at any moment.
Blobs that were returned once are kept for good and can be loaded by any process with any
parent configuration. `lost` and `unfreed` are the keys that `loadKey` and `newKey` leave in the
TPM, each on one path.

### SecureBoot

One action handles one event of the log that `EventLog.Verify` returned; `Finish` is what
comes after the loop. A payload is what its parser returns: a variable has a name and a
string of bytes or a list of signatures, a driver has a device path. A digest is the one of
the data, the one of the data without its last byte (which some versions of shim measure),
or another. `AcceptsAsVerified` states over the events of each register what the loop verifies
of them one by one, and the loop is shown to accept exactly that. It is the list in the comment
of `ParseSecurebootState` but for two items that the code does not verify (§3, other
observations): that the variable `SecureBoot` is 0 or 1, and the digests of the drivers of PCR 2
(these are the digests of the loaded images, as firmware writes them, and not of the data that
is parsed). What the
properties say of sequences they say by places: the sequence `Lists` what is at a set of
places of the log if its n-th element is that of the n-th place.

### CredentialActivation

TPMs hold keys; other software creates keys in them and outside, exports the ones that may be
exported and imports them elsewhere. A statement (a creation attestation or a certification,
with its signature) can be presented if a key could have signed it: a key that is outside or
unrestricted signs anything, a restricted one what its TPM states, and anything that does not
start like a structure of a TPM. The remote party calls `ActivationParameters.Generate` for any
EK, any version and any parameters the client can present (`Generate`), or
`CertificationParameters.Generate` (`CertificationGenerate`). The latter has two arguments that
name a key, and they need not agree: `VerifyOpts.Public`, a bare key pair that must have signed
the certification (`by`), and the name in `ActivateOpts`, which the challenge is for (`name`);
nothing is asked of its attributes. Any TPM may be given any challenge (`activateCredential`),
and the caller compares any secret that was decrypted with its own (`Check`). `MaxCertified`
bounds the application keys that are accepted or about to be; a session for an AK is not
bounded. Challenges and answers are lost (no step), late (any step in between), and repeated.

### WinEvents

A tagged event of PCR 12 or 13 has a block of sub-events, read one per action. A sub-event
is its kind, whether its payload can be decoded, and the value; an aggregation is followed
by the sub-events in it, and `frames` is the stack of the calls that read aggregations, each
with its local variables and the end of its data. An error in a nested ELAM aggregation is
not looked at by the outer one, which reads on where the nested one stopped (`Error`): of logs
as Windows writes them this spoils nothing (`ELAMAsReported`), of others it does
(§3, other observations). The
payload's bytes are taken not to read as sub-events, and the inputs nest at most two deep.
The properties read the log declaratively (`Reports`) and compare. `AsWritten` says when an
event is as Windows measures it; of a loaded module it asks that every sub-event can be
decoded, the `moduleSVN` too: the code ignores its value but consumes it, and
refuses the log if its size is more than the aggregation has left.

### EventLogParse

A log is a sequence of cells, one for each field of fixed size, so that a parser that starts
at the wrong place reads other cells for sizes, as it does with bytes. Firmware writes logs
in either format (`CellsOf`), which are cut anywhere (`Cells`). `AppendEvents` parses the
base log and each additional one and writes events under the base log's header; the result
is parsed by the same actions. The digests of one event are read one per action. The events
of the `EventLog` that is built are `parsed` until it is returned. `InputsAssumption` says what
is taken of the logs (`IsLog`): an event has digests of algorithms that the spec ID event
declares, of their sizes, which are not 0; an event of the TPM 1.2 format has one SHA-1 digest;
and a log in that format does not start like one with a spec ID event.

### TPMProcess

A Linux machine has a list of TPMs of both versions; one of TPM 2.0 without a resource manager
can be open once (the kernel's rule for `/dev/tpmN`); all TPM 1.2 go through `tcsd`, whichever
device was found. A process has some TPM objects (`Slot`), each opened with a configuration; a
call is one action, except the loop of `AvailableTPMs`, which holds devices from one iteration
to the next (`scan`: the candidates that are left, and what is open). `Exit` ends a process at
any moment, and another starts in its place with fresh package variables, so that one process
stands for successive ones: what is left is what is in the TPMs (`persistent`) and what
applications stored (`blobs`).

The unique field of an EK template is a sequence of `Size` values, and an EK is determined
by its TPM and that field. `template` is the package variable: a nonce is written into it,
and every template an object has cached reads from it, because the struct is copied and its
parameters are behind the same pointer. `mixed` records whether an EK was made while the
process had read another TPM's nonce, or had failed to read that of this TPM (`NVReadEx`
failing for any reason counts as "no nonce"); `EKsOwn` is what holds of all others, and
`DefaultWithoutNonce` what fails.

### WindowsTPM

Processes use one TPM through the Platform Crypto Provider. A step is one call of NCrypt,
crypt32 or TBS; `ref` is what each open handle refers to. `lost` are the handles of the
paths on which the code returns without closing: `openTPM` when `TPMInfo` fails after
`openPCP`, and `winPCP.NewAK` after the key was created. `ObjectsAccounted` says that
there is no other such path, and that nothing is freed twice or while it is in use. The
provider keeps keys by name for all processes; it refuses a name in use at creation and at
finalization (external, no overwrite flag is passed). Applications also have keys that were
stored on another system, which `loadAK` must tell apart.

## 3. Runs

| Run | Bounds | What it shows |
|---|---|---|
| `attest_client` | 3 registers (one logged, the workaround's, one unlogged), 2 banks, 3 states of the banks, 1 nonce | `AttestedSnapshot`, `ReturnedVerifies`, `PartialReadsSuffice`, `FailureHasCause`, `NoMissedMeasurement`, `FailoverSuffices`, and `AttestPlatformReturns` under fairness |
| `attest_remote` | 1 register, 2 banks, 2 nonces, 3 states, all logs of up to two events of a small set | `AcceptedAuthentic`; `KeepsPromise`: refinement of `AttestationAbstract` |
| `event_log` | one of: replay of 2 registers, 2 banks, 2 events and the startup locality, all 3 workarounds; or a base log and up to two others of one event with up to two of five algorithms, and logs of up to two events in both formats, cut after every cell | `VerifiedAuthentic`, `InLogOrder`, `HonestLogVerifies`, `InjectHasEvent`, `DecidesAsSpecified`, `VerifyReturns`; `ParsesAsWritten`, `AppendKeepsEvents` |
| `quote_verify` | 2 registers, 4 hash algorithms, 13 quotes, 5 slices, 2 calls of up to 2 quotes | `MarksAuthentic`, `DecidesAsSpecified` |
| `tpm_handles` | 2 processes, 1 SRK handle, 2 algorithms, 2 transient handles each, symmetric | `HandlesAccounted`, `BlobsLoadable` |
| `secure_boot` | all logs that are one or two changes (an event left out, repeated, exchanged with its neighbour, or replaced by one of 29 others) away from two honest boots | `AcceptsAsVerified`, `StateAsMeasured` |
| `credential_activation` | 2 TPMs 2.0 and one 1.2, 2 key pairs with 4 kinds of public areas, 2 sessions, 1 certified key, symmetric | `AKBound`, `CertifiedBound`, `HonestAccepted` |
| `win_events` | logs of up to three of 12 events, and logs of two or three blocks of 38 kinds, over both registers and around separators | `LatchesAsReported`, `CountsAsReported`, `ModulesAsLoaded`, `ELAMAsReported`, `AcceptsWellFormed` |
| `tpm_process` | 1 process at a time, 2 TPM objects, 4 TPMs (direct, 1.2, managed, command channel), one of them with a nonce that is longer than the field, 4 configurations | `FilesAccounted`, `StoredAKsMeetTPM`, `EKsOwn` |
| `windows_tpm` | 2 processes, 3 handles each, 2 names, 2 keys, symmetric; a TPM of version 1.2, 2.0 or unknown | `ObjectsAccounted`, `StoredKeysLoadable` |

Two more runs have the instance of a run above, and each checks one property that says what a
comment of the code says; TLC finds it violated. They are the findings below.

| Run | Instance of | Violated |
|---|---|---|
| `certification_verifier_key` | `credential_activation` | `CertifiedOnSameTPM` |
| `ek_template_shared` | `tpm_process`, with NVRAM that can always be read | `DefaultWithoutNonce` |

`EventLogReplay` and `EventLogParse` share no state, so that a behaviour of `MCEventLog` is one
of one of them, and the other stays in an initial state.

Why the bounds are enough. A torn read needs two reads with a measurement between them, so two
registers and two states; a third state lets the quote be of yet another moment. The failover
between banks needs two banks and a register per bank. A workaround adds up to three events to
a log that may be empty or not. A race for the SRK handle needs two processes and two
algorithms; a stale mark needs two calls. What `ParseSecurebootState` remembers is a few bits,
and two changes to a log reach every pair of events that conflict. What `ParseWinEvents` keeps
of a kind of sub-event depends on the first, the last and on whether one was zero, and three
blocks show these apart. A combined log is misread because of one event that is read with the
wrong sizes. A template that is shared needs two TPM objects of one process; a direct device
that is busy is kept so by the other object. Two processes and two names let one process draw a
name before, while and after the other creates a key with it; an operation has at most one
handle of its own besides those of the TPM and the AK. Two key pairs are an AK and a key it
certifies, or an AK and another that is presented in its place; two sessions let the answer to
one be given for the other. `MaxHistory`, `MaxAccepted`, `MaxEvents`, `MaxCalls`, `MaxQuotes`,
`MaxAbandoned`, `MaxKeys` and `MaxCertified` are the only bounds on the length of a behaviour;
the theorems hold for all values of them.

Deadlock is not checked where the system may stop: a call that has returned, a bound that
is reached. `tpm_handles`, `credential_activation`, `tpm_process` and `windows_tpm` check it.

**Fairness.** `Attestation` assumes weak fairness of the call of `AttestPlatform`, and
`EventLogReplay` of `Verify`: a sequential call that was started goes on, because every TPM
command returns, with a result or an error. Nothing is assumed of the platform, of the
remote party or of other processes. The other modules assume no
fairness.

**Findings.** What a comment says, what the code does, and the run that shows it.

- `ek_template_shared`: "No nonce, use the default template"
  (`wrapped_tpm20.go:48`). If there is a nonce, lines 50-51 copy the default template and write
  the nonce into the copy, but the copy has the default's `RSAParameters` pointer, and the nonce
  ends up in the package variable `defaultRSAEKTemplate` (67-68: the same for ECC). A TPM
  without a nonce that the process uses afterwards gets the template with it, and
  `getEndorsementKeyHandle` makes the resulting key persistent, where later processes "assume
  it's the key we want" (131). A template that was cached (42) is affected too: an object that
  has read its own nonce uses the nonce that an object of another TPM reads after it. A process
  that uses one TPM only, whose NVRAM can be read, gets the right keys (`EKsOwn`).
- `certification_verifier_key`: "Activation will verify that the provided EK is held on the same
  TPM as the key we're certifying" (`certification.go:72-73`). Neither `Verify` nor `Generate`
  looks at the attributes of the verifier key, and no comment asks the caller to. If it is one
  that signs anything, the certification of a key outside the TPM passes.
  `CertifiedBound` is what holds if it has the attributes of an AK.

**Other observations**, made while modelling: paths on which the code does not do what a comment
of it says, or what one would expect. The models behave like the code, no run claims what the
comments say here, and the properties above are stated around them.

- "If any errors occur, free the handle." (`wrapped_tpm20.go:287`). The deferred
  function of `newKey` does so if `err` is not nil, but the error for a certified public area that
  differs from the created one (299-301) is not assigned to `err`: the key stays loaded
  (`unfreed` in `TPMHandles`).
- "The Caller is expected to call Close() when they are done." (`pcp_windows.go:682`). `openTPM`
  returns without it when `TPMInfo` or `tbsConvertVersion` fails (`tpm_windows.go:93-99`; `lost` in
  `WindowsTPM`).
- "without opening the devices" (`attest.go:534`). `AvailableTPMs` opens
  each (549) and closes them when it returns (553): a direct device that is in use makes it fail
  for all, and while it runs nobody else can open one.
- "An error is returned if any PCRs provided were not covered by a quote"
  (`attest.go:368`), one that matches "the PCR and nonce combination" (342-343). The marks that an
  earlier call left on the slice count (384-388), whatever its nonce was. `MarksAuthentic` shows
  that such a mark is still of a quote over the value.
- "The SecureBoot variable has a value of 0 or 1." (`secureboot.go:91`).
  Lines 165-168 take any byte but 1 for not enabled (`StateAsMeasured`).
- "All events have digests values corresponding to their data/event type.",
  "No unverifiable events were present." (`secureboot.go:88-89`). The drivers of PCR 2 are parsed
  (236-247) without a look at their digests.
- "These values represent the 3 measured registry values stored in the ELAM
  hive for the driver." (`win_events.go:227-228`). The error of a nested aggregation is dropped
  (702), and the sub-events that were left in it become values of the driver that the outer one
  names. It takes a log that is not as Windows writes it.
- "AppendEvents takes a series of TPM 2.0 event logs and combines them into
  a single sequence of events with a single header." (`eventlog.go:764-765`). An ID is cut to
  eight bits when the digest is read (738), and `AppendEvents` writes the ID of the hash function
  that results: the combined log of logs with the ID 0x10B does not parse.
- `loadKeyWithParent` (`wrapped_tpm20.go:428-435`) leaves the key loaded when its public area
  cannot be decoded. `HandlesAccounted` shows that this path and that of `newKey` are the only ones.
- `getTPM12` does not close its context if `Connect` fails (`tpm12_linux.go:41`), and
  `winPCP.NewAK` does not free the key if a call after its creation fails
  (`pcp_windows.go:478-508`).
- On Linux `AK.Quote` passes 24 registers (`attest.go:165-169`), and the quote of a TPM 1.2
  fails unless `selectedPCRs` is nil (`key_linux.go:76`), whereas `TestTPMQuote` expects it
  to succeed (`attest_tpm12_test.go:112-115`).
- On Linux the log of every TPM 2.0 is read from `tpm0` (`tpm_linux.go:84`).

**Hypotheses made visible.** `MarksAuthentic` and `DecidesAsSpecified` of `QuoteVerify`
assume a slice in which no register of a bank occurs twice (`Distinct`), as the slices of
`AttestPlatform` and `TPM.PCRs`; the code does not check it: with duplicates the digest of
the last one is hashed and all are marked. `DecidesAsSpecified` also assumes a slice that no
earlier call marked (`Unmarked`): marks are never cleared. Quotes of the AK are taken to be of algorithms with an identifier below 256
(`QuotesAssumption`). Digests of the wrong length are not in `QuoteVerify`. `ReturnedVerifies` is of
a nonce that is not empty: `AttestPlatform` accepts an empty one, which `VerifyAll` refuses
(`attest.go:374-376`). `CertifiedBound` is of keys that were accepted with one key for
`VerifyOpts.Public` and `VerifierKeyNameDigest`, as the comment of `ActivateOpts` asks of the caller
(`certification.go:78-82`), which is an AK the remote party trusts or has, by its name, the
attributes of one; the actions assume neither. `ParsesAsWritten` and `AppendKeepsEvents` assume a
spec ID event that lists an algorithm once (of several sizes the last one counts), and the
latter also IDs below 256 (`ShortIDs`), without which the combined log may not parse. Flushing or freeing a handle
is taken to succeed, and an application closes a key once and a TPM after its last use.
`TPMProcess` and `WindowsTPM` give an application one AK per TPM object, and run one
goroutine per process: concurrent calls that use the package templates are a data race in
the code and have no action. The list of TPMs does not change while the machine runs.

## 4. Theorems

All proofs are checked by `tlapm`; nothing is assumed but the named `ASSUME`s on the
constants.

`AttestationProofs`, for any registers, banks, nonces, digests, logs and bounds, from
`RegistersAssumption` (finitely many registers, at least one), `BanksAssumption` (the banks
the code goes through are different) and `DigestAssumption` (types). The inductive
invariant `IInv` has these parts:

- `TypeOK` with `CallOK`: while the call reads registers it has a command left;
- `HistoryInv`: the last state of the history is the present one, and nonces were drawn
  in the past;
- `QuoteInv`: every issued quote shows a bank at a moment since its nonce was drawn;
- `SessionInv`: what the call holds. Each quote is of the nonce, covers what is stored for
  its bank, and was made after the log was read; it is what makes `AttestedSnapshot`
  hold, although the registers were read before the quote and in several commands;
- `ReadInv`: a command that returned at least one register made `out` grow, so as many
  registers were read as commands sent;
- `AcceptedInv`: what was accepted stays authentic as the history grows.

From it follow `TypeCorrect`, `Snapshots`, `ReturnsVerify`, `ReadsSuffice`,
`FailuresHaveCause`, `AcceptsAuthentic`. `Refinement` shows that every step of `Attestation`
is a step of `AttestationAbstract` or leaves its variables unchanged (`StepRefines`).

For `NoMissedMeasurement` and `FailoverSuffices` the invariant is `LogIInv`: `IInv`, and that
the log of the system matches every bank up to the one measurement that is not logged yet
(`LogInv`), that registers which are not reset only grow (`GrowInv`), and that the log the call
holds matched the banks when it was read (`HeldLogInv`). A log that replays is as long as the
register, the register had at least these digests when the log was read, and none since:
`MeasurementsNotMissed` and `FailoverWorks`.

`TPMHandlesProofs`, for any processes, handles, slots and algorithms, from
`HandlesAssumption` (the EK handle is none of the SRK handles; `None` is no value). The
invariant adds to the properties themselves `OpInv` (the next command says which operation
runs and what it has) and `BlobInv` (a blob in progress is under the key at its handle). The
core is `PersistentKept`: no step replaces a key at a persistent handle. From it
`HandleTypes`, `Accounted` and `StoredKeysLoadable`.

`CredentialActivationProofs`, for any TPMs, key pairs, public areas and sessions, from
`ActivationAssumption` (types). `AKBound` is not inductive: that an accepted AK signs
nothing else must survive any later export or import. The invariant says only where keys
are: `Unique` (a private part that is not outside is in one TPM with one public area),
`Fixed` (keys fixed to their TPM are not outside), `SessionInv` (what was checked before the
challenge; for a certification, that there was a statement, `Vouched`), `AnswerInv`,
`AKHeld`, `CertHeld` (for an accepted key there was a statement, and the key with the name of the
challenge is in the TPM), `ReturnedInv`. All but the first two are monotone in the keys that
TPMs hold, and keys do not go away (`KeyStep`). A statement that was made before the AK was
known to be in the TPM turns out true after it (`VouchedHeld`). From it `ActivationTypes`,
`ActivatedAKBound`, `CertifiedKeyBound`, `HonestKeysAccepted`.

`QuoteVerifyProofs`, for any slices of registers, quotes and calls, from `PCRsAssumption`
(finitely many registers; the slices are sequences of them and unmarked at first),
`HashIDAssumption` (the identifiers of algorithms are different, those of SHA-1 and SHA-256 are
4 and 11) and `QuotesAssumption` (types; a quote covers at least one register; a quote of the
AK is of an algorithm with an identifier below 256, so that the cut gives its bank,
`HashOfQuote`). Sorting and marking keep what is in the slice (`SameData`). The invariant:
`CallInv` (what the call that runs holds), `MarkInv` (for a marked register a quote was shown
that vouches for its value) and `DecideInv` (the marks are those of the quotes so far, all of
them valid), and a call that was refused was so for want of a quote or a nonce (`RefusedInv`).
`MarkedIsQuoted`, `VerifyAllDecides`.

`EventLogProofs`, for any registers, banks, digests, logs, workarounds and tampering,
from `LogAssumption` (types; `ShortDigest` is no digest that firmware measures). The replay of
one register is a recursive function over the log; `LoopTo` and `ReplayDoes` say what it
computes: the events that are kept are those of the register, and the value is the locality and
their digests, one after the other. The invariant of the call:

- `CallInv`: the log that is replayed is the parsed one or that with the workaround tried, and
  the registers are the TPM's;
- `TriedInv`: the logs tried before failed, and the error kept is that of the log as it is;
- `CollectInv`: what the loop has collected, and recorded as invalid, for the registers visited;
- `DoneInv`: what `Verify` has returned;
- `HonestInv`: a log that was not tampered with accounts for the registers, up to what firmware
  forgot to log.

`Continues` relates a log with injected digests to the log it came from. `VerifiedIsAuthentic`,
`VerifiedInOrder`, `HonestLogsVerify` and `InjectIsSafe` follow. `VerifyDecides` also needs the
converse, that a replay that fails, or differs, is one that `Verifier` says fails
(`ChainedSoFar`, `Compared`, `FailsAreInvalid`).

For `EventLogParse` the lists of logs are any, from `InputsAssumption`. The cells of a log are
`FlattenSeq` of those of its events, and the parser finds an event only at the end of the one
before. So the first half is about places: what `FlattenSeq` gives for one more element
(`FlatNext`), and from it where each event and each digest starts (`StartOf`, `DigestStart`) and
which cells are there (`Part`). The second half is two invariants:

- `ParseInv`, of which the main part is `ParsingLog`: the buffer has what is left of the log at
  the start of one of its events, or of one of the digests of an event (`Reads`), and what was
  parsed so far is what was written before that place. Each action moves to the next place, or
  fails, and then the log ends before it (`ParsingStep`); no other place is ever read for a
  size. `ParsedLogs` and `RefusedLog` keep the outcome. This gives `EventsParsedAsWritten`.
- `AppendInv`: the logs so far have algorithms of the base log (`OnlyBaseAlgs`), and `out` has
  the cells of a log with the base log's algorithms and the events kept of them (`Copied`), and
  some of the current one (`Copying`). An event is written with the cells it was parsed from
  (`RewrittenCells`: `cryptoHash` and back, where `ShortIDs` is needed), and fits under the base
  log's header because the comparison of the algorithms includes their sizes (`EventsInBase`).
  So the combined log is itself a log to which `ParsingStep` applies, and is not refused. This
  gives `EventsAppended`.

`BootStateProofs`, for any logs, from `InputsAssumption` (events, bytes, signatures and paths
are finite sequences). The properties speak of the whole log and the loop sees one event after
the other; `Fine` says what is verified of one event, given those before it. The invariant
`IInv` says that the flags are what the events so far say (`Seen`), that so is the state
(`KeysSeen`, `FlagsSeen`, `ListsSeen`), that all events so far are fine, and that an event was
refused only if it is not (`Verdict`). `FineIsVerified` and `VerifiedIsFine` show that all
events are fine exactly if the log is as `AcceptsAsVerified` states. `SecureBootAccepts`, `SecureBootState`.

For `WinEvents` the log is any too, from `WinInputsAssumption`: events and blocks are
sequences, and only the header of an aggregation has sub-events. The properties speak of the
sub-events outside aggregations, which `TopLevel` finds from the start of a block; the parser
knows where it is and the frames. The argument:

- `WinTypes`: besides the types, `FramesOK`: outside aggregations the parser is at a place of
  `TopLevel`; inside, the outermost frame is that of one aggregation of `TopLevel` (`Outer`),
  frames end one inside the other, and the fields of a module are those of the sub-events read.
  `seenSeparator` has the registers whose separator came before. `TypeOK` follows.
- `Placed` are the places that are completely read. A step leaves them and the values, or adds
  one that is after all the others, and changes the values as its sub-event says (`Stepped`).
- `ValuesInv`: latches, counts and modules are what the places in `Placed` report. A lemma for
  each says that one more place, the last, keeps it so (`LatchesAdd`, `CountsAdd`,
  `ModulesAdd`). With no block open `Placed` has all the places the properties speak of.
- `ELAMInv`: outside ELAM aggregations `win.ELAM` has the drivers of `Placed`. Inside one that
  is `Usual` the parser is in a driver, before a nested one, or in a nested one (`AtDriver`),
  and `win.ELAM` has the drivers before this one as well. It is here that a nested aggregation
  without a name must return to the outer frame at the place where the next one starts.
- `Blamed`: each refusal is of an event that is not `AsWritten`, or of a boot counter that
  differs. For a field that is there twice, the frame tells of a sub-event before that has it.

`WinTypesHold`, `WinLatches`, `WinCounts`, `WinModules`, `WinELAM`, `WinAccepts`. The last was
false as first stated, for modules with a bad `moduleSVN`, which no bounded input had; the
property and the inputs of the run have it now.

`TPMProcessProofs`, for any machine, processes, slots and nonces, from `ProcessAssumption`
(types; finitely many slots, so that files can be counted). The invariant: `CountInv` counts for
each device the objects that have it and what the scan has open; `DirectInv` says that a device
without a resource manager is open at most once; `MeetInv` that objects and stored AKs have the
TPM their configuration gives; and, for the EKs,
`NonceInv` that the field of the package variable is that of the TPM as long as the process has
read no other nonce. `ProcessFilesAccounted`, `ProcessAKsMeetTPM`, `ProcessEKsOwn`.

`WindowsTPMProofs`, for any processes, handles, names and keys, from `WindowsAssumption`
(types). The invariant says what each handle that an operation, a TPM or an AK has refers to,
that they are different, and that every other open handle is one of `lost`; and that a stored
name gives the key it was stored with. `WindowsHandlesAccounted`, `WindowsKeysLoadable`, and the
action property `WindowsStoreKept`.

**Induction.** A fact about all prefixes of a log is proved with the set of the lengths it
holds for, which has 0 and with n also n + 1 (`SetInduction`), and this from the least number
that is not in it (`Least`, from the well-foundedness of the naturals). The operators that
proofs are about are written for this: elements are chosen by rank among a set of places
(`Nth`), and loops are recursive functions over the length.

**Only model-checked:** the liveness properties `AttestPlatformReturns` and `VerifyReturns`
(fairness is out of the prover's reach). Every invariant of the passing runs and the
refinement are proved.

## 5. Plan

1. `Verifier`, `Attestation`, `AttestationAbstract`, `AttestationProofs`: done.
2. `EventLogReplay`, `QuoteVerify`, `TPMHandles`, `TPMHandlesProofs`: done.
3. `SecureBoot`, `CredentialActivation`, `CredentialActivationProofs`: done.
4. `WinEvents`, `EventLogParse`: done.
5. `TPMProcess` (templates, opening, TPM 1.2), `WindowsTPM`: done.
6. Proofs about `Attestation` (the rest), `QuoteVerify`, `EventLogReplay`, `SecureBoot`,
   `TPMProcess` and `WindowsTPM`: done.
7. Proofs about `WinEvents`: done.
8. Proofs about `EventLogParse`: done.

## 6. Not modelled

Attribute certificates, x509 extensions, OIDs and EK certificates are ASN.1 decoding of
static data; attest-tool is printing around the library; the parsers in
`internal/events.go` are byte layouts without state. `EventLog.Events` is for debugging and
verifies nothing. Of TPM 1.2 and of Windows, what only reads or computes with handles that are
there is not modelled: PCRs, Info, Quote, Certify, ActivateCredential, and the decoding of
the blobs they exchange. None of it keeps state in the library, and a model of it would
restate the calls.
