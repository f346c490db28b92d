----------------------------- MODULE TPMProcess -----------------------------
(***************************************************************************)
(* Processes on a Linux machine with several TPMs: OpenTPM, AvailableTPMs  *)
(* and Close (attest.go, tpm_linux.go, tpm12_linux.go), the endorsement    *)
(* keys of the TPMs (wrapped_tpm20.go: templates, eks, ekCertificates,     *)
(* getEndorsementKeyHandle), and attestation keys that are stored by one   *)
(* process and loaded by another, on TPM 2.0 and TPM 1.2.                  *)
(*                                                                         *)
(* A process runs one goroutine.  A call is one action, except the loop of *)
(* AvailableTPMs, which holds devices open from one iteration to the next; *)
(* how the commands of a call interleave with those of other processes is  *)
(* the subject of TPMHandles.  A call that fails before it has changed     *)
(* anything is a stuttering step and has no action.                        *)
(***************************************************************************)
EXTENDS Integers, Sequences, FiniteSets

CONSTANTS
  Process,       (* processes                                               *)
  Slot,          (* the TPM objects a process can have at once              *)
  Configs,       (* the configurations applications open TPMs with          *)
  Devs,          (* the TPMs of /sys/class/tpm, in the order of the listing *)
  Channels,      (* TPMs the application has a command channel to           *)
  Version,       (* the version of every TPM, "1.2" or "2.0"                *)
  Managed,       (* TPMs with a resource manager in the kernel              *)
  DaemonTPM,     (* the TPM 1.2 that tcsd serves                            *)
  CGO,           (* whether TPM 1.2 support is built in                     *)
  Nonce,         (* what NVRAM has as EK nonce, for every TPM and algorithm *)
  Certs,         (* the algorithms NVRAM has an EK certificate for          *)
  Unreliable,    (* TPMs on which reading NVRAM may fail                    *)
  Size,          (* the length of the unique field of an EK template        *)
  MaxAbandoned,  (* bound on the TSS contexts a process abandons            *)
  None

Alg == {"rsa", "ecc"}
TPM == {Devs[i] : i \in DOMAIN Devs} \cup Channels \cup {DaemonTPM}
TPMVersion == {"1.2", "2.0"}
Field == [1..Size -> Nat]

(* An endorsement key is determined by its TPM and its template, and the   *)
(* templates of an algorithm differ in their unique field only.  History:  *)
(* whether it was created while the process had read the nonce of another  *)
(* TPM, or had not been able to read the one of this TPM.                  *)
EK == [tpm : TPM, alg : Alg, unique : Field, mixed : BOOLEAN]

OpenConfig == [version : TPMVersion \cup {"agnostic"}, channel : Channels \cup {None}]

(* A stored attestation key, and the configuration its TPM was opened with.*)
Blob == [version : TPMVersion, tpm : TPM, config : OpenConfig]

Object == [config : OpenConfig, tpm : TPM, cached : SUBSET Alg, ak : Blob \cup {None}]

(* An AvailableTPMs call: the positions of the listing that it has not come *)
(* to, and how often it has to close every TPM when it returns.            *)
Scan == [todo : SUBSET DOMAIN Devs, opened : [TPM -> Nat]]

ASSUME ProcessAssumption ==
  /\ IsFiniteSet(Slot)
  /\ Devs \in Seq(TPM)
  /\ Configs \subseteq OpenConfig
  /\ Version \in [TPM -> TPMVersion]
  /\ Version[DaemonTPM] = "1.2"
  /\ \A t \in Channels : Version[t] = "2.0"
  /\ Managed \subseteq TPM /\ Unreliable \subseteq TPM
  /\ CGO \in BOOLEAN
  /\ Nonce \in [TPM -> [Alg -> Seq(Nat) \cup {None}]]
  /\ Certs \in [TPM -> SUBSET Alg]
  /\ Size \in Nat /\ MaxAbandoned \in Nat
  /\ None \notin Object \cup Scan \cup EK \cup Blob \cup Channels

VARIABLES
  open,       \* how many files or TSS contexts every process has open to a TPM
  object,     \* the TPM objects the application has, None in a free slot
  scan,       \* the AvailableTPMs call of the process, or None
  abandoned,  \* the TSS contexts of the process that nothing refers to
  template,   \* the unique fields of the default EK templates, package variables
  persistent, \* the key at the persistent EK handles of every TPM, or None
  blobs,      \* the attestation keys that were stored (Marshal)
  given,      \* the endorsement key the application got last, or None
  read        \* history: the TPMs whose nonce the process has read

fileVars == <<open, object, scan, abandoned>>
ekVars   == <<template, persistent, given, read>>
vars     == <<fileVars, ekVars, blobs>>

Zero == [i \in 1..Size |-> 0]

\* Go's copy: as much of src as there is room for, the rest of dst is kept.
copy(dst, src) == [i \in DOMAIN dst |-> IF i <= Len(src) THEN src[i] ELSE dst[i]]

Init ==
  /\ open = [p \in Process |-> [t \in TPM |-> 0]]
  /\ object = [p \in Process |-> [s \in Slot |-> None]]
  /\ scan = [p \in Process |-> None]
  /\ abandoned = [p \in Process |-> 0]
  /\ template = [p \in Process |-> [a \in Alg |-> Zero]]
  /\ persistent = [t \in TPM |-> [a \in Alg |-> None]]
  /\ blobs = {}
  /\ given = [p \in Process |-> None]
  /\ read = [p \in Process |-> [a \in Alg |-> {}]]

-----------------------------------------------------------------------------
(***************************************************************************)
(* Opening and closing.                                                    *)
(***************************************************************************)

MatchesConfig(d, v) == v = "agnostic" \/ Version[d] = v

\* The positions in the listing that match, and the first of some positions.
Candidates(v) == {i \in DOMAIN Devs : MatchesConfig(Devs[i], v)}
First(i, S) == i \in S /\ \A j \in S : i <= j

\* The TPM that openTPM of a device talks to: every TPM 1.2 through tcsd.
Reached(d) == IF Version[d] = "1.2" THEN DaemonTPM ELSE d

\* openTPM can succeed: TPM 1.2 needs CGO, and a TPM 2.0 without a resource
\* manager is opened directly, which the kernel grants to one file at a time.
openTPM(d) ==
  \/ Version[d] = "1.2" /\ CGO
  \/ Version[d] = "2.0" /\ (d \in Managed \/ \A q \in Process : open[q][d] = 0)

\* getTPM12 has a TSS context and Connect fails: the context is not closed.
ConnectFails(p, d) ==
  /\ Version[d] = "1.2" /\ CGO
  /\ abandoned[p] < MaxAbandoned
  /\ abandoned' = [abandoned EXCEPT ![p] = @ + 1]

NewObject(p, s, c, t) ==
  /\ object' = [object EXCEPT ![p][s] = [config |-> c, tpm |-> t, cached |-> {}, ak |-> None]]
  /\ open' = [open EXCEPT ![p][t] = @ + 1]
  /\ UNCHANGED abandoned

\* Mutant: if the first TPM that matches cannot be opened, the next one is tried.
OpenSystemFallback(p, s, c) ==
  \E i \in Candidates(c.version) :
    /\ openTPM(Devs[i])
    /\ \A j \in Candidates(c.version) : j < i => ~openTPM(Devs[j])
    /\ NewObject(p, s, c, Reached(Devs[i]))

\* OpenTPM without a command channel: the first TPM that matches, or an error.
OpenSystem(p, s, c) ==
  \E i \in Candidates(c.version) :
    /\ First(i, Candidates(c.version))
    /\ \/ /\ openTPM(Devs[i])
          /\ NewObject(p, s, c, Reached(Devs[i]))
       \/ /\ ConnectFails(p, Devs[i])
          /\ open' = [open EXCEPT ![p][DaemonTPM] = @ + 1]
          /\ UNCHANGED object

\* OpenTPM with a command channel, which then belongs to the TPM object.
OpenChannel(p, s, c) ==
  /\ c.version # "1.2"
  /\ NewObject(p, s, c, c.channel)

OpenTPM(p, s) ==
  /\ scan[p] = None /\ object[p][s] = None
  /\ \E c \in Configs :
       \/ c.channel = None /\ OpenSystem(p, s, c)
       \/ c.channel # None /\ OpenChannel(p, s, c)
  /\ UNCHANGED <<scan, ekVars, blobs>>

Close(p, s) ==
  /\ scan[p] = None /\ object[p][s] # None
  /\ open' = [open EXCEPT ![p][object[p][s].tpm] = @ - 1]
  /\ object' = [object EXCEPT ![p][s] = None]
  /\ UNCHANGED <<scan, abandoned, ekVars, blobs>>

\* AvailableTPMs goes through the TPMs of the system, whatever channel the
\* configuration has.
AvailableTPMs(p) ==
  /\ scan[p] = None
  /\ \E c \in Configs :
       scan' = [scan EXCEPT ![p] = [todo |-> Candidates(c.version),
                                    opened |-> [t \in TPM |-> 0]]]
  /\ UNCHANGED <<open, object, abandoned, ekVars, blobs>>

\* An iteration: the TPM is opened, to stay so until the call returns.
ScanNext(p) ==
  /\ scan[p] # None
  /\ \E i \in scan[p].todo :
       /\ First(i, scan[p].todo)
       /\ openTPM(Devs[i])
       /\ open' = [open EXCEPT ![p][Reached(Devs[i])] = @ + 1]
       /\ scan' = [scan EXCEPT ![p] =
                     [todo |-> scan[p].todo \ {i},
                      opened |-> [scan[p].opened EXCEPT ![Reached(Devs[i])] = @ + 1]]]
  /\ UNCHANGED <<object, abandoned, ekVars, blobs>>

\* The deferred calls of Close when AvailableTPMs returns.
CloseAll(p) == open' = [open EXCEPT ![p] = [t \in TPM |-> @[t] - scan[p].opened[t]]]

\* Mutant: an error returns without closing the TPMs of earlier iterations.
ScanReturnsOpen(p) ==
  /\ scan[p] # None
  /\ IF scan[p].todo = {} THEN CloseAll(p) ELSE UNCHANGED open
  /\ scan' = [scan EXCEPT ![p] = None]
  /\ UNCHANGED <<object, abandoned, ekVars, blobs>>

\* The call returns: at the end of the list, or when openTPM or Info fails.
ScanReturns(p) ==
  /\ scan[p] # None
  /\ CloseAll(p)
  /\ scan' = [scan EXCEPT ![p] = None]
  /\ UNCHANGED <<object, abandoned, ekVars, blobs>>

\* The call returns because tcsd cannot be connected to.
ScanConnectFails(p) ==
  /\ scan[p] # None
  /\ \E i \in scan[p].todo : First(i, scan[p].todo) /\ ConnectFails(p, Devs[i])
  /\ open' = [open EXCEPT ![p] = [t \in TPM |->
                @[t] - scan[p].opened[t] + IF t = DaemonTPM THEN 1 ELSE 0]]
  /\ scan' = [scan EXCEPT ![p] = None]
  /\ UNCHANGED <<object, ekVars, blobs>>

\* The process ends, by itself or not, and another is started in its place.
Exit(p) ==
  /\ open' = [open EXCEPT ![p] = [t \in TPM |-> 0]]
  /\ object' = [object EXCEPT ![p] = [s \in Slot |-> None]]
  /\ scan' = [scan EXCEPT ![p] = None]
  /\ abandoned' = [abandoned EXCEPT ![p] = 0]
  /\ template' = [template EXCEPT ![p] = [a \in Alg |-> Zero]]
  /\ read' = [read EXCEPT ![p] = [a \in Alg |-> {}]]
  /\ given' = [given EXCEPT ![p] = None]
  /\ UNCHANGED <<persistent, blobs>>

-----------------------------------------------------------------------------
(***************************************************************************)
(* Endorsement keys.                                                       *)
(***************************************************************************)

\* The object in the slot is one for a TPM of this version, and is not in use.
Has(p, s, v) ==
  /\ scan[p] = None /\ object[p][s] # None
  /\ Version[object[p][s].tpm] = v

\* rsaEkTemplate and eccEkTemplate of an object for t.  The copy of the default
\* template has the default's parameters behind the same pointer, so that a
\* nonce is written to the package variable, and every template that was cached
\* reads from it.
ekTemplate(p, s, a, t) ==
  LET cached == a \in object[p][s].cached IN
    \/ /\ ~cached /\ Nonce[t][a] # None
       /\ template' = [template EXCEPT ![p][a] = copy(@, Nonce[t][a])]
       /\ read' = [read EXCEPT ![p][a] = @ \cup {t}]
    \/ /\ cached \/ Nonce[t][a] = None \/ t \in Unreliable
       /\ UNCHANGED <<template, read>>

\* Another nonce than the one of t was read, or the one of t was not.
Mixed(p, a, t) ==
  \/ \E u \in read'[p][a] : Nonce[u][a] # Nonce[t][a]
  \/ Nonce[t][a] # None /\ t \notin read'[p][a]

\* CreatePrimary with the template of the object.
CreateEK(p, s, a, t) ==
  /\ ekTemplate(p, s, a, t)
  /\ object' = [object EXCEPT ![p][s].cached = @ \cup {a}]

CreatedEK(p, a, t) ==
  [tpm |-> t, alg |-> a, unique |-> template'[p][a], mixed |-> Mixed(p, a, t)]

\* The key the manufacturer created and certified.
OwnEK(t, a) ==
  [tpm |-> t, alg |-> a, mixed |-> FALSE,
   unique |-> IF Nonce[t][a] = None THEN Zero ELSE copy(Zero, Nonce[t][a])]

\* EKs: the certified RSA key, or the one the template gives, unless a command
\* fails after the template was looked up.
eks(p, s) ==
  /\ Has(p, s, "2.0")
  /\ LET t == object[p][s].tpm IN
       \/ /\ "rsa" \in Certs[t]
          /\ given' = [given EXCEPT ![p] = OwnEK(t, "rsa")]
          /\ UNCHANGED <<object, template, read>>
       \/ /\ "rsa" \notin Certs[t] \/ t \in Unreliable
          /\ CreateEK(p, s, "rsa", t)
          /\ \/ given' = [given EXCEPT ![p] = CreatedEK(p, "rsa", t)]
             \/ UNCHANGED given
  /\ UNCHANGED <<open, scan, abandoned, persistent, blobs>>

\* EKCertificates, and EKs of a TPM 1.2: a certified key, if it can be read.
ekCertificates(p, s) ==
  /\ scan[p] = None /\ object[p][s] # None
  /\ LET t == object[p][s].tpm IN
       \E a \in Certs[t] : given' = [given EXCEPT ![p] = OwnEK(t, a)]
  /\ UNCHANGED <<fileVars, template, persistent, read, blobs>>

\* Mutant: the RSA template is used for an ECC key too.
getEndorsementKeyHandleRSA(p, s, a) ==
  LET t == object[p][s].tpm IN
    /\ CreateEK(p, s, "rsa", t)
    /\ \/ UNCHANGED persistent
       \/ /\ persistent[t][a] = None
          /\ persistent' = [persistent EXCEPT ![t][a] = CreatedEK(p, "rsa", t)]

\* getEndorsementKeyHandle: the template is looked up first; a key that is at
\* the handle is taken to be the EK, otherwise one is created and made
\* persistent, unless a command fails.
getEndorsementKeyHandle(p, s, a) ==
  LET t == object[p][s].tpm IN
    /\ CreateEK(p, s, a, t)
    /\ \/ UNCHANGED persistent
       \/ /\ persistent[t][a] = None
          /\ persistent' = [persistent EXCEPT ![t][a] = CreatedEK(p, a, t)]

\* ActivateCredential, with the default EK or with one the application was given.
activateCredential(p, s) ==
  /\ Has(p, s, "2.0")
  /\ object[p][s].ak # None
  /\ \/ getEndorsementKeyHandle(p, s, "rsa")
     \/ /\ given[p] # None /\ given[p].tpm = object[p][s].tpm
        /\ getEndorsementKeyHandle(p, s, given[p].alg)
  /\ UNCHANGED <<open, scan, abandoned, given, blobs>>

-----------------------------------------------------------------------------
(***************************************************************************)
(* Attestation keys that outlive the process.                              *)
(***************************************************************************)

\* NewAK, and Marshal of the key.
newAK(p, s) ==
  /\ scan[p] = None /\ object[p][s] # None
  /\ LET o == object[p][s]
         b == [version |-> Version[o.tpm], tpm |-> o.tpm, config |-> o.config] IN
       /\ object' = [object EXCEPT ![p][s].ak = b]
       /\ blobs' = blobs \cup {b}
  /\ UNCHANGED <<open, scan, abandoned, ekVars>>

deserializeKey(b, v) == b.version = v

\* LoadAK: the TPM 2.0 refuses a key of another TPM; on TPM 1.2 the key is only
\* decoded, and the TPM sees it when it is used.
loadAK(p, s) ==
  /\ scan[p] = None /\ object[p][s] # None
  /\ \E b \in blobs :
       /\ deserializeKey(b, Version[object[p][s].tpm])
       /\ Version[object[p][s].tpm] = "2.0" => b.tpm = object[p][s].tpm
       /\ object' = [object EXCEPT ![p][s].ak = b]
  /\ UNCHANGED <<open, scan, abandoned, ekVars, blobs>>

Next ==
  \E p \in Process :
    \/ AvailableTPMs(p) \/ ScanNext(p) \/ ScanReturns(p) \/ ScanConnectFails(p)
    \/ Exit(p)
    \/ \E s \in Slot :
         \/ OpenTPM(p, s) \/ Close(p, s)
         \/ eks(p, s) \/ ekCertificates(p, s) \/ activateCredential(p, s)
         \/ newAK(p, s) \/ loadAK(p, s)

Spec == Init /\ [][Next]_vars

-----------------------------------------------------------------------------
(***************************************************************************)
(* Properties.                                                             *)
(***************************************************************************)

\* Every file and TSS context of a process belongs to one TPM object or to the
\* AvailableTPMs call that will close it (deferred Close, attest.go:553), except
\* the contexts getTPM12 abandons when Connect fails; and a TPM without a
\* resource manager is never open twice.
FilesAccounted ==
  /\ \A p \in Process, t \in TPM :
       open[p][t] = Cardinality({s \in Slot : object[p][s] # None /\ object[p][s].tpm = t})
                    + (IF scan[p] = None THEN 0 ELSE scan[p].opened[t])
                    + (IF t = DaemonTPM THEN abandoned[p] ELSE 0)
  /\ \A t \in TPM \ (Managed \cup Channels \cup {DaemonTPM}) : \A p, q \in Process :
       open[p][t] + (IF p = q THEN 0 ELSE open[q][t]) <= 1

\* A stored attestation key meets its own TPM again: OpenTPM with the same
\* configuration gives the same TPM in every process, whichever devices are busy,
\* and no TPM object has a key of another TPM version (deserializeKey) or, on TPM
\* 2.0, of another TPM.
StoredAKsMeetTPM ==
  \A p \in Process, s \in Slot :
    object[p][s] # None =>
      /\ \A b \in blobs : b.config = object[p][s].config => b.tpm = object[p][s].tpm
      /\ object[p][s].ak # None => object[p][s].ak.tpm = object[p][s].tpm

\* An endorsement key that the application was given, or that was made
\* persistent for an activation (wrapped_tpm20.go:142), is the one the
\* manufacturer certified, unless the process that created it had read the nonce
\* of another TPM or could not read the one of this TPM.
EKsOwn ==
  /\ \A p \in Process :
       given[p] # None /\ ~given[p].mixed => given[p] = OwnEK(given[p].tpm, given[p].alg)
  /\ \A t \in TPM, a \in Alg :
       persistent[t][a] # None /\ ~persistent[t][a].mixed => persistent[t][a] = OwnEK(t, a)

\* As the comment at wrapped_tpm20.go:48 says, a TPM without a nonce gets the
\* default template: the EK made persistent on it is the default template's.
DefaultWithoutNonce ==
  \A t \in TPM, a \in Alg :
    persistent[t][a] # None /\ Nonce[t][a] = None => persistent[t][a].unique = Zero
=============================================================================
