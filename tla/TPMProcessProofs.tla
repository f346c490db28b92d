-------------------------- MODULE TPMProcessProofs --------------------------
(***************************************************************************)
(* Proofs about TPMProcess, for any processes, TPMs, configurations and    *)
(* nonces: every file and TSS context is accounted for, a stored           *)
(* attestation key meets its TPM again, and the endorsement keys are the   *)
(* manufacturer's where the process has read the nonces it needed.         *)
(***************************************************************************)
EXTENDS TPMProcess, FiniteSetTheorems, TLAPS

Types ==
  /\ open \in [Process -> [TPM -> Int]]
  /\ object \in [Process -> [Slot -> {None} \cup Object]]
  /\ scan \in [Process -> {None} \cup Scan]
  /\ abandoned \in [Process -> Nat]
  /\ template \in [Process -> [Alg -> Field]]
  /\ persistent \in [TPM -> [Alg -> {None} \cup EK]]
  /\ blobs \subseteq Blob
  /\ given \in [Process -> {None} \cup EK]
  /\ read \in [Process -> [Alg -> SUBSET TPM]]

\* The objects of a process for the TPM t, and its other files and contexts.
Held(p, t) == {s \in Slot : object[p][s] # None /\ object[p][s].tpm = t}
Scanned(p, t) == IF scan[p] = None THEN 0 ELSE scan[p].opened[t]
Leaked(p, t) == IF t = DaemonTPM THEN abandoned[p] ELSE 0

CountInv ==
  \A p \in Process, t \in TPM :
    open[p][t] = Cardinality(Held(p, t)) + Scanned(p, t) + Leaked(p, t)

\* The TPMs that the kernel lets only one file at a time be open to.
Direct == TPM \ (Managed \cup Channels \cup {DaemonTPM})

DirectInv ==
  \A t \in Direct : \A p, q \in Process :
    open[p][t] + (IF p = q THEN 0 ELSE open[q][t]) <= 1

\* OpenTPM with the configuration c can only give the TPM t.
Gives(c, t) ==
  IF c.channel # None THEN t = c.channel
  ELSE \E i \in Candidates(c.version) : First(i, Candidates(c.version)) /\ t = Reached(Devs[i])

\* TPM objects and stored keys have the TPM their configuration gives.
MeetInv ==
  /\ \A p \in Process, s \in Slot :
       object[p][s] # None => /\ Gives(object[p][s].config, object[p][s].tpm)
                              /\ object[p][s].ak # None => object[p][s].ak.tpm = object[p][s].tpm
  /\ \A b \in blobs : Gives(b.config, b.tpm) /\ b.version = Version[b.tpm]

\* The default template is untouched until a nonce is read, and is the one of a
\* TPM as long as no other nonce is read.
NonceInv ==
  \A p \in Process, a \in Alg :
    /\ \A u \in read[p][a] : Nonce[u][a] # None
    /\ read[p][a] = {} => template[p][a] = Zero
    /\ \A u \in read[p][a] :
         (\A w \in read[p][a] : Nonce[w][a] = Nonce[u][a]) =>
           template[p][a] = copy(Zero, Nonce[u][a])

IInv == Types /\ CountInv /\ DirectInv /\ MeetInv /\ NonceInv /\ EKsOwn

\* A step of the process that opens or closes nothing.
Uses(p, s) ==
  \/ eks(p, s) \/ ekCertificates(p, s) \/ activateCredential(p, s)
  \/ newAK(p, s) \/ loadAK(p, s)

-----------------------------------------------------------------------------
(***************************************************************************)
(* Operators.                                                              *)
(***************************************************************************)

\* The field of a template without a nonce is a field.
LEMMA ZeroField == Zero \in Field
  BY ProcessAssumption DEF Zero, Field

\* A template stays a template, and copying the same nonce again changes nothing.
LEMMA CopyField ==
  ASSUME NEW f \in Field, NEW n \in Seq(Nat)
  PROVE  copy(f, n) \in Field /\ copy(copy(f, n), n) = copy(f, n)
  BY ProcessAssumption DEF copy, Field

\* The devices of the listing, and the TPMs they reach.
LEMMA ReachedTPM ==
  ASSUME NEW i \in DOMAIN Devs
  PROVE  Devs[i] \in TPM /\ Reached(Devs[i]) \in TPM
  BY ProcessAssumption DEF TPM, Reached

\* A configuration gives one TPM at most.
LEMMA GivesOne ==
  ASSUME NEW c, NEW t, NEW u, Gives(c, t), Gives(c, u)
  PROVE  t = u
  <1>1. CASE c.channel # None
    BY <1>1 DEF Gives
  <1>2. CASE c.channel = None
    <2>1. PICK i \in Candidates(c.version) : First(i, Candidates(c.version)) /\ t = Reached(Devs[i])
      BY <1>2 DEF Gives
    <2>2. PICK j \in Candidates(c.version) : First(j, Candidates(c.version)) /\ u = Reached(Devs[j])
      BY <1>2 DEF Gives
    <2>3. i \in Int /\ j \in Int
      BY ProcessAssumption DEF Candidates
    <2> QED
      BY <2>1, <2>2, <2>3 DEF First
  <1> QED
    BY <1>1, <1>2

\* The only TPM 1.2 that can be opened is the one that tcsd serves.
LEMMA GivesDaemon ==
  ASSUME NEW c \in OpenConfig, NEW t \in TPM, Gives(c, t), Version[t] = "1.2"
  PROVE  t = DaemonTPM
  <1>1. CASE c.channel # None
    BY <1>1, ProcessAssumption DEF Gives, OpenConfig
  <1>2. CASE c.channel = None
    BY <1>2, ProcessAssumption, ReachedTPM DEF Gives, Reached, Candidates
  <1> QED
    BY <1>1, <1>2

-----------------------------------------------------------------------------
(***************************************************************************)
(* Endorsement keys.                                                       *)
(***************************************************************************)

Templates == template \in [Process -> [Alg -> Field]] /\ read \in [Process -> [Alg -> SUBSET TPM]]

\* Looking up a template, which may read a nonce into it.
LEMMA TemplateStep ==
  ASSUME IInv, NEW p \in Process, NEW s \in Slot, NEW a \in Alg, NEW t \in TPM, ekTemplate(p, s, a, t)
  PROVE  Templates' /\ NonceInv'
  <1> USE DEF IInv, Types
  <1>1. CASE UNCHANGED <<template, read>>
    BY <1>1 DEF Templates, NonceInv
  <1>2. CASE /\ Nonce[t][a] # None
             /\ template' = [template EXCEPT ![p][a] = copy(@, Nonce[t][a])]
             /\ read' = [read EXCEPT ![p][a] = @ \cup {t}]
    <2>1. PICK n \in Seq(Nat) : n = Nonce[t][a]
      BY <1>2, ProcessAssumption
    <2>2. PICK f \in Field : f = template[p][a]
      OBVIOUS
    <2>3. copy(f, n) \in Field
      BY CopyField
    <2>4. template' = [template EXCEPT ![p][a] = copy(f, n)]
      BY <1>2, <2>1, <2>2
    <2>5. Templates'
      BY <1>2, <2>3, <2>4 DEF Templates
    <2>6. template'[p][a] = copy(f, n) /\ read'[p][a] = read[p][a] \cup {t}
      BY <1>2, <2>4
    <2>7. ASSUME NEW u \in read'[p][a], \A w \in read'[p][a] : Nonce[w][a] = Nonce[u][a]
          PROVE  template'[p][a] = copy(Zero, Nonce[u][a])
      <3>1. Nonce[u][a] = n
        BY <2>1, <2>6, <2>7
      <3>2. CASE read[p][a] = {}
        BY <2>2, <2>6, <3>1, <3>2 DEF NonceInv
      <3>3. CASE read[p][a] # {}
        <4>1. PICK v \in read[p][a] : TRUE
          BY <3>3
        <4>2. Nonce[v][a] = n /\ \A w \in read[p][a] : Nonce[w][a] = Nonce[v][a]
          BY <2>6, <2>7, <3>1, <4>1
        <4>3. f = copy(Zero, n)
          BY <2>2, <4>1, <4>2 DEF NonceInv
        <4>4. copy(copy(Zero, n), n) = copy(Zero, n)
          BY CopyField, ZeroField
        <4> QED
          BY <2>6, <3>1, <4>3, <4>4
      <3> QED
        BY <3>2, <3>3
    <2>8. ASSUME NEW q \in Process, NEW e \in Alg, q # p \/ e # a
          PROVE  template'[q][e] = template[q][e] /\ read'[q][e] = read[q][e]
      BY <1>2, <2>8
    <2>9. \A u \in read'[p][a] : Nonce[u][a] # None
      BY <1>2, <2>6 DEF NonceInv
    <2>10. ASSUME NEW q \in Process, NEW e \in Alg
           PROVE  /\ \A u \in read'[q][e] : Nonce[u][e] # None
                  /\ read'[q][e] = {} => template'[q][e] = Zero
                  /\ \A u \in read'[q][e] :
                       (\A w \in read'[q][e] : Nonce[w][e] = Nonce[u][e]) =>
                         template'[q][e] = copy(Zero, Nonce[u][e])
      <3>1. CASE q = p /\ e = a
        BY <2>6, <2>7, <2>9, <3>1
      <3>2. CASE q # p \/ e # a
        <4>1. template'[q][e] = template[q][e] /\ read'[q][e] = read[q][e]
          BY <2>8, <3>2
        <4> QED
          BY <4>1 DEF NonceInv
      <3> QED
        BY <3>1, <3>2
    <2> QED
      BY <2>5, <2>10 DEF NonceInv
  <1> QED
    BY <1>1, <1>2 DEF ekTemplate

\* A key that is created is the manufacturer's, unless it is marked as mixed.
LEMMA CreatedOwn ==
  ASSUME Templates', NonceInv', NEW p \in Process, NEW a \in Alg, NEW t \in TPM
  PROVE  /\ CreatedEK(p, a, t) \in EK
         /\ CreatedEK(p, a, t).tpm = t /\ CreatedEK(p, a, t).alg = a
         /\ ~CreatedEK(p, a, t).mixed => CreatedEK(p, a, t) = OwnEK(t, a)
  <1>1. Mixed(p, a, t) \in BOOLEAN
    BY DEF Mixed
  <1>2. template'[p][a] \in Field
    BY DEF Templates
  <1>3. CreatedEK(p, a, t) \in EK
    BY <1>1, <1>2 DEF CreatedEK, EK
  <1>4. ASSUME ~Mixed(p, a, t)
        PROVE  template'[p][a] = IF Nonce[t][a] = None THEN Zero ELSE copy(Zero, Nonce[t][a])
    <2>1. CASE Nonce[t][a] = None
      BY <1>4, <2>1 DEF Mixed, NonceInv
    <2>2. CASE Nonce[t][a] # None
      BY <1>4, <2>2 DEF Mixed, NonceInv
    <2> QED
      BY <2>1, <2>2
  <1>5. CreatedEK(p, a, t).mixed = Mixed(p, a, t)
    BY DEF CreatedEK
  <1>6. ASSUME ~Mixed(p, a, t) PROVE CreatedEK(p, a, t) = OwnEK(t, a)
    <2>1. Mixed(p, a, t) = FALSE
      BY <1>1, <1>6
    <2> QED
      BY <1>4, <1>6, <2>1 DEF CreatedEK, OwnEK
  <1>7. CreatedEK(p, a, t).tpm = t /\ CreatedEK(p, a, t).alg = a
    BY DEF CreatedEK
  <1> QED
    BY <1>3, <1>5, <1>6, <1>7

\* The EK of a TPM that its certificate is about is one of its EKs.
LEMMA OwnEKType ==
  ASSUME NEW t \in TPM, NEW a \in Alg
  PROVE  OwnEK(t, a) \in EK /\ OwnEK(t, a).tpm = t /\ OwnEK(t, a).alg = a
  <1>1. (IF Nonce[t][a] = None THEN Zero ELSE copy(Zero, Nonce[t][a])) \in Field
    BY ProcessAssumption, ZeroField, CopyField
  <1> QED
    BY <1>1 DEF OwnEK, EK

EKTypes ==
  /\ Templates
  /\ persistent \in [TPM -> [Alg -> {None} \cup EK]]
  /\ given \in [Process -> {None} \cup EK]

\* The keys that were given out or made persistent, when one of them changes.
LEMMA GivenOwn ==
  ASSUME IInv, NEW p \in Process, NEW k \in EK, ~k.mixed => k = OwnEK(k.tpm, k.alg),
         given' = [given EXCEPT ![p] = k]
  PROVE  /\ given' \in [Process -> {None} \cup EK]
         /\ \A q \in Process : given'[q] # None /\ ~given'[q].mixed =>
              given'[q] = OwnEK(given'[q].tpm, given'[q].alg)
  BY DEF IInv, Types, EKsOwn

\* A persistent EK that is set to the TPM's own keeps the others.
LEMMA PersistentOwn ==
  ASSUME IInv, NEW t \in TPM, NEW a \in Alg, NEW k \in EK, ~k.mixed => k = OwnEK(t, a),
         persistent' = [persistent EXCEPT ![t][a] = k]
  PROVE  /\ persistent' \in [TPM -> [Alg -> {None} \cup EK]]
         /\ \A u \in TPM, e \in Alg : persistent'[u][e] # None /\ ~persistent'[u][e].mixed =>
              persistent'[u][e] = OwnEK(u, e)
  BY DEF IInv, Types, EKsOwn

\* The endorsement keys.
LEMMA EKStep ==
  ASSUME IInv, [Next]_vars
  PROVE  EKTypes' /\ NonceInv' /\ EKsOwn'
  <1> USE DEF IInv, Types
  <1>1. CASE UNCHANGED ekVars
    BY <1>1 DEF ekVars, EKTypes, Templates, NonceInv, EKsOwn
  <1>2. ASSUME NEW p \in Process, Exit(p) PROVE EKTypes' /\ NonceInv' /\ EKsOwn'
    <2>1. EKTypes'
      BY <1>2, ZeroField DEF Exit, EKTypes, Templates
    <2>2. NonceInv'
      BY <1>2 DEF Exit, NonceInv
    <2>3. EKsOwn'
      BY <1>2 DEF Exit, EKsOwn
    <2> QED
      BY <2>1, <2>2, <2>3
  <1>3. ASSUME NEW p \in Process, NEW s \in Slot, NEW t \in TPM, t = object[p][s].tpm,
               Uses(p, s)
        PROVE  EKTypes' /\ NonceInv' /\ EKsOwn'
    <2> DEFINE Old == UNCHANGED <<template, read>>
    <2>1. Old => Templates' /\ NonceInv'
      BY DEF Templates, NonceInv
    <2>2. UNCHANGED given => /\ given' \in [Process -> {None} \cup EK]
                             /\ \A q \in Process : given'[q] # None /\ ~given'[q].mixed =>
                                  given'[q] = OwnEK(given'[q].tpm, given'[q].alg)
      BY DEF EKsOwn
    <2>3. UNCHANGED persistent =>
            /\ persistent' \in [TPM -> [Alg -> {None} \cup EK]]
            /\ \A u \in TPM, e \in Alg : persistent'[u][e] # None /\ ~persistent'[u][e].mixed =>
                 persistent'[u][e] = OwnEK(u, e)
      BY DEF EKsOwn
    <2>4. CASE ekCertificates(p, s)
      <3>1. Old /\ UNCHANGED persistent
        BY <2>4 DEF ekCertificates
      <3>2. PICK a \in Certs[t] : given' = [given EXCEPT ![p] = OwnEK(t, a)]
        BY <1>3, <2>4 DEF ekCertificates
      <3>3. a \in Alg
        BY <3>2, ProcessAssumption
      <3> QED
        BY <2>1, <2>3, <3>1, <3>2, <3>3, OwnEKType, GivenOwn DEF EKTypes, EKsOwn
    <2>5. CASE eks(p, s)
      <3>1. UNCHANGED persistent
        BY <2>5 DEF eks
      <3>2. "rsa" \in Alg
        BY DEF Alg
      <3>3. CASE Old /\ given' = [given EXCEPT ![p] = OwnEK(t, "rsa")]
        BY <2>1, <2>3, <3>1, <3>2, <3>3, OwnEKType, GivenOwn DEF EKTypes, EKsOwn
      <3>4. CASE /\ ekTemplate(p, s, "rsa", t)
                 /\ given' = [given EXCEPT ![p] = CreatedEK(p, "rsa", t)] \/ UNCHANGED given
        <4>1. Templates' /\ NonceInv'
          BY <3>2, <3>4, TemplateStep
        <4>2. CASE UNCHANGED given
          BY <2>2, <2>3, <3>1, <4>1, <4>2 DEF EKTypes, EKsOwn
        <4>3. CASE given' = [given EXCEPT ![p] = CreatedEK(p, "rsa", t)]
          <5>1. PICK k \in EK : /\ k = CreatedEK(p, "rsa", t)
                                /\ ~k.mixed => k = OwnEK(k.tpm, k.alg)
            BY <3>2, <4>1, CreatedOwn
          <5> QED
            BY <2>3, <3>1, <4>1, <4>3, <5>1, GivenOwn DEF EKTypes, EKsOwn
        <4> QED
          BY <3>4, <4>2, <4>3
      <3> QED
        BY <1>3, <2>5, <3>3, <3>4 DEF eks, CreateEK
    <2>6. CASE activateCredential(p, s)
      <3>1. PICK a \in Alg : getEndorsementKeyHandle(p, s, a)
        BY <2>6 DEF activateCredential, EK, Alg
      <3>2. UNCHANGED given /\ ekTemplate(p, s, a, t)
        BY <1>3, <2>6, <3>1 DEF activateCredential, getEndorsementKeyHandle, CreateEK
      <3>3. Templates' /\ NonceInv'
        BY <3>2, TemplateStep
      <3>4. CASE UNCHANGED persistent
        BY <2>2, <2>3, <3>2, <3>3, <3>4 DEF EKTypes, EKsOwn
      <3>5. CASE persistent' = [persistent EXCEPT ![t][a] = CreatedEK(p, a, t)]
        <4>1. PICK k \in EK : k = CreatedEK(p, a, t) /\ (~k.mixed => k = OwnEK(t, a))
          BY <3>3, CreatedOwn
        <4> QED
          BY <2>2, <3>2, <3>3, <3>5, <4>1, PersistentOwn DEF EKTypes, EKsOwn
      <3> QED
        BY <1>3, <3>1, <3>4, <3>5 DEF getEndorsementKeyHandle
    <2>7. CASE newAK(p, s) \/ loadAK(p, s)
      BY <1>1, <2>7 DEF newAK, loadAK
    <2> QED
      BY <1>3, <2>4, <2>5, <2>6, <2>7 DEF Uses
  <1>4. ASSUME NEW p \in Process,
               \/ AvailableTPMs(p) \/ ScanNext(p) \/ ScanReturns(p) \/ ScanConnectFails(p)
               \/ \E s \in Slot : OpenTPM(p, s) \/ Close(p, s)
        PROVE  UNCHANGED ekVars
    BY <1>4 DEF AvailableTPMs, ScanNext, ScanReturns, ScanConnectFails, OpenTPM, Close
  <1>5. ASSUME NEW p \in Process, NEW s \in Slot, Uses(p, s) PROVE object[p][s].tpm \in TPM
    BY <1>5 DEF Uses, eks, ekCertificates, activateCredential, newAK, loadAK, Has, Object
  <1>6. CASE UNCHANGED vars
    BY <1>1, <1>6 DEF vars
  <1> QED
    BY <1>1, <1>2, <1>3, <1>4, <1>5, <1>6 DEF Next, Uses

-----------------------------------------------------------------------------
(***************************************************************************)
(* TPM objects, files and contexts.                                        *)
(***************************************************************************)

\* What a call that opens and closes nothing does to the TPM objects: one gets a
\* template or a key, and keeps its TPM and its configuration.
LEMMA UsesObject ==
  ASSUME IInv, NEW p \in Process, NEW s \in Slot, Uses(p, s)
  PROVE  /\ UNCHANGED <<open, scan, abandoned>>
         /\ \/ UNCHANGED object
            \/ \E a \in Alg : object' = [object EXCEPT ![p][s].cached = @ \cup {a}]
            \/ \E b \in Blob :
                 /\ object' = [object EXCEPT ![p][s].ak = b]
                 /\ b.tpm = object[p][s].tpm
         /\ object[p][s] \in Object
  <1> USE DEF IInv, Types
  <1>1. object[p][s] \in Object
    BY DEF Uses, eks, ekCertificates, activateCredential, newAK, loadAK, Has
  <1>2. CASE eks(p, s) \/ ekCertificates(p, s)
    BY <1>1, <1>2 DEF eks, ekCertificates, CreateEK, fileVars, Alg
  <1>3. CASE activateCredential(p, s)
    <2>1. PICK a \in Alg : getEndorsementKeyHandle(p, s, a)
      BY <1>3 DEF activateCredential, EK, Alg
    <2> QED
      BY <1>1, <1>3, <2>1 DEF activateCredential, getEndorsementKeyHandle, CreateEK
  <1>4. CASE newAK(p, s)
    <2>1. [version |-> Version[object[p][s].tpm], tpm |-> object[p][s].tpm,
           config |-> object[p][s].config] \in Blob
      BY <1>1, ProcessAssumption DEF Object, Blob
    <2> QED
      BY <1>1, <1>4, <2>1 DEF newAK
  <1>5. CASE loadAK(p, s)
    <2>1. PICK b \in blobs : /\ deserializeKey(b, Version[object[p][s].tpm])
                             /\ Version[object[p][s].tpm] = "2.0" => b.tpm = object[p][s].tpm
                             /\ object' = [object EXCEPT ![p][s].ak = b]
      BY <1>5 DEF loadAK
    <2>2. b \in Blob /\ b.tpm \in TPM /\ b.config \in OpenConfig
      BY DEF Blob
    <2>3. object[p][s].tpm \in TPM /\ object[p][s].config \in OpenConfig
      BY <1>1 DEF Object
    <2>4. Gives(b.config, b.tpm) /\ b.version = Version[b.tpm]
      BY DEF MeetInv
    <2>5. Gives(object[p][s].config, object[p][s].tpm)
      BY <1>5 DEF MeetInv, loadAK
    <2>6. CASE Version[object[p][s].tpm] = "1.2"
      <3>1. Version[b.tpm] = "1.2"
        BY <2>1, <2>4, <2>6 DEF deserializeKey
      <3>2. b.tpm = DaemonTPM /\ object[p][s].tpm = DaemonTPM
        BY <2>2, <2>3, <2>4, <2>5, <2>6, <3>1, GivesDaemon
      <3> QED
        BY <1>1, <1>5, <2>1, <2>2, <3>2 DEF loadAK
    <2>7. CASE Version[object[p][s].tpm] = "2.0"
      BY <1>1, <1>5, <2>1, <2>2, <2>7 DEF loadAK
    <2> QED
      BY <2>3, <2>6, <2>7, ProcessAssumption DEF TPMVersion
  <1> QED
    BY <1>2, <1>3, <1>4, <1>5 DEF Uses

\* So it keeps what the counts and the configurations are about.
LEMMA UsesKept ==
  ASSUME IInv, NEW p \in Process, NEW s \in Slot, Uses(p, s)
  PROVE  /\ object' \in [Process -> [Slot -> {None} \cup Object]]
         /\ \A q \in Process, r \in Slot :
              /\ object'[q][r] # None <=> object[q][r] # None
              /\ object[q][r] # None => /\ object'[q][r].tpm = object[q][r].tpm
                                        /\ object'[q][r].config = object[q][r].config
                                        /\ \/ object'[q][r].ak = object[q][r].ak
                                           \/ object'[q][r].ak.tpm = object[q][r].tpm
  <1> USE DEF IInv, Types
  <1>0. object[p][s] \in Object /\ None \notin Object
    BY UsesObject, ProcessAssumption
  <1>1. CASE UNCHANGED object
    BY <1>1
  <1>2. ASSUME NEW o \in Object, object' = [object EXCEPT ![p][s] = o],
               o.tpm = object[p][s].tpm, o.config = object[p][s].config,
               o.ak = object[p][s].ak \/ o.ak.tpm = object[p][s].tpm
        PROVE  /\ object' \in [Process -> [Slot -> {None} \cup Object]]
               /\ \A q \in Process, r \in Slot :
                    /\ object'[q][r] # None <=> object[q][r] # None
                    /\ object[q][r] # None => /\ object'[q][r].tpm = object[q][r].tpm
                                              /\ object'[q][r].config = object[q][r].config
                                              /\ \/ object'[q][r].ak = object[q][r].ak
                                                 \/ object'[q][r].ak.tpm = object[q][r].tpm
    <2>1. object' \in [Process -> [Slot -> {None} \cup Object]]
      BY <1>2
    <2>2. object'[p][s] = o
      BY <1>2
    <2>3. \A q \in Process, r \in Slot : q # p \/ r # s => object'[q][r] = object[q][r]
      BY <1>2
    <2>4. o # None /\ object[p][s] # None
      BY <1>0
    <2> QED
      BY <1>2, <2>1, <2>2, <2>3, <2>4
  <1>3. ASSUME NEW a \in Alg, object' = [object EXCEPT ![p][s].cached = @ \cup {a}]
        PROVE  \E o \in Object : /\ object' = [object EXCEPT ![p][s] = o]
                                 /\ o.tpm = object[p][s].tpm /\ o.config = object[p][s].config
                                 /\ o.ak = object[p][s].ak
    <2> DEFINE o == [object[p][s] EXCEPT !.cached = @ \cup {a}]
    <2>1. o \in Object /\ o.tpm = object[p][s].tpm /\ o.config = object[p][s].config
          /\ o.ak = object[p][s].ak
      BY <1>0 DEF Object
    <2>2. object' = [object EXCEPT ![p][s] = o]
      BY <1>3
    <2> QED
      BY <2>1, <2>2
  <1>4. ASSUME NEW b \in Blob, object' = [object EXCEPT ![p][s].ak = b], b.tpm = object[p][s].tpm
        PROVE  \E o \in Object : /\ object' = [object EXCEPT ![p][s] = o]
                                 /\ o.tpm = object[p][s].tpm /\ o.config = object[p][s].config
                                 /\ o.ak.tpm = object[p][s].tpm
    <2> DEFINE o == [object[p][s] EXCEPT !.ak = b]
    <2>1. o \in Object /\ o.tpm = object[p][s].tpm /\ o.config = object[p][s].config
          /\ o.ak = b
      BY <1>0 DEF Object
    <2>2. object' = [object EXCEPT ![p][s] = o]
      BY <1>4
    <2> QED
      BY <1>4, <2>1, <2>2
  <1>5. CASE \E a \in Alg : object' = [object EXCEPT ![p][s].cached = @ \cup {a}]
    BY <1>2, <1>3, <1>5
  <1>6. CASE \E b \in Blob : /\ object' = [object EXCEPT ![p][s].ak = b]
                             /\ b.tpm = object[p][s].tpm
    BY <1>2, <1>4, <1>6
  <1> QED
    BY <1>1, <1>5, <1>6, UsesObject

\* A TPM that can be opened, and that the kernel lets be open once, is not open.
LEMMA OpenedDirect ==
  ASSUME NEW i \in DOMAIN Devs, openTPM(Devs[i]), Reached(Devs[i]) \in Direct
  PROVE  \A q \in Process : open[q][Reached(Devs[i])] = 0
  BY DEF openTPM, Reached, Direct

\* What OpenTPM does: a new object for the TPM its configuration gives, or one
\* more TSS context that is abandoned.
LEMMA OpenTPMObject ==
  ASSUME IInv, NEW p \in Process, NEW s \in Slot, OpenTPM(p, s)
  PROVE  /\ UNCHANGED <<scan, blobs>>
         /\ object[p][s] = None
         /\ \/ \E c \in OpenConfig, t \in TPM :
                 /\ Gives(c, t)
                 /\ NewObject(p, s, c, t)
                 /\ t \in Direct => \A q \in Process : open[q][t] = 0
            \/ /\ abandoned' = [abandoned EXCEPT ![p] = @ + 1]
               /\ open' = [open EXCEPT ![p][DaemonTPM] = @ + 1]
               /\ UNCHANGED object
  <1>1. UNCHANGED <<scan, blobs>> /\ object[p][s] = None
    BY DEF OpenTPM
  <1>2. PICK c \in Configs : \/ c.channel = None /\ OpenSystem(p, s, c)
                             \/ c.channel # None /\ OpenChannel(p, s, c)
    BY DEF OpenTPM
  <1>3. c \in OpenConfig
    BY ProcessAssumption
  <1>4. CASE c.channel # None /\ OpenChannel(p, s, c)
    <2>1. c.channel \in Channels /\ c.channel \in TPM /\ c.channel \notin Direct
      BY <1>3, <1>4 DEF OpenConfig, TPM, Direct
    <2> QED
      BY <1>1, <1>3, <1>4, <2>1 DEF OpenChannel, Gives
  <1>5. CASE c.channel = None /\ OpenSystem(p, s, c)
    <2>1. PICK i \in Candidates(c.version) :
            /\ First(i, Candidates(c.version))
            /\ \/ openTPM(Devs[i]) /\ NewObject(p, s, c, Reached(Devs[i]))
               \/ /\ ConnectFails(p, Devs[i])
                  /\ open' = [open EXCEPT ![p][DaemonTPM] = @ + 1]
                  /\ UNCHANGED object
      BY <1>5 DEF OpenSystem
    <2>2. i \in DOMAIN Devs
      BY DEF Candidates
    <2>3. CASE openTPM(Devs[i]) /\ NewObject(p, s, c, Reached(Devs[i]))
      <3>1. Reached(Devs[i]) \in TPM /\ Gives(c, Reached(Devs[i]))
        BY <1>5, <2>1, <2>2, ReachedTPM DEF Gives
      <3> QED
        BY <1>1, <1>3, <2>2, <2>3, <3>1, OpenedDirect
    <2>4. CASE /\ ConnectFails(p, Devs[i])
               /\ open' = [open EXCEPT ![p][DaemonTPM] = @ + 1]
               /\ UNCHANGED object
      BY <1>1, <2>4 DEF ConnectFails
    <2> QED
      BY <2>1, <2>3, <2>4
  <1> QED
    BY <1>2, <1>4, <1>5

\* What an iteration of AvailableTPMs does.
LEMMA ScanNextOpens ==
  ASSUME IInv, NEW p \in Process, ScanNext(p)
  PROVE  \E t \in TPM :
           /\ open' = [open EXCEPT ![p][t] = @ + 1]
           /\ t \in Direct => \A q \in Process : open[q][t] = 0
           /\ scan' \in [Process -> {None} \cup Scan]
           /\ scan'[p] # None
           /\ scan'[p].opened = [scan[p].opened EXCEPT ![t] = @ + 1]
           /\ \A q \in Process : q # p => scan'[q] = scan[q]
  <1> USE DEF IInv, Types
  <1>1. PICK i \in scan[p].todo :
          /\ openTPM(Devs[i])
          /\ open' = [open EXCEPT ![p][Reached(Devs[i])] = @ + 1]
          /\ scan' = [scan EXCEPT ![p] =
                        [todo |-> scan[p].todo \ {i},
                         opened |-> [scan[p].opened EXCEPT ![Reached(Devs[i])] = @ + 1]]]
    BY DEF ScanNext
  <1>2. scan[p] \in Scan /\ None \notin Scan
    BY ProcessAssumption DEF ScanNext
  <1>3. i \in DOMAIN Devs
    BY <1>1, <1>2 DEF Scan
  <1>4. PICK t \in TPM : t = Reached(Devs[i])
    BY <1>3, ReachedTPM
  <1>5. PICK n : n = [todo |-> scan[p].todo \ {i}, opened |-> [scan[p].opened EXCEPT ![t] = @ + 1]]
    OBVIOUS
  <1>6. n \in Scan /\ n.opened = [scan[p].opened EXCEPT ![t] = @ + 1]
    BY <1>2, <1>5 DEF Scan
  <1>7. scan' = [scan EXCEPT ![p] = n]
    BY <1>1, <1>4, <1>5
  <1>8. t \in Direct => \A q \in Process : open[q][t] = 0
    BY <1>1, <1>3, <1>4, OpenedDirect
  <1>9. /\ scan' \in [Process -> {None} \cup Scan]
        /\ scan'[p] = n
        /\ \A q \in Process : q # p => scan'[q] = scan[q]
    BY <1>6, <1>7
  <1> QED
    BY <1>1, <1>2, <1>4, <1>6, <1>8, <1>9

FileTypes ==
  /\ open \in [Process -> [TPM -> Int]]
  /\ object \in [Process -> [Slot -> {None} \cup Object]]
  /\ scan \in [Process -> {None} \cup Scan]
  /\ abandoned \in [Process -> Nat]

\* A new TPM object is one.
LEMMA NewObjectType ==
  ASSUME NEW c \in OpenConfig, NEW t \in TPM
  PROVE  [config |-> c, tpm |-> t, cached |-> {}, ak |-> None] \in Object
  BY DEF Object

\* The TPM of tcsd is one of the machine's.
LEMMA DaemonTPMType == DaemonTPM \in TPM
  BY DEF TPM

\* The types.
LEMMA FileTypesStep ==
  ASSUME IInv, [Next]_vars
  PROVE  FileTypes'
  <1> USE DEF IInv, Types, FileTypes
  <1>1. CASE UNCHANGED vars
    BY <1>1 DEF vars, fileVars
  <1>2. ASSUME NEW p \in Process, AvailableTPMs(p) PROVE FileTypes'
    <2>1. PICK c \in Configs :
            scan' = [scan EXCEPT ![p] = [todo |-> Candidates(c.version), opened |-> [t \in TPM |-> 0]]]
      BY <1>2 DEF AvailableTPMs
    <2>2. [todo |-> Candidates(c.version), opened |-> [t \in TPM |-> 0]] \in Scan
      BY DEF Scan, Candidates
    <2> QED
      BY <1>2, <2>1, <2>2 DEF AvailableTPMs
  <1>3. ASSUME NEW p \in Process, ScanNext(p) PROVE FileTypes'
    <2>1. PICK t \in TPM : /\ open' = [open EXCEPT ![p][t] = @ + 1]
                           /\ scan' \in [Process -> {None} \cup Scan]
      BY <1>3, ScanNextOpens
    <2>2. UNCHANGED <<object, abandoned>>
      BY <1>3 DEF ScanNext
    <2> QED
      BY <2>1, <2>2
  <1>4. ASSUME NEW p \in Process, ScanReturns(p) PROVE FileTypes'
    <2>1. scan[p].opened \in [TPM -> Nat]
      BY <1>4 DEF ScanReturns, Scan
    <2> QED
      BY <1>4, <2>1 DEF ScanReturns, CloseAll
  <1>5. ASSUME NEW p \in Process, ScanConnectFails(p) PROVE FileTypes'
    <2>1. scan[p].opened \in [TPM -> Nat]
      BY <1>5 DEF ScanConnectFails, Scan
    <2>2. abandoned' \in [Process -> Nat]
      BY <1>5 DEF ScanConnectFails, ConnectFails
    <2>3. open' \in [Process -> [TPM -> Int]]
      <3>1. [t \in TPM |-> open[p][t] - scan[p].opened[t] + IF t = DaemonTPM THEN 1 ELSE 0]
              \in [TPM -> Int]
        BY <2>1
      <3> QED
        BY <1>5, <3>1 DEF ScanConnectFails
    <2>4. scan' \in [Process -> {None} \cup Scan]
      BY <1>5 DEF ScanConnectFails
    <2> QED
      BY <1>5, <2>2, <2>3, <2>4 DEF ScanConnectFails
  <1>6. ASSUME NEW p \in Process, Exit(p) PROVE FileTypes'
    BY <1>6 DEF Exit
  <1>7. ASSUME NEW p \in Process, NEW s \in Slot, OpenTPM(p, s) PROVE FileTypes'
    <2>1. ASSUME NEW c \in OpenConfig, NEW t \in TPM, NewObject(p, s, c, t), UNCHANGED scan
          PROVE  FileTypes'
      BY <2>1, NewObjectType DEF NewObject
    <2>2. CASE /\ abandoned' = [abandoned EXCEPT ![p] = @ + 1]
               /\ open' = [open EXCEPT ![p][DaemonTPM] = @ + 1]
               /\ UNCHANGED object
               /\ UNCHANGED scan
      BY <2>2, DaemonTPMType
    <2> QED
      BY <1>7, <2>1, <2>2, OpenTPMObject
  <1>8. ASSUME NEW p \in Process, NEW s \in Slot, Close(p, s) PROVE FileTypes'
    <2>1. object[p][s].tpm \in TPM
      BY <1>8 DEF Close, Object
    <2> QED
      BY <1>8, <2>1 DEF Close
  <1>9. ASSUME NEW p \in Process, NEW s \in Slot, Uses(p, s) PROVE FileTypes'
    BY <1>9, UsesKept, UsesObject
  <1> QED
    BY <1>1, <1>2, <1>3, <1>4, <1>5, <1>6, <1>7, <1>8, <1>9 DEF Next, Uses

\* TPM objects and stored keys have the TPM their configuration gives.
LEMMA MeetStep ==
  ASSUME IInv, [Next]_vars
  PROVE  MeetInv' /\ blobs' \subseteq Blob
  <1> USE DEF IInv, Types
  <1>1. CASE UNCHANGED <<object, blobs>>
    BY <1>1 DEF MeetInv
  <1>2. ASSUME NEW p \in Process, NEW s \in Slot, OpenTPM(p, s)
        PROVE  MeetInv' /\ blobs' \subseteq Blob
    <2>1. ASSUME NEW c \in OpenConfig, NEW t \in TPM, Gives(c, t), NewObject(p, s, c, t), UNCHANGED blobs
          PROVE  MeetInv' /\ blobs' \subseteq Blob
      <3>1. object' = [object EXCEPT ![p][s] = [config |-> c, tpm |-> t, cached |-> {}, ak |-> None]]
        BY <2>1 DEF NewObject
      <3>2. /\ object'[p][s].config = c /\ object'[p][s].tpm = t /\ object'[p][s].ak = None
            /\ \A q \in Process, r \in Slot : q # p \/ r # s => object'[q][r] = object[q][r]
        BY <3>1
      <3>3. ASSUME NEW q \in Process, NEW r \in Slot, object'[q][r] # None
            PROVE  /\ Gives(object'[q][r].config, object'[q][r].tpm)
                   /\ object'[q][r].ak # None => object'[q][r].ak.tpm = object'[q][r].tpm
        <4>1. CASE q = p /\ r = s
          BY <2>1, <3>2, <4>1
        <4>2. CASE q # p \/ r # s
          BY <3>2, <3>3, <4>2 DEF MeetInv
        <4> QED
          BY <4>1, <4>2
      <3>4. \A b \in blobs' : Gives(b.config, b.tpm) /\ b.version = Version[b.tpm]
        BY <2>1 DEF MeetInv
      <3> QED
        BY <2>1, <3>3, <3>4 DEF MeetInv
    <2> QED
      BY <1>1, <1>2, <2>1, OpenTPMObject
  <1>3. ASSUME NEW p \in Process, NEW s \in Slot, Close(p, s)
        PROVE  MeetInv' /\ blobs' \subseteq Blob
    BY <1>3 DEF Close, MeetInv
  <1>4. ASSUME NEW p \in Process, Exit(p) PROVE MeetInv' /\ blobs' \subseteq Blob
    BY <1>4 DEF Exit, MeetInv
  <1>5. ASSUME NEW p \in Process, NEW s \in Slot, Uses(p, s) PROVE MeetInv' /\ blobs' \subseteq Blob
    <2>1. ASSUME NEW q \in Process, NEW r \in Slot, object'[q][r] # None
          PROVE  /\ Gives(object'[q][r].config, object'[q][r].tpm)
                 /\ object'[q][r].ak # None => object'[q][r].ak.tpm = object'[q][r].tpm
      <3>1. /\ object[q][r] # None
            /\ object'[q][r].tpm = object[q][r].tpm
            /\ object'[q][r].config = object[q][r].config
            /\ \/ object'[q][r].ak = object[q][r].ak
               \/ object'[q][r].ak.tpm = object[q][r].tpm
        BY <1>5, <2>1, UsesKept
      <3>2. /\ Gives(object[q][r].config, object[q][r].tpm)
            /\ object[q][r].ak # None => object[q][r].ak.tpm = object[q][r].tpm
        BY <3>1 DEF MeetInv
      <3> QED
        BY <3>1, <3>2
    <2>2. CASE UNCHANGED blobs
      BY <2>1, <2>2 DEF MeetInv
    <2>3. CASE newAK(p, s)
      <3>1. PICK b : /\ b = [version |-> Version[object[p][s].tpm], tpm |-> object[p][s].tpm,
                             config |-> object[p][s].config]
                     /\ blobs' = blobs \cup {b}
        BY <2>3 DEF newAK
      <3>2. object[p][s] \in Object
        BY <1>5, UsesObject
      <3>3. b \in Blob
        BY <3>1, <3>2, ProcessAssumption DEF Object, Blob
      <3>4. Gives(b.config, b.tpm) /\ b.version = Version[b.tpm]
        BY <2>3, <3>1 DEF newAK, MeetInv
      <3>5. blobs' \subseteq Blob /\ \A d \in blobs' : Gives(d.config, d.tpm) /\ d.version = Version[d.tpm]
        BY <3>1, <3>3, <3>4 DEF MeetInv
      <3> QED
        BY <2>1, <3>5 DEF MeetInv
    <2> QED
      BY <1>5, <2>2, <2>3 DEF Uses, eks, ekCertificates, activateCredential, loadAK
  <1>6. ASSUME NEW p \in Process,
               AvailableTPMs(p) \/ ScanNext(p) \/ ScanReturns(p) \/ ScanConnectFails(p)
        PROVE  UNCHANGED <<object, blobs>>
    BY <1>6 DEF AvailableTPMs, ScanNext, ScanReturns, ScanConnectFails
  <1>7. CASE UNCHANGED vars
    BY <1>1, <1>7 DEF vars, fileVars
  <1> QED
    BY <1>1, <1>2, <1>3, <1>4, <1>5, <1>6, <1>7 DEF Next, Uses

\* A process has finitely many objects for a TPM, and what it has open is counted
\* by natural numbers.
LEMMA Counted ==
  ASSUME IInv, NEW p \in Process, NEW t \in TPM
  PROVE  /\ IsFiniteSet(Held(p, t)) /\ Cardinality(Held(p, t)) \in Nat
         /\ Scanned(p, t) \in Nat /\ Leaked(p, t) \in Nat /\ open[p][t] \in Nat
  <1> USE DEF IInv, Types
  <1>1. IsFiniteSet(Held(p, t)) /\ Cardinality(Held(p, t)) \in Nat
    <2>1. Held(p, t) \in SUBSET Slot
      BY DEF Held
    <2> QED
      BY <2>1, ProcessAssumption, FS_Subset, FS_CardinalityType
  <1>2. Scanned(p, t) \in Nat
    BY DEF Scanned, Scan
  <1>3. Leaked(p, t) \in Nat
    BY DEF Leaked
  <1> QED
    BY <1>1, <1>2, <1>3 DEF CountInv

\* The count of one process for one TPM.
Count(p, t) == open[p][t] = Cardinality(Held(p, t)) + Scanned(p, t) + Leaked(p, t)

\* Every file and context is counted.
LEMMA CountStep ==
  ASSUME IInv, [Next]_vars
  PROVE  CountInv'
  <1> USE DEF IInv, Types
  <1> SUFFICES ASSUME NEW q \in Process, NEW u \in TPM PROVE Count(q, u)'
    BY DEF CountInv, Count
  <1>0. /\ Count(q, u)
        /\ IsFiniteSet(Held(q, u)) /\ Cardinality(Held(q, u)) \in Nat
        /\ Scanned(q, u) \in Nat /\ Leaked(q, u) \in Nat /\ open[q][u] \in Int
    BY Counted DEF CountInv, Count
  <1>1. CASE UNCHANGED <<open[q][u], Held(q, u), Scanned(q, u), Leaked(q, u)>>
    BY <1>0, <1>1 DEF Count
  <1>2. CASE UNCHANGED vars
    BY <1>1, <1>2 DEF vars, fileVars, Held, Scanned, Leaked
  <1>3. ASSUME NEW p \in Process, AvailableTPMs(p) PROVE Count(q, u)'
    <2>1. UNCHANGED <<open[q][u], Held(q, u), Leaked(q, u)>>
      BY <1>3 DEF AvailableTPMs, Held, Leaked
    <2>2. Scanned(q, u)' = Scanned(q, u)
      BY <1>3 DEF AvailableTPMs, Scanned
    <2> QED
      BY <1>1, <2>1, <2>2
  <1>4. ASSUME NEW p \in Process, ScanNext(p) PROVE Count(q, u)'
    <2>1. UNCHANGED <<Held(q, u), Leaked(q, u)>>
      BY <1>4 DEF ScanNext, Held, Leaked
    <2>2. PICK t \in TPM :
            /\ open' = [open EXCEPT ![p][t] = @ + 1]
            /\ scan'[p] # None
            /\ scan'[p].opened = [scan[p].opened EXCEPT ![t] = @ + 1]
            /\ \A r \in Process : r # p => scan'[r] = scan[r]
      BY <1>4, ScanNextOpens
    <2>3. scan[p] # None /\ scan[p].opened \in [TPM -> Nat]
      BY <1>4 DEF ScanNext, Scan
    <2>4. CASE q = p /\ u = t
      <3>1. open'[q][u] = open[q][u] + 1
        BY <2>2, <2>4
      <3>2. Scanned(q, u)' = Scanned(q, u) + 1
        BY <2>2, <2>3, <2>4 DEF Scanned
      <3> QED
        BY <1>0, <2>1, <3>1, <3>2 DEF Count
    <2>5. CASE q # p \/ u # t
      <3>1. open'[q][u] = open[q][u]
        BY <2>2, <2>5
      <3>2. Scanned(q, u)' = Scanned(q, u)
        BY <2>2, <2>3, <2>5 DEF Scanned
      <3> QED
        BY <1>1, <2>1, <3>1, <3>2
    <2> QED
      BY <2>4, <2>5
  <1>5. ASSUME NEW p \in Process, ScanReturns(p) PROVE Count(q, u)'
    <2>1. UNCHANGED <<Held(q, u), Leaked(q, u)>>
      BY <1>5 DEF ScanReturns, Held, Leaked
    <2>2. CASE q = p
      <3>1. open'[q][u] = open[q][u] - scan[q].opened[u]
        BY <1>5, <2>2 DEF ScanReturns, CloseAll
      <3>2. Scanned(q, u)' = 0 /\ Scanned(q, u) = scan[q].opened[u]
        BY <1>5, <2>2 DEF ScanReturns, Scanned
      <3> QED
        BY <1>0, <2>1, <3>1, <3>2 DEF Count
    <2>3. CASE q # p
      <3>1. open'[q][u] = open[q][u] /\ Scanned(q, u)' = Scanned(q, u)
        BY <1>5, <2>3 DEF ScanReturns, CloseAll, Scanned
      <3> QED
        BY <1>1, <2>1, <3>1
    <2> QED
      BY <2>2, <2>3
  <1>6. ASSUME NEW p \in Process, ScanConnectFails(p) PROVE Count(q, u)'
    <2>1. Held(q, u)' = Held(q, u)
      BY <1>6 DEF ScanConnectFails, Held
    <2>2. CASE q = p
      <3>1. open'[q][u] = open[q][u] - scan[q].opened[u] + IF u = DaemonTPM THEN 1 ELSE 0
        BY <1>6, <2>2 DEF ScanConnectFails
      <3>2. Scanned(q, u)' = 0 /\ Scanned(q, u) = scan[q].opened[u]
        BY <1>6, <2>2 DEF ScanConnectFails, Scanned
      <3>3. Leaked(q, u)' = Leaked(q, u) + IF u = DaemonTPM THEN 1 ELSE 0
        BY <1>6, <2>2 DEF ScanConnectFails, ConnectFails, Leaked
      <3> QED
        BY <1>0, <2>1, <3>1, <3>2, <3>3 DEF Count
    <2>3. CASE q # p
      <3>1. UNCHANGED <<open[q][u], Scanned(q, u), Leaked(q, u)>>
        BY <1>6, <2>3 DEF ScanConnectFails, ConnectFails, Scanned, Leaked
      <3> QED
        BY <1>1, <2>1, <3>1
    <2> QED
      BY <2>2, <2>3
  <1>7. ASSUME NEW p \in Process, Exit(p) PROVE Count(q, u)'
    <2>1. CASE q = p
      <3>1. open'[q][u] = 0 /\ Scanned(q, u)' = 0 /\ Leaked(q, u)' = 0
        BY <1>7, <2>1 DEF Exit, Scanned, Leaked
      <3>2. Held(q, u)' = {}
        BY <1>7, <2>1 DEF Exit, Held
      <3> QED
        BY <3>1, <3>2, FS_EmptySet DEF Count
    <2>2. CASE q # p
      <3>1. UNCHANGED <<open[q][u], Held(q, u), Scanned(q, u), Leaked(q, u)>>
        BY <1>7, <2>2 DEF Exit, Held, Scanned, Leaked
      <3> QED
        BY <1>1, <3>1
    <2> QED
      BY <2>1, <2>2
  <1>8. ASSUME NEW p \in Process, NEW s \in Slot, OpenTPM(p, s) PROVE Count(q, u)'
    <2>1. UNCHANGED scan /\ object[p][s] = None
      BY <1>8, OpenTPMObject
    <2>2. Scanned(q, u)' = Scanned(q, u)
      BY <2>1 DEF Scanned
    <2>3. ASSUME NEW c \in OpenConfig, NEW t \in TPM, NewObject(p, s, c, t) PROVE Count(q, u)'
      <3>1. PICK o \in Object : o.tpm = t /\ object' = [object EXCEPT ![p][s] = o]
        BY <2>3, NewObjectType DEF NewObject
      <3>2. o # None
        BY ProcessAssumption
      <3>3. Leaked(q, u)' = Leaked(q, u)
        BY <2>3 DEF NewObject, Leaked
      <3>4. CASE q = p /\ u = t
        <4>1. open'[q][u] = open[q][u] + 1
          BY <2>3, <3>4 DEF NewObject
        <4>2. s \notin Held(q, u) /\ Held(q, u)' = Held(q, u) \cup {s}
          BY <2>1, <3>1, <3>2, <3>4 DEF Held
        <4>3. Cardinality(Held(q, u) \cup {s}) = Cardinality(Held(q, u)) + 1
          BY <1>0, <4>2, FS_AddElement
        <4> QED
          BY <1>0, <2>2, <3>3, <4>1, <4>2, <4>3 DEF Count
      <3>5. CASE q # p \/ u # t
        <4>1. open'[q][u] = open[q][u]
          BY <2>3, <3>5 DEF NewObject
        <4>2. Held(q, u)' = Held(q, u)
          BY <2>1, <3>1, <3>2, <3>5 DEF Held
        <4> QED
          BY <1>1, <2>2, <3>3, <4>1, <4>2
      <3> QED
        BY <3>4, <3>5
    <2>4. CASE /\ abandoned' = [abandoned EXCEPT ![p] = @ + 1]
               /\ open' = [open EXCEPT ![p][DaemonTPM] = @ + 1]
               /\ UNCHANGED object
      <3>1. Held(q, u)' = Held(q, u)
        BY <2>4 DEF Held
      <3>2. CASE q = p /\ u = DaemonTPM
        <4>1. open'[q][u] = open[q][u] + 1 /\ Leaked(q, u)' = Leaked(q, u) + 1
          BY <2>4, <3>2 DEF Leaked
        <4> QED
          BY <1>0, <2>2, <3>1, <4>1 DEF Count
      <3>3. CASE q # p \/ u # DaemonTPM
        <4>1. open'[q][u] = open[q][u] /\ Leaked(q, u)' = Leaked(q, u)
          BY <2>4, <3>3 DEF Leaked
        <4> QED
          BY <1>1, <2>2, <3>1, <4>1
      <3> QED
        BY <3>2, <3>3
    <2> QED
      BY <1>8, <2>3, <2>4, OpenTPMObject
  <1>9. ASSUME NEW p \in Process, NEW s \in Slot, Close(p, s) PROVE Count(q, u)'
    <2>1. UNCHANGED <<Scanned(q, u), Leaked(q, u)>>
      BY <1>9 DEF Close, Scanned, Leaked
    <2>2. CASE q = p /\ u = object[p][s].tpm
      <3>1. open'[q][u] = open[q][u] - 1
        BY <1>9, <2>2 DEF Close
      <3>2. s \in Held(q, u) /\ Held(q, u)' = Held(q, u) \ {s}
        BY <1>9, <2>2 DEF Close, Held
      <3>3. Cardinality(Held(q, u) \ {s}) = Cardinality(Held(q, u)) - 1
        BY <1>0, <3>2, FS_RemoveElement
      <3> QED
        BY <1>0, <2>1, <3>1, <3>2, <3>3 DEF Count
    <2>3. CASE q # p \/ u # object[p][s].tpm
      <3>1. open'[q][u] = open[q][u] /\ Held(q, u)' = Held(q, u)
        BY <1>9, <2>3 DEF Close, Held
      <3> QED
        BY <1>1, <2>1, <3>1
    <2> QED
      BY <2>2, <2>3
  <1>10. ASSUME NEW p \in Process, NEW s \in Slot, Uses(p, s) PROVE Count(q, u)'
    <2>1. UNCHANGED <<open[q][u], Scanned(q, u), Leaked(q, u)>>
      BY <1>10, UsesObject DEF Scanned, Leaked
    <2>2. Held(q, u)' = Held(q, u)
      BY <1>10, UsesKept DEF Held
    <2> QED
      BY <1>1, <2>1, <2>2
  <1> QED
    BY <1>2, <1>3, <1>4, <1>5, <1>6, <1>7, <1>8, <1>9, <1>10 DEF Next, Uses

\* A TPM that the kernel lets be open once is not open twice.
LEMMA DirectStep ==
  ASSUME IInv, [Next]_vars
  PROVE  DirectInv'
  <1> USE DEF IInv, Types
  <1> SUFFICES ASSUME NEW t \in Direct, NEW q \in Process, NEW r \in Process
               PROVE  open'[q][t] + (IF q = r THEN 0 ELSE open'[r][t]) <= 1
    BY DEF DirectInv
  <1>0. /\ t \in TPM /\ t # DaemonTPM
        /\ open[q][t] \in Int /\ open[r][t] \in Int
        /\ open[q][t] + (IF q = r THEN 0 ELSE open[r][t]) <= 1
    BY DEF Direct, DirectInv
  <1>1. CASE \A p \in Process : open'[p][t] \in Int /\ open'[p][t] <= open[p][t]
    BY <1>0, <1>1
  <1>2. ASSUME NEW p \in Process, NEW u \in TPM, open' = [open EXCEPT ![p][u] = @ + 1],
               u \in Direct => \A v \in Process : open[v][u] = 0
        PROVE  open'[q][t] + (IF q = r THEN 0 ELSE open'[r][t]) <= 1
    <2>1. CASE u = t
      BY <1>0, <1>2, <2>1
    <2>2. CASE u # t
      BY <1>0, <1>2, <2>2
    <2> QED
      BY <2>1, <2>2
  <1>3. ASSUME NEW p \in Process, NEW s \in Slot, OpenTPM(p, s)
        PROVE  open'[q][t] + (IF q = r THEN 0 ELSE open'[r][t]) <= 1
    <2>1. ASSUME NEW c \in OpenConfig, NEW u \in TPM, NewObject(p, s, c, u),
                 u \in Direct => \A v \in Process : open[v][u] = 0
          PROVE  open'[q][t] + (IF q = r THEN 0 ELSE open'[r][t]) <= 1
      BY <1>2, <2>1 DEF NewObject
    <2>2. CASE open' = [open EXCEPT ![p][DaemonTPM] = @ + 1]
      BY <1>2, <2>2, DaemonTPMType DEF Direct
    <2> QED
      BY <1>3, <2>1, <2>2, OpenTPMObject
  <1>4. ASSUME NEW p \in Process, ScanNext(p)
        PROVE  open'[q][t] + (IF q = r THEN 0 ELSE open'[r][t]) <= 1
    BY <1>2, <1>4, ScanNextOpens
  <1>5. ASSUME NEW p \in Process, ScanReturns(p) \/ ScanConnectFails(p), NEW v \in Process
        PROVE  open'[v][t] \in Int /\ open'[v][t] <= open[v][t]
    <2>1. scan[p].opened[t] \in Nat /\ open[v][t] \in Int
      BY <1>0, <1>5 DEF ScanReturns, ScanConnectFails, Scan
    <2>2. open'[v][t] = IF v = p THEN open[v][t] - scan[p].opened[t] ELSE open[v][t]
      <3>1. CASE ScanReturns(p)
        BY <1>0, <2>1, <3>1 DEF ScanReturns, CloseAll
      <3>2. CASE ScanConnectFails(p)
        BY <1>0, <2>1, <3>2 DEF ScanConnectFails
      <3> QED
        BY <1>5, <3>1, <3>2
    <2> QED
      BY <2>1, <2>2
  <1>6. ASSUME NEW p \in Process, Exit(p), NEW v \in Process
        PROVE  open'[v][t] \in Int /\ open'[v][t] <= open[v][t]
    BY <1>0, <1>6, Counted DEF Exit
  <1>7. ASSUME NEW p \in Process, NEW s \in Slot, Close(p, s), NEW v \in Process
        PROVE  open'[v][t] \in Int /\ open'[v][t] <= open[v][t]
    <2>1. object[p][s].tpm \in TPM
      BY <1>7 DEF Close, Object
    <2> QED
      BY <1>0, <1>7, <2>1 DEF Close
  <1>8. ASSUME NEW p \in Process, NEW s \in Slot, Uses(p, s) PROVE UNCHANGED open
    BY <1>8, UsesObject
  <1>9. ASSUME NEW p \in Process, AvailableTPMs(p) PROVE UNCHANGED open
    BY <1>9 DEF AvailableTPMs
  <1>10. CASE UNCHANGED open
    BY <1>0, <1>10
  <1>11. CASE UNCHANGED vars
    BY <1>10, <1>11 DEF vars, fileVars
  <1> QED
    BY <1>1, <1>3, <1>4, <1>5, <1>6, <1>7, <1>8, <1>9, <1>10, <1>11 DEF Next, Uses

-----------------------------------------------------------------------------
\* The invariant holds at first.
LEMMA InitIInv == Init => IInv
  <1> SUFFICES ASSUME Init PROVE IInv
    OBVIOUS
  <1>1. Types
    BY ZeroField DEF Init, Types
  <1>2. CountInv
    <2>1. \A p \in Process, t \in TPM : Held(p, t) = {} /\ Scanned(p, t) = 0 /\ Leaked(p, t) = 0
      BY DEF Init, Held, Scanned, Leaked
    <2>2. \A p \in Process, t \in TPM : open[p][t] = 0
      BY DEF Init
    <2>3. Cardinality({}) = 0
      BY FS_EmptySet
    <2> QED
      BY <2>1, <2>2, <2>3 DEF CountInv
  <1>3. DirectInv
    BY DEF Init, DirectInv, Direct
  <1>4. MeetInv
    BY DEF Init, MeetInv
  <1>5. NonceInv
    BY DEF Init, NonceInv
  <1>6. EKsOwn
    BY DEF Init, EKsOwn
  <1> QED
    BY <1>1, <1>2, <1>3, <1>4, <1>5, <1>6 DEF IInv

\* Every step keeps the invariant.
LEMMA NextIInv ==
  ASSUME IInv, [Next]_vars
  PROVE  IInv'
  <1>1. Types'
    BY FileTypesStep, EKStep, MeetStep DEF Types, FileTypes, EKTypes, Templates
  <1> QED
    BY <1>1, CountStep, DirectStep, MeetStep, EKStep DEF IInv

\* The invariant holds in every state.
LEMMA Invariance == Spec => []IInv
  BY InitIInv, NextIInv, PTL DEF Spec

\* Whatever fails and in whatever order: every file and TSS context that a process
\* has open belongs to one of its TPM objects or to the AvailableTPMs call that
\* will close it, or is one that getTPM12 abandoned; and no two files are open to
\* a TPM that has no resource manager.
THEOREM ProcessFilesAccounted == Spec => []FilesAccounted
  <1>1. IInv => FilesAccounted
    BY DEF IInv, CountInv, DirectInv, Direct, Held, Scanned, Leaked, FilesAccounted
  <1> QED
    BY <1>1, Invariance, PTL

\* OpenTPM with the configuration a stored attestation key was made under gives
\* the key's TPM in every process, whichever devices are busy, and LoadAK never
\* leaves a TPM object with a key of another TPM.
THEOREM ProcessAKsMeetTPM == Spec => []StoredAKsMeetTPM
  <1>1. ASSUME IInv PROVE StoredAKsMeetTPM
    <2>1. ASSUME NEW p \in Process, NEW s \in Slot, object[p][s] # None, NEW b \in blobs,
                 b.config = object[p][s].config
          PROVE  b.tpm = object[p][s].tpm
      BY <1>1, <2>1, GivesOne DEF IInv, MeetInv
    <2> QED
      BY <1>1, <2>1 DEF IInv, MeetInv, StoredAKsMeetTPM
  <1> QED
    BY <1>1, Invariance, PTL

\* An endorsement key that was given to the application or made persistent is the
\* one the manufacturer certified, unless its process had read another TPM's
\* nonce into the shared default template or could not read the TPM's own.
THEOREM ProcessEKsOwn == Spec => []EKsOwn
  BY Invariance, PTL DEF IInv
=============================================================================
