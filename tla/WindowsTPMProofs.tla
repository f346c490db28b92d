-------------------------- MODULE WindowsTPMProofs --------------------------
(***************************************************************************)
(* Proofs about WindowsTPM, for any number of processes, handles and names:*)
(* every open handle has one owner, and stored keys stay loadable.         *)
(***************************************************************************)
EXTENDS WindowsTPM, TLAPS

Certs == {"rsaCerts", "eccCerts", "nvCerts"}
Making == {"length", "policy", "finalize"}
Calls == {"idle", "probe", "probeInfo", "open", "openInfo", "create", "properties",
          "ekReturn", "log"} \cup Certs \cup Making

Types ==
  /\ device \in 1..3
  /\ made \in Key
  /\ store \in [Name -> {None} \cup 1..made]
  /\ blobs \subseteq Blob
  /\ ref \in [Process -> [Handle -> {None} \cup Referent]]
  /\ tpm \in [Process -> {None} \cup TPMObject]
  /\ ak \in [Process -> {None} \cup AKObject]
  /\ pc \in [Process -> Calls]
  /\ prov \in [Process -> {None} \cup Handle]
  /\ hnd \in [Process -> {None} \cup Handle]
  /\ DOMAIN arg = Process
  /\ DOMAIN found = Process
  /\ lost \in [Process -> SUBSET Handle]

\* The call that is next says what the running operation has: the provider while
\* a TPM is opened, a key that is being made, a store or a context.
OpInv ==
  \A p \in Process :
    /\ prov[p] # None <=> pc[p] \in {"probeInfo", "openInfo"}
    /\ hnd[p] # None => pc[p] \in Certs \cup Making \cup {"properties", "log"}
    /\ pc[p] \in Making \cup {"properties", "log"} => hnd[p] # None
    /\ pc[p] \in {"probe", "probeInfo", "open", "openInfo"} => tpm[p] = None
    /\ pc[p] \in {"open", "openInfo"} => tbsConvertVersion(device) \in Version
    /\ pc[p] \in Making \cup {"create", "properties"} =>
         arg[p] \in Name /\ tpm[p] # None /\ ak[p] = None

\* A key that was finalized is the one that is stored under its name.
KeyInv ==
  \A p \in Process :
    pc[p] = "properties" =>
      store[arg[p]] # None /\ ref[p][hnd[p]] = <<"key", store[arg[p]]>>

\* A TPM object has the version of the TPM.
VersionInv == \A p \in Process : tpm[p] # None => tpm[p].version = tbsConvertVersion(device)

\* An AK object is for the key its name gives.
AKInv ==
  \A p \in Process :
    ak[p] # None =>
      /\ store[ak[p].name] = ak[p].key
      /\ ref[p][ak[p].hnd] = <<"key", ak[p].key>>

\* A stored key is one that deserializeKey refuses, or the one its name gives.
BlobInv ==
  \A b \in blobs :
    \/ b \in Foreign /\ (b.encoding # "os" \/ b.version # tbsConvertVersion(device))
    \/ store[b.name] = b.key

TPMHandle(p) == IF tpm[p] = None THEN None ELSE tpm[p].prov
AKHandle(p) == IF ak[p] = None THEN None ELSE ak[p].hnd

\* With what its handles r refer to, the handles t of the TPM, a of the AK, v and
\* h of the operation, and the lost ones l, a process has one owner for every open
\* handle, and no other.
Owned(r, t, a, v, h, l) ==
  /\ \A g \in Handle : r[g] # None <=> g = t \/ g = a \/ g = v \/ g = h \/ g \in l
  /\ t # None => t # a /\ t # v /\ t # h /\ t \notin l
  /\ a # None => a # v /\ a # h /\ a \notin l
  /\ v # None => v # h /\ v \notin l
  /\ h # None => h \notin l

OwnInv ==
  \A p \in Process : Owned(ref[p], TPMHandle(p), AKHandle(p), prov[p], hnd[p], lost[p])

IInv == Types /\ OpInv /\ KeyInv /\ VersionInv /\ AKInv /\ BlobInv /\ OwnInv

\* A step of one process.
Step(p) ==
  \/ OpenTPM(p) \/ openPCP(p) \/ OpenFails(p) \/ ProbeInfo(p)
  \/ OpenInfo(p) \/ OpenInfoFails(p) \/ CloseTPM(p)
  \/ newAK(p) \/ CreatePersistedKey(p) \/ SetProperty(p) \/ FinalizeKey(p) \/ NewAKFails(p)
  \/ AKProperties(p) \/ AKPropertiesFails(p) \/ Marshal(p) \/ loadAK(p) \/ CloseAK(p)
  \/ EKCerts(p) \/ OpenStore(p) \/ CloseStore(p) \/ StoreFails(p) \/ EKReturn(p)
  \/ MeasurementLog(p) \/ LogReturn(p)
  \/ Exit(p)

\* What a handle may refer to.
LEMMA Referents ==
  /\ <<"provider", 0>> \in Referent
  /\ <<"store", 0>> \in Referent
  /\ <<"context", 0>> \in Referent
  /\ \A k \in Key : <<"key", k>> \in Referent
  BY DEF Referent

\* A finalized key is none of the keys that were stored before.
LEMMA NewKey ==
  ASSUME Types, made < MaxKeys
  PROVE  made + 1 \in Key /\ 0 \in Key /\ 1..made \subseteq 1..(made + 1) /\ 1..made \subseteq Key
  BY WindowsAssumption DEF Types, Key

\* A key that is stored is a key.
LEMMA StoredKey ==
  ASSUME Types
  PROVE  0 \in Key /\ \A n \in Name : store[n] # None => store[n] \in Key
  BY WindowsAssumption DEF Types, Key

\* The types.
LEMMA TypesStep ==
  ASSUME IInv, [Next]_vars
  PROVE  Types'
  <1> USE WindowsAssumption DEF IInv, vars, sysVars, objVars, opVars, Types, Calls, Certs, Making
  <1>1. CASE UNCHANGED vars
    BY <1>1
  <1>2. ASSUME NEW p \in Process, Step(p) PROVE Types'
    <2>1. CASE OpenTPM(p) \/ OpenFails(p) \/ newAK(p) \/ SetProperty(p) \/ EKCerts(p) \/ EKReturn(p)
      BY <2>1 DEF OpenTPM, OpenFails, newAK, SetProperty, EKCerts, EKReturn, Return, Goto
    <2>2. CASE ProbeInfo(p)
      BY <2>2 DEF ProbeInfo, Free, Return, Goto
    <2>3. CASE CloseTPM(p)
      BY <2>3 DEF CloseTPM, Free
    <2>4. CASE AKPropertiesFails(p)
      BY <2>4 DEF AKPropertiesFails, Free, Return, Goto
    <2>5. CASE CloseAK(p)
      BY <2>5 DEF CloseAK, Free
    <2>6. CASE CloseStore(p)
      BY <2>6 DEF CloseStore, Free, Goto, NextSource
    <2>7. CASE LogReturn(p)
      BY <2>7 DEF LogReturn, Free, Return, Goto
    <2>8. CASE StoreFails(p)
      <3>1. ref' \in [Process -> [Handle -> {None} \cup Referent]]
        <4>1. UNCHANGED ref \/ Free(p, hnd[p])
          BY <2>8 DEF StoreFails
        <4>2. CASE UNCHANGED ref
          BY <4>2
        <4>3. CASE Free(p, hnd[p])
          BY <4>3 DEF Free
        <4> QED
          BY <4>1, <4>2, <4>3
      <3> QED
        BY <2>8, <3>1 DEF StoreFails, Return, Goto, NextSource
    <2>9. CASE openPCP(p)
      BY <2>9, Referents DEF openPCP, Open, Goto
    <2>10. CASE OpenStore(p)
      BY <2>10, Referents DEF OpenStore, Open
    <2>11. CASE MeasurementLog(p)
      BY <2>11, Referents DEF MeasurementLog, Open, Goto
    <2>12. CASE CreatePersistedKey(p)
      <3>1. ref' \in [Process -> [Handle -> {None} \cup Referent]]
        <4>1. UNCHANGED ref \/ \E h \in Handle : Open(p, h, <<"key", 0>>)
          BY <2>12 DEF CreatePersistedKey
        <4>2. CASE UNCHANGED ref
          BY <4>2
        <4>3. ASSUME NEW h \in Handle, Open(p, h, <<"key", 0>>)
              PROVE  ref' \in [Process -> [Handle -> {None} \cup Referent]]
          BY <4>3, Referents, StoredKey DEF Open
        <4> QED
          BY <4>1, <4>2, <4>3
      <3>2. hnd' \in [Process -> {None} \cup Handle]
        BY <2>12 DEF CreatePersistedKey, Return
      <3> QED
        BY <2>12, <3>1, <3>2 DEF CreatePersistedKey, Return, Goto
    <2>13. CASE loadAK(p)
      <3>1. PICK b \in blobs, h \in Handle :
               /\ b.version = tpm[p].version
               /\ store[b.name] # None
               /\ Open(p, h, <<"key", store[b.name]>>)
               /\ ak' = [ak EXCEPT ![p] = [hnd |-> h, name |-> b.name,
                                           version |-> b.version, key |-> b.key]]
        BY <2>13 DEF loadAK
      <3>2. b.name \in Name /\ b.version \in Version /\ b.key \in Key
        BY DEF Blob
      <3>3. [hnd |-> h, name |-> b.name, version |-> b.version, key |-> b.key] \in AKObject
        BY <3>2 DEF AKObject
      <3>4. <<"key", store[b.name]>> \in Referent
        BY <3>1, <3>2, Referents, StoredKey
      <3> QED
        BY <2>13, <3>1, <3>3, <3>4 DEF loadAK, Open
    <2>14. CASE OpenInfo(p)
      <3>1. prov[p] \in Handle /\ tbsConvertVersion(device) \in Version
        BY <2>14 DEF OpenInfo, OpInv
      <3>2. [prov |-> prov[p], version |-> tbsConvertVersion(device)] \in TPMObject
        BY <3>1 DEF TPMObject
      <3> QED
        BY <2>14, <3>2 DEF OpenInfo, Return, Goto
    <2>15. CASE OpenInfoFails(p)
      BY <2>15 DEF OpenInfoFails, Abandon, Return, Goto, OpInv
    <2>16. CASE NewAKFails(p)
      BY <2>16 DEF NewAKFails, Abandon, Return, Goto, OpInv
    <2>17. CASE FinalizeKey(p)
      <3>1. made + 1 \in Key /\ 1..made \subseteq 1..(made + 1) /\ made + 1 \in 1..(made + 1)
        BY <2>17, NewKey DEF FinalizeKey, Key
      <3>2. store' \in [Name -> {None} \cup 1..(made + 1)]
        BY <2>17, <3>1 DEF FinalizeKey
      <3>3. ref' \in [Process -> [Handle -> {None} \cup Referent]]
        BY <2>17, <3>1, Referents DEF FinalizeKey
      <3> QED
        BY <2>17, <3>1, <3>2, <3>3 DEF FinalizeKey, Goto, NameFree
    <2>18. CASE AKProperties(p)
      <3>1. hnd[p] \in Handle /\ arg[p] \in Name /\ tpm[p] \in TPMObject
        BY <2>18 DEF AKProperties, OpInv
      <3>2. ref[p][hnd[p]][2] = store[arg[p]] /\ store[arg[p]] \in Key
        BY <2>18, <3>1, StoredKey DEF AKProperties, KeyInv
      <3>3. [hnd |-> hnd[p], name |-> arg[p], version |-> tpm[p].version, key |-> ref[p][hnd[p]][2]]
              \in AKObject
        BY <3>1, <3>2 DEF AKObject, TPMObject
      <3> QED
        BY <2>18, <3>3 DEF AKProperties, Return, Goto
    <2>19. CASE Marshal(p)
      <3>1. ak[p] \in AKObject
        BY <2>19 DEF Marshal
      <3>2. [encoding |-> "os", version |-> ak[p].version, name |-> ak[p].name, key |-> ak[p].key]
              \in Blob
        BY <3>1 DEF AKObject, Blob
      <3> QED
        BY <2>19, <3>2 DEF Marshal
    <2>20. CASE Exit(p)
      BY <2>20 DEF Exit, Return, Goto
    <2> QED
      BY <1>2, <2>1, <2>2, <2>3, <2>4, <2>5, <2>6, <2>7, <2>8, <2>9, <2>10, <2>11, <2>12, <2>13,
         <2>14, <2>15, <2>16, <2>17, <2>18, <2>19, <2>20 DEF Step
  <1> QED
    BY <1>1, <1>2 DEF Next, Step

\* What the running operation has.
LEMMA OpStep ==
  ASSUME IInv, [Next]_vars
  PROVE  OpInv'
  <1> USE WindowsAssumption DEF IInv, vars, sysVars, objVars, opVars, Types, OpInv, Calls, Certs,
          Making, tbsConvertVersion, Version
  <1>1. CASE UNCHANGED vars
    BY <1>1
  <1>2. ASSUME NEW p \in Process, Step(p) PROVE OpInv'
    <2>1. CASE OpenTPM(p) \/ OpenFails(p) \/ newAK(p) \/ SetProperty(p) \/ EKCerts(p) \/ EKReturn(p)
      BY <2>1 DEF OpenTPM, OpenFails, newAK, SetProperty, EKCerts, EKReturn, Return, Goto
    <2>2. CASE ProbeInfo(p) \/ CloseTPM(p) \/ AKPropertiesFails(p) \/ CloseAK(p)
               \/ CloseStore(p) \/ LogReturn(p)
      BY <2>2 DEF ProbeInfo, CloseTPM, AKPropertiesFails, CloseAK, CloseStore, LogReturn, Free,
         Return, Goto, NextSource
    <2>3. CASE StoreFails(p)
      BY <2>3 DEF StoreFails, Free, Return, Goto, NextSource
    <2>4. CASE openPCP(p) \/ OpenStore(p) \/ MeasurementLog(p)
      BY <2>4 DEF openPCP, OpenStore, MeasurementLog, Open, Goto
    <2>5. CASE CreatePersistedKey(p)
      BY <2>5 DEF CreatePersistedKey, Open, Return, Goto, NameFree
    <2>6. CASE loadAK(p)
      BY <2>6 DEF loadAK, Open
    <2>7. CASE OpenInfo(p) \/ OpenInfoFails(p) \/ NewAKFails(p)
      BY <2>7 DEF OpenInfo, OpenInfoFails, NewAKFails, Abandon, Return, Goto
    <2>8. CASE FinalizeKey(p)
      BY <2>8 DEF FinalizeKey, Goto, NameFree
    <2>9. CASE AKProperties(p)
      BY <2>9 DEF AKProperties, Return, Goto
    <2>10. CASE Marshal(p)
      BY <2>10 DEF Marshal
    <2>11. CASE Exit(p)
      BY <2>11 DEF Exit, Return, Goto
    <2> QED
      BY <1>2, <2>1, <2>2, <2>3, <2>4, <2>5, <2>6, <2>7, <2>8, <2>9, <2>10, <2>11 DEF Step
  <1> QED
    BY <1>1, <1>2 DEF Next, Step

\* The TPM stays the same, and NCryptFinalizeKey stores a key only under a name
\* that has none: what a name gives, it gives for good.
LEMMA StoreKept ==
  ASSUME IInv, [Next]_vars
  PROVE  /\ device' = device
         /\ \A n \in Name : store[n] # None => store'[n] = store[n]
  <1> USE DEF IInv, Types, sysVars, vars
  <1>1. CASE UNCHANGED sysVars
    BY <1>1
  <1>2. ASSUME NEW p \in Process, FinalizeKey(p)
        PROVE  device' = device /\ \A n \in Name : store[n] # None => store'[n] = store[n]
    BY <1>2 DEF FinalizeKey, NameFree
  <1>3. ASSUME NEW p \in Process, Marshal(p) PROVE device' = device /\ store' = store
    BY <1>3 DEF Marshal
  <1>4. ASSUME NEW p \in Process, Step(p), ~FinalizeKey(p), ~Marshal(p) PROVE UNCHANGED sysVars
    BY <1>4 DEF Step, OpenTPM, openPCP, OpenFails, ProbeInfo, OpenInfo, OpenInfoFails, Abandon,
         CloseTPM, newAK, CreatePersistedKey, SetProperty, NewAKFails, AKProperties,
         AKPropertiesFails, loadAK, CloseAK, EKCerts, OpenStore, CloseStore, StoreFails, EKReturn,
         MeasurementLog, LogReturn, Exit
  <1> QED
    BY <1>1, <1>2, <1>3, <1>4 DEF Next, Step

\* The key that was finalized.
LEMMA KeyStep ==
  ASSUME IInv, [Next]_vars
  PROVE  KeyInv'
  <1> USE WindowsAssumption DEF IInv, vars, sysVars, objVars, opVars, Types, OpInv, KeyInv, Calls,
          Certs, Making
  <1>1. CASE UNCHANGED vars
    BY <1>1
  <1>2. ASSUME NEW p \in Process, Step(p) PROVE KeyInv'
    <2>1. CASE OpenTPM(p) \/ OpenFails(p) \/ newAK(p) \/ SetProperty(p) \/ EKCerts(p) \/ EKReturn(p)
      BY <2>1 DEF OpenTPM, OpenFails, newAK, SetProperty, EKCerts, EKReturn, Return, Goto
    <2>2. CASE ProbeInfo(p)
      BY <2>2 DEF ProbeInfo, Free, Return, Goto
    <2>3. CASE CloseTPM(p)
      BY <2>3 DEF CloseTPM, Free
    <2>4. CASE AKPropertiesFails(p)
      BY <2>4 DEF AKPropertiesFails, Free, Return, Goto
    <2>5. CASE CloseAK(p)
      BY <2>5 DEF CloseAK, Free
    <2>6. CASE CloseStore(p)
      BY <2>6 DEF CloseStore, Free, Goto, NextSource
    <2>7. CASE LogReturn(p)
      BY <2>7 DEF LogReturn, Free, Return, Goto
    <2>8. CASE StoreFails(p)
      BY <2>8 DEF StoreFails, Free, Return, Goto, NextSource
    <2>9. CASE openPCP(p)
      BY <2>9 DEF openPCP, Open, Goto
    <2>10. CASE OpenStore(p)
      BY <2>10 DEF OpenStore, Open
    <2>11. CASE MeasurementLog(p)
      BY <2>11 DEF MeasurementLog, Open, Goto
    <2>12. CASE CreatePersistedKey(p)
      BY <2>12 DEF CreatePersistedKey, Open, Return, Goto, NameFree
    <2>13. CASE loadAK(p)
      BY <2>13 DEF loadAK, Open
    <2>14. CASE OpenInfo(p)
      BY <2>14 DEF OpenInfo, Return, Goto
    <2>15. CASE OpenInfoFails(p) \/ NewAKFails(p)
      BY <2>15 DEF OpenInfoFails, NewAKFails, Abandon, Return, Goto
    <2>16. CASE FinalizeKey(p)
      <3>1. store'[arg[p]] = made + 1 /\ ref'[p][hnd[p]] = <<"key", made + 1>>
        BY <2>16 DEF FinalizeKey
      <3>2. made + 1 # None
        BY <2>16, NewKey DEF FinalizeKey
      <3> QED
        BY <2>16, <3>1, <3>2 DEF FinalizeKey, Goto, NameFree
    <2>17. CASE AKProperties(p)
      BY <2>17 DEF AKProperties, Return, Goto
    <2>18. CASE Marshal(p)
      BY <2>18 DEF Marshal
    <2>19. CASE Exit(p)
      BY <2>19 DEF Exit, Return, Goto
    <2> QED
      BY <1>2, <2>1, <2>2, <2>3, <2>4, <2>5, <2>6, <2>7, <2>8, <2>9, <2>10, <2>11, <2>12, <2>13,
         <2>14, <2>15, <2>16, <2>17, <2>18, <2>19 DEF Step
  <1> QED
    BY <1>1, <1>2 DEF Next, Step

\* The version of a TPM object.
LEMMA VersionStep ==
  ASSUME IInv, [Next]_vars
  PROVE  VersionInv'
  <1> USE WindowsAssumption DEF IInv, vars, sysVars, objVars, opVars, Types, VersionInv, TPMObject
  <1>0. device' = device
    BY StoreKept
  <1>1. CASE UNCHANGED vars
    BY <1>1
  <1>2. ASSUME NEW p \in Process, Step(p) PROVE VersionInv'
    <2>1. CASE OpenTPM(p) \/ OpenFails(p) \/ newAK(p) \/ SetProperty(p) \/ EKCerts(p)
               \/ EKReturn(p) \/ ProbeInfo(p) \/ AKPropertiesFails(p) \/ CloseAK(p)
               \/ CloseStore(p) \/ LogReturn(p) \/ StoreFails(p)
      BY <2>1 DEF OpenTPM, OpenFails, newAK, SetProperty, EKCerts, EKReturn, ProbeInfo,
         AKPropertiesFails, CloseAK, CloseStore, LogReturn, StoreFails, Free, Return, Goto,
         NextSource
    <2>2. CASE CloseTPM(p)
      BY <2>2 DEF CloseTPM, Free
    <2>3. CASE openPCP(p) \/ OpenStore(p) \/ MeasurementLog(p) \/ CreatePersistedKey(p) \/ loadAK(p)
      BY <2>3 DEF openPCP, OpenStore, MeasurementLog, CreatePersistedKey, loadAK, Open, Return,
         Goto, NameFree
    <2>4. CASE OpenInfo(p)
      BY <2>4 DEF OpenInfo, Return, Goto
    <2>5. CASE OpenInfoFails(p) \/ NewAKFails(p)
      BY <2>5 DEF OpenInfoFails, NewAKFails, Abandon, Return, Goto
    <2>6. CASE FinalizeKey(p) \/ AKProperties(p) \/ Marshal(p)
      BY <2>6 DEF FinalizeKey, AKProperties, Marshal, Return, Goto, NameFree
    <2>7. CASE Exit(p)
      BY <2>7 DEF Exit, Return, Goto
    <2> QED
      BY <1>2, <2>1, <2>2, <2>3, <2>4, <2>5, <2>6, <2>7 DEF Step
  <1> QED
    BY <1>1, <1>2 DEF Next, Step

\* An AK object that stays has its key: only the object's own handle refers to
\* it, and the handles that are opened, freed or finalized are others.
LEMMA AKKept ==
  ASSUME IInv, NEW p \in Process, Step(p), NEW q \in Process, ak[q] # None, ak'[q] = ak[q]
  PROVE  ref'[q][ak[q].hnd] = ref[q][ak[q].hnd]
  <1> USE DEF IInv, Types
  <1>1. PICK g \in Handle : g = ak[q].hnd
    BY DEF AKObject
  <1>2. ref[q][g] # None /\ g = AKHandle(q)
    BY <1>1 DEF OwnInv, Owned, AKHandle
  <1> SUFFICES ref'[q][g] = ref[q][g]
    BY <1>1
  <1>3. CASE UNCHANGED ref
    BY <1>3
  <1>4. ASSUME NEW h \in Handle, NEW r, Open(p, h, r) PROVE ref'[q][g] = ref[q][g]
    BY <1>2, <1>4 DEF Open
  <1>5. ASSUME NEW h \in Handle, Free(p, h), p # q \/ h # AKHandle(q)
        PROVE  ref'[q][g] = ref[q][g]
    BY <1>2, <1>5 DEF Free
  <1>6. /\ prov[q] # AKHandle(q) /\ hnd[q] # AKHandle(q)
        /\ (tpm[q] # None => tpm[q].prov # AKHandle(q))
    BY <1>1, <1>2, WindowsAssumption DEF OwnInv, Owned, TPMHandle, AKHandle, TPMObject
  <1>7. CASE ProbeInfo(p)
    BY <1>5, <1>6, <1>7 DEF ProbeInfo, OpInv
  <1>8. CASE AKPropertiesFails(p) \/ LogReturn(p)
    BY <1>5, <1>6, <1>8 DEF AKPropertiesFails, LogReturn, OpInv
  <1>9. CASE CloseStore(p)
    BY <1>5, <1>6, <1>9 DEF CloseStore
  <1>10. CASE StoreFails(p)
    BY <1>3, <1>5, <1>6, <1>10 DEF StoreFails
  <1>11. CASE CloseTPM(p)
    BY <1>5, <1>6, <1>11 DEF CloseTPM, TPMObject
  <1>12. CASE CloseAK(p)
    BY <1>5, <1>12 DEF CloseAK, AKObject
  <1>13. CASE FinalizeKey(p)
    BY <1>13 DEF FinalizeKey, OpInv, Making
  <1>14. CASE Exit(p)
    BY <1>14 DEF Exit
  <1>15. CASE openPCP(p) \/ OpenStore(p) \/ MeasurementLog(p)
    BY <1>4, <1>15 DEF openPCP, OpenStore, MeasurementLog
  <1>16. CASE CreatePersistedKey(p) \/ loadAK(p)
    BY <1>3, <1>4, <1>16 DEF CreatePersistedKey, loadAK
  <1>17. CASE OpenTPM(p) \/ OpenFails(p) \/ newAK(p) \/ SetProperty(p) \/ EKCerts(p) \/ EKReturn(p)
              \/ OpenInfo(p) \/ OpenInfoFails(p) \/ NewAKFails(p) \/ AKProperties(p) \/ Marshal(p)
    BY <1>3, <1>17 DEF OpenTPM, OpenFails, newAK, SetProperty, EKCerts, EKReturn,
         OpenInfo, OpenInfoFails, NewAKFails, Abandon, AKProperties, Marshal
  <1> QED
    BY <1>7, <1>8, <1>9, <1>10, <1>11, <1>12, <1>13, <1>14, <1>15, <1>16, <1>17 DEF Step

\* The AK objects.
LEMMA AKStep ==
  ASSUME IInv, [Next]_vars
  PROVE  AKInv'
  <1> USE DEF IInv, Types
  <1>1. CASE UNCHANGED vars
    BY <1>1 DEF vars, sysVars, objVars, AKInv
  <1>2. ASSUME NEW p \in Process, Step(p), NEW q \in Process, ak'[q] # None
        PROVE  /\ store'[ak'[q].name] = ak'[q].key
               /\ ref'[q][ak'[q].hnd] = <<"key", ak'[q].key>>
    <2>1. CASE ak'[q] = ak[q]
      <3>1. store[ak[q].name] = ak[q].key /\ ak[q].name \in Name /\ ak[q].key # None
        BY <1>2, <2>1, WindowsAssumption DEF AKInv, AKObject
      <3>2. store'[ak[q].name] = store[ak[q].name]
        BY <3>1, StoreKept
      <3>3. ref'[q][ak[q].hnd] = ref[q][ak[q].hnd]
        BY <1>2, <2>1, AKKept
      <3> QED
        BY <1>2, <2>1, <3>1, <3>2, <3>3 DEF AKInv
    <2>2. CASE AKProperties(p) /\ q = p
      <3>1. store[arg[p]] # None /\ ref[p][hnd[p]] = <<"key", store[arg[p]]>>
        BY <2>2 DEF AKProperties, KeyInv
      <3>2. store' = store /\ ref' = ref
        BY <2>2 DEF AKProperties, sysVars
      <3>3. ak'[q].name = arg[p] /\ ak'[q].hnd = hnd[p] /\ ak'[q].key = ref[p][hnd[p]][2]
        BY <2>2 DEF AKProperties
      <3> QED
        BY <2>2, <3>1, <3>2, <3>3
    <2>3. CASE loadAK(p) /\ q = p
      <3>1. PICK b \in blobs, h \in Handle :
               /\ b.version = tpm[p].version
               /\ b.encoding = "os"
               /\ Open(p, h, <<"key", store[b.name]>>)
               /\ ak' = [ak EXCEPT ![p] = [hnd |-> h, name |-> b.name,
                                           version |-> b.version, key |-> b.key]]
        BY <2>3 DEF loadAK
      <3>2. store[b.name] = b.key
        BY <2>3, <3>1 DEF loadAK, BlobInv, VersionInv
      <3>3. store' = store
        BY <2>3 DEF loadAK, sysVars
      <3>4. ref'[p][h] = <<"key", store[b.name]>>
        BY <3>1 DEF Open
      <3>5. ak'[q].name = b.name /\ ak'[q].hnd = h /\ ak'[q].key = b.key
        BY <2>3, <3>1
      <3> QED
        BY <2>3, <3>2, <3>3, <3>4, <3>5
    <2>4. ak'[q] = ak[q] \/ (q = p /\ (AKProperties(p) \/ loadAK(p)))
      BY <1>2 DEF Step, OpenTPM, openPCP, OpenFails, ProbeInfo, OpenInfo, OpenInfoFails, Abandon,
         CloseTPM, newAK, CreatePersistedKey, SetProperty, FinalizeKey, NewAKFails, AKProperties,
         AKPropertiesFails, Marshal, loadAK, CloseAK, EKCerts, OpenStore, CloseStore, StoreFails,
         EKReturn, MeasurementLog, LogReturn, Exit, objVars
    <2> QED
      BY <2>1, <2>2, <2>3, <2>4
  <1> QED
    BY <1>1, <1>2 DEF Next, Step, AKInv

\* The stored keys.
LEMMA BlobStep ==
  ASSUME IInv, [Next]_vars
  PROVE  BlobInv'
  <1> USE DEF IInv, Types
  <1>1. \A b \in blobs : b.name \in Name /\ b.key # None
    BY WindowsAssumption DEF Blob
  <1>2. CASE UNCHANGED blobs
    BY <1>1, <1>2, StoreKept DEF BlobInv
  <1>3. ASSUME NEW p \in Process, Marshal(p) PROVE BlobInv'
    <2>1. store[ak[p].name] = ak[p].key
      BY <1>3 DEF Marshal, AKInv
    <2> QED
      BY <1>3, <2>1 DEF Marshal, BlobInv
  <1>4. ASSUME NEW p \in Process, Step(p), ~Marshal(p) PROVE UNCHANGED blobs
    BY <1>4 DEF Step, OpenTPM, openPCP, OpenFails, ProbeInfo, OpenInfo, OpenInfoFails, Abandon,
         CloseTPM, newAK, CreatePersistedKey, SetProperty, FinalizeKey, NewAKFails, AKProperties,
         AKPropertiesFails, loadAK, CloseAK, EKCerts, OpenStore, CloseStore, StoreFails, EKReturn,
         MeasurementLog, LogReturn, Exit, sysVars
  <1>5. CASE UNCHANGED vars
    BY <1>2, <1>5 DEF vars, sysVars
  <1> QED
    BY <1>2, <1>3, <1>4, <1>5 DEF Next, Step

\* A handle that is opened gets an owner that had none.
LEMMA OwnOpen ==
  ASSUME NEW r \in [Handle -> {None} \cup Referent], NEW x \in Referent, NEW g \in Handle, r[g] = None,
         NEW t \in {None} \cup Handle, NEW a \in {None} \cup Handle, NEW v \in {None} \cup Handle,
         NEW h \in {None} \cup Handle, NEW l \in SUBSET Handle, Owned(r, t, a, v, h, l)
  PROVE  LET s == [r EXCEPT ![g] = x] IN
           /\ v = None => Owned(s, t, a, g, h, l)
           /\ h = None => Owned(s, t, a, v, g, l)
           /\ a = None => Owned(s, t, g, v, h, l)
  BY WindowsAssumption DEF Owned

\* A handle that its owner frees is free.
LEMMA OwnFree ==
  ASSUME NEW r \in [Handle -> {None} \cup Referent],
         NEW t \in {None} \cup Handle, NEW a \in {None} \cup Handle, NEW v \in {None} \cup Handle,
         NEW h \in {None} \cup Handle, NEW l \in SUBSET Handle, Owned(r, t, a, v, h, l)
  PROVE  /\ \A s : s = [r EXCEPT ![t] = None] => Owned(s, None, a, v, h, l)
         /\ \A s : s = [r EXCEPT ![a] = None] => Owned(s, t, None, v, h, l)
         /\ \A s : s = [r EXCEPT ![v] = None] => Owned(s, t, a, None, h, l)
         /\ \A s : s = [r EXCEPT ![h] = None] => Owned(s, t, a, v, None, l)
  BY WindowsAssumption DEF Owned

\* A handle that passes from the operation to an object, or is left behind.
LEMMA OwnPass ==
  ASSUME NEW r \in [Handle -> {None} \cup Referent],
         NEW t \in {None} \cup Handle, NEW a \in {None} \cup Handle, NEW v \in {None} \cup Handle,
         NEW h \in {None} \cup Handle, NEW l \in SUBSET Handle, Owned(r, t, a, v, h, l)
  PROVE  /\ t = None => Owned(r, v, a, None, h, l)
         /\ a = None => Owned(r, t, h, v, None, l)
         /\ v # None => Owned(r, t, a, None, h, l \cup {v})
         /\ h # None => Owned(r, t, a, v, None, l \cup {h})
  BY WindowsAssumption DEF Owned

\* The AK object of a key whose properties could be read.
LEMMA AKObjectMade ==
  ASSUME IInv, NEW p \in Process, AKProperties(p)
  PROVE  ak'[p] \in AKObject
  <1> USE DEF IInv, Types
  <1>1. hnd[p] \in Handle /\ arg[p] \in Name /\ tpm[p] \in TPMObject
    BY DEF AKProperties, OpInv
  <1>2. ref[p][hnd[p]][2] = store[arg[p]] /\ store[arg[p]] \in Key
    BY <1>1, StoredKey DEF AKProperties, KeyInv
  <1>3. [hnd |-> hnd[p], name |-> arg[p], version |-> tpm[p].version, key |-> ref[p][hnd[p]][2]]
          \in AKObject
    BY <1>1, <1>2 DEF AKObject, TPMObject
  <1> QED
    BY <1>3 DEF AKProperties

\* The owners of the handles.
LEMMA OwnStep ==
  ASSUME IInv, [Next]_vars
  PROVE  OwnInv'
  <1> USE DEF IInv, Types
  <1>1. CASE UNCHANGED vars
    BY <1>1 DEF vars, objVars, opVars, OwnInv, TPMHandle, AKHandle
  <1>2. ASSUME NEW p \in Process, Step(p) PROVE OwnInv'
    <2> DEFINE O(q) == Owned(ref[q], TPMHandle(q), AKHandle(q), prov[q], hnd[q], lost[q])
    <2>1. ASSUME NEW q \in Process, q # p
          PROVE  /\ ref'[q] = ref[q] /\ tpm'[q] = tpm[q] /\ ak'[q] = ak[q]
                 /\ prov'[q] = prov[q] /\ hnd'[q] = hnd[q] /\ lost'[q] = lost[q]
      BY <1>2, <2>1 DEF Step, OpenTPM, openPCP, OpenFails, ProbeInfo, OpenInfo, OpenInfoFails,
         Abandon,
           CloseTPM, newAK, CreatePersistedKey, SetProperty, FinalizeKey, NewAKFails, AKProperties,
           AKPropertiesFails, Marshal, loadAK, CloseAK, EKCerts, OpenStore, CloseStore, StoreFails,
           EKReturn, MeasurementLog, LogReturn, Exit, Open, Free, Return, objVars, opVars
    <2>2. ASSUME NEW q \in Process, q # p PROVE O(q)'
      BY <2>1, <2>2 DEF OwnInv, TPMHandle, AKHandle
    <2> SUFFICES O(p)'
      BY <2>2 DEF OwnInv, TPMHandle, AKHandle
    <2>3. /\ ref[p] \in [Handle -> {None} \cup Referent] /\ lost[p] \in SUBSET Handle
          /\ TPMHandle(p) \in {None} \cup Handle /\ AKHandle(p) \in {None} \cup Handle
          /\ prov[p] \in {None} \cup Handle /\ hnd[p] \in {None} \cup Handle /\ O(p)
      BY DEF OwnInv, TPMObject, AKObject, TPMHandle, AKHandle
    <2>4. CASE OpenTPM(p) \/ newAK(p) \/ SetProperty(p) \/ EKCerts(p) \/ Marshal(p)
      <3>1. /\ ref'[p] = ref[p] /\ TPMHandle(p)' = TPMHandle(p) /\ AKHandle(p)' = AKHandle(p)
            /\ prov'[p] = prov[p] /\ hnd'[p] = hnd[p] /\ lost'[p] = lost[p]
        BY <2>4 DEF OpenTPM, newAK, SetProperty, EKCerts, Marshal, objVars, opVars, TPMHandle,
           AKHandle
      <3> QED
        BY <2>3, <3>1
    <2>5. CASE OpenFails(p) \/ EKReturn(p)
      <3>1. /\ ref'[p] = ref[p] /\ TPMHandle(p)' = TPMHandle(p) /\ AKHandle(p)' = AKHandle(p)
            /\ prov'[p] = prov[p] /\ hnd'[p] = hnd[p] /\ lost'[p] = lost[p]
        BY <2>5 DEF OpenFails, EKReturn, Return, OpInv, Certs, Making, objVars, TPMHandle, AKHandle
      <3> QED
        BY <2>3, <3>1
    <2>6. CASE openPCP(p)
      <3>1. prov[p] = None
        BY <2>6 DEF openPCP, OpInv, Certs, Making
      <3>2. PICK h \in Handle : Open(p, h, <<"provider", 0>>) /\ prov' = [prov EXCEPT ![p] = h]
        BY <2>6 DEF openPCP
      <3>3. /\ ref'[p] = [ref[p] EXCEPT ![h] = <<"provider", 0>>]
            /\ TPMHandle(p)' = TPMHandle(p)
            /\ AKHandle(p)' = AKHandle(p)
            /\ prov'[p] = h /\ hnd'[p] = hnd[p] /\ lost'[p] = lost[p]
        BY <2>6, <3>2 DEF openPCP, Open, objVars, TPMHandle, AKHandle
      <3>4. Owned(ref'[p], TPMHandle(p), AKHandle(p), h, hnd[p], lost[p])
        BY <2>3, <3>1, <3>2, <3>3, OwnOpen, Referents DEF Open
      <3> QED
        BY <3>3, <3>4
    <2>7. CASE OpenStore(p)
      <3>1. hnd[p] = None
        BY <2>7 DEF OpenStore, OpInv, Certs, Making
      <3>2. PICK h \in Handle : Open(p, h, <<"store", 0>>) /\ hnd' = [hnd EXCEPT ![p] = h]
        BY <2>7 DEF OpenStore
      <3>3. /\ ref'[p] = [ref[p] EXCEPT ![h] = <<"store", 0>>]
            /\ TPMHandle(p)' = TPMHandle(p)
            /\ AKHandle(p)' = AKHandle(p)
            /\ prov'[p] = prov[p] /\ hnd'[p] = h /\ lost'[p] = lost[p]
        BY <2>7, <3>2 DEF OpenStore, Open, objVars, TPMHandle, AKHandle
      <3>4. Owned(ref'[p], TPMHandle(p), AKHandle(p), prov[p], h, lost[p])
        BY <2>3, <3>1, <3>2, <3>3, OwnOpen, Referents DEF Open
      <3> QED
        BY <3>3, <3>4
    <2>8. CASE MeasurementLog(p)
      <3>1. hnd[p] = None
        BY <2>8 DEF MeasurementLog, OpInv, Certs, Making
      <3>2. PICK h \in Handle : Open(p, h, <<"context", 0>>) /\ hnd' = [hnd EXCEPT ![p] = h]
        BY <2>8 DEF MeasurementLog
      <3>3. /\ ref'[p] = [ref[p] EXCEPT ![h] = <<"context", 0>>]
            /\ TPMHandle(p)' = TPMHandle(p)
            /\ AKHandle(p)' = AKHandle(p)
            /\ prov'[p] = prov[p] /\ hnd'[p] = h /\ lost'[p] = lost[p]
        BY <2>8, <3>2 DEF MeasurementLog, Open, objVars, TPMHandle, AKHandle
      <3>4. Owned(ref'[p], TPMHandle(p), AKHandle(p), prov[p], h, lost[p])
        BY <2>3, <3>1, <3>2, <3>3, OwnOpen, Referents DEF Open
      <3> QED
        BY <3>3, <3>4
    <2>9. CASE CreatePersistedKey(p)
      <3>1. hnd[p] = None /\ prov[p] = None
        BY <2>9 DEF CreatePersistedKey, OpInv, Certs, Making
      <3>2. CASE UNCHANGED ref /\ Return(p)
        <4>1. /\ ref'[p] = ref[p] /\ TPMHandle(p)' = TPMHandle(p) /\ AKHandle(p)' = AKHandle(p)
            /\ prov'[p] = prov[p] /\ hnd'[p] = hnd[p] /\ lost'[p] = lost[p]
          BY <2>9, <3>1, <3>2 DEF CreatePersistedKey, Return, objVars, TPMHandle, AKHandle
        <4> QED
          BY <2>3, <4>1
      <3>3. ASSUME NEW h \in Handle, Open(p, h, <<"key", 0>>), hnd' = [hnd EXCEPT ![p] = h],
                   UNCHANGED prov
            PROVE  O(p)'
        <4>1. /\ ref'[p] = [ref[p] EXCEPT ![h] = <<"key", 0>>]
              /\ TPMHandle(p)' = TPMHandle(p)
              /\ AKHandle(p)' = AKHandle(p)
            /\ prov'[p] = prov[p] /\ hnd'[p] = h /\ lost'[p] = lost[p]
          BY <2>9, <3>3 DEF CreatePersistedKey, Open, objVars, TPMHandle, AKHandle
        <4>2. Owned(ref'[p], TPMHandle(p), AKHandle(p), prov[p], h, lost[p])
          BY <2>3, <3>1, <3>3, <4>1, OwnOpen, Referents, StoredKey DEF Open
        <4> QED
          BY <4>1, <4>2
      <3> QED
        BY <2>9, <3>2, <3>3 DEF CreatePersistedKey
    <2>10. CASE loadAK(p)
      <3>1. PICK b \in blobs, h \in Handle :
               /\ store[b.name] # None
               /\ Open(p, h, <<"key", store[b.name]>>)
               /\ ak' = [ak EXCEPT ![p] = [hnd |-> h, name |-> b.name,
                                           version |-> b.version, key |-> b.key]]
        BY <2>10 DEF loadAK
      <3>2. AKHandle(p) = None /\ <<"key", store[b.name]>> \in Referent
        BY <2>10, <3>1, StoredKey, Referents DEF loadAK, Blob, AKHandle
      <3>3. ref'[p] = [ref[p] EXCEPT ![h] = <<"key", store[b.name]>>]
        BY <3>1 DEF Open
      <3>4. AKHandle(p)' = h
        <4>1. ak'[p] \in AKObject /\ ak'[p].hnd = h
          BY <3>1 DEF AKObject, Blob
        <4> QED
          BY <4>1, WindowsAssumption DEF AKHandle
      <3>5. /\ TPMHandle(p)' = TPMHandle(p) /\ prov'[p] = prov[p] /\ hnd'[p] = hnd[p]
            /\ lost'[p] = lost[p]
        BY <2>10 DEF loadAK, opVars, TPMHandle
      <3>6. Owned(ref'[p], TPMHandle(p), h, prov[p], hnd[p], lost[p])
        BY <2>3, <3>1, <3>2, <3>3, OwnOpen DEF Open
      <3> QED
        BY <3>4, <3>5, <3>6
    <2>11. CASE ProbeInfo(p)
      <3>1. prov[p] \in Handle /\ hnd[p] = None
        BY <2>11 DEF ProbeInfo, OpInv, Certs, Making, TPMObject, AKObject, TPMHandle, AKHandle
      <3>2. /\ ref'[p] = [ref[p] EXCEPT ![prov[p]] = None]
            /\ TPMHandle(p)' = TPMHandle(p)
            /\ AKHandle(p)' = AKHandle(p)
            /\ prov'[p] = None /\ hnd'[p] = hnd[p] /\ lost'[p] = lost[p]
        BY <2>11, <3>1 DEF ProbeInfo, Free, Return, objVars, TPMHandle, AKHandle
      <3>3. Owned(ref'[p], TPMHandle(p), AKHandle(p), None, hnd[p], lost[p])
        BY <2>3, <3>2, OwnFree
      <3> QED
        BY <3>1, <3>2, <3>3
    <2>12. CASE AKPropertiesFails(p) \/ LogReturn(p)
      <3>1. hnd[p] \in Handle /\ prov[p] = None
        BY <2>12 DEF AKPropertiesFails, LogReturn, OpInv, Certs, Making, TPMObject, AKObject,
           TPMHandle, AKHandle
      <3>2. /\ ref'[p] = [ref[p] EXCEPT ![hnd[p]] = None]
            /\ TPMHandle(p)' = TPMHandle(p)
            /\ AKHandle(p)' = AKHandle(p)
            /\ prov'[p] = prov[p] /\ hnd'[p] = None /\ lost'[p] = lost[p]
        BY <2>12, <3>1 DEF AKPropertiesFails, LogReturn, Free, Return, objVars, TPMHandle, AKHandle
      <3>3. Owned(ref'[p], TPMHandle(p), AKHandle(p), prov[p], None, lost[p])
        BY <2>3, <3>2, OwnFree
      <3> QED
        BY <3>1, <3>2, <3>3
    <2>13. CASE CloseStore(p)
      <3>1. hnd[p] \in Handle
        BY <2>13 DEF CloseStore, OpInv, Certs, Making, TPMObject, AKObject, TPMHandle, AKHandle
      <3>2. /\ ref'[p] = [ref[p] EXCEPT ![hnd[p]] = None]
            /\ TPMHandle(p)' = TPMHandle(p)
            /\ AKHandle(p)' = AKHandle(p)
            /\ prov'[p] = prov[p] /\ hnd'[p] = None /\ lost'[p] = lost[p]
        BY <2>13, <3>1 DEF CloseStore, Free, objVars, TPMHandle, AKHandle
      <3>3. Owned(ref'[p], TPMHandle(p), AKHandle(p), prov[p], None, lost[p])
        BY <2>3, <3>2, OwnFree
      <3> QED
        BY <3>1, <3>2, <3>3
    <2>14. CASE CloseTPM(p)
      <3>1. TPMHandle(p) = tpm[p].prov /\ TPMHandle(p) \in Handle
        BY <2>14 DEF CloseTPM, OpInv, Certs, Making, TPMObject, AKObject, TPMHandle, AKHandle
      <3>2. /\ ref'[p] = [ref[p] EXCEPT ![TPMHandle(p)] = None]
            /\ TPMHandle(p)' = None
            /\ AKHandle(p)' = AKHandle(p)
            /\ prov'[p] = prov[p] /\ hnd'[p] = hnd[p] /\ lost'[p] = lost[p]
        BY <2>14, <3>1 DEF CloseTPM, Free, opVars, TPMHandle, AKHandle
      <3>3. Owned(ref'[p], None, AKHandle(p), prov[p], hnd[p], lost[p])
        BY <2>3, <3>2, OwnFree
      <3> QED
        BY <3>1, <3>2, <3>3
    <2>15. CASE CloseAK(p)
      <3>1. AKHandle(p) = ak[p].hnd /\ AKHandle(p) \in Handle
        BY <2>15 DEF CloseAK, OpInv, Certs, Making, TPMObject, AKObject, TPMHandle, AKHandle
      <3>2. /\ ref'[p] = [ref[p] EXCEPT ![AKHandle(p)] = None]
            /\ TPMHandle(p)' = TPMHandle(p)
            /\ AKHandle(p)' = None
            /\ prov'[p] = prov[p] /\ hnd'[p] = hnd[p] /\ lost'[p] = lost[p]
        BY <2>15, <3>1 DEF CloseAK, Free, opVars, TPMHandle, AKHandle
      <3>3. Owned(ref'[p], TPMHandle(p), None, prov[p], hnd[p], lost[p])
        BY <2>3, <3>2, OwnFree
      <3> QED
        BY <3>1, <3>2, <3>3
    <2>16. CASE StoreFails(p)
      <3>1. prov[p] = None /\ prov'[p] = None /\ hnd'[p] = None
        BY <2>16 DEF StoreFails, OpInv, Return
      <3>2. TPMHandle(p)' = TPMHandle(p) /\ AKHandle(p)' = AKHandle(p) /\ lost'[p] = lost[p]
        BY <2>16 DEF StoreFails, objVars, TPMHandle, AKHandle
      <3>3. CASE hnd[p] = None
        <4>1. ref'[p] = ref[p]
          BY <2>16, <3>3 DEF StoreFails
        <4> QED
          BY <2>3, <3>1, <3>2, <3>3, <4>1
      <3>4. CASE hnd[p] # None
        <4>1. ref'[p] = [ref[p] EXCEPT ![hnd[p]] = None]
          BY <2>16, <3>4 DEF StoreFails, Free
        <4>2. Owned(ref'[p], TPMHandle(p), AKHandle(p), prov[p], None, lost[p])
          BY <2>3, <4>1, OwnFree
        <4> QED
          BY <3>1, <3>2, <4>2
      <3> QED
        BY <3>3, <3>4
    <2>17. CASE OpenInfo(p)
      <3>1. TPMHandle(p) = None /\ prov[p] \in Handle /\ hnd[p] = None
        BY <2>17 DEF OpenInfo, OpInv, Certs, Making, TPMHandle
      <3>2. /\ ref'[p] = ref[p] /\ AKHandle(p)' = AKHandle(p) /\ prov'[p] = None
            /\ hnd'[p] = None /\ lost'[p] = lost[p]
        BY <2>17 DEF OpenInfo, Return, AKHandle
      <3>3. TPMHandle(p)' = prov[p]
        <4>1. tbsConvertVersion(device) \in Version
          BY <2>17 DEF OpenInfo, OpInv
        <4>2. tpm'[p] \in TPMObject /\ tpm'[p].prov = prov[p]
          BY <2>17, <3>1, <4>1 DEF OpenInfo, TPMObject
        <4> QED
          BY <4>2, WindowsAssumption DEF TPMHandle
      <3>4. Owned(ref[p], prov[p], AKHandle(p), None, hnd[p], lost[p])
        BY <2>3, <3>1, OwnPass
      <3> QED
        BY <3>1, <3>2, <3>3, <3>4
    <2>18. CASE OpenInfoFails(p)
      <3>1. prov[p] \in Handle /\ hnd[p] = None
        BY <2>18 DEF OpenInfoFails, OpInv, Certs, Making
      <3>2. /\ ref'[p] = ref[p] /\ TPMHandle(p)' = TPMHandle(p) /\ AKHandle(p)' = AKHandle(p)
            /\ prov'[p] = None /\ hnd'[p] = hnd[p] /\ lost'[p] = lost[p] \cup {prov[p]}
        BY <2>18, <3>1 DEF OpenInfoFails, Abandon, Return, objVars, TPMHandle, AKHandle
      <3>3. Owned(ref[p], TPMHandle(p), AKHandle(p), None, hnd[p], lost[p] \cup {prov[p]})
        BY <2>3, <3>1, OwnPass, WindowsAssumption
      <3> QED
        BY <3>1, <3>2, <3>3
    <2>19. CASE NewAKFails(p)
      <3>1. hnd[p] \in Handle /\ prov[p] = None
        BY <2>19 DEF NewAKFails, OpInv, Certs, Making
      <3>2. /\ ref'[p] = ref[p] /\ TPMHandle(p)' = TPMHandle(p) /\ AKHandle(p)' = AKHandle(p)
            /\ prov'[p] = prov[p] /\ hnd'[p] = None /\ lost'[p] = lost[p] \cup {hnd[p]}
        BY <2>19, <3>1 DEF NewAKFails, Abandon, Return, objVars, TPMHandle, AKHandle
      <3>3. Owned(ref[p], TPMHandle(p), AKHandle(p), prov[p], None, lost[p] \cup {hnd[p]})
        BY <2>3, <3>1, OwnPass, WindowsAssumption
      <3> QED
        BY <3>1, <3>2, <3>3
    <2>20. CASE FinalizeKey(p)
      <3>1. hnd[p] \in Handle /\ <<"key", made + 1>> # None
        BY <2>20, NewKey, Referents, WindowsAssumption DEF FinalizeKey, OpInv, Making
      <3>2. /\ ref'[p] = [ref[p] EXCEPT ![hnd[p]] = <<"key", made + 1>>]
            /\ TPMHandle(p)' = TPMHandle(p)
            /\ AKHandle(p)' = AKHandle(p)
            /\ prov'[p] = prov[p] /\ hnd'[p] = hnd[p] /\ lost'[p] = lost[p]
        BY <2>20 DEF FinalizeKey, objVars, TPMHandle, AKHandle
      <3>3. \A g \in Handle : ref'[p][g] # None <=> ref[p][g] # None
        BY <2>3, <3>1, <3>2 DEF Owned
      <3> QED
        BY <2>3, <3>2, <3>3 DEF Owned
    <2>21. CASE AKProperties(p)
      <3>1. AKHandle(p) = None /\ hnd[p] \in Handle /\ prov[p] = None
        BY <2>21 DEF AKProperties, OpInv, Certs, Making, AKHandle
      <3>2. /\ ref'[p] = ref[p] /\ TPMHandle(p)' = TPMHandle(p) /\ prov'[p] = None
            /\ hnd'[p] = None /\ lost'[p] = lost[p]
        BY <2>21 DEF AKProperties, Return, TPMHandle
      <3>3. AKHandle(p)' = hnd[p]
        <4>1. ak'[p] # None
          BY <2>21, AKObjectMade, WindowsAssumption
        <4> QED
          BY <2>21, <4>1 DEF AKProperties, AKHandle
      <3>4. Owned(ref[p], TPMHandle(p), hnd[p], prov[p], None, lost[p])
        BY <2>3, <3>1, OwnPass
      <3> QED
        BY <3>1, <3>2, <3>3, <3>4
    <2>22. CASE Exit(p)
      BY <2>22, WindowsAssumption DEF Exit, Return, Owned, TPMHandle, AKHandle
    <2> QED
      BY <1>2, <2>4, <2>5, <2>6, <2>7, <2>8, <2>9, <2>10, <2>11, <2>12, <2>13, <2>14, <2>15, <2>16,
         <2>17, <2>18, <2>19, <2>20, <2>21, <2>22 DEF Step
  <1> QED
    BY <1>1, <1>2 DEF Next, Step

-----------------------------------------------------------------------------
\* The invariant holds at first.
LEMMA InitIInv == Init => IInv
  <1> SUFFICES ASSUME Init PROVE IInv
    OBVIOUS
  <1>1. Types
    BY WindowsAssumption DEF Init, Types, Calls, Key
  <1>2. OpInv /\ KeyInv
    BY DEF Init, OpInv, KeyInv, Certs, Making
  <1>3. VersionInv /\ AKInv
    BY DEF Init, VersionInv, AKInv
  <1>4. BlobInv
    BY DEF Init, BlobInv
  <1>5. OwnInv
    BY WindowsAssumption DEF Init, OwnInv, Owned, TPMHandle, AKHandle
  <1> QED
    BY <1>1, <1>2, <1>3, <1>4, <1>5 DEF IInv

\* Every step keeps the invariant.
LEMMA NextIInv ==
  ASSUME IInv, [Next]_vars
  PROVE  IInv'
  BY TypesStep, OpStep, KeyStep, VersionStep, AKStep, BlobStep, OwnStep DEF IInv

\* The invariant holds in every state.
LEMMA Invariance == Spec => []IInv
  BY InitIInv, NextIInv, PTL DEF Spec

\* The owners of ObjectsAccounted are the ones of Owned.
LEMMA OwnedIsAccounted == IInv => ObjectsAccounted
  <1> SUFFICES ASSUME IInv, NEW p \in Process
               PROVE  LET use == InUse(p) IN
                        /\ {h \in Handle : ref[p][h] # None} = UNION {use[i] : i \in DOMAIN use}
                        /\ \A i, j \in DOMAIN use : i # j => use[i] \cap use[j] = {}
    BY DEF ObjectsAccounted
  <1> DEFINE use == InUse(p)
             T == {TPMHandle(p)} \ {None}
             A == {AKHandle(p)} \ {None}
             P == {prov[p]} \ {None}
             H == {hnd[p]} \ {None}
  <1>1. T \subseteq Handle /\ A \subseteq Handle /\ P \subseteq Handle /\ H \subseteq Handle
        /\ lost[p] \subseteq Handle
    BY DEF IInv, Types, TPMHandle, AKHandle, TPMObject, AKObject
  <1>2. T = (IF tpm[p] = None THEN {} ELSE {tpm[p].prov})
        /\ A = (IF ak[p] = None THEN {} ELSE {ak[p].hnd})
    BY WindowsAssumption DEF IInv, Types, TPMHandle, AKHandle, TPMObject, AKObject
  <1>3. use = [tpm |-> T, ak |-> A, prov |-> P, hnd |-> H, lost |-> lost[p]]
    BY <1>2 DEF InUse
  <1>4. Owned(ref[p], TPMHandle(p), AKHandle(p), prov[p], hnd[p], lost[p])
    BY DEF IInv, OwnInv
  <1>5. {h \in Handle : ref[p][h] # None} = T \cup A \cup P \cup H \cup lost[p]
    BY <1>1, <1>4, WindowsAssumption DEF Owned
  <1>6. /\ T \cap A = {} /\ T \cap P = {} /\ T \cap H = {} /\ T \cap lost[p] = {}
        /\ A \cap P = {} /\ A \cap H = {} /\ A \cap lost[p] = {}
        /\ P \cap H = {} /\ P \cap lost[p] = {} /\ H \cap lost[p] = {}
    BY <1>4 DEF Owned
  <1> HIDE DEF use, T, A, P, H
  <1>7. DOMAIN use = {"tpm", "ak", "prov", "hnd", "lost"}
    BY <1>3
  <1>8. /\ use["tpm"] = T /\ use["ak"] = A /\ use["prov"] = P /\ use["hnd"] = H
        /\ use["lost"] = lost[p]
    BY <1>3
  <1>9. UNION {use[i] : i \in DOMAIN use} = T \cup A \cup P \cup H \cup lost[p]
    BY <1>7, <1>8
  <1>10. \A i, j \in DOMAIN use : i # j => use[i] \cap use[j] = {}
    BY <1>6, <1>7, <1>8
  <1> QED
    BY <1>5, <1>9, <1>10 DEF use

\* Every handle that a process has open at the Platform Crypto Provider, the
\* certificate stores or the TBS belongs to its TPM object, its AK object or the
\* running operation, to exactly one of them, or was lost by the returns of
\* openTPM and winPCP.NewAK that close nothing; no owner has a freed handle.
THEOREM WindowsHandlesAccounted == Spec => []ObjectsAccounted
  BY Invariance, OwnedIsAccounted, PTL

\* A key that Marshal stored is the key its name gives to LoadKeyByName, and
\* the public part of every AK object is the one of the key its handle is for.
THEOREM WindowsKeysLoadable == Spec => []StoredKeysLoadable
  <1>1. IInv => StoredKeysLoadable
    BY DEF IInv, BlobInv, AKInv, StoredKeysLoadable
  <1> QED
    BY <1>1, Invariance, PTL

\* What a name gives to LoadKeyByName, it gives for good: no step, of whatever
\* process, replaces or deletes a stored key, and the TPM keeps its version.
THEOREM WindowsStoreKept ==
  Spec => [][/\ device' = device
             /\ \A n \in Name : store[n] # None => store'[n] = store[n]]_vars
  <1>1. IInv /\ [Next]_vars => [/\ device' = device
                                /\ \A n \in Name : store[n] # None => store'[n] = store[n]]_vars
    BY StoreKept
  <1> QED
    BY <1>1, Invariance, PTL DEF Spec
=============================================================================
