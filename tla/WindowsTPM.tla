----------------------------- MODULE WindowsTPM -----------------------------
(***************************************************************************)
(* The library on Windows (tpm_windows.go, pcp_windows.go, key_windows.go):*)
(* processes that use the TPM through the Platform Crypto Provider, and    *)
(* what they leave open or stored there on every path.  A step is one call *)
(* of NCrypt, crypt32 or TBS, and every such call may fail, except the one *)
(* that frees a handle.                                                    *)
(*                                                                         *)
(* An attestation key is stored by the provider, under a random name, for  *)
(* good: nothing in the library calls DeleteKey.  What only reads (PCRs,   *)
(* Info, Quote, Certify, ActivateCredential) uses the handles of the TPM   *)
(* and the AK and neither opens nor frees one.                             *)
(***************************************************************************)
EXTENDS Integers, FiniteSets

CONSTANTS
  Process,   (* processes                                                   *)
  Handle,    (* the handles a process can have open at once                 *)
  Name,      (* the names rand.Read can give a key                          *)
  MaxKeys,   (* bound on the keys that are finalized                        *)
  Foreign,   (* keys that applications stored on another OS or TPM          *)
  None

Version == {"1.2", "2.0"}
Key == 0..MaxKeys

(* A serializedKey; encoding "os" is keyEncodingOSManaged. *)
Blob == [encoding : {"os", "encrypted"}, version : Version, name : Name, key : Key]

(* What a handle refers to: the provider, a certificate store, a TBS       *)
(* context or a key, 0 until it is finalized.                              *)
Referent == {"provider", "store", "context"} \X {0} \cup {"key"} \X Key

\* A windowsTPM, with its provider, and a windowsKey20 or windowsKey12.
TPMObject == [prov : Handle, version : Version]
AKObject == [hnd : Handle, name : Name, version : Version, key : Key]

ASSUME WindowsAssumption ==
  /\ MaxKeys \in Nat
  /\ Foreign \subseteq {b \in Blob : b.key = 0}
  /\ None \notin Handle \cup Referent \cup Name \cup Key \cup TPMObject \cup AKObject

VARIABLES
  device,  \* the version the TBS reports for the TPM, 3 if it is unknown
  store,   \* the key the provider has under every name, or None
  made,    \* how many keys were finalized
  blobs,   \* the keys that were stored by applications (Marshal)
  ref,     \* what every handle of every process refers to, None if it is free
  tpm,     \* the TPM object of the process, or None
  ak,      \* the AK object of the process, or None
  pc,      \* the call the process makes next, "idle" outside the library
  prov,    \* the provider handle of the running operation, or None
  hnd,     \* its other handle, or None
  arg,     \* the version OpenTPM wants or the name of the new key, or None
  found,   \* whether EKCerts has a certificate already
  lost     \* the handles that no object and no operation has any more

sysVars == <<device, store, made, blobs>>
objVars == <<tpm, ak>>
opVars  == <<pc, prov, hnd, arg, found>>
vars    == <<sysVars, ref, objVars, opVars, lost>>

tbsConvertVersion(d) == IF d = 1 THEN "1.2" ELSE IF d = 2 THEN "2.0" ELSE None

\* An application may have keys of another OS or of a TPM of another version; a
\* key of another TPM that nothing tells from its own is a mistake of its own.
Init ==
  /\ device \in 1..3
  /\ store = [n \in Name |-> None]
  /\ made = 0
  /\ blobs = {b \in Foreign : b.encoding # "os" \/ b.version # tbsConvertVersion(device)}
  /\ ref = [p \in Process |-> [h \in Handle |-> None]]
  /\ tpm = [p \in Process |-> None]
  /\ ak = [p \in Process |-> None]
  /\ pc = [p \in Process |-> "idle"]
  /\ prov = [p \in Process |-> None]
  /\ hnd = [p \in Process |-> None]
  /\ arg = [p \in Process |-> None]
  /\ found = [p \in Process |-> FALSE]
  /\ lost = [p \in Process |-> {}]

-----------------------------------------------------------------------------
Goto(p, l) == pc' = [pc EXCEPT ![p] = l]

\* The operation returns; what it knew is forgotten.
Return(p) ==
  /\ Goto(p, "idle")
  /\ prov' = [prov EXCEPT ![p] = None]
  /\ hnd' = [hnd EXCEPT ![p] = None]
  /\ arg' = [arg EXCEPT ![p] = None]
  /\ found' = [found EXCEPT ![p] = FALSE]

\* A handle that was free refers to r.
Open(p, h, r) ==
  /\ ref[p][h] = None
  /\ ref' = [ref EXCEPT ![p][h] = r]

\* closeNCryptObject, CertCloseStore and Context.Close.
Free(p, h) == ref' = [ref EXCEPT ![p][h] = None]

\* A call that only needs the handles the operation has; it fails, and the
\* operation returns with an error and leaves the handle h behind.
Abandon(p, h) ==
  /\ lost' = [lost EXCEPT ![p] = @ \cup {h}]
  /\ Return(p)
  /\ UNCHANGED <<sysVars, ref, objVars>>

-----------------------------------------------------------------------------
(***************************************************************************)
(* OpenTPM: the provider is opened to see what there is, closed, and       *)
(* opened again.  AvailableTPMs does the same, then Info and CloseTPM.     *)
(***************************************************************************)

OpenTPM(p) ==
  /\ pc[p] = "idle" /\ tpm[p] = None
  /\ \E v \in Version \cup {"agnostic"} : arg' = [arg EXCEPT ![p] = v]
  /\ Goto(p, "probe")
  /\ UNCHANGED <<sysVars, ref, objVars, prov, hnd, found, lost>>

\* openPCP, called by probeSystemTPMs and by openTPM.
openPCP(p) ==
  /\ \/ pc[p] = "probe" /\ Goto(p, "probeInfo")
     \/ pc[p] = "open" /\ Goto(p, "openInfo")
  /\ \E h \in Handle : Open(p, h, <<"provider", 0>>) /\ prov' = [prov EXCEPT ![p] = h]
  /\ UNCHANGED <<sysVars, objVars, hnd, arg, found, lost>>

\* If openPCP fails there is no TPM; if it fails the second time, OpenTPM fails.
OpenFails(p) ==
  /\ pc[p] \in {"probe", "open"}
  /\ Return(p)
  /\ UNCHANGED <<sysVars, ref, objVars, lost>>

\* TPMInfo and tbsConvertVersion of the probe; the provider is closed in any
\* case, and OpenTPM goes on if the version is what it wants.
ProbeInfo(p) ==
  /\ pc[p] = "probeInfo"
  /\ Free(p, prov[p])
  /\ \/ Return(p)
     \/ /\ tbsConvertVersion(device) # None
        /\ arg[p] \in {"agnostic", tbsConvertVersion(device)}
        /\ Goto(p, "open")
        /\ prov' = [prov EXCEPT ![p] = None]
        /\ UNCHANGED <<hnd, arg, found>>
  /\ UNCHANGED <<sysVars, objVars, lost>>

\* openTPM gets the same information again, for the TPM object.
OpenInfo(p) ==
  /\ pc[p] = "openInfo"
  /\ tpm' = [tpm EXCEPT ![p] = [prov |-> prov[p], version |-> tbsConvertVersion(device)]]
  /\ Return(p)
  /\ UNCHANGED <<sysVars, ref, ak, lost>>

\* It cannot, and returns without closing the provider.
OpenInfoFails(p) ==
  /\ pc[p] = "openInfo"
  /\ Abandon(p, prov[p])

CloseTPM(p) ==
  /\ pc[p] = "idle" /\ tpm[p] # None
  /\ Free(p, tpm[p].prov)
  /\ tpm' = [tpm EXCEPT ![p] = None]
  /\ UNCHANGED <<sysVars, ak, opVars, lost>>

-----------------------------------------------------------------------------
(***************************************************************************)
(* Attestation keys.                                                       *)
(***************************************************************************)

\* NewAK, with a random name; the application keeps one AK at a time.
newAK(p) ==
  /\ pc[p] = "idle" /\ tpm[p] # None /\ ak[p] = None
  /\ \E n \in Name : arg' = [arg EXCEPT ![p] = n]
  /\ Goto(p, "create")
  /\ UNCHANGED <<sysVars, ref, objVars, prov, hnd, found, lost>>

\* Mutant: NCRYPT_OVERWRITE_KEY_FLAG, the key that has the name is replaced.
Overwrites(n) == TRUE

\* The provider refuses a name that is in use.
NameFree(n) == store[n] = None

\* NCryptCreatePersistedKey gives a handle to a key that is to be finalized.
CreatePersistedKey(p) ==
  /\ pc[p] = "create"
  /\ \/ /\ NameFree(arg[p])
        /\ \E h \in Handle : Open(p, h, <<"key", 0>>) /\ hnd' = [hnd EXCEPT ![p] = h]
        /\ Goto(p, "length")
        /\ UNCHANGED <<prov, arg, found>>
     \/ Return(p) /\ UNCHANGED ref
  /\ UNCHANGED <<sysVars, objVars, lost>>

\* NCryptSetProperty for the length of the key, then for its usage policy.
SetProperty(p) ==
  /\ \/ pc[p] = "length" /\ Goto(p, "policy")
     \/ pc[p] = "policy" /\ Goto(p, "finalize")
  /\ UNCHANGED <<sysVars, ref, objVars, prov, hnd, arg, found, lost>>

\* NCryptFinalizeKey creates the key and stores it.
FinalizeKey(p) ==
  /\ pc[p] = "finalize"
  /\ NameFree(arg[p])
  /\ made < MaxKeys
  /\ made' = made + 1
  /\ store' = [store EXCEPT ![arg[p]] = made + 1]
  /\ ref' = [ref EXCEPT ![p][hnd[p]] = <<"key", made + 1>>]
  /\ Goto(p, "properties")
  /\ UNCHANGED <<device, blobs, objVars, prov, hnd, arg, found, lost>>

\* One of these calls fails, and winPCP.NewAK returns without the handle.
NewAKFails(p) ==
  /\ pc[p] \in {"length", "policy", "finalize"}
  /\ Abandon(p, hnd[p])

\* AKProperties, which reads and decodes the id binding of the key: the AK.
AKProperties(p) ==
  /\ pc[p] = "properties"
  /\ ak' = [ak EXCEPT ![p] = [hnd |-> hnd[p], name |-> arg[p],
                              version |-> tpm[p].version, key |-> ref[p][hnd[p]][2]]]
  /\ Return(p)
  /\ UNCHANGED <<sysVars, ref, tpm, lost>>

\* Mutant: the key is not closed when its properties cannot be read.
AKPropertiesFailsOpen(p) ==
  /\ pc[p] = "properties"
  /\ Return(p)
  /\ UNCHANGED <<sysVars, ref, objVars, lost>>

\* They cannot be read or decoded: the key is closed, and stays stored.
AKPropertiesFails(p) ==
  /\ pc[p] = "properties"
  /\ Free(p, hnd[p])
  /\ Return(p)
  /\ UNCHANGED <<sysVars, objVars, lost>>

\* Marshal.
Marshal(p) ==
  /\ pc[p] = "idle" /\ ak[p] # None
  /\ blobs' = blobs \cup {[encoding |-> "os", version |-> ak[p].version,
                           name |-> ak[p].name, key |-> ak[p].key]}
  /\ UNCHANGED <<device, store, made, ref, objVars, opVars, lost>>

\* LoadAK: deserializeKey compares the versions, and the provider opens the key
\* with the name; the public part is the one of the blob.
loadAK(p) ==
  /\ pc[p] = "idle" /\ tpm[p] # None /\ ak[p] = None
  /\ \E b \in blobs, h \in Handle :
       /\ b.version = tpm[p].version
       /\ b.encoding = "os"
       /\ store[b.name] # None
       /\ Open(p, h, <<"key", store[b.name]>>)
       /\ ak' = [ak EXCEPT ![p] = [hnd |-> h, name |-> b.name,
                                   version |-> b.version, key |-> b.key]]
  /\ UNCHANGED <<sysVars, tpm, opVars, lost>>

CloseAK(p) ==
  /\ pc[p] = "idle" /\ ak[p] # None
  /\ Free(p, ak[p].hnd)
  /\ ak' = [ak EXCEPT ![p] = None]
  /\ UNCHANGED <<sysVars, tpm, opVars, lost>>

-----------------------------------------------------------------------------
(***************************************************************************)
(* EKs, EKCertificates and MeasurementLog.                                 *)
(***************************************************************************)

\* EKCerts begins with the store of RSA certificates.
EKCerts(p) ==
  /\ pc[p] = "idle" /\ tpm[p] # None
  /\ Goto(p, "rsaCerts")
  /\ UNCHANGED <<sysVars, ref, objVars, prov, hnd, arg, found, lost>>

\* getPCPCerts opens a store, and enumerates what is in it.
OpenStore(p) ==
  /\ pc[p] \in {"rsaCerts", "eccCerts", "nvCerts"} /\ hnd[p] = None
  /\ \E h \in Handle : Open(p, h, <<"store", 0>>) /\ hnd' = [hnd EXCEPT ![p] = h]
  /\ UNCHANGED <<sysVars, objVars, pc, prov, arg, found, lost>>

\* The source that follows: NVRAM only if the stores have no certificate, and
\* then the certificates are parsed and returned, or the public key is read.
NextSource(p, got) ==
  IF pc[p] = "rsaCerts" THEN "eccCerts"
  ELSE IF pc[p] = "eccCerts" /\ ~got THEN "nvCerts" ELSE "ekReturn"

\* getPCPCerts returns, with certificates or without; the store is closed.
CloseStore(p) ==
  /\ pc[p] \in {"rsaCerts", "eccCerts", "nvCerts"} /\ hnd[p] # None
  /\ Free(p, hnd[p])
  /\ hnd' = [hnd EXCEPT ![p] = None]
  /\ \E got \in {found[p], TRUE} :
       /\ found' = [found EXCEPT ![p] = got]
       /\ Goto(p, NextSource(p, got))
  /\ UNCHANGED <<sysVars, objVars, prov, arg, lost>>

\* getPCPCerts fails, before or after it has opened the store: only a platform
\* without ECC certificates is no error.
StoreFails(p) ==
  /\ pc[p] \in {"rsaCerts", "eccCerts", "nvCerts"}
  /\ IF hnd[p] = None THEN UNCHANGED ref ELSE Free(p, hnd[p])
  /\ IF pc[p] = "eccCerts"
     THEN /\ Goto(p, NextSource(p, found[p]))
          /\ hnd' = [hnd EXCEPT ![p] = None]
          /\ UNCHANGED <<prov, arg, found>>
     ELSE Return(p)
  /\ UNCHANGED <<sysVars, objVars, lost>>

\* The certificates are parsed, or the EK and the TPM's properties are read.
EKReturn(p) ==
  /\ pc[p] = "ekReturn"
  /\ Return(p)
  /\ UNCHANGED <<sysVars, ref, objVars, lost>>

\* MeasurementLog creates a TBS context for two calls of GetTCGLog.
MeasurementLog(p) ==
  /\ pc[p] = "idle" /\ tpm[p] # None
  /\ \E h \in Handle : Open(p, h, <<"context", 0>>) /\ hnd' = [hnd EXCEPT ![p] = h]
  /\ Goto(p, "log")
  /\ UNCHANGED <<sysVars, objVars, prov, arg, found, lost>>

\* With the log or an error, the context is closed.
LogReturn(p) ==
  /\ pc[p] = "log"
  /\ Free(p, hnd[p])
  /\ Return(p)
  /\ UNCHANGED <<sysVars, objVars, lost>>

\* The process ends: its handles are closed, the keys stay with the provider.
Exit(p) ==
  /\ Return(p)
  /\ ref' = [ref EXCEPT ![p] = [h \in Handle |-> None]]
  /\ tpm' = [tpm EXCEPT ![p] = None]
  /\ ak' = [ak EXCEPT ![p] = None]
  /\ lost' = [lost EXCEPT ![p] = {}]
  /\ UNCHANGED sysVars

Next ==
  \E p \in Process :
    \/ OpenTPM(p) \/ openPCP(p) \/ OpenFails(p) \/ ProbeInfo(p)
    \/ OpenInfo(p) \/ OpenInfoFails(p) \/ CloseTPM(p)
    \/ newAK(p) \/ CreatePersistedKey(p) \/ SetProperty(p) \/ FinalizeKey(p) \/ NewAKFails(p)
    \/ AKProperties(p) \/ AKPropertiesFails(p) \/ Marshal(p) \/ loadAK(p) \/ CloseAK(p)
    \/ EKCerts(p) \/ OpenStore(p) \/ CloseStore(p) \/ StoreFails(p) \/ EKReturn(p)
    \/ MeasurementLog(p) \/ LogReturn(p)
    \/ Exit(p)

Spec == Init /\ [][Next]_vars

-----------------------------------------------------------------------------
(***************************************************************************)
(* Properties.                                                             *)
(***************************************************************************)

\* The handles of the process that something still refers to.
InUse(p) ==
  [tpm  |-> IF tpm[p] = None THEN {} ELSE {tpm[p].prov},
   ak   |-> IF ak[p] = None THEN {} ELSE {ak[p].hnd},
   prov |-> {prov[p]} \ {None},
   hnd  |-> {hnd[p]} \ {None},
   lost |-> lost[p]]

\* Every open handle of a process has exactly one owner: the TPM, the AK, the
\* operation that runs and will free it, or none in the cases openTPM and
\* winPCP.NewAK have no Close for; and no owner has a handle that was freed.
ObjectsAccounted ==
  \A p \in Process :
    LET use == InUse(p) IN
      /\ {h \in Handle : ref[p][h] # None} = UNION {use[i] : i \in DOMAIN use}
      /\ \A i, j \in DOMAIN use : i # j => use[i] \cap use[j] = {}

\* A key that was stored is the key its name gives (LoadKeyByName), whatever
\* names other processes draw and wherever they fail; and the public part of an
\* AK, new or loaded, is the one of the key its handle is for.
StoredKeysLoadable ==
  /\ \A b \in blobs \ Foreign : store[b.name] = b.key
  /\ \A p \in Process : ak[p] # None => ref[p][ak[p].hnd] = <<"key", ak[p].key>>
=============================================================================
