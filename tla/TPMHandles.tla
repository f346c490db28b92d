----------------------------- MODULE TPMHandles -----------------------------
(***************************************************************************)
(* The operations of wrappedTPM20 (wrapped_tpm20.go) that create, load and *)
(* unload keys: what they leave in the TPM, on every path, when several    *)
(* processes use it at once.  Every step is one TPM command, and every     *)
(* command can fail; only the flush of a handle is taken to succeed.       *)
(*                                                                         *)
(* The TPM is used through the kernel's resource manager (openTPM prefers  *)
(* it): each process has its own transient handles and sessions, which are *)
(* flushed when it ends, and all share the persistent handles.  A primary  *)
(* key is determined by its hierarchy and template, here its algorithm.    *)
(***************************************************************************)
EXTENDS Integers, FiniteSets

CONSTANTS
  Client,      (* processes that use the TPM                                *)
  SRKHandles,  (* persistent handles for storage root keys                  *)
  EKHandle,    (* persistent handle for the endorsement key                 *)
  Alg,         (* key algorithms                                            *)
  Slot,        (* transient handles a process can have at once              *)
  None

VARIABLES
  persistent,  \* the key at every persistent handle, or None
  loaded,      \* the transient handles of every process
  session,     \* whether the process has an authorization session open
  op,          \* the operation the process is in
  pc,          \* the TPM command it sends next, "idle" outside an operation
  at,          \* the persistent handle the operation needs, or None
  alg,         \* the algorithm of the key to create there, or None
  hnd,         \* the transient handle the operation has, or None
  blob,        \* the key blob it created or was given, or None
  held,        \* the handles of the AKs and Keys that were returned, not closed
  lost,        \* the handles of keys that loadKey neither returned nor unloaded
  unfreed,     \* the handles of keys that newKey neither returned nor unloaded
  blobs        \* the key blobs that were stored (Marshal)

tpmVars == <<persistent, loaded, session>>
opVars  == <<op, pc, at, alg, hnd, blob>>
appVars == <<held, lost, unfreed, blobs>>
vars    == <<tpmVars, opVars, appVars>>

Handle == SRKHandles \cup {EKHandle}
PrimaryKey == [hierarchy : {"owner", "endorsement"}, alg : Alg]
Blob == [handle : SRKHandles, parent : PrimaryKey]

ASSUME HandlesAssumption ==
  /\ EKHandle \notin SRKHandles
  /\ None \notin Slot /\ None \notin PrimaryKey /\ None \notin Blob

Init ==
  /\ persistent = [h \in Handle |-> None]
  /\ loaded = [c \in Client |-> {}]
  /\ session = [c \in Client |-> FALSE]
  /\ op = [c \in Client |-> "none"]
  /\ pc = [c \in Client |-> "idle"]
  /\ at = [c \in Client |-> None]
  /\ alg = [c \in Client |-> None]
  /\ hnd = [c \in Client |-> None]
  /\ blob = [c \in Client |-> None]
  /\ held = [c \in Client |-> {}]
  /\ lost = [c \in Client |-> {}]
  /\ unfreed = [c \in Client |-> {}]
  /\ blobs = {}

-----------------------------------------------------------------------------
(***************************************************************************)
(* The calls of the application.                                           *)
(***************************************************************************)

Start(c, o, first, h, a, b) ==
  /\ pc[c] = "idle"
  /\ op' = [op EXCEPT ![c] = o]
  /\ pc' = [pc EXCEPT ![c] = first]
  /\ at' = [at EXCEPT ![c] = h]
  /\ alg' = [alg EXCEPT ![c] = a]
  /\ blob' = [blob EXCEPT ![c] = b]
  /\ UNCHANGED <<tpmVars, hnd, appVars>>

\* NewAK, with the SRK of the configuration.
newAK(c) == \E h \in SRKHandles, a \in Alg : Start(c, "newAK", "read", h, a, None)

\* NewKey, which certifies the key with an AK the application has.
newKey(c) ==
  /\ held[c] # {}
  /\ \E h \in SRKHandles, a \in Alg : Start(c, "newKey", "read", h, a, None)

\* LoadAK and LoadKey of a blob that was stored, with any configuration of the
\* parent.
loadAK(c) ==
  \E b \in blobs, h \in SRKHandles, a \in Alg : Start(c, "loadAK", "read", h, a, b)

loadKey(c) ==
  \E b \in blobs, h \in SRKHandles, a \in Alg : Start(c, "loadKey", "read", h, a, b)

\* EKs, when there is no certificate in NVRAM: an EK is created, only to be read.
eks(c) == Start(c, "eks", "primary", EKHandle, None, None)

\* ActivateCredential, with an AK the application has.
activateCredential(c) ==
  /\ held[c] # {}
  /\ \E a \in Alg : Start(c, "activate", "read", EKHandle, a, None)

\* Close of an AK or a Key.
close(c, s) ==
  /\ pc[c] = "idle"
  /\ s \in held[c]
  /\ loaded' = [loaded EXCEPT ![c] = @ \ {s}]
  /\ held' = [held EXCEPT ![c] = @ \ {s}]
  /\ UNCHANGED <<persistent, session, opVars, lost, unfreed, blobs>>

-----------------------------------------------------------------------------
(***************************************************************************)
(* The commands.                                                           *)
(***************************************************************************)

\* The operation goes on with the command p.
Goto(c, p) == pc' = [pc EXCEPT ![c] = p]

\* The operation returns; its handle is given up, flushed or not.
Return(c) ==
  /\ Goto(c, "idle")
  /\ hnd' = [hnd EXCEPT ![c] = None]
  /\ blob' = [blob EXCEPT ![c] = None]
  /\ op' = [op EXCEPT ![c] = "none"]
  /\ at' = [at EXCEPT ![c] = None]
  /\ alg' = [alg EXCEPT ![c] = None]

Flush(c) == loaded' = [loaded EXCEPT ![c] = @ \ {hnd[c]}]

\* A new transient object, in a free slot.
NewObject(c) ==
  \E s \in Slot \ loaded[c] :
    /\ loaded' = [loaded EXCEPT ![c] = @ \cup {s}]
    /\ hnd' = [hnd EXCEPT ![c] = s]

\* The command that follows once the operation has its persistent handle.
AfterHandle(c) ==
  CASE op[c] \in {"newAK", "newKey"} -> "create"
    [] op[c] \in {"loadAK", "loadKey"} -> "load"
    [] OTHER -> "session"

\* Any command before a transient object is loaded returns an error, and so
\* does the operation.
CommandFails(c) ==
  /\ pc[c] \in {"primary", "create", "load", "session"}
  /\ Return(c)
  /\ UNCHANGED <<tpmVars, appVars>>

\* Mutant: the error of ReadPublic is dropped.
ReadPublicUnchecked(c) ==
  /\ pc[c] = "read"
  /\ Goto(c, AfterHandle(c))
  /\ UNCHANGED <<tpmVars, op, at, alg, hnd, blob, appVars>>

\* getStorageRootKeyHandle and getEndorsementKeyHandle look for the persistent
\* key; if the command fails, for whatever reason, a key is created.
ReadPublic(c) ==
  /\ pc[c] = "read"
  /\ \/ persistent[at[c]] # None /\ Goto(c, AfterHandle(c))
     \/ Goto(c, "primary")
  /\ UNCHANGED <<tpmVars, op, at, alg, hnd, blob, appVars>>

\* The primary key is created: for eks to be read, otherwise to be persisted.
CreatePrimary(c) ==
  /\ pc[c] = "primary"
  /\ NewObject(c)
  /\ Goto(c, IF op[c] = "eks" THEN "ekpublic" ELSE "evict")
  /\ UNCHANGED <<persistent, session, op, at, alg, blob, appVars>>

\* Mutant: a key that is at the handle already is replaced.
EvictControlReplaces(c) ==
  /\ pc[c] = "evict"
  /\ persistent' = [persistent EXCEPT ![at[c]] =
                      [hierarchy |-> IF at[c] = EKHandle THEN "endorsement" ELSE "owner",
                       alg |-> alg[c]]]
  /\ Flush(c)
  /\ hnd' = [hnd EXCEPT ![c] = None]
  /\ Goto(c, AfterHandle(c))
  /\ UNCHANGED <<session, op, at, alg, blob, appVars>>

\* The primary key is made persistent, which the TPM refuses if another process
\* was faster; the transient copy is flushed in any case.
EvictControl(c) ==
  /\ pc[c] = "evict"
  /\ Flush(c)
  /\ \/ /\ persistent[at[c]] = None
        /\ persistent' = [persistent EXCEPT ![at[c]] =
                            [hierarchy |-> IF at[c] = EKHandle THEN "endorsement" ELSE "owner",
                             alg |-> alg[c]]]
        /\ hnd' = [hnd EXCEPT ![c] = None]
        /\ Goto(c, AfterHandle(c))
        /\ UNCHANGED <<op, at, alg, blob>>
     \/ Return(c) /\ UNCHANGED persistent
  /\ UNCHANGED <<session, appVars>>

\* eks reads the public area and the TPM's properties; the EK is flushed.
EKPublic(c) ==
  /\ pc[c] = "ekpublic"
  /\ Flush(c)
  /\ Return(c)
  /\ UNCHANGED <<persistent, session, appVars>>

\* CreateKey under the parent that is at the handle.
CreateKey(c) ==
  /\ pc[c] = "create"
  /\ blob' = [blob EXCEPT ![c] = [handle |-> at[c], parent |-> persistent[at[c]]]]
  /\ Goto(c, "load")
  /\ UNCHANGED <<tpmVars, op, at, alg, hnd, appVars>>

\* The operation returns an AK or a Key with its handle.
ReturnKey(c, s) ==
  /\ held' = [held EXCEPT ![c] = @ \cup {s}]
  /\ blobs' = blobs \cup {blob[c]}
  /\ Return(c)
  /\ UNCHANGED <<lost, unfreed>>

\* Load succeeds under the parent the blob was created with.
Load(c) ==
  /\ pc[c] = "load"
  /\ blob[c].parent = persistent[at[c]]
  /\ NewObject(c)
  /\ Goto(c, CASE op[c] = "loadAK" -> "return" [] op[c] = "loadKey" -> "decode"
               [] OTHER -> "certify")
  /\ UNCHANGED <<persistent, session, op, at, alg, blob, appVars>>

\* loadAK returns the key it loaded.
ReturnAK(c) ==
  /\ pc[c] = "return"
  /\ ReturnKey(c, hnd[c])
  /\ UNCHANGED tpmVars

\* Mutant: the handle is not freed if the certification fails.
CertifyKeeps(c) ==
  /\ pc[c] = "certify"
  /\ \/ op[c] = "newAK" /\ ReturnKey(c, hnd[c]) /\ UNCHANGED loaded
     \/ op[c] = "newKey" /\ Goto(c, "compare") /\ UNCHANGED <<loaded, op, at, alg, hnd, blob, appVars>>
     \/ Return(c) /\ UNCHANGED <<loaded, appVars>>
  /\ UNCHANGED <<persistent, session>>

\* CertifyCreation of newAK, Certify of newKey: the key is freed on error.
Certify(c) ==
  /\ pc[c] = "certify"
  /\ \/ op[c] = "newAK" /\ ReturnKey(c, hnd[c]) /\ UNCHANGED loaded
     \/ op[c] = "newKey" /\ Goto(c, "compare") /\ UNCHANGED <<loaded, op, at, alg, hnd, blob, appVars>>
     \/ Flush(c) /\ Return(c) /\ UNCHANGED appVars
  /\ UNCHANGED <<persistent, session>>

\* newKey compares the public area that was certified with the one that was
\* created.  The error it returns if they differ is not in err, which is what
\* the deferred function looks at.
Compare(c) ==
  /\ pc[c] = "compare"
  /\ \/ Goto(c, "decode") /\ UNCHANGED <<loaded, op, at, alg, hnd, blob, appVars>>
     \/ /\ unfreed' = [unfreed EXCEPT ![c] = @ \cup {hnd[c]}]
        /\ Return(c)
        /\ UNCHANGED <<loaded, held, lost, blobs>>
  /\ UNCHANGED <<persistent, session>>

\* DecodePublic and Key: on error newKey frees the key, loadKey does not.
Decode(c) ==
  /\ pc[c] = "decode"
  /\ \/ ReturnKey(c, hnd[c]) /\ UNCHANGED loaded
     \/ op[c] = "newKey" /\ Flush(c) /\ Return(c) /\ UNCHANGED appVars
     \/ /\ op[c] = "loadKey"
        /\ lost' = [lost EXCEPT ![c] = @ \cup {hnd[c]}]
        /\ Return(c)
        /\ UNCHANGED <<loaded, held, unfreed, blobs>>
  /\ UNCHANGED <<persistent, session>>

StartAuthSession(c) ==
  /\ pc[c] = "session"
  /\ session' = [session EXCEPT ![c] = TRUE]
  /\ Goto(c, "activate")
  /\ UNCHANGED <<persistent, loaded, op, at, alg, hnd, blob, appVars>>

\* PolicySecret and ActivateCredentialUsingAuth: the session is flushed.
Activate(c) ==
  /\ pc[c] = "activate"
  /\ session' = [session EXCEPT ![c] = FALSE]
  /\ Return(c)
  /\ UNCHANGED <<persistent, loaded, appVars>>

\* The process ends: the resource manager flushes what it had (external).
Crash(c) ==
  /\ loaded' = [loaded EXCEPT ![c] = {}]
  /\ session' = [session EXCEPT ![c] = FALSE]
  /\ held' = [held EXCEPT ![c] = {}]
  /\ lost' = [lost EXCEPT ![c] = {}]
  /\ unfreed' = [unfreed EXCEPT ![c] = {}]
  /\ Return(c)
  /\ UNCHANGED <<persistent, blobs>>

-----------------------------------------------------------------------------
Application(c) ==
  \/ newAK(c) \/ newKey(c) \/ loadAK(c) \/ loadKey(c) \/ eks(c)
  \/ activateCredential(c)
  \/ \E s \in Slot : close(c, s)

Operation(c) ==
  \/ CommandFails(c) \/ ReadPublic(c) \/ CreatePrimary(c) \/ EvictControl(c)
  \/ EKPublic(c) \/ CreateKey(c) \/ Load(c) \/ ReturnAK(c) \/ Certify(c)
  \/ Compare(c) \/ Decode(c) \/ StartAuthSession(c) \/ Activate(c)

Next == \E c \in Client : Application(c) \/ Operation(c) \/ Crash(c)

Spec == Init /\ [][Next]_vars

-----------------------------------------------------------------------------
(***************************************************************************)
(* Properties.                                                             *)
(***************************************************************************)

Commands == {"idle", "read", "primary", "evict", "ekpublic", "create", "load", "return",
             "certify", "compare", "decode", "session", "activate"}

\* The values of the variables; a key is never created under a parent that is
\* not there.
TypeOK ==
  /\ persistent \in [Handle -> PrimaryKey \cup {None}]
  /\ loaded \in [Client -> SUBSET Slot]
  /\ session \in [Client -> BOOLEAN]
  /\ op \in [Client -> {"none", "newAK", "newKey", "loadAK", "loadKey", "eks", "activate"}]
  /\ pc \in [Client -> Commands]
  /\ at \in [Client -> Handle \cup {None}]
  /\ alg \in [Client -> Alg \cup {None}]
  /\ hnd \in [Client -> Slot \cup {None}]
  /\ blob \in [Client -> Blob \cup {None}]
  /\ held \in [Client -> SUBSET Slot]
  /\ lost \in [Client -> SUBSET Slot]
  /\ unfreed \in [Client -> SUBSET Slot]
  /\ blobs \subseteq Blob

\* The handles of c that an operation in progress answers for.
InUse(c) ==
  IF pc[c] \in {"evict", "ekpublic", "return", "certify", "compare", "decode"}
    THEN {hnd[c]} ELSE {}

\* The handles of c that nothing answers for any more.
Lost(c) == lost[c] \cup unfreed[c]

\* At every command of every operation, whichever failed before, the transient
\* objects of a process are those of the AKs and Keys the application has, the
\* one of the operation in progress, and the ones that newKey and loadKey are
\* known to leave behind, all different: no other path loses a handle, and none
\* frees one that the application still uses.  A session is open only inside
\* ActivateCredential.
HandlesAccounted ==
  \A c \in Client :
    /\ loaded[c] = held[c] \cup Lost(c) \cup InUse(c)
    /\ held[c] \cap Lost(c) = {}
    /\ InUse(c) \cap (held[c] \cup Lost(c)) = {}
    /\ session[c] <=> pc[c] = "activate"

\* A stored key can be loaded again, whatever the processes did in between: the
\* key it was created under is still at its persistent handle, although each
\* of them may have found none there, created one and tried to put it there.
BlobsLoadable ==
  \A b \in blobs : persistent[b.handle] = b.parent
=============================================================================
