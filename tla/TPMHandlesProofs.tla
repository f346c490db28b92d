-------------------------- MODULE TPMHandlesProofs --------------------------
(***************************************************************************)
(* Proofs about TPMHandles, for any number of processes, persistent and    *)
(* transient handles: its types, that every transient handle is accounted  *)
(* for, and that stored keys stay loadable.                                *)
(***************************************************************************)
EXTENDS TPMHandles, TLAPS

KeyOps == {"newAK", "newKey", "loadAK", "loadKey"}

\* The command that is next says which operation the process is in, and what
\* the operation has: the parent's handle, a parent that is there, a blob.
OpInv ==
  \A c \in Client :
    /\ pc[c] = "idle" => hnd[c] = None
    /\ pc[c] \in {"read", "evict"} => op[c] \in KeyOps \cup {"activate"}
    /\ pc[c] = "primary" => op[c] \in KeyOps \cup {"activate", "eks"}
    /\ op[c] \in KeyOps => at[c] \in SRKHandles /\ alg[c] \in Alg
    /\ op[c] = "activate" => at[c] = EKHandle /\ alg[c] \in Alg
    /\ pc[c] = "create" => op[c] \in {"newAK", "newKey"} /\ persistent[at[c]] # None
    /\ pc[c] \in {"load", "return", "certify", "compare", "decode"} =>
         op[c] \in KeyOps /\ blob[c] \in Blob
    /\ pc[c] = "certify" => op[c] \in {"newAK", "newKey"}
    /\ pc[c] = "compare" => op[c] = "newKey"
    /\ pc[c] \in {"evict", "ekpublic", "return", "certify", "compare", "decode"} =>
         hnd[c] \in Slot
    /\ op[c] \in {"loadAK", "loadKey"} => blob[c] \in Blob

\* A blob an operation has is of a key under the parent at its handle.
BlobInv ==
  \A c \in Client : blob[c] # None => persistent[blob[c].handle] = blob[c].parent

IInv == TypeOK /\ OpInv /\ HandlesAccounted /\ BlobInv /\ BlobsLoadable

\* The invariant holds at first.
LEMMA InitIInv == Init => IInv
  <1> SUFFICES ASSUME Init PROVE IInv
    OBVIOUS
  <1>1. TypeOK
    BY DEF Init, TypeOK, Commands
  <1>2. OpInv
    BY DEF Init, OpInv, KeyOps
  <1>3. HandlesAccounted
    BY DEF Init, HandlesAccounted, InUse, Lost
  <1>4. BlobInv /\ BlobsLoadable
    BY DEF Init, BlobInv, BlobsLoadable
  <1> QED
    BY <1>1, <1>2, <1>3, <1>4 DEF IInv

\* The types.
LEMMA TypeStep ==
  ASSUME IInv, [Next]_vars
  PROVE  TypeOK'
  <1> USE DEF IInv, TypeOK, vars, tpmVars, opVars, appVars, Commands
  <1>1. CASE UNCHANGED vars
    BY <1>1
  <1>2. ASSUME NEW c \in Client, Application(c) PROVE TypeOK'
    <2>1. CASE newAK(c) \/ newKey(c)
      BY <2>1 DEF newAK, newKey, Start, Handle
    <2>2. CASE loadAK(c) \/ loadKey(c)
      BY <2>2 DEF loadAK, loadKey, Start, Handle
    <2>3. CASE eks(c) \/ activateCredential(c)
      BY <2>3 DEF eks, activateCredential, Start, Handle
    <2>4. CASE \E s \in Slot : close(c, s)
      BY <2>4 DEF close
    <2> QED
      BY <1>2, <2>1, <2>2, <2>3, <2>4 DEF Application
  <1>3. ASSUME NEW c \in Client, Operation(c) PROVE TypeOK'
    <2>1. CASE CommandFails(c)
      BY <2>1 DEF CommandFails, Return, Goto
    <2>2. CASE ReadPublic(c)
      BY <2>2 DEF ReadPublic, Goto, AfterHandle
    <2>3. CASE CreatePrimary(c)
      BY <2>3 DEF CreatePrimary, Goto, NewObject
    <2>4. CASE EvictControl(c)
      <3>1. at[c] \in Handle /\ alg[c] \in Alg
        BY <2>4 DEF EvictControl, OpInv, Handle, KeyOps
      <3>2. [hierarchy |-> IF at[c] = EKHandle THEN "endorsement" ELSE "owner", alg |-> alg[c]]
              \in PrimaryKey
        BY <3>1 DEF PrimaryKey
      <3> QED
        BY <2>4, <3>1, <3>2 DEF EvictControl, Goto, Flush, Return, AfterHandle
    <2>5. CASE EKPublic(c)
      BY <2>5 DEF EKPublic, Flush, Return, Goto
    <2>6. CASE CreateKey(c)
      <3>1. at[c] \in SRKHandles /\ persistent[at[c]] \in PrimaryKey
        BY <2>6 DEF CreateKey, OpInv, KeyOps, Handle
      <3>2. [handle |-> at[c], parent |-> persistent[at[c]]] \in Blob
        BY <3>1 DEF Blob
      <3> QED
        BY <2>6, <3>2 DEF CreateKey, Goto
    <2>7. CASE Load(c)
      BY <2>7 DEF Load, Goto, NewObject
    <2>8. CASE ReturnAK(c)
      BY <2>8 DEF ReturnAK, ReturnKey, Return, Goto, OpInv
    <2>9. CASE Certify(c)
      BY <2>9 DEF Certify, ReturnKey, Return, Goto, Flush, OpInv
    <2>10. CASE Compare(c)
      BY <2>10 DEF Compare, Return, Goto, OpInv
    <2>11. CASE Decode(c)
      BY <2>11 DEF Decode, ReturnKey, Return, Goto, Flush, OpInv
    <2>12. CASE StartAuthSession(c)
      BY <2>12 DEF StartAuthSession, Goto
    <2>13. CASE Activate(c)
      BY <2>13 DEF Activate, Return, Goto
    <2> QED
      BY <1>3, <2>1, <2>2, <2>3, <2>4, <2>5, <2>6, <2>7, <2>8, <2>9, <2>10, <2>11,
         <2>12, <2>13 DEF Operation
  <1>4. ASSUME NEW c \in Client, Crash(c) PROVE TypeOK'
    BY <1>4 DEF Crash, Return, Goto
  <1> QED
    BY <1>1, <1>2, <1>3, <1>4 DEF Next

\* What the commands of an operation rely on.
LEMMA OpStep ==
  ASSUME IInv, [Next]_vars
  PROVE  OpInv'
  <1> USE DEF IInv, TypeOK, OpInv, KeyOps, Handle, vars, tpmVars, opVars, appVars
  <1>1. CASE UNCHANGED vars
    BY <1>1
  <1>2. ASSUME NEW c \in Client, Application(c) PROVE OpInv'
    <2>1. CASE newAK(c) \/ newKey(c)
      BY <2>1 DEF newAK, newKey, Start
    <2>2. CASE loadAK(c) \/ loadKey(c)
      BY <2>2 DEF loadAK, loadKey, Start
    <2>3. CASE eks(c) \/ activateCredential(c)
      BY <2>3 DEF eks, activateCredential, Start
    <2>4. CASE \E s \in Slot : close(c, s)
      BY <2>4 DEF close
    <2> QED
      BY <1>2, <2>1, <2>2, <2>3, <2>4 DEF Application
  <1>3. ASSUME NEW c \in Client, Operation(c) PROVE OpInv'
    <2>1. CASE CommandFails(c)
      BY <2>1 DEF CommandFails, Return, Goto
    <2>2. CASE ReadPublic(c)
      BY <2>2 DEF ReadPublic, Goto, AfterHandle
    <2>3. CASE CreatePrimary(c)
      BY <2>3 DEF CreatePrimary, Goto, NewObject
    <2>4. CASE EvictControl(c)
      <3>1. at[c] \in Handle /\ alg[c] \in Alg /\ op[c] \in KeyOps \cup {"activate"}
        BY <2>4 DEF EvictControl
      <3>2. [hierarchy |-> IF at[c] = EKHandle THEN "endorsement" ELSE "owner", alg |-> alg[c]]
              # None
        BY <3>1, HandlesAssumption DEF PrimaryKey
      <3>3. \A h \in Handle : persistent[h] # None => persistent'[h] # None
        BY <2>4, <3>1, <3>2 DEF EvictControl
      <3>4. CASE Return(c)
        BY <2>4, <3>3, <3>4 DEF EvictControl, Return, Goto
      <3>5. CASE ~ Return(c)
        <4>1. /\ persistent'[at[c]] # None
              /\ hnd' = [hnd EXCEPT ![c] = None]
              /\ pc' = [pc EXCEPT ![c] = AfterHandle(c)]
              /\ UNCHANGED <<op, at, alg, blob>>
          BY <2>4, <3>1, <3>2, <3>5 DEF EvictControl, Goto
        <4> QED
          BY <3>1, <3>3, <4>1 DEF AfterHandle
      <3> QED
        BY <3>4, <3>5
    <2>5. CASE EKPublic(c)
      BY <2>5 DEF EKPublic, Flush, Return, Goto
    <2>6. CASE CreateKey(c)
      <3>1. at[c] \in SRKHandles /\ persistent[at[c]] \in PrimaryKey
        BY <2>6 DEF CreateKey
      <3>2. [handle |-> at[c], parent |-> persistent[at[c]]] \in Blob
        BY <3>1 DEF Blob
      <3> QED
        BY <2>6, <3>2 DEF CreateKey, Goto
    <2>7. CASE Load(c)
      BY <2>7 DEF Load, Goto, NewObject
    <2>8. CASE ReturnAK(c)
      BY <2>8 DEF ReturnAK, ReturnKey, Return, Goto
    <2>9. CASE Certify(c)
      BY <2>9 DEF Certify, ReturnKey, Return, Goto, Flush
    <2>10. CASE Compare(c)
      BY <2>10 DEF Compare, Return, Goto
    <2>11. CASE Decode(c)
      BY <2>11 DEF Decode, ReturnKey, Return, Goto, Flush
    <2>12. CASE StartAuthSession(c)
      BY <2>12 DEF StartAuthSession, Goto
    <2>13. CASE Activate(c)
      BY <2>13 DEF Activate, Return, Goto
    <2> QED
      BY <1>3, <2>1, <2>2, <2>3, <2>4, <2>5, <2>6, <2>7, <2>8, <2>9, <2>10, <2>11,
         <2>12, <2>13 DEF Operation
  <1>4. ASSUME NEW c \in Client, Crash(c) PROVE OpInv'
    BY <1>4 DEF Crash, Return, Goto
  <1> QED
    BY <1>1, <1>2, <1>3, <1>4 DEF Next

\* Every command keeps the account of the handles.
LEMMA AccountStep ==
  ASSUME IInv, [Next]_vars
  PROVE  HandlesAccounted'
  <1> USE DEF IInv, TypeOK, HandlesAccounted, InUse, Lost, OpInv, vars, tpmVars, opVars, appVars
  <1>1. CASE UNCHANGED vars
    BY <1>1
  <1>2. ASSUME NEW c \in Client, Application(c) PROVE HandlesAccounted'
    <2>1. CASE newAK(c) \/ newKey(c)
      BY <2>1 DEF newAK, newKey, Start
    <2>2. CASE loadAK(c) \/ loadKey(c)
      BY <2>2 DEF loadAK, loadKey, Start
    <2>3. CASE eks(c) \/ activateCredential(c)
      BY <2>3 DEF eks, activateCredential, Start
    <2>4. CASE \E s \in Slot : close(c, s)
      BY <2>4 DEF close
    <2> QED
      BY <1>2, <2>1, <2>2, <2>3, <2>4 DEF Application
  <1>3. ASSUME NEW c \in Client, Operation(c) PROVE HandlesAccounted'
    <2>1. CASE CommandFails(c)
      BY <2>1 DEF CommandFails, Return, Goto
    <2>2. CASE ReadPublic(c)
      BY <2>2 DEF ReadPublic, Goto, AfterHandle
    <2>3. CASE CreatePrimary(c)
      BY <2>3 DEF CreatePrimary, Goto, NewObject
    <2>4. CASE EvictControl(c)
      BY <2>4 DEF EvictControl, Goto, Flush, Return, AfterHandle
    <2>5. CASE EKPublic(c)
      BY <2>5 DEF EKPublic, Flush, Return, Goto
    <2>6. CASE CreateKey(c)
      BY <2>6 DEF CreateKey, Goto
    <2>7. CASE Load(c)
      BY <2>7 DEF Load, Goto, NewObject
    <2>8. CASE ReturnAK(c)
      BY <2>8 DEF ReturnAK, ReturnKey, Return, Goto
    <2>9. CASE Certify(c)
      BY <2>9 DEF Certify, ReturnKey, Return, Goto, Flush
    <2>10. CASE Compare(c)
      BY <2>10 DEF Compare, Return, Goto
    <2>11. CASE Decode(c)
      BY <2>11 DEF Decode, ReturnKey, Return, Goto, Flush
    <2>12. CASE StartAuthSession(c)
      BY <2>12 DEF StartAuthSession, Goto
    <2>13. CASE Activate(c)
      BY <2>13 DEF Activate, Return, Goto
    <2> QED
      BY <1>3, <2>1, <2>2, <2>3, <2>4, <2>5, <2>6, <2>7, <2>8, <2>9, <2>10, <2>11,
         <2>12, <2>13 DEF Operation
  <1>4. ASSUME NEW c \in Client, Crash(c) PROVE HandlesAccounted'
    BY <1>4 DEF Crash, Return, Goto
  <1> QED
    BY <1>1, <1>2, <1>3, <1>4 DEF Next

\* A key at a persistent handle stays there: a process that finds none creates
\* one, and the TPM refuses to put it where one has been put in the meantime.
LEMMA PersistentKept ==
  ASSUME IInv, [Next]_vars, NEW h \in Handle, persistent[h] # None
  PROVE  persistent'[h] = persistent[h]
  <1>1. persistent \in [Handle -> PrimaryKey \cup {None}]
    BY DEF IInv, TypeOK
  <1>2. CASE UNCHANGED vars
    BY <1>2 DEF vars, tpmVars
  <1>3. ASSUME NEW c \in Client, Application(c) PROVE persistent' = persistent
    BY <1>3 DEF Application, newAK, newKey, loadAK, loadKey, eks, activateCredential, close,
                Start, tpmVars
  <1>4. ASSUME NEW c \in Client, Operation(c) PROVE persistent'[h] = persistent[h]
    <2>1. CASE EvictControl(c)
      BY <1>1, <2>1 DEF EvictControl
    <2>2. CASE CommandFails(c) \/ ReadPublic(c) \/ CreatePrimary(c) \/ EKPublic(c)
      BY <2>2 DEF CommandFails, ReadPublic, CreatePrimary, EKPublic, tpmVars
    <2>3. CASE CreateKey(c) \/ Load(c) \/ ReturnAK(c) \/ Certify(c)
      BY <2>3 DEF CreateKey, Load, ReturnAK, Certify, tpmVars
    <2>4. CASE Compare(c) \/ Decode(c) \/ StartAuthSession(c) \/ Activate(c)
      BY <2>4 DEF Compare, Decode, StartAuthSession, Activate
    <2> QED
      BY <1>4, <2>1, <2>2, <2>3, <2>4 DEF Operation
  <1>5. ASSUME NEW c \in Client, Crash(c) PROVE persistent' = persistent
    BY <1>5 DEF Crash
  <1> QED
    BY <1>2, <1>3, <1>4, <1>5 DEF Next

\* A stored or created blob is one whose parent is at its handle.
Rooted(b) == b \in Blob /\ persistent[b.handle] = b.parent

\* The parent that a blob was made under stays where it was.
LEMMA RootedKept ==
  ASSUME IInv, [Next]_vars, NEW b, Rooted(b)
  PROVE  persistent'[b.handle] = b.parent
  <1>1. b.handle \in Handle /\ b.parent \in PrimaryKey
    BY DEF Rooted, Blob, Handle
  <1>2. persistent[b.handle] # None
    BY <1>1, HandlesAssumption DEF Rooted
  <1> QED
    BY <1>1, <1>2, PersistentKept DEF Rooted

\* Where the blob of an operation comes from.
LEMMA BlobSource ==
  ASSUME IInv, [Next]_vars, NEW d \in Client, blob'[d] # None
  PROVE  Rooted(blob'[d])
  <1> USE DEF TypeOK, vars, tpmVars, opVars, appVars
  <1>1. TypeOK /\ OpInv
    BY DEF IInv
  <1>2. \A e \in Client : blob[e] # None => Rooted(blob[e])
    BY DEF IInv, BlobInv, Rooted
  <1>3. \A b \in blobs : Rooted(b)
    BY DEF IInv, BlobsLoadable, Rooted
  <1>4. CASE UNCHANGED vars
    BY <1>2, <1>4
  <1>5. ASSUME NEW c \in Client, Application(c) PROVE Rooted(blob'[d])
    <2>1. CASE loadAK(c) \/ loadKey(c)
      BY <1>1, <1>2, <1>3, <2>1 DEF loadAK, loadKey, Start
    <2>2. CASE newAK(c) \/ newKey(c) \/ eks(c) \/ activateCredential(c)
      BY <1>1, <1>2, <2>2 DEF newAK, newKey, eks, activateCredential, Start
    <2>3. CASE \E s \in Slot : close(c, s)
      BY <1>2, <2>3 DEF close
    <2> QED
      BY <1>5, <2>1, <2>2, <2>3 DEF Application
  <1>6. ASSUME NEW c \in Client, Operation(c) PROVE Rooted(blob'[d])
    <2>1. CASE CreateKey(c)
      <3> DEFINE new == [handle |-> at[c], parent |-> persistent[at[c]]]
      <3>1. at[c] \in SRKHandles /\ persistent[at[c]] \in PrimaryKey
        BY <1>1, <2>1 DEF CreateKey, OpInv, KeyOps, Handle
      <3>2. Rooted(new)
        BY <3>1 DEF Rooted, Blob
      <3>3. blob' = [blob EXCEPT ![c] = new]
        BY <2>1 DEF CreateKey
      <3> HIDE DEF new
      <3> QED
        BY <1>1, <1>2, <3>2, <3>3
    <2>2. CASE ~ CreateKey(c)
      <3>1. blob' = blob \/ blob' = [blob EXCEPT ![c] = None]
        BY <1>6, <2>2 DEF Operation, CommandFails, ReadPublic, CreatePrimary, EvictControl,
           EKPublic,
                     Load, ReturnAK, Certify, Compare, Decode, StartAuthSession, Activate,
                     ReturnKey, Return
      <3> QED
        BY <1>1, <1>2, <3>1
    <2> QED
      BY <2>1, <2>2
  <1>7. ASSUME NEW c \in Client, Crash(c) PROVE Rooted(blob'[d])
    BY <1>1, <1>2, <1>7 DEF Crash, Return
  <1> QED
    BY <1>4, <1>5, <1>6, <1>7 DEF Next

\* What is stored is the blob of the operation that returns.
LEMMA BlobsSource ==
  ASSUME IInv, [Next]_vars, NEW b \in blobs'
  PROVE  Rooted(b)
  <1>1. \A e \in blobs : Rooted(e)
    BY DEF IInv, TypeOK, BlobsLoadable, Rooted
  <1>2. CASE UNCHANGED vars
    BY <1>1, <1>2 DEF vars, appVars
  <1>3. ASSUME NEW c \in Client, Application(c) PROVE blobs' = blobs
    BY <1>3 DEF Application, newAK, newKey, loadAK, loadKey, eks, activateCredential, close,
                Start, appVars
  <1>4. ASSUME NEW c \in Client, Operation(c) PROVE Rooted(b)
    <2>1. CASE ReturnAK(c) \/ Certify(c) \/ Decode(c)
      <3>1. Rooted(blob[c])
        <4>1. pc[c] \in {"return", "certify", "decode"}
          BY <2>1 DEF ReturnAK, Certify, Decode
        <4>2. blob[c] \in Blob
          BY <4>1 DEF IInv, OpInv
        <4>4. blob[c] # None => persistent[blob[c].handle] = blob[c].parent
          BY DEF IInv, BlobInv
        <4>5. blob[c] # None
          BY <4>2, HandlesAssumption
        <4> QED
          BY <4>2, <4>4, <4>5 DEF Rooted
      <3>2. blobs' = blobs \/ blobs' = blobs \cup {blob[c]}
        BY <2>1 DEF ReturnAK, Certify, Decode, ReturnKey, appVars
      <3> QED
        BY <1>1, <3>1, <3>2
    <2>2. CASE CommandFails(c) \/ ReadPublic(c) \/ CreatePrimary(c) \/ EvictControl(c)
      BY <1>1, <2>2 DEF CommandFails, ReadPublic, CreatePrimary, EvictControl, appVars
    <2>3. CASE EKPublic(c) \/ CreateKey(c) \/ Load(c) \/ Compare(c)
      BY <1>1, <2>3 DEF EKPublic, CreateKey, Load, Compare, appVars
    <2>4. CASE StartAuthSession(c) \/ Activate(c)
      BY <1>1, <2>4 DEF StartAuthSession, Activate, appVars
    <2> QED
      BY <1>4, <2>1, <2>2, <2>3, <2>4 DEF Operation
  <1>5. ASSUME NEW c \in Client, Crash(c) PROVE blobs' = blobs
    BY <1>5 DEF Crash
  <1> QED
    BY <1>1, <1>2, <1>3, <1>4, <1>5 DEF Next

\* Every step keeps the blobs loadable.
LEMMA BlobStep ==
  ASSUME IInv, [Next]_vars
  PROVE  BlobInv' /\ BlobsLoadable'
  <1>1. BlobInv'
    BY BlobSource, RootedKept DEF BlobInv
  <1>2. BlobsLoadable'
    BY BlobsSource, RootedKept DEF BlobsLoadable
  <1> QED
    BY <1>1, <1>2

\* The invariant holds in every state.
LEMMA Invariance == Spec => []IInv
  <1>1. IInv /\ [Next]_vars => IInv'
    BY TypeStep, OpStep, AccountStep, BlobStep DEF IInv
  <1> QED
    BY <1>1, InitIInv, PTL DEF Spec

\* The types of the variables (TypeOK): in particular a key is only created
\* under a parent that is at the handle, also when ReadPublic failed first.
THEOREM HandleTypes == Spec => []TypeOK
  <1>1. IInv => TypeOK
    BY DEF IInv
  <1> QED
    BY <1>1, Invariance, PTL

\* Every transient object of every process is one of a key that was returned,
\* of the operation in progress, or one that newKey or loadKey left behind, and
\* no operation frees a handle that is another key's (HandlesAccounted).
THEOREM Accounted == Spec => []HandlesAccounted
  <1>1. IInv => HandlesAccounted
    BY DEF IInv
  <1> QED
    BY <1>1, Invariance, PTL

\* The key that a stored key blob was created under is at its persistent handle
\* (BlobsLoadable), whatever processes raced or crashed in
\* getStorageRootKeyHandle.
THEOREM StoredKeysLoadable == Spec => []BlobsLoadable
  <1>1. IInv => BlobsLoadable
    BY DEF IInv
  <1> QED
    BY <1>1, Invariance, PTL
=============================================================================
