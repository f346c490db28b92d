--------------------- MODULE CredentialActivationProofs ---------------------
(***************************************************************************)
(* Theorems about CredentialActivation, for any TPMs, key pairs, public    *)
(* areas and sessions.  The argument: a key that is fixed to its TPM is in *)
(* one TPM, with one public area, and not outside; all else the remote     *)
(* party relies on only says which keys are where, and keys do not go away.*)
(***************************************************************************)
EXTENDS CredentialActivation, TLAPS

\* A private part that is not outside is in one TPM, with one public area.
Unique ==
  \A t, u \in TPM : \A p \in objects[t], q \in objects[u] :
    p.id = q.id /\ p.id \notin outside => t = u /\ p = q

\* A key that is fixed to its TPM is not outside.
Fixed == \A t \in TPM : \A p \in objects[t] : "fixedTPM" \in p.flags => p.id \notin outside

Sealed(p) == {"fixedTPM", "restricted"} \subseteq p.flags

\* There was a statement, signed with key pair id, that the key is in its TPM.
Vouched(id, key) ==
  CanSignAnything(id) \/ \E t \in TPM : Holds(t, id) /\ key \in objects[t]

\* What Generate has checked before it made the challenge.
SessionInv ==
  \A s \in Session : session[s] # Closed =>
    /\ session[s].kind = "ak" =>
         /\ session[s].key = session[s].name
         /\ session[s].format = "2.0" => Sealed(session[s].name)
    /\ session[s].kind = "key" =>
         /\ "fixedTPM" \in session[s].key.flags
         /\ Vouched(session[s].by, session[s].key)

AnswerInv == \A s \in answers : Opens(session[s].ek, session[s])

AKHeld ==
  \A a \in trusted : \E p \in objects[a.ek] :
    p.id = a.ak.id /\ Sealed(p) /\ (Is20(a.ek) => p = a.ak)

\* Of an accepted key there was a statement, and a key with the name in the challenge
\* is in the TPM of the EK.  If one key signed the former and has the latter's name,
\* the statement is true.
CertHeld ==
  \A c \in certified :
    /\ "fixedTPM" \in c.key.flags
    /\ Vouched(c.by, c.key)
    /\ Sealed(c.name) => \E p \in objects[c.ek] : p.id = c.name.id /\ Sealed(p)

\* What newAK and newKey have returned.
ReturnedInv ==
  /\ \A a \in aks :
       /\ a.pub \in objects[a.tpm] /\ akTemplate(a.pub)
       /\ a.att = Said("creation", a.pub, a.pub.id)
       /\ a.format = Format[a.tpm]
  /\ \A k \in keys :
       /\ Is20(k.tpm)
       /\ k.pub \in objects[k.tpm] /\ templateFromConfig(k.pub)
       /\ k.ak \in objects[k.tpm] /\ akTemplate(k.ak)
       /\ k.att = Said("certify", k.pub, k.ak.id)

IInv ==
  /\ TypeOK /\ Unique /\ Fixed /\ SessionInv /\ AnswerInv /\ AKHeld /\ CertHeld
  /\ ReturnedInv

-----------------------------------------------------------------------------

\* A key that is fixed and restricted signs only what its TPM states: its private
\* part is not outside, and it has no second public area without restriction.
LEMMA SealedSigns ==
  ASSUME Unique, Fixed, NEW t \in TPM, NEW p \in objects[t], Sealed(p)
  PROVE  ~CanSignAnything(p.id)
BY DEF Unique, Fixed, Sealed, CanSignAnything

\* A statement that its TPM holds a key, of a key that signs nothing else, is true.
LEMMA VouchedHeld ==
  ASSUME Unique, Fixed, NEW t \in TPM, NEW p \in objects[t], Sealed(p), NEW key,
         Vouched(p.id, key)
  PROVE  key \in objects[t]
<1>1. ~CanSignAnything(p.id) /\ p.id \notin outside
  BY SealedSigns DEF CanSignAnything
<1>2. PICK u \in TPM : Holds(u, p.id) /\ key \in objects[u]
  BY <1>1 DEF Vouched
<1>3. u = t
  BY <1>1, <1>2 DEF Holds, Unique
<1> QED BY <1>2, <1>3

\* The parts of the invariant imply the properties.
LEMMA Implies == IInv => AKBound /\ CertifiedBound /\ HonestAccepted
<1> SUFFICES ASSUME IInv PROVE AKBound /\ CertifiedBound /\ HonestAccepted
  OBVIOUS
<1> USE DEF IInv
<1>1. AKBound
  <2> SUFFICES ASSUME NEW a \in trusted
               PROVE  /\ \E p \in objects[a.ek] : p.id = a.ak.id /\ (Is20(a.ek) => p = a.ak)
                      /\ ~CanSignAnything(a.ak.id)
    BY DEF AKBound
  <2>1. a.ek \in TPM BY DEF TypeOK
  <2>2. PICK p \in objects[a.ek] :
          p.id = a.ak.id /\ Sealed(p) /\ (Is20(a.ek) => p = a.ak)
    BY DEF AKHeld
  <2>3. ~CanSignAnything(p.id)
    BY <2>1, <2>2, SealedSigns
  <2> QED BY <2>2, <2>3
<1>2. CertifiedBound
  <2> SUFFICES ASSUME NEW c \in certified, OneVerifier(c),
                      \/ [ek |-> c.ek, ak |-> c.name] \in trusted
                      \/ {"fixedTPM", "restricted"} \subseteq c.name.flags
               PROVE  /\ c.key \in objects[c.ek]
                      /\ c.key.id \notin outside
                      /\ \A t \in TPM \ {c.ek} : ~Holds(t, c.key.id)
    BY DEF CertifiedBound
  <2>1. c.ek \in TPM BY DEF TypeOK
  <2>2. /\ "fixedTPM" \in c.key.flags /\ Vouched(c.name.id, c.key)
        /\ Sealed(c.name) => \E p \in objects[c.ek] : p.id = c.name.id /\ Sealed(p)
    BY DEF CertHeld, OneVerifier
  <2>3. \E p \in objects[c.ek] : p.id = c.name.id /\ Sealed(p)
    <3>1. CASE [ek |-> c.ek, ak |-> c.name] \in trusted
      BY <3>1 DEF AKHeld
    <3>2. CASE {"fixedTPM", "restricted"} \subseteq c.name.flags
      BY <2>2, <3>2 DEF Sealed
    <3> QED BY <3>1, <3>2
  <2>4. c.key \in objects[c.ek]
    BY <2>1, <2>2, <2>3, VouchedHeld
  <2>5. c.key.id \notin outside
    BY <2>1, <2>2, <2>4 DEF Fixed
  <2> QED BY <2>1, <2>4, <2>5 DEF Unique, Holds
<1>3. HonestAccepted
  <2>1. ASSUME NEW a \in aks
        PROVE  /\ checkAKParameters(a.format, a.pub, a.att)
               /\ a.format = "2.0" => Available(a.att)
               /\ \A s \in Session :
                    session[s] = Challenge("ak", a.tpm, a.format, a.pub, a.pub.id, a.pub) =>
                      Opens(a.tpm, session[s])
    <3>1. /\ a.tpm \in TPM /\ a.pub \in objects[a.tpm] /\ akTemplate(a.pub)
          /\ a.att = Said("creation", a.pub, a.pub.id)
          /\ a.format = Format[a.tpm]
      BY DEF TypeOK, ReturnedInv
    <3>2. checkAKParameters(a.format, a.pub, a.att)
      BY <3>1 DEF checkAKParameters, checkTPM20AKParameters, checkTPM12AKParameters,
                  akTemplate, Said, SignerDefault, Flags
    <3>3. ASSUME a.format = "2.0" PROVE Available(a.att)
      <4>1. a.att.signer = a.pub.id /\ a.att.name = a.pub
        BY <3>1 DEF Said
      <4>2. Holds(a.tpm, a.att.signer) /\ Is20(a.tpm)
        BY <3>1, <3>3, <4>1 DEF Holds, Is20
      <4> QED BY <3>1, <4>1, <4>2 DEF Available
    <3>4. ASSUME NEW s \in Session,
                 session[s] = Challenge("ak", a.tpm, a.format, a.pub, a.pub.id, a.pub)
          PROVE  Opens(a.tpm, session[s])
      BY <3>1, <3>4 DEF Challenge, Opens, akTemplate
    <3> QED BY <3>2, <3>3, <3>4
  <2>2. ASSUME NEW k \in keys
        PROVE  /\ k.pub.secure => CertificationVerify(k.pub, k.att, k.ak)
               /\ Available(k.att)
    <3>1. /\ k.tpm \in TPM /\ Is20(k.tpm)
          /\ k.pub \in objects[k.tpm] /\ templateFromConfig(k.pub)
          /\ k.ak \in objects[k.tpm] /\ akTemplate(k.ak)
          /\ k.att = Said("certify", k.pub, k.ak.id)
      BY DEF TypeOK, ReturnedInv
    <3>2. k.pub.secure => CertificationVerify(k.pub, k.att, k.ak)
      BY <3>1 DEF CertificationVerify, templateFromConfig, akTemplate, Said,
                  SignerDefault, Flags
    <3>3. Available(k.att)
      BY <3>1 DEF Available, Said, Holds
    <3> QED BY <3>2, <3>3
  <2> QED BY <2>1, <2>2 DEF HonestAccepted
<1> QED BY <1>1, <1>2, <1>3

-----------------------------------------------------------------------------

\* Keys in TPMs, and private parts outside, do not go away.
Grows == outside \subseteq outside' /\ \A t \in TPM : objects[t] \subseteq objects'[t]

\* A key that is created has a new private part, so it is the only key with it.
LEMMA CreateStep ==
  ASSUME TypeOK, Unique, Fixed, NEW t \in TPM, NEW p \in Public, Create(t, p),
         UNCHANGED outside
  PROVE  Unique' /\ Fixed' /\ Grows /\ p \in objects'[t]
<1>1. \A u \in TPM : objects'[u] = IF u = t THEN objects[t] \cup {p} ELSE objects[u]
  BY DEF Create, TypeOK
<1>2. p.id \notin outside /\ \A u \in TPM : \A q \in objects[u] : q.id # p.id
  BY DEF Create, Fresh
<1>3. Unique'
  BY <1>1, <1>2 DEF Unique
<1>4. Fixed'
  BY <1>1, <1>2 DEF Fixed
<1> QED BY <1>1, <1>3, <1>4 DEF Grows

\* Every step keeps fixed keys where they are.
LEMMA KeyStep ==
  ASSUME TypeOK, Unique, Fixed, [Next]_vars
  PROVE  Unique' /\ Fixed' /\ Grows
<1>1. ASSUME UNCHANGED <<objects, outside>> PROVE Unique' /\ Fixed' /\ Grows
  BY <1>1 DEF Unique, Fixed, Grows
<1>2. ASSUME NEW t \in TPM, OtherKey(t) \/ newAK(t) \/ newKey(t)
      PROVE  Unique' /\ Fixed' /\ Grows
  <2>1. PICK p \in Public : Create(t, p) /\ UNCHANGED outside
    BY <1>2 DEF OtherKey, newAK, newKey
  <2> QED BY <2>1, CreateStep
<1>3. ASSUME NEW id \in Id, KeyOutside(id) PROVE Unique' /\ Fixed' /\ Grows
  <2>1. objects' = objects /\ outside' = outside \cup {id} /\ Fresh(id)
    BY <1>3 DEF KeyOutside
  <2> QED BY <2>1 DEF Unique, Fixed, Grows, Fresh
<1>4. ASSUME NEW t \in TPM, Duplicate(t) PROVE Unique' /\ Fixed' /\ Grows
  <2>1. PICK p \in objects[t] : "fixedTPM" \notin p.flags /\ outside' = outside \cup {p.id}
    BY <1>4 DEF Duplicate
  <2>2. objects' = objects
    BY <1>4 DEF Duplicate
  <2>3. Unique' /\ Grows
    BY <2>1, <2>2 DEF Unique, Grows
  <2>4. ASSUME NEW u \in TPM, NEW q \in objects[u], "fixedTPM" \in q.flags
        PROVE  q.id \notin outside'
    BY <2>1, <2>4 DEF Unique, Fixed
  <2> QED BY <2>2, <2>3, <2>4 DEF Fixed
<1>5. ASSUME NEW t \in TPM, Import(t) PROVE Unique' /\ Fixed' /\ Grows
  <2>1. PICK p \in Public :
          /\ p.id \in outside
          /\ p.flags \cap {"fixedTPM", "fixedParent"} = {}
          /\ objects' = [objects EXCEPT ![t] = @ \cup {p}]
    BY <1>5 DEF Import
  <2>2. outside' = outside
    BY <1>5 DEF Import
  <2>3. \A u \in TPM : objects'[u] = IF u = t THEN objects[t] \cup {p} ELSE objects[u]
    BY <2>1 DEF TypeOK
  <2>4. Unique'
    BY <2>1, <2>2, <2>3 DEF Unique
  <2>5. Fixed'
    BY <2>1, <2>2, <2>3 DEF Fixed
  <2> QED BY <2>2, <2>3, <2>4, <2>5 DEF Grows
<1>6. ASSUME NEW s \in Session, Generate(s) \/ CertificationGenerate(s) \/ Abandon(s)
      PROVE  UNCHANGED <<objects, outside>>
  BY <1>6 DEF Generate, CertificationGenerate, Abandon, tpmVars
<1>7. ASSUME NEW s \in Session,
             (\E t \in TPM : activateCredential(t, s)) \/ \E x \in answers : Check(s, x)
      PROVE  UNCHANGED <<objects, outside>>
  BY <1>7 DEF activateCredential, Check, tpmVars
<1>8. CASE VerifyWithTrusted
  BY <1>1, <1>8 DEF VerifyWithTrusted, tpmVars
<1>9. CASE UNCHANGED vars
  BY <1>1, <1>9 DEF vars
<1> QED BY <1>1, <1>2, <1>3, <1>4, <1>5, <1>6, <1>7, <1>8, <1>9 DEF Next

\* Which actions change what the remote party and the library keep.
LEMMA SessionSteps ==
  ASSUME [Next]_vars
  PROVE  \/ UNCHANGED <<session, answers, trusted, certified>>
         \/ \E s \in Session :
              \/ Generate(s) \/ CertificationGenerate(s) \/ Abandon(s)
              \/ \E t \in TPM : activateCredential(t, s)
              \/ \E x \in answers : Check(s, x)
         \/ VerifyWithTrusted
BY DEF Next, vars, OtherKey, Duplicate, Import, newAK, newKey, KeyOutside

\* Only newAK and newKey change what the application holds.
LEMMA KeySteps ==
  ASSUME [Next]_vars
  PROVE  UNCHANGED <<aks, keys>> \/ \E t \in TPM : newAK(t) \/ newKey(t)
BY DEF Next, vars, tpmVars, OtherKey, Duplicate, Import, KeyOutside, Generate,
       CertificationGenerate, Abandon, activateCredential, Check, VerifyWithTrusted

\* Every step keeps the types.
LEMMA TypeStep == TypeOK /\ [Next]_vars => TypeOK'
<1> SUFFICES ASSUME TypeOK, [Next]_vars PROVE TypeOK'
  OBVIOUS
<1>1. ASSUME NEW t \in TPM, OtherKey(t) PROVE TypeOK'
  BY <1>1 DEF OtherKey, Create, TypeOK
<1>2. ASSUME NEW t \in TPM, newAK(t) PROVE TypeOK'
  <2>1. PICK p \in Public :
          /\ Create(t, p)
          /\ aks' = aks \cup {[tpm |-> t, pub |-> p, att |-> Said("creation", p, p.id),
                               format |-> Format[t]]}
    BY <1>2 DEF newAK
  <2>2. Said("creation", p, p.id) \in Statement /\ Format[t] \in {"2.0", "tcsd", "1.2"}
    BY ActivationAssumption DEF Said, Statement
  <2>3. aks' \subseteq [tpm : TPM, pub : Public, att : Statement,
                        format : {"2.0", "tcsd", "1.2"}]
    BY <2>1, <2>2 DEF TypeOK
  <2> QED BY <1>2, <2>1, <2>3 DEF newAK, Create, TypeOK
<1>3. ASSUME NEW t \in TPM, newKey(t) PROVE TypeOK'
  <2>1. PICK p \in Public, a \in aks :
          /\ Create(t, p)
          /\ keys' = keys \cup {[tpm |-> t, pub |-> p, att |-> Said("certify", p, a.pub.id),
                                 ak |-> a.pub]}
    BY <1>3 DEF newKey
  <2>2. a.pub \in Public /\ Said("certify", p, a.pub.id) \in Statement
    BY ActivationAssumption DEF TypeOK, Said, Statement
  <2>3. keys' \subseteq [tpm : TPM, pub : Public, att : Statement, ak : Public]
    BY <2>1, <2>2 DEF TypeOK
  <2> QED BY <1>3, <2>1, <2>3 DEF newKey, Create, TypeOK
<1>4. ASSUME NEW id \in Id, KeyOutside(id) PROVE TypeOK'
  BY <1>4 DEF KeyOutside, TypeOK
<1>5. ASSUME NEW t \in TPM, Duplicate(t) PROVE TypeOK'
  <2>1. PICK p \in objects[t] : outside' = outside \cup {p.id}
    BY <1>5 DEF Duplicate
  <2>2. p.id \in Id
    BY <2>1, ActivationAssumption DEF TypeOK
  <2> QED BY <1>5, <2>1, <2>2 DEF Duplicate, TypeOK
<1>6. ASSUME NEW t \in TPM, Import(t) PROVE TypeOK'
  BY <1>6 DEF Import, TypeOK
<1>7. ASSUME NEW s \in Session, Generate(s) PROVE TypeOK'
  <2>1. PICK ek \in TPM, format \in Formats, p \in Public :
          session' = [session EXCEPT ![s] = Challenge("ak", ek, format, p, p.id, p)]
    BY <1>7 DEF Generate, generateChallengeTPM20, generateChallengeTPM12
  <2>2. format \in {"2.0", "tcsd", "1.2"}
    BY ActivationAssumption DEF Formats
  <2>3. Challenge("ak", ek, format, p, p.id, p) # Closed
    BY DEF Challenge, Closed
  <2>4. p.id \in Id
    BY ActivationAssumption
  <2> QED BY <1>7, <2>1, <2>2, <2>3, <2>4 DEF Generate, TypeOK, Challenge, tpmVars
<1>8. ASSUME NEW s \in Session, CertificationGenerate(s) PROVE TypeOK'
  <2>1. PICK ek \in TPM, verifier \in PublicKeys, name \in Public, p \in Public :
          session' = [session EXCEPT ![s] = Challenge("key", ek, "2.0", name, verifier.id, p)]
    BY <1>8 DEF CertificationGenerate
  <2>2. Challenge("key", ek, "2.0", name, verifier.id, p) # Closed
    BY DEF Challenge, Closed
  <2>3. verifier.id \in Id
    BY ActivationAssumption DEF PublicKeys
  <2> QED BY <1>8, <2>1, <2>2, <2>3 DEF CertificationGenerate, TypeOK, Challenge, tpmVars
<1>9. ASSUME NEW s \in Session, Abandon(s) PROVE TypeOK'
  BY <1>9 DEF Abandon, TypeOK, tpmVars
<1>10. ASSUME NEW s \in Session, NEW t \in TPM, activateCredential(t, s) PROVE TypeOK'
  BY <1>10 DEF activateCredential, TypeOK, tpmVars
<1>11. ASSUME NEW s \in Session, NEW x \in answers, Check(s, x) PROVE TypeOK'
  <2>1. /\ session[s].ek \in TPM /\ session[s].key \in Public
        /\ session[s].name \in Public /\ session[s].by \in Id
    BY <1>11 DEF Check, TypeOK
  <2>2. /\ trusted' \subseteq [ek : TPM, ak : Public]
        /\ certified' \subseteq [ek : TPM, name : Public, by : Id, key : Public]
    BY <1>11, <2>1 DEF Check, Certified, TypeOK
  <2> QED BY <1>11, <2>2 DEF Check, TypeOK, tpmVars
<1>12. CASE VerifyWithTrusted
  <2>1. PICK a \in trusted, p \in Public :
          certified' = certified \cup {Certified(a.ek, a.ak, a.ak.id, p)}
    BY <1>12 DEF VerifyWithTrusted
  <2>2. a.ek \in TPM /\ a.ak \in Public /\ a.ak.id \in Id
    BY ActivationAssumption DEF TypeOK
  <2>3. certified' \subseteq [ek : TPM, name : Public, by : Id, key : Public]
    BY <2>1, <2>2 DEF Certified, TypeOK
  <2> QED BY <1>12, <2>3 DEF VerifyWithTrusted, TypeOK, tpmVars
<1>13. CASE UNCHANGED vars
  BY <1>13 DEF vars, TypeOK
<1> QED BY <1>1, <1>2, <1>3, <1>4, <1>5, <1>6, <1>7, <1>8, <1>9, <1>10, <1>11, <1>12, <1>13
    DEF Next

\* What was said of a key stays said.
LEMMA VouchedGrows ==
  ASSUME Grows, NEW id, NEW key, Vouched(id, key)
  PROVE  Vouched(id, key)'
BY DEF Grows, Vouched, CanSignAnything, Holds

\* A TPM that opens a credential keeps opening it.
LEMMA OpensGrows ==
  ASSUME Grows, NEW t \in TPM, NEW c, Opens(t, c)
  PROVE  Opens(t, c)'
BY DEF Grows, Opens, Is20

\* A statement that passes CertificationParameters.Verify was made by a key that
\* signs anything, or says what its TPM holds.
LEMMA CertifiableVouched ==
  ASSUME NEW p \in Public, NEW verifier, Certifiable(p, verifier)
  PROVE  Vouched(verifier.id, p) /\ "fixedTPM" \in p.flags
<1>1. PICK att \in Statement : CertificationVerify(p, att, verifier) /\ Available(att)
  BY DEF Certifiable
<1>2. att.signer = verifier.id /\ att.name = p /\ att.magic /\ "fixedTPM" \in p.flags
  BY <1>1 DEF CertificationVerify
<1>3. CASE CanSignAnything(att.signer)
  BY <1>2, <1>3 DEF Vouched
<1>4. CASE \E t \in TPM : Holds(t, att.signer) /\ Is20(t) /\ (att.magic => att.name \in objects[t])
  <2>1. PICK t \in TPM : Holds(t, att.signer) /\ (att.magic => att.name \in objects[t])
    BY <1>4
  <2>2. Holds(t, verifier.id) /\ p \in objects[t]
    BY <1>2, <2>1
  <2> QED BY <1>2, <2>2 DEF Vouched
<1> QED BY <1>1, <1>3, <1>4 DEF Available

\* A challenge that was opened shows where the key of its name is.
LEMMA OpenedHeld ==
  ASSUME TypeOK, SessionInv, AnswerInv, NEW s \in answers
  PROVE  /\ s \in Session /\ session[s] # Closed
         /\ session[s].ek \in TPM
         /\ session[s].kind = "ak" \/ Sealed(session[s].name) =>
              \E p \in objects[session[s].ek] :
                /\ p.id = session[s].name.id /\ Sealed(p)
                /\ Is20(session[s].ek) => p = session[s].name
<1>1. s \in Session /\ session[s] # Closed /\ session[s].ek \in TPM
      /\ session[s].kind \in {"ak", "key"}
  BY DEF TypeOK
<1>2. Opens(session[s].ek, session[s])
  BY DEF AnswerInv
<1>3. CASE Is20(session[s].ek)
  <2>1. session[s].format = "2.0" /\ session[s].name \in objects[session[s].ek]
    BY <1>2, <1>3 DEF Opens, Is20
  <2>2. session[s].kind = "ak" => Sealed(session[s].name)
    BY <1>1, <2>1 DEF SessionInv
  <2> QED BY <1>1, <2>1, <2>2
<1>4. CASE ~Is20(session[s].ek)
  <2>1. PICK p \in objects[session[s].ek] :
          p.id = session[s].name.id /\ p.flags = SignerDefault
    BY <1>2, <1>4 DEF Opens
  <2>2. Sealed(p)
    BY <2>1 DEF Sealed, SignerDefault, Flags
  <2> QED BY <1>1, <1>4, <2>1, <2>2
<1> QED BY <1>3, <1>4

\* Every step keeps SessionInv.
LEMMA SessionStep == IInv /\ [Next]_vars => SessionInv'
<1> SUFFICES ASSUME IInv, [Next]_vars, NEW r \in Session, session'[r] # Closed
             PROVE  /\ session'[r].kind = "ak" =>
                         /\ session'[r].key = session'[r].name
                         /\ session'[r].format = "2.0" => Sealed(session'[r].name)
                    /\ session'[r].kind = "key" =>
                         /\ "fixedTPM" \in session'[r].key.flags
                         /\ Vouched(session[r].by, session[r].key)'
  BY DEF SessionInv
<1> USE DEF IInv
<1>0. Grows
  BY KeyStep
<1>1. CASE session'[r] = session[r]
  <2>1. PICK id, key : id = session[r].by /\ key = session[r].key
    OBVIOUS
  <2>2. session[r].kind = "key" => Vouched(id, key)
    BY <1>1, <2>1 DEF SessionInv
  <2>3. session[r].kind = "key" => Vouched(id, key)'
    BY <1>0, <2>2, VouchedGrows
  <2>4. id = session'[r].by /\ key = session'[r].key
    BY <1>1, <2>1
  <2>5. session[r].kind = "key" => Vouched(session[r].by, session[r].key)'
    BY <2>3, <2>4
  <2> QED BY <1>1, <2>5 DEF SessionInv
<1>2. ASSUME Generate(r)
      PROVE  /\ session'[r].kind = "ak" /\ session'[r].key = session'[r].name
             /\ session'[r].format = "2.0" => Sealed(session'[r].name)
  <2>1. PICK ek \in TPM, format \in Formats, p \in Public :
          /\ Presentable(format, p)
          /\ session' = [session EXCEPT ![r] = Challenge("ak", ek, format, p, p.id, p)]
    BY <1>2 DEF Generate, generateChallengeTPM20, generateChallengeTPM12
  <2>2. format = "2.0" => Sealed(p)
    BY <2>1 DEF Presentable, checkAKParameters, checkTPM20AKParameters, Sealed
  <2>3. session'[r] = Challenge("ak", ek, format, p, p.id, p)
    BY <2>1 DEF TypeOK
  <2> QED BY <2>2, <2>3 DEF Challenge
<1>3. ASSUME CertificationGenerate(r)
      PROVE  /\ session'[r].kind = "key"
             /\ "fixedTPM" \in session'[r].key.flags
             /\ Vouched(session[r].by, session[r].key)'
  <2>1. PICK ek \in TPM, verifier \in PublicKeys, name \in Public, p \in Public :
          /\ Certifiable(p, verifier)
          /\ session' = [session EXCEPT ![r] =
                          Challenge("key", ek, "2.0", name, verifier.id, p)]
    BY <1>3 DEF CertificationGenerate
  <2>2. Vouched(verifier.id, p) /\ "fixedTPM" \in p.flags
    BY <2>1, CertifiableVouched
  <2>3. Vouched(verifier.id, p)'
    BY <1>0, <2>2, VouchedGrows
  <2>4. session'[r] = Challenge("key", ek, "2.0", name, verifier.id, p)
    BY <2>1 DEF TypeOK
  <2>5. session'[r].by = verifier.id /\ session'[r].key = p /\ session'[r].kind = "key"
    BY <2>4 DEF Challenge
  <2>6. Vouched(session[r].by, session[r].key)'
    BY <2>3, <2>5
  <2> QED BY <2>2, <2>5, <2>6
<1>4. session'[r] = session[r] \/ Generate(r) \/ CertificationGenerate(r)
  <2>1. ASSUME NEW s \in Session,
               \/ Generate(s) \/ CertificationGenerate(s) \/ Abandon(s)
               \/ \E t \in TPM : activateCredential(t, s)
               \/ \E x \in answers : Check(s, x)
        PROVE  session'[r] = session[r] \/ Generate(r) \/ CertificationGenerate(r)
    <3>1. s # r => session'[r] = session[r]
      BY <2>1 DEF Generate, CertificationGenerate, Abandon, activateCredential, Check, TypeOK
    <3>2. Abandon(r) \/ (\E x \in answers : Check(r, x)) => session'[r] = Closed
      BY DEF Abandon, Check, TypeOK
    <3>3. (\E t \in TPM : activateCredential(t, s)) => session' = session
      BY DEF activateCredential
    <3> QED BY <2>1, <3>1, <3>2, <3>3
  <2> QED BY <2>1, SessionSteps DEF VerifyWithTrusted
<1> QED BY <1>1, <1>2, <1>3, <1>4

\* Every step keeps AnswerInv: an answer comes from the TPM that opens the credential.
LEMMA AnswerStep == IInv /\ [Next]_vars => AnswerInv'
<1> SUFFICES ASSUME IInv, [Next]_vars, NEW r \in answers'
             PROVE  Opens(session[r].ek, session[r])'
  BY DEF AnswerInv
<1> USE DEF IInv
<1>0. Grows
  BY KeyStep
<1>1. ASSUME r \in Session, session'[r] = session[r], session[r].ek \in TPM,
             Opens(session[r].ek, session[r])
      PROVE  Opens(session[r].ek, session[r])'
  <2>1. PICK ek, c : ek = session[r].ek /\ c = session[r]
    OBVIOUS
  <2>2. Opens(ek, c)'
    BY <1>0, <1>1, <2>1, OpensGrows
  <2>3. ek = session'[r].ek /\ c = session'[r]
    BY <1>1, <2>1
  <2> QED BY <2>2, <2>3
<1>2. ASSUME r \in answers, session'[r] = session[r] PROVE Opens(session[r].ek, session[r])'
  <2>1. r \in Session /\ session[r].ek \in TPM
    BY <1>2 DEF TypeOK
  <2> QED BY <1>1, <1>2, <2>1 DEF AnswerInv
<1>3. CASE UNCHANGED <<session, answers>>
  BY <1>2, <1>3
<1>4. ASSUME NEW s \in Session, Generate(s) \/ CertificationGenerate(s)
      PROVE  Opens(session[r].ek, session[r])'
  <2>1. answers' = answers /\ session[s] = Closed
    BY <1>4 DEF Generate, CertificationGenerate
  <2>2. r # s
    BY <2>1 DEF TypeOK
  <2>3. session'[r] = session[r]
    BY <1>4, <2>2 DEF Generate, CertificationGenerate, TypeOK
  <2> QED BY <1>2, <2>1, <2>3
<1>5. ASSUME NEW s \in Session, Abandon(s) \/ \E x \in answers : Check(s, x)
      PROVE  Opens(session[r].ek, session[r])'
  <2>1. r \in answers /\ r # s
    BY <1>5 DEF Abandon, Check
  <2>2. session'[r] = session[r]
    BY <1>5, <2>1 DEF Abandon, Check, TypeOK
  <2> QED BY <1>2, <2>1, <2>2
<1>6. ASSUME NEW s \in Session, NEW t \in TPM, activateCredential(t, s)
      PROVE  Opens(session[r].ek, session[r])'
  <2>1. session' = session /\ answers' = answers \cup {s} /\ Opens(t, session[s])
    BY <1>6 DEF activateCredential
  <2>2. session[s].ek = t
    BY <2>1 DEF Opens
  <2>3. CASE r = s
    BY <1>1, <2>1, <2>2, <2>3
  <2> QED BY <1>2, <2>1, <2>3
<1> QED BY <1>3, <1>4, <1>5, <1>6, SessionSteps DEF VerifyWithTrusted

\* Every step keeps AKHeld: an AK that is trusted is in the TPM of its EK.
LEMMA AKStep == IInv /\ [Next]_vars => AKHeld'
<1> SUFFICES ASSUME IInv, [Next]_vars, NEW a \in trusted'
             PROVE  \E p \in objects'[a.ek] :
                      p.id = a.ak.id /\ Sealed(p) /\ (Is20(a.ek) => p = a.ak)
  BY DEF AKHeld, Is20
<1> USE DEF IInv
<1>0. Grows
  BY KeyStep
<1>1. CASE a \in trusted
  <2>1. a.ek \in TPM
    BY <1>1 DEF TypeOK
  <2> QED BY <1>0, <1>1, <2>1 DEF AKHeld, Grows
<1>2. ASSUME NEW s \in Session, NEW x \in answers, Check(s, x), a \notin trusted
      PROVE  \E p \in objects'[a.ek] :
               p.id = a.ak.id /\ Sealed(p) /\ (Is20(a.ek) => p = a.ak)
  <2>1. /\ s \in answers /\ session[s].kind = "ak" /\ session[s] # Closed
        /\ a.ek = session[s].ek /\ a.ak = session[s].key
    BY <1>2 DEF Check
  <2>2. session[s].key = session[s].name
    BY <2>1 DEF SessionInv
  <2>3. /\ a.ek \in TPM
        /\ \E p \in objects[a.ek] :
             p.id = a.ak.id /\ Sealed(p) /\ (Is20(a.ek) => p = a.ak)
    BY <2>1, <2>2, OpenedHeld
  <2> QED BY <1>0, <2>3 DEF Grows
<1>3. a \in trusted \/ \E s \in Session, x \in answers : Check(s, x)
  BY SessionSteps DEF Generate, CertificationGenerate, Abandon, activateCredential,
                      VerifyWithTrusted
<1> QED BY <1>1, <1>2, <1>3

\* Every step keeps CertHeld.
LEMMA CertStep == IInv /\ [Next]_vars => CertHeld'
<1> DEFINE Held(c) ==
      /\ "fixedTPM" \in c.key.flags
      /\ Vouched(c.by, c.key)
      /\ Sealed(c.name) => \E p \in objects[c.ek] : p.id = c.name.id /\ Sealed(p)
<1> SUFFICES ASSUME IInv, [Next]_vars, NEW c \in certified', c.ek \in TPM
             PROVE  Held(c)'
  BY TypeStep DEF IInv, TypeOK, CertHeld
<1> USE DEF IInv
<1>0. ASSUME Held(c) PROVE Held(c)'
  <2>1. Grows
    BY KeyStep
  <2>2. Vouched(c.by, c.key)'
    BY <1>0, <2>1, VouchedGrows
  <2> QED BY <1>0, <2>1, <2>2 DEF Grows
<1>1. CASE c \in certified
  BY <1>0, <1>1 DEF CertHeld
<1>2. ASSUME NEW s \in Session, NEW x \in answers, Check(s, x), c \notin certified
      PROVE  Held(c)'
  <2>1. /\ s \in answers /\ session[s].kind # "ak" /\ session[s] # Closed
        /\ c.ek = session[s].ek /\ c.key = session[s].key
        /\ c.by = session[s].by /\ c.name = session[s].name
    BY <1>2 DEF Check, Certified
  <2>2. session[s].kind = "key"
    BY <2>1 DEF TypeOK
  <2>3. "fixedTPM" \in c.key.flags /\ Vouched(c.by, c.key)
    BY <2>1, <2>2 DEF SessionInv
  <2>4. Sealed(c.name) => \E p \in objects[c.ek] : p.id = c.name.id /\ Sealed(p)
    BY <2>1, OpenedHeld
  <2> QED BY <1>0, <2>3, <2>4
<1>3. ASSUME VerifyWithTrusted, c \notin certified PROVE Held(c)'
  <2>1. PICK a \in trusted, p \in Public :
          /\ Certifiable(p, a.ak)
          /\ certified' = certified \cup {Certified(a.ek, a.ak, a.ak.id, p)}
    BY <1>3 DEF VerifyWithTrusted
  <2>2. c.ek = a.ek /\ c.key = p /\ c.by = a.ak.id /\ c.name = a.ak
    BY <1>3, <2>1 DEF Certified
  <2>3. Vouched(a.ak.id, p) /\ "fixedTPM" \in p.flags
    BY <2>1, CertifiableVouched
  <2>4. \E q \in objects[a.ek] : q.id = a.ak.id /\ Sealed(q)
    BY DEF AKHeld
  <2> QED BY <1>0, <2>2, <2>3, <2>4
<1>4. c \in certified \/ VerifyWithTrusted \/ \E s \in Session, x \in answers : Check(s, x)
  BY SessionSteps DEF Generate, CertificationGenerate, Abandon, activateCredential
<1> QED BY <1>1, <1>2, <1>3, <1>4

\* Every step keeps ReturnedInv.
LEMMA ReturnedStep == IInv /\ [Next]_vars => ReturnedInv'
<1> SUFFICES ASSUME IInv, [Next]_vars PROVE ReturnedInv'
  OBVIOUS
<1> USE DEF IInv
<1>0. Grows
  BY KeyStep
<1>1. ASSUME NEW a \in aks
      PROVE  /\ a.pub \in objects'[a.tpm] /\ akTemplate(a.pub)
             /\ a.att = Said("creation", a.pub, a.pub.id)
             /\ a.format = Format[a.tpm]
  <2>1. a.tpm \in TPM
    BY DEF TypeOK
  <2> QED BY <1>0, <2>1 DEF Grows, ReturnedInv
<1>2. ASSUME NEW k \in keys
      PROVE  /\ Is20(k.tpm)
             /\ k.pub \in objects'[k.tpm] /\ templateFromConfig(k.pub)
             /\ k.ak \in objects'[k.tpm] /\ akTemplate(k.ak)
             /\ k.att = Said("certify", k.pub, k.ak.id)
  <2>1. k.tpm \in TPM
    BY DEF TypeOK
  <2> QED BY <1>0, <2>1 DEF Grows, ReturnedInv
<1>3. ASSUME NEW t \in TPM, newAK(t) PROVE ReturnedInv'
  <2>1. PICK p \in Public :
          /\ akTemplate(p) /\ Create(t, p)
          /\ aks' = aks \cup {[tpm |-> t, pub |-> p, att |-> Said("creation", p, p.id),
                               format |-> Format[t]]}
    BY <1>3 DEF newAK
  <2>2. p \in objects'[t] /\ keys' = keys
    BY <1>3, <2>1, CreateStep DEF newAK
  <2>3. ASSUME NEW a \in aks'
        PROVE  /\ a.pub \in objects'[a.tpm] /\ akTemplate(a.pub)
               /\ a.att = Said("creation", a.pub, a.pub.id)
               /\ a.format = Format[a.tpm]
    BY <1>1, <2>1, <2>2
  <2> QED BY <1>2, <2>2, <2>3 DEF ReturnedInv, Is20
<1>4. ASSUME NEW t \in TPM, newKey(t) PROVE ReturnedInv'
  <2>1. PICK p \in Public, a \in aks :
          /\ a.tpm = t /\ templateFromConfig(p) /\ Create(t, p)
          /\ keys' = keys \cup {[tpm |-> t, pub |-> p, att |-> Said("certify", p, a.pub.id),
                                 ak |-> a.pub]}
    BY <1>4 DEF newKey
  <2>2. p \in objects'[t] /\ aks' = aks /\ Is20(t)
    BY <1>4, <2>1, CreateStep DEF newKey
  <2>3. a.pub \in objects'[t] /\ akTemplate(a.pub)
    BY <1>1, <2>1
  <2>4. ASSUME NEW k \in keys'
        PROVE  /\ Is20(k.tpm)
               /\ k.pub \in objects'[k.tpm] /\ templateFromConfig(k.pub)
               /\ k.ak \in objects'[k.tpm] /\ akTemplate(k.ak)
               /\ k.att = Said("certify", k.pub, k.ak.id)
    BY <1>2, <2>1, <2>2, <2>3
  <2> QED BY <1>1, <2>2, <2>4 DEF ReturnedInv, Is20
<1>5. CASE UNCHANGED <<aks, keys>>
  BY <1>1, <1>2, <1>5 DEF ReturnedInv, Is20
<1> QED BY <1>3, <1>4, <1>5, KeySteps

\* The invariant holds in every state.
LEMMA Invariance == Spec => []IInv
<1>1. Init => IInv
  <2> SUFFICES ASSUME Init PROVE IInv
    OBVIOUS
  <2>1. TypeOK
    BY DEF Init, TypeOK
  <2>2. Unique /\ Fixed /\ SessionInv /\ AnswerInv
    BY DEF Init, Unique, Fixed, SessionInv, AnswerInv
  <2>3. AKHeld /\ CertHeld /\ ReturnedInv
    BY DEF Init, AKHeld, CertHeld, ReturnedInv
  <2> QED BY <2>1, <2>2, <2>3 DEF IInv
<1>2. IInv /\ [Next]_vars => IInv'
  BY TypeStep, KeyStep, SessionStep, AnswerStep, AKStep, CertStep, ReturnedStep DEF IInv
<1> QED BY <1>1, <1>2, PTL DEF Spec

-----------------------------------------------------------------------------

\* The values of the variables are of their types, and only the secrets of open
\* sessions are known.
THEOREM ActivationTypes == Spec => []TypeOK
<1>1. IInv => TypeOK
  BY DEF IInv
<1> QED BY <1>1, Invariance, PTL

\* What ActivationParameters.Generate promises: an AK of which the challenge was
\* answered is in the TPM of the EK and signs only what that TPM states.
THEOREM ActivatedAKBound == Spec => []AKBound
<1>1. IInv => AKBound
  BY Implies
<1> QED BY <1>1, Invariance, PTL

\* What CertificationParameters.Verify and Generate promise, to a caller that uses
\* one verifier key which is an AK: an accepted key is in the TPM of the EK, and
\* nowhere else.
THEOREM CertifiedKeyBound == Spec => []CertifiedBound
<1>1. IInv => CertifiedBound
  BY Implies
<1> QED BY <1>1, Invariance, PTL

\* The keys that newAK and newKey make are accepted.
THEOREM HonestKeysAccepted == Spec => []HonestAccepted
<1>1. IInv => HonestAccepted
  BY Implies
<1> QED BY <1>1, Invariance, PTL
=============================================================================
