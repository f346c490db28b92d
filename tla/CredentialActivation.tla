------------------------ MODULE CredentialActivation ------------------------
(***************************************************************************)
(* How the remote party comes to trust keys (activation.go,                *)
(* certification.go, challenge.go), with several TPMs, keys of any kind in *)
(* them, and a client that presents whatever exists: the public area of    *)
(* one key with the statement about another, a challenge in another TPM,   *)
(* the answer to another challenge, an old answer again.                   *)
(*                                                                         *)
(* Cryptography is free: the name of a key is its public area, a signature *)
(* can be made only with the private part, a challenge is opened only by   *)
(* the TPM of its EK.  An EK is identified with its TPM.  Operations that  *)
(* return an error change nothing and have no step.                        *)
(***************************************************************************)
EXTENDS Integers, FiniteSets

CONSTANTS
  TPM,
  Format,   (* for each TPM, the challenges it opens: "2.0", or "tcsd" or "1.2" for a TPM 1.2 *)
  Id,       (* key pairs *)
  Public,   (* public areas: [id, alg, secure, flags] *)
  Session,  (* calls of Generate by the remote party *)
  MaxCertified  (* bound on the certifications that are accepted or challenged *)

Flags == {"fixedTPM", "fixedParent", "sensitiveDataOrigin", "restricted"}
SignerDefault == Flags

ASSUME ActivationAssumption ==
  /\ Format \in [TPM -> {"2.0", "tcsd", "1.2"}]
  /\ Public \subseteq [id : Id, alg : {"rsa", "ecc"}, secure : BOOLEAN, flags : SUBSET Flags]

Formats == {Format[t] : t \in TPM}
Is20(t) == Format[t] = "2.0"

\* Attested structures with a signature that verifies with key `signer`: what
\* was attested (magic: starting as only TPMs' own structures do), about which
\* key, and whether the creation data that come with it have the digest in it.
Statement ==
  [typ : {"creation", "certify"}, magic : BOOLEAN, name : Public, digest : BOOLEAN,
   signer : Id]

VARIABLES
  objects,    \* the keys each TPM holds, with their private parts
  outside,    \* the key pairs with a private part that is known outside of TPMs
  aks,        \* the AttestationParameters that newAK returned, with the TPM
  keys,       \* the CertificationParameters of newKey's keys, with the AK's
  session,    \* for each session, what was challenged
  answers,    \* the sessions with a secret that a TPM has decrypted
  trusted,    \* pairs of an EK and an AK that the remote party has accepted
  certified   \* an EK and an application key that it has accepted, and how

vars == <<objects, outside, aks, keys, session, answers, trusted, certified>>
tpmVars == <<objects, outside, aks, keys>>

Closed == [kind |-> "none"]

Init ==
  /\ objects = [t \in TPM |-> {}]
  /\ outside = {}
  /\ aks = {} /\ keys = {}
  /\ session = [s \in Session |-> Closed]
  /\ answers = {}
  /\ trusted = {} /\ certified = {}

-----------------------------------------------------------------------------
(***************************************************************************)
(* TPMs and what is done with them.                                        *)
(***************************************************************************)

Fresh(id) == id \notin outside /\ \A t \in TPM : \A p \in objects[t] : p.id # id

\* TPM2_Create.  A key that is fixed to its TPM is fixed to its parent.
Create(t, p) ==
  /\ Fresh(p.id)
  /\ "sensitiveDataOrigin" \in p.flags
  /\ "fixedTPM" \in p.flags => "fixedParent" \in p.flags
  /\ objects' = [objects EXCEPT ![t] = @ \cup {p}]

\* Other software creates a key in a TPM, or outside of any.
OtherKey(t) ==
  /\ \E p \in Public : Create(t, p)
  /\ UNCHANGED <<outside, aks, keys, session, answers, trusted, certified>>

KeyOutside(id) ==
  /\ Fresh(id)
  /\ outside' = outside \cup {id}
  /\ UNCHANGED <<objects, aks, keys, session, answers, trusted, certified>>

\* A key that may be duplicated, or has a parent that may be, leaves its TPM.
Duplicate(t) ==
  /\ \E p \in objects[t] : "fixedTPM" \notin p.flags /\ outside' = outside \cup {p.id}
  /\ UNCHANGED <<objects, aks, keys, session, answers, trusted, certified>>

\* TPM2_Import, which refuses keys that are fixed.
Import(t) ==
  /\ \E p \in Public :
       /\ p.id \in outside
       /\ p.flags \cap {"fixedTPM", "fixedParent"} = {}
       /\ objects' = [objects EXCEPT ![t] = @ \cup {p}]
  /\ UNCHANGED <<outside, aks, keys, session, answers, trusted, certified>>

\* Statements.  A private part that is outside, or in a TPM that does not
\* restrict it, signs anything; a restricted key signs anything that does not
\* start like a TPM's own structures, and what its TPM says of the keys it holds.
CanSignAnything(id) ==
  \/ id \in outside
  \/ \E t \in TPM : \E p \in objects[t] : p.id = id /\ "restricted" \notin p.flags
Holds(t, id) == \E p \in objects[t] : p.id = id
Available(st) ==
  \/ CanSignAnything(st.signer)
  \/ \E t \in TPM : Holds(t, st.signer) /\ Is20(t) /\ (st.magic => st.name \in objects[t])

Said(typ, p, signer) ==
  [typ |-> typ, magic |-> TRUE, name |-> p, digest |-> TRUE, signer |-> signer]

\* Mutant: the template has the attributes of an application key.
akTemplateUnrestricted(p) ==
  p.alg = "rsa" /\ p.secure /\ p.flags = SignerDefault \ {"restricted"}

\* The template of an AK, as far as the remote party looks at it.
akTemplate(p) == p.alg = "rsa" /\ p.secure /\ p.flags = SignerDefault

\* TPM.NewAK: the key certifies its own creation.  A TPM 1.2 has no statement.
newAK(t) ==
  /\ \E p \in Public :
       /\ akTemplate(p)
       /\ Create(t, p)
       /\ aks' = aks \cup {[tpm |-> t, pub |-> p, att |-> Said("creation", p, p.id),
                            format |-> Format[t]]}
  /\ UNCHANGED <<outside, keys, session, answers, trusted, certified>>

\* The templates of application keys; the RSA size is the caller's.
templateFromConfig(p) ==
  p.flags = SignerDefault \ {"restricted"} /\ (p.alg = "ecc" => p.secure)

\* TPM.NewKey: the key is certified by the AK.
newKey(t) ==
  /\ Is20(t)
  /\ \E p \in Public, a \in aks :
       /\ a.tpm = t
       /\ templateFromConfig(p)
       /\ Create(t, p)
       /\ keys' = keys \cup {[tpm |-> t, pub |-> p, att |-> Said("certify", p, a.pub.id),
                              ak |-> a.pub]}
  /\ UNCHANGED <<outside, aks, session, answers, trusted, certified>>

-----------------------------------------------------------------------------
(***************************************************************************)
(* The remote party.                                                       *)
(***************************************************************************)

checkTPM12AKParameters(p) == p.alg = "rsa" /\ p.secure

checkTPM20AKParameters(p, att) ==
  /\ att.typ = "creation"
  /\ p.alg = "rsa" /\ p.secure
  /\ att.digest
  /\ att.magic
  /\ {"fixedTPM", "restricted", "fixedParent", "sensitiveDataOrigin"} \subseteq p.flags
  /\ att.name = p
  /\ att.signer = p.id

\* Mutant: a key that is not restricted is accepted.
checkAKParametersUnrestricted(format, p, att) ==
  IF format = "2.0"
    THEN /\ att.typ = "creation" /\ p.alg = "rsa" /\ p.secure /\ att.digest /\ att.magic
         /\ {"fixedTPM", "fixedParent", "sensitiveDataOrigin"} \subseteq p.flags
         /\ att.name = p /\ att.signer = p.id
    ELSE checkTPM12AKParameters(p)

checkAKParameters(format, p, att) ==
  IF format = "2.0" THEN checkTPM20AKParameters(p, att) ELSE checkTPM12AKParameters(p)

\* The challenge of a session: to the TPM of ek, for the key with this name, about
\* the trust in key, for which a statement verified with key pair by.
Challenge(kind, ek, format, name, by, key) ==
  [kind |-> kind, ek |-> ek, format |-> format, name |-> name, by |-> by, key |-> key]

generateChallengeTPM20(ek, p) == Challenge("ak", ek, "2.0", p, p.id, p)

\* The blob has the hash of the public key, encrypted to the EK, in the format
\* of the TCSD or in the plain one; which one the client says.
generateChallengeTPM12(ek, format, p) == Challenge("ak", ek, format, p, p.id, p)

\* The public area and the creation attestation that a client can present.  The
\* public key of a TPM 1.2 comes alone and has no attributes; p stands for it
\* with those of an identity key.
Presentable(format, p) ==
  \E att \in Statement :
    /\ checkAKParameters(format, p, att)
    /\ IF format = "2.0" THEN Available(att) ELSE p.flags = SignerDefault

\* ActivationParameters.Generate, for an EK and a version of the caller's choice.
Generate(s) ==
  /\ session[s] = Closed
  /\ \E ek \in TPM, format \in Formats, p \in Public :
       /\ Presentable(format, p)
       /\ session' = [session EXCEPT ![s] =
            IF format = "2.0" THEN generateChallengeTPM20(ek, p)
                              ELSE generateChallengeTPM12(ek, format, p)]
  /\ UNCHANGED <<tpmVars, answers, trusted, certified>>

\* The public keys in public areas, without the attributes.
PublicKeys == {[id |-> p.id, alg |-> p.alg] : p \in Public}

\* Mutant: what was attested may be no structure of a TPM.
CertificationVerifyAnyMagic(p, att, verifier) ==
  /\ att.typ = "certify" /\ p.secure
  /\ {"fixedTPM", "fixedParent", "sensitiveDataOrigin"} \subseteq p.flags
  /\ "restricted" \notin p.flags
  /\ att.name = p /\ verifier.alg = "rsa" /\ att.signer = verifier.id

\* CertificationParameters.Verify, with the key pair and algorithm of verifier,
\* which is all there is in VerifyOpts.Public.
CertificationVerify(p, att, verifier) ==
  /\ att.typ = "certify"
  /\ p.secure
  /\ att.magic
  /\ {"fixedTPM", "fixedParent", "sensitiveDataOrigin"} \subseteq p.flags
  /\ "restricted" \notin p.flags
  /\ att.name = p
  /\ verifier.alg = "rsa"
  /\ att.signer = verifier.id

Certifiable(p, verifier) ==
  \E att \in Statement : CertificationVerify(p, att, verifier) /\ Available(att)

\* How a key was accepted: for the TPM of ek, with a statement that key pair by has
\* signed, and (a challenge for) the key with this name in that TPM.
Certified(ek, name, by, key) == [ek |-> ek, name |-> name, by |-> by, key |-> key]

Challenged == {s \in Session : session[s].kind = "key"}
MoreCertified == Cardinality(certified) + Cardinality(Challenged) < MaxCertified

\* The caller verifies with an AK it trusts already: no challenge is needed.
VerifyWithTrusted ==
  /\ MoreCertified
  /\ \E a \in trusted, p \in Public :
       /\ Certifiable(p, a.ak)
       /\ certified' = certified \cup {Certified(a.ek, a.ak, a.ak.id, p)}
  /\ UNCHANGED <<tpmVars, session, answers, trusted>>

\* CertificationParameters.Generate: verification with a key that was not
\* activated, and a challenge for the key with the name in ActivateOpts.  That the
\* two are one key, and what attributes it has, is left to the caller.
CertificationGenerate(s) ==
  /\ session[s] = Closed
  /\ MoreCertified
  /\ \E ek \in TPM, verifier \in PublicKeys, name \in Public, p \in Public :
       /\ Certifiable(p, verifier)
       /\ session' = [session EXCEPT ![s] = Challenge("key", ek, "2.0", name, verifier.id, p)]
  /\ UNCHANGED <<tpmVars, answers, trusted, certified>>

\* The TPM opens a challenge that is for its EK if it holds the key.  A TPM 2.0
\* compares names, which the attributes are part of; TPM_ActivateIdentity of a TPM
\* 1.2 takes identity keys, which are always restricted and fixed.
Opens(t, c) ==
  /\ c.ek = t
  /\ c.format = Format[t]
  /\ \/ Is20(t) /\ c.name \in objects[t]
     \/ ~Is20(t) /\ \E p \in objects[t] : p.id = c.name.id /\ p.flags = SignerDefault

\* Mutant: a secret is returned whatever the challenge is.
activateCredentialUnchecked(t, s) ==
  /\ answers' = answers \cup {s}
  /\ UNCHANGED <<tpmVars, session, trusted, certified>>

\* AK.ActivateCredential, on any machine that the challenge has come to.
activateCredential(t, s) ==
  /\ session[s] # Closed
  /\ Opens(t, session[s])
  /\ answers' = answers \cup {s}
  /\ UNCHANGED <<tpmVars, session, trusted, certified>>

\* The caller compares a secret it gets with the one that Generate returned.
\* Secrets are random: the session is over, and its secret of no use later.
Check(s, answer) ==
  /\ session[s] # Closed
  /\ answer = s
  /\ IF session[s].kind = "ak"
       THEN /\ trusted' = trusted \cup {[ek |-> session[s].ek, ak |-> session[s].key]}
            /\ UNCHANGED certified
       ELSE /\ certified' = certified \cup
                 {Certified(session[s].ek, session[s].name, session[s].by, session[s].key)}
            /\ UNCHANGED trusted
  /\ session' = [session EXCEPT ![s] = Closed]
  /\ answers' = answers \ {s}
  /\ UNCHANGED tpmVars

\* The caller gives a session up: no answer came, or a wrong one.
Abandon(s) ==
  /\ session[s] # Closed
  /\ session' = [session EXCEPT ![s] = Closed]
  /\ answers' = answers \ {s}
  /\ UNCHANGED <<tpmVars, trusted, certified>>

Next ==
  \/ \E t \in TPM : OtherKey(t) \/ Duplicate(t) \/ Import(t) \/ newAK(t) \/ newKey(t)
  \/ \E id \in Id : KeyOutside(id)
  \/ \E s \in Session : Generate(s) \/ CertificationGenerate(s) \/ Abandon(s)
  \/ \E t \in TPM, s \in Session : activateCredential(t, s)
  \/ \E s \in Session, answer \in answers : Check(s, answer)
  \/ VerifyWithTrusted

Spec == Init /\ [][Next]_vars

-----------------------------------------------------------------------------
(***************************************************************************)
(* Properties.                                                             *)
(***************************************************************************)

\* The values of the variables; secrets are known only of sessions that are open.
TypeOK ==
  /\ objects \in [TPM -> SUBSET Public]
  /\ outside \subseteq Id
  /\ aks \subseteq [tpm : TPM, pub : Public, att : Statement, format : {"2.0", "tcsd", "1.2"}]
  /\ keys \subseteq [tpm : TPM, pub : Public, att : Statement, ak : Public]
  /\ session \in [Session -> {Closed} \cup
       [kind : {"ak", "key"}, ek : TPM, format : {"2.0", "tcsd", "1.2"}, name : Public,
        by : Id, key : Public]]
  /\ answers \subseteq {s \in Session : session[s] # Closed}
  /\ trusted \subseteq [ek : TPM, ak : Public]
  /\ certified \subseteq [ek : TPM, name : Public, by : Id, key : Public]

\* "Activation will verify that the provided EK is held on the same TPM as the
\* AK": an AK that the remote party trusts is in the TPM of the EK (a TPM 2.0's
\* with exactly these attributes), and it signs nothing but what TPMs state,
\* whatever keys are exported, imported or created later.
AKBound ==
  \A a \in trusted :
    /\ \E p \in objects[a.ek] : p.id = a.ak.id /\ (Is20(a.ek) => p = a.ak)
    /\ ~CanSignAnything(a.ak.id)

\* One key was used for VerifyOpts.Public and VerifierKeyNameDigest, as the comment
\* of ActivateOpts asks.
OneVerifier(c) == c.by = c.name.id

\* An application key that was accepted with the certification of one key, which is
\* an AK the remote party trusts or has the attributes of one, is in the TPM of the
\* EK and nowhere else.  It does not matter whether the certification was made, or
\* the AK activated, first.
CertifiedBound ==
  \A c \in certified :
    /\ OneVerifier(c)
    /\ \/ [ek |-> c.ek, ak |-> c.name] \in trusted
       \/ {"fixedTPM", "restricted"} \subseteq c.name.flags
    => /\ c.key \in objects[c.ek]
       /\ c.key.id \notin outside
       /\ \A t \in TPM \ {c.ek} : ~Holds(t, c.key.id)

\* "Activation will verify that the provided EK is held on the same TPM as the key
\* we're certifying", as the comment of ActivateOpts says of a caller that uses
\* one key for both roles.
CertifiedOnSameTPM ==
  \A c \in certified : OneVerifier(c) => c.key \in objects[c.ek]

\* What newAK and newKey return passes the checks of the remote party (an RSA key
\* if the caller asked for a sufficient size), and the TPM of the AK opens the
\* challenge for it.
HonestAccepted ==
  /\ \A a \in aks :
       /\ checkAKParameters(a.format, a.pub, a.att)
       /\ a.format = "2.0" => Available(a.att)
       /\ \A s \in Session :
            session[s] = Challenge("ak", a.tpm, a.format, a.pub, a.pub.id, a.pub) =>
              Opens(a.tpm, session[s])
  /\ \A k \in keys :
       /\ k.pub.secure => CertificationVerify(k.pub, k.att, k.ak)
       /\ Available(k.att)
=============================================================================
