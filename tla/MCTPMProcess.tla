---------------------------- MODULE MCTPMProcess ----------------------------
(***************************************************************************)
(* A machine for TLC: a TPM 2.0 that is used directly, a TPM 1.2 and a TPM *)
(* 2.0 with a resource manager, and a TPM 2.0 behind a command channel.    *)
(* Only the last has a nonce, for its RSA EK, and certificates for its EKs *)
(* of both kinds; reading them may fail.                                   *)
(***************************************************************************)
EXTENDS TPMProcess, TLC

CONSTANTS p1, s1, s2

MCDevs == <<"tpm0", "tpm1", "tpm2">>
MCTPM == {"tpm0", "tpm1", "tpm2", "sim"}
MCVersion == [t \in MCTPM |-> IF t = "tpm1" THEN "1.2" ELSE "2.0"]
MCNonce == [t \in MCTPM |-> [a \in {"rsa", "ecc"} |->
              IF t = "sim" /\ a = "rsa" THEN <<8, 9, 9>> ELSE None]]
MCCerts == [t \in MCTPM |-> CASE t = "sim" -> {"rsa", "ecc"} [] t = "tpm1" -> {"rsa"} [] OTHER -> {}]
MCConfigs == {[version |-> "agnostic", channel |-> None], [version |-> "1.2", channel |-> None],
              [version |-> "2.0", channel |-> "sim"], [version |-> "1.2", channel |-> "sim"]}

Symmetry == Permutations({s1, s2})
=============================================================================
