---------------------------- MODULE MCAttestation ----------------------------
(***************************************************************************)
(* The instances of Attestation that TLC checks: AttestClient.cfg has one  *)
(* call among measurements of three registers, and no remote party;        *)
(* AttestRemote.cfg has two nonces, one register and the remote party.     *)
(***************************************************************************)
EXTENDS Attestation

CONSTANTS ev, ebs  (* digests: an event, and an ExitBootServices event *)

MCAlgs == <<"sha1", "sha256">>
MCBugs == {{}, {"sha1"}, {"sha256"}}
MCWorkarounds == << <<ebs>> >>
ClientMeasurements == {<<0, ev>>, <<5, ev>>, <<16, ev>>}
ClientConfigLogs == {[i \in PCRIndex |-> IF i = 0 THEN <<ev>> ELSE << >>]}
RemoteMeasurements == {<<5, ev>>, <<5, ebs>>}
RemoteBugs == {{}}
RemoteLogs == [PCRIndex -> {<< >>, <<ev>>, <<ev, ev>>, <<ev, ebs>>}]
=============================================================================
