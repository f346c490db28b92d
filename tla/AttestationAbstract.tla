------------------------- MODULE AttestationAbstract -------------------------
(***************************************************************************)
(* What remote attestation promises, without saying how: the platform goes *)
(* through states, the remote party draws nonces, and the only events it   *)
(* accepts for a nonce are events the platform had measured at some moment *)
(* since the nonce was drawn.  No quote, register read, log or message is  *)
(* mentioned.  Attestation implements this specification.                  *)
(***************************************************************************)
EXTENDS Integers, Sequences

CONSTANTS PCRIndex, Bank, Nonce

VARIABLES
  history,    \* the states the PCR banks have been in
  nonceTime,  \* Len(history) when a nonce was drawn, 0 before
  accepted    \* the events that were accepted, with the nonce they answer

vars == <<history, nonceTime, accepted>>

Init ==
  /\ Len(history) = 1
  /\ nonceTime = [n \in Nonce |-> 0]
  /\ accepted = {}

\* The measurements of register i that were in bank b at moment t.
Measured(i, b, t) == history[t][b][i]

Progress ==
  /\ Len(history') = Len(history) + 1
  /\ \A t \in 1 .. Len(history) : history'[t] = history[t]
  /\ UNCHANGED <<nonceTime, accepted>>

DrawNonce(n) ==
  /\ nonceTime[n] = 0
  /\ nonceTime' = [nonceTime EXCEPT ![n] = Len(history)]
  /\ UNCHANGED <<history, accepted>>

\* The events of every register are all that was measured into it, in order,
\* at one moment since the nonce was drawn, unless there is none.
Accept(n) ==
  /\ nonceTime[n] # 0
  /\ \E a \in accepted' :
       /\ a.nonce = n
       /\ \A i \in PCRIndex :
            \/ a.events[i] = << >>
            \/ \E b \in Bank, t \in nonceTime[n] .. Len(history) :
                 a.events[i] = Measured(i, b, t)
       /\ accepted' = accepted \cup {a}
  /\ UNCHANGED <<history, nonceTime>>

Next == Progress \/ \E n \in Nonce : DrawNonce(n) \/ Accept(n)

Spec == Init /\ [][Next]_vars
=============================================================================
