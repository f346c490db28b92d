----------------------------- MODULE BootEvents -----------------------------
(***************************************************************************)
(* What ParseSecurebootState and ParseWinEvents have in common: a loop     *)
(* over the events that EventLog.Verify returned, which ends with a result *)
(* or at the first event it refuses.                                       *)
(***************************************************************************)
EXTENDS Integers, Sequences, FiniteSets

VARIABLES
  events,  \* the argument
  next,    \* the event that is handled
  result   \* "none" during the loop, then "ok" or "error"

IsSequence(s) == s \in Seq({s[k] : k \in DOMAIN s})

e == events[next]
Handling == result = "none" /\ next <= Len(events)

=============================================================================
