------------------------------ MODULE ServiceCall ------------------------------
(***************************************************************************)
(* What a routed service promises to its ROS clients: a call gets at most  *)
(* one reply, only after a server has answered a request with its id, and  *)
(* none once the bridge has given it up.  It does not stay open for ever.  *)
(***************************************************************************)
CONSTANTS
  Calls,
  IdOf     \* of each call: the id of its request

VARIABLES
  phase,    \* of each call: "idle", "asked", "replied" or "given_up"
  answered  \* the ids that a server has answered

vars == <<phase, answered>>

Init ==
  /\ phase = [c \in Calls |-> "idle"]
  /\ answered = {}

Ask(c) ==
  /\ phase[c] = "idle"
  /\ phase' = [phase EXCEPT ![c] = "asked"]
  /\ UNCHANGED answered

Answer ==
  /\ answered \subseteq answered'
  /\ UNCHANGED phase

Reply(c) ==
  /\ phase[c] = "asked"
  /\ IdOf[c] \in answered
  /\ phase' = [phase EXCEPT ![c] = "replied"]
  /\ UNCHANGED answered

GiveUp(c) ==
  /\ phase[c] = "asked"
  /\ phase' = [phase EXCEPT ![c] = "given_up"]
  /\ UNCHANGED answered

Next ==
  \/ \E c \in Calls : Ask(c) \/ Reply(c) \/ GiveUp(c)
  \/ Answer

\* No call stays open.
Closed == []<>(\A c \in Calls : phase[c] # "asked")

\* What a call may never do.
Safety == Init /\ [][Next]_vars

Spec == Safety /\ Closed

=============================================================================
