----------------------------- MODULE WriterClaims -----------------------------
(***************************************************************************)
(* What the discovery promises about the Writers of message topics: a      *)
(* Writer that DDS has announced is attached to at most one node, the ROS  *)
(* node that declares it, or the synthetic node of its participant as long *)
(* as none does; and it does not stay without one.                         *)
(*                                                                         *)
(* A poll may settle several Writers at once, so a step is a move of each. *)
(***************************************************************************)
CONSTANT Writers

VARIABLES
  known,     \* the Writers that DDS has announced
  declared,  \* the Writers that the participants' last known declarations list
  owner      \* of each Writer: the kind of node it is attached to

vars == <<known, declared, owner>>

Init ==
  /\ known = {}
  /\ declared = {}
  /\ owner = [w \in Writers |-> "none"]

\* The synthetic node gets a Writer that no node declares.
Claim(w) ==
  /\ owner[w] = "none"
  /\ owner'[w] = "orphan"
  /\ w \in known'
  /\ w \notin declared'

\* The node that declares it gets it, from the synthetic node if that one has it.
Declare(w) ==
  /\ owner[w] \in {"none", "orphan"}
  /\ owner'[w] = "node"
  /\ w \in known'
  /\ w \in declared'

\* Only what is gone is released, or what its node no longer declares.
Release(w) ==
  /\ owner[w] # "none"
  /\ owner'[w] = "none"
  /\ w \notin known' \/ (owner[w] = "node" /\ w \notin declared')

Stay(w) ==
  /\ owner'[w] = owner[w]
  /\ owner[w] = "none" \/ w \in known'

Next ==
  /\ known' \subseteq Writers
  /\ declared' \subseteq Writers
  /\ owner' \in [Writers -> {"none", "orphan", "node"}]
  /\ \A w \in Writers : Claim(w) \/ Declare(w) \/ Release(w) \/ Stay(w)

\* No known Writer stays without a node: again and again, they all have one.
Served == []<>(\A w \in known : owner[w] # "none")

Spec == Init /\ [][Next]_vars /\ Served

=============================================================================
