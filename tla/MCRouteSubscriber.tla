-------------------------- MODULE MCRouteSubscriber --------------------------
(***************************************************************************)
(* Small systems of a subscriber route: publishers of every durability on  *)
(* two bridges with failures, and undeclared Readers with rebuilds.        *)
(***************************************************************************)
EXTENDS RouteSubscriber

MCNodes == {"n1"}

From(bridge, qoses) == {[bridge |-> bridge, qos |-> q] : q \in qoses}

MCRemotes == From("b1", {"volatile", "history"}) \cup From("b2", {"deep", "history"})

\* A local node and remote publishers; one or two calls fail.
Declared == [nodes |-> MCNodes, remotes |-> MCRemotes, readers |-> {}, latched |-> {},
             changes |-> 5, failures |-> 2]

\* Two Readers, one of them of a history, and a node that may declare them.
Undeclared == [nodes |-> MCNodes, remotes |-> From("b1", {"volatile", "history"}),
               readers |-> {"r1", "r2"}, latched |-> {"r2"}, changes |-> 5, failures |-> 0]

\* A Reader, a node and one failure.
Both == [nodes |-> MCNodes, remotes |-> From("b1", {"volatile", "history"}),
         readers |-> {"r1"}, latched |-> {}, changes |-> 4, failures |-> 1]

MCScenarios == {Declared, Undeclared, Both}

=============================================================================
