---------------------------- MODULE MCServiceRoutes ----------------------------
(***************************************************************************)
(* A client of which another bridge of its system routes the request, too. *)
(* Each behaviour is about one thing: the activations of the client route, *)
(* a reply that comes to a later activation, the calls that interfere.     *)
(***************************************************************************)
EXTENDS ServiceRoutes

MCGids == {"reader", "writer"} \X (1 .. 3)

MCNoId == <<"none", 0>>

\* c1 and o1 are one request, o2 is that of an application.
MCIdOf == [c1 |-> <<"client", 1>>, o1 |-> <<"client", 1>>, o2 |-> MCNoId]

Scenario(these, sv, br, a, c, f) ==
  [calls |-> these, servers |-> sv, bridges |-> br,
   activations |-> a, changes |-> c, failures |-> f]

MCScenarios ==
  {Scenario({}, {"s1", "s2"}, {"b1", "b2"}, 3, 4, 1),
   Scenario({"c1"}, {"s1", "s2"}, {"b1"}, 2, 2, 0),
   Scenario({"c1", "o1"}, {"s1"}, {"b1"}, 1, 2, 1),
   Scenario({"o1", "o2"}, {"s1"}, {}, 0, 2, 1)}

=============================================================================
