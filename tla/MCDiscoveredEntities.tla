------------------------- MODULE MCDiscoveredEntities -------------------------
(***************************************************************************)
(* Small DDS systems.  Each behaviour is about one of them.                *)
(***************************************************************************)
EXTENDS DiscoveredEntities

Topic(prefix, suffix, name) == [prefix |-> prefix, suffix |-> suffix, name |-> name]
End(g, p, dir, topic, typ, node) ==
  (g :> [key |-> g, participant |-> p, dir |-> dir, topic |-> topic, typ |-> typ, node |-> node])

Msg(name) == Topic("rt", "msg", name)
Writer(g, p, topic, node) == End(g, p, "Writer", topic, "T", node)
Reader(g, p, topic, node) == End(g, p, "Reader", topic, "T", node)

World(ends, orders, nodeOrders) ==
  [ends |-> ends, orders |-> orders, nodeOrders |-> nodeOrders,
   mortal |-> DOMAIN ends \cup {ends[g].participant : g \in DOMAIN ends}]

\* A node with two Writers on a topic, and a Writer that no node declares.
TopicWorld ==
  World(Writer("w1", "p1", Msg("t"), "/n1") @@ Writer("w2", "p1", Msg("t"), "/n1")
          @@ Writer("u1", "p1", Msg("t"), "/nobody"),
        {<<"w1", "w2", "u1">>}, {<<"/n1">>})

\* Two participants on a topic.
PairWorld ==
  World(Writer("w1", "p1", Msg("t"), "/n1") @@ Writer("w2", "p2", Msg("t"), "/n2"),
        {<<"w1", "w2">>}, {<<"/n1", "/n2">>})

\* Two clients of a service in one node, met in any order.
ClientWorld ==
  World(Writer("q1", "p1", Topic("rq", "call", "s"), "/n1")
          @@ Reader("r1", "p1", Topic("rr", "call", "s"), "/n1")
          @@ Writer("q2", "p1", Topic("rq", "call", "s"), "/n1")
          @@ Reader("r2", "p1", Topic("rr", "call", "s"), "/n1"),
        {<<"q1", "q2", "r1", "r2">>, <<"q2", "q1", "r1", "r2">>,
         <<"q1", "q2", "r2", "r1">>, <<"q2", "q1", "r2", "r1">>}, {<<"/n1">>})

\* A service server, and two nodes of one participant of which one has a refused name.
NamesWorld ==
  [World(Reader("q1", "p1", Topic("rq", "call", "s"), "/n1")
          @@ Writer("r1", "p1", Topic("rr", "call", "s"), "/n1")
          @@ Writer("w1", "p1", Msg("t"), "/n*")
          @@ Reader("x1", "p1", Msg("t"), "/n1"),
        {<<"q1", "r1", "w1", "x1">>}, {<<"/n1", "/n*">>, <<"/n*", "/n1">>})
   EXCEPT !.mortal = {"r1", "x1"}]

\* A node's own topic, a topic of a refused name, a DDS topic that is none of ROS.
ExcludedWorld ==
  [World(Writer("w1", "p1", Msg("rosout"), "/nobody") @@ Writer("w2", "p1", Msg("t*"), "/n1")
          @@ Reader("x1", "p1", Msg("t"), "/n1")
          @@ Reader("x2", "p1", Topic("ab", "msg", "t"), "/n1"),
        {<<"w1", "w2", "x1", "x2">>}, {<<"/n1">>})
   EXCEPT !.mortal = {"w1", "x1"}]

ActionCall(c, req, rep, q, r) ==
  IF req = "Reader" THEN Reader(q, "p1", Topic("rq", c, "a"), "/n1")
                           @@ Writer(r, "p1", Topic("rr", c, "a"), "/n1")
  ELSE Writer(q, "p1", Topic("rq", c, "a"), "/n1") @@ Reader(r, "p1", Topic("rr", c, "a"), "/n1")

\* A node with an action, of which one endpoint may go.
ActionWorld(req, rep, gone) ==
  [World(ActionCall("send_goal", req, rep, "q1", "r1")
          @@ ActionCall("cancel_goal", req, rep, "q2", "r2")
          @@ ActionCall("get_result", req, rep, "q3", "r3")
          @@ End("st", "p1", rep, Topic("rt", "status", "a"), "T", "/n1")
          @@ End("fb", "p1", rep, Topic("rt", "feedback", "a"), "T", "/n1"),
        {<<"q1", "r1", "q2", "r2", "q3", "r3", "st", "fb">>}, {<<"/n1">>})
   EXCEPT !.mortal = {gone}]

MCWorlds ==
  {TopicWorld, PairWorld, ClientWorld, NamesWorld, ExcludedWorld,
   ActionWorld("Reader", "Writer", "r1"), ActionWorld("Writer", "Reader", "st")}
PubWorlds == {TopicWorld, PairWorld}

\* In these systems the names of the nodes are unique.
ASSUME MCWorldsNames == UniqueNodeNames

=============================================================================
