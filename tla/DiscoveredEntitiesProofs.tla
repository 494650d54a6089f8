----------------------- MODULE DiscoveredEntitiesProofs -----------------------
(***************************************************************************)
(* Theorems about the local discovery, for any DDS systems.                *)
(*                                                                         *)
(* A method of NodeInfo leaves a node well-formed, each endpoint in its    *)
(* place, and returns the events that tell what it has changed of the      *)
(* interfaces of the node.  Each step of the poll, and each other action,  *)
(* applies such methods, so that what the events have told remains what    *)
(* the nodes have.                                                         *)
(*                                                                         *)
(* A Writer that leaves the synthetic node for the node that declares it   *)
(* keeps its route, as each method tells of discoveries only or of losses  *)
(* only, and the node that takes over is told of first.                    *)
(***************************************************************************)
EXTENDS DiscoveredEntities, FoldTheorems, TLAPS

-----------------------------------------------------------------------------
(* Maps. *)

\* The maps from keys of X to values of Y.
Maps(X, Y) == UNION {[D -> Y] : D \in SUBSET X}

\* A map is a function on some of the keys.
LEMMA MapFacts ==
  ASSUME NEW X, NEW Y, NEW f \in Maps(X, Y)
  PROVE  /\ DOMAIN f \subseteq X
         /\ \A x \in DOMAIN f : f[x] \in Y
         /\ f = [x \in DOMAIN f |-> f[x]]
BY DEF Maps

\* What is a function on some of the keys is a map.
LEMMA MapIntro ==
  ASSUME NEW X, NEW Y, NEW D \in SUBSET X, NEW f \in [D -> Y]
  PROVE  f \in Maps(X, Y)
BY DEF Maps

\* The map without keys.
LEMMA EmptyMap ==
  ASSUME NEW X, NEW Y
  PROVE  <<>> \in Maps(X, Y) /\ DOMAIN <<>> = {}
<1>1. <<>> \in [{} -> Y]
  OBVIOUS
<1> QED
  BY <1>1, MapIntro

\* HashMap::insert changes the value of one key.
LEMMA InsertedMap ==
  ASSUME NEW X, NEW Y, NEW f \in Maps(X, Y), NEW x \in X, NEW v \in Y
  PROVE  Inserted(f, x, v) \in Maps(X, Y)
<1>1. Inserted(f, x, v) \in [DOMAIN f \cup {x} -> Y]
  BY MapFacts DEF Inserted
<1>2. DOMAIN f \cup {x} \subseteq X
  BY MapFacts
<1> QED
  BY <1>1, <1>2, MapIntro DEF Inserted

\* A map keeps the keys of D.
LEMMA RestrictMap ==
  ASSUME NEW X, NEW Y, NEW f \in Maps(X, Y), NEW D \in SUBSET (DOMAIN f)
  PROVE  Restrict(f, D) \in Maps(X, Y)
<1>1. Restrict(f, D) \in [D -> Y]
  BY MapFacts DEF Restrict
<1> QED
  BY <1>1, MapFacts, MapIntro DEF Restrict

-----------------------------------------------------------------------------
(* Nodes. *)

Names == {TopicName(g) : g \in Gids}
Typs == {EntityOf(g).typ : g \in Gids} \cup {Untyped}
NodeNames == {EntityOf(g).node : g \in Gids} \cup {OrphanNode(p) : p \in Participants}

Calls == {"service_srv", "service_cli", "action_srv", "action_cli"}
Kinds == MsgKinds \cup Calls
Lists == {"undiscovered_reader", "undiscovered_writer"}

Msg == [typ : Typs, gids : SUBSET Gids]
Call(kind) == [typ : Typs, ends : [Entities(kind) -> Gids \cup {NOT_DISCOVERED}]]
Msgs == Maps(Names, Msg)
CallsOf(kind) == Maps(Names, Call(kind))

Nodes ==
  [fullname : NodeNames, msg_pub : Msgs, msg_sub : Msgs,
   service_srv : CallsOf("service_srv"), service_cli : CallsOf("service_cli"),
   action_srv : CallsOf("action_srv"), action_cli : CallsOf("action_cli"),
   undiscovered_reader : SUBSET Gids, undiscovered_writer : SUBSET Gids]

\* The kind of interface, and the end of it, that an endpoint is.
PlaceOf(entity) ==
  LET On(prefix, suffix) == entity.topic.prefix = prefix /\ entity.topic.suffix = suffix
  IN IF entity.dir = "Writer"
     THEN CASE On("rt", "status") -> <<"action_srv", "status_writer">>
            [] On("rt", "feedback") -> <<"action_srv", "feedback_writer">>
            [] On("rt", "msg") -> <<"msg_pub", "">>
            [] On("rq", "send_goal") -> <<"action_cli", "send_goal_req_writer">>
            [] On("rq", "cancel_goal") -> <<"action_cli", "cancel_goal_req_writer">>
            [] On("rq", "get_result") -> <<"action_cli", "get_result_req_writer">>
            [] On("rq", "call") -> <<"service_cli", "req_writer">>
            [] On("rr", "send_goal") -> <<"action_srv", "send_goal_rep_writer">>
            [] On("rr", "cancel_goal") -> <<"action_srv", "cancel_goal_rep_writer">>
            [] On("rr", "get_result") -> <<"action_srv", "get_result_rep_writer">>
            [] On("rr", "call") -> <<"service_srv", "rep_writer">>
            [] OTHER -> <<"none", "">>
     ELSE CASE On("rt", "status") -> <<"action_cli", "status_reader">>
            [] On("rt", "feedback") -> <<"action_cli", "feedback_reader">>
            [] On("rt", "msg") -> <<"msg_sub", "">>
            [] On("rq", "send_goal") -> <<"action_srv", "send_goal_req_reader">>
            [] On("rq", "cancel_goal") -> <<"action_srv", "cancel_goal_req_reader">>
            [] On("rq", "get_result") -> <<"action_srv", "get_result_req_reader">>
            [] On("rq", "call") -> <<"service_srv", "req_reader">>
            [] On("rr", "send_goal") -> <<"action_cli", "send_goal_rep_reader">>
            [] On("rr", "cancel_goal") -> <<"action_cli", "cancel_goal_rep_reader">>
            [] On("rr", "get_result") -> <<"action_cli", "get_result_rep_reader">>
            [] On("rr", "call") -> <<"service_cli", "rep_reader">>
            [] OTHER -> <<"none", "">>
Place(g) == PlaceOf(EntityOf(g))

\* The endpoints that node n of participant p may have: the synthetic node has Writers of
\* messages, another one those that declare it.
Mine(p, n, g) ==
  /\ EntityOf(g).participant = p
  /\ n = OrphanNode(p) => IsMessage(g) /\ IsWriter(g)
  /\ n # OrphanNode(p) => EntityOf(g).node = n

\* The interfaces of a node hold its endpoints, each in its place.
Placed(p, n, g, t, kind, end) ==
  Mine(p, n, g) /\ TopicName(g) = t /\ Place(g) = <<kind, end>>
MsgsPlaced(p, n, kind, msgs) ==
  \A t \in DOMAIN msgs : /\ msgs[t].gids # {}
                         /\ \A g \in msgs[t].gids : Placed(p, n, g, t, kind, "")
CallsPlaced(p, n, kind, calls) ==
  \A t \in DOMAIN calls : \A end \in Entities(kind) :
    calls[t].ends[end] # NOT_DISCOVERED => Placed(p, n, calls[t].ends[end], t, kind, end)
Waiting(p, n, g, writer) ==
  Mine(p, n, g) /\ n # OrphanNode(p) /\ (IsWriter(g) <=> writer)

NodeOk(p, n, node) ==
  /\ node \in Nodes
  /\ node.fullname = n
  /\ \A kind \in MsgKinds : MsgsPlaced(p, n, kind, node[kind])
  /\ \A kind \in Calls : CallsPlaced(p, n, kind, node[kind])
  /\ \A g \in node.undiscovered_reader : Waiting(p, n, g, FALSE)
  /\ \A g \in node.undiscovered_writer : Waiting(p, n, g, TRUE)

\* What the main loop is to know of a node.
Shows(node, kind, t) ==
  /\ t \in DOMAIN node[kind]
  /\ kind \in Calls => is_complete(node[kind][t])

\* What a method that adds an endpoint to a node of name n tells of it.
TellsFound(n, old, new, events) ==
  \/ /\ events = <<>>
     /\ \A kind \in Kinds, t \in Names : Shows(new, kind, t) <=> Shows(old, kind, t)
  \/ \E k \in Kinds, m \in Names :
       /\ events = <<[ev |-> "Discovered", node |-> n, kind |-> k, name |-> m]>>
       /\ \A kind \in Kinds, t \in Names :
            Shows(new, kind, t) <=> Shows(old, kind, t) \/ (kind = k /\ t = m)

\* What a method that removes one tells.
TellsLost(n, old, new, events) ==
  \/ /\ events = <<>>
     /\ \A kind \in Kinds, t \in Names : Shows(new, kind, t) <=> Shows(old, kind, t)
  \/ \E k \in Kinds, m \in Names :
       /\ events = <<[ev |-> "Undiscovered", node |-> n, kind |-> k, name |-> m]>>
       /\ \A kind \in Kinds, t \in Names :
            Shows(new, kind, t) <=> Shows(old, kind, t) /\ ~(kind = k /\ t = m)

\* The interfaces of a node are maps.
LEMMA NodeFields ==
  ASSUME NEW node \in Nodes
  PROVE  /\ \A kind \in MsgKinds : node[kind] \in Msgs
         /\ \A kind \in Calls : node[kind] \in CallsOf(kind)
         /\ \A list \in Lists : node[list] \subseteq Gids
BY DEF Nodes, MsgKinds, Calls, Lists

\* A field of a node changes alone.
OnlyChanges(node, f, x, new) ==
  /\ new[f] = x
  /\ \A k \in (Kinds \cup Lists \cup {"fullname"}) \ {f} : new[k] = node[k]
  /\ f \in MsgKinds /\ x \in Msgs => new \in Nodes
  /\ f \in Calls /\ x \in CallsOf(f) => new \in Nodes
  /\ f \in Lists /\ x \in SUBSET Gids => new \in Nodes

\* EXCEPT changes one field.
LEMMA NodeChanged ==
  ASSUME NEW node \in Nodes, NEW f \in Kinds \cup Lists, NEW x
  PROVE  OnlyChanges(node, f, x, [node EXCEPT ![f] = x])
<1>1. CASE f \in MsgKinds
  BY <1>1 DEF OnlyChanges, Nodes, Kinds, MsgKinds, Calls, Lists
<1>2. CASE f \in Calls
  BY <1>2 DEF OnlyChanges, Nodes, Kinds, MsgKinds, Calls, Lists
<1>3. CASE f \in Lists
  BY <1>3 DEF OnlyChanges, Nodes, Kinds, MsgKinds, Calls, Lists
<1> QED
  BY <1>1, <1>2, <1>3 DEF Kinds

\* The kinds of interfaces, and the lists, are told apart.
LEMMA KindFacts ==
  /\ Kinds = MsgKinds \cup Calls /\ MsgKinds \cap Calls = {}
  /\ Kinds \cap Lists = {} /\ "fullname" \notin Kinds \cup Lists
  /\ \A kind \in Kinds : kind # ""
  /\ {CallKinds[k] : k \in DOMAIN CallKinds} = Calls
  /\ DOMAIN CallKinds = 1 .. 4
<1>1. DOMAIN CallKinds = 1 .. 4
  BY DEF CallKinds
<1>2. /\ CallKinds[1] = "service_srv" /\ CallKinds[2] = "service_cli"
      /\ CallKinds[3] = "action_srv" /\ CallKinds[4] = "action_cli"
  BY DEF CallKinds
<1>3. 1 .. 4 = {1, 2, 3, 4}
  OBVIOUS
<1>4. {CallKinds[k] : k \in DOMAIN CallKinds} = Calls
  BY <1>1, <1>2, <1>3 DEF Calls
<1> QED
  BY <1>1, <1>4 DEF Kinds, MsgKinds, Calls, Lists

\* The interfaces of other kinds, and the lists, are left as they are.
OthersKept(node, f, new) ==
  /\ \A list \in Lists : new[list] = node[list]
  /\ \A kind \in Kinds \ {f}, t \in Names : Shows(new, kind, t) <=> Shows(node, kind, t)

\* A change of one kind leaves the node well-formed.
LEMMA OthersPlaced ==
  ASSUME NEW p, NEW n, NEW node, NodeOk(p, n, node), NEW new \in Nodes, NEW f \in Kinds,
         OnlyChanges(node, f, new[f], new),
         f \in MsgKinds => MsgsPlaced(p, n, f, new[f]),
         f \in Calls => CallsPlaced(p, n, f, new[f])
  PROVE  NodeOk(p, n, new) /\ OthersKept(node, f, new)
<1>1. \A k \in MsgKinds \cup Calls : k # f => new[k] = node[k]
  BY KindFacts DEF OnlyChanges
<1>2. \A list \in Lists : new[list] = node[list]
  BY KindFacts DEF OnlyChanges
<1>3. new.fullname = node.fullname
  BY KindFacts DEF OnlyChanges
<1>4. /\ new.undiscovered_reader = node.undiscovered_reader
      /\ new.undiscovered_writer = node.undiscovered_writer
  BY <1>2 DEF Lists
<1>5. \A kind \in Kinds \ {f}, t \in Names : Shows(new, kind, t) <=> Shows(node, kind, t)
  BY <1>1, KindFacts DEF Shows
<1>6. \A kind \in MsgKinds : MsgsPlaced(p, n, kind, new[kind])
  BY <1>1 DEF NodeOk
<1>7. \A kind \in Calls : CallsPlaced(p, n, kind, new[kind])
  BY <1>1 DEF NodeOk
<1> QED
  BY <1>2, <1>3, <1>4, <1>5, <1>6, <1>7 DEF NodeOk, OthersKept

\* What is kept by adding an endpoint that DDS has announced.
UpdateOk(p, n, node, u) ==
  /\ NodeOk(p, n, u.node)
  /\ \A list \in Lists : u.node[list] = node[list]
  /\ TellsFound(n, node, u.node, u.evts)

\* A method that changes nothing.
LEMMA IgnoredOk ==
  ASSUME NEW p, NEW n, NEW node, NodeOk(p, n, node)
  PROVE  UpdateOk(p, n, node, Ignored(node)) /\ TellsLost(n, node, node, <<>>)
BY DEF UpdateOk, Ignored, TellsFound, TellsLost

\* A Writer or a Reader of messages is added to its topic.
LEMMA MsgUpdated ==
  ASSUME NEW p, NEW n, NEW node, NodeOk(p, n, node), NEW g \in Gids, NEW kind \in MsgKinds,
         Mine(p, n, g), Place(g) = <<kind, "">>
  PROVE  UpdateOk(p, n, node, update_msg(node, kind, TopicName(g), EntityOf(g).typ, g))
<1> DEFINE t == TopicName(g)
           typ == EntityOf(g).typ
           known == t \in DOMAIN node[kind]
           gids == IF known THEN node[kind][t].gids ELSE {}
           msg == [typ |-> typ, gids |-> gids \cup {g}]
           msgs == Inserted(node[kind], t, msg)
           new == [node EXCEPT ![kind] = msgs]
           events == IF known THEN <<>> ELSE <<Event("Discovered", node, kind, t)>>
<1>1. CASE t \in BadNames \/ (known /\ node[kind][t].typ # typ)
  BY <1>1, IgnoredOk DEF update_msg
<1>2. CASE ~(t \in BadNames \/ (known /\ node[kind][t].typ # typ))
  <2>1. update_msg(node, kind, t, typ, g) = [node |-> new, evts |-> events]
    BY <1>2 DEF update_msg
  <2>2. node[kind] \in Msgs /\ node \in Nodes /\ t \in Names /\ typ \in Typs
    BY NodeFields DEF NodeOk, Names, Typs
  <2>3. gids \subseteq Gids
    <3>1. known => node[kind][t] \in Msg
      BY <2>2, MapFacts DEF Msgs
    <3> QED
      BY <3>1 DEF Msg
  <2>4. msg \in Msg /\ msg.gids = gids \cup {g}
    BY <2>2, <2>3 DEF Msg
  <2>5. /\ msgs \in Msgs
        /\ DOMAIN msgs = DOMAIN node[kind] \cup {t}
        /\ msgs[t] = msg
        /\ \A y \in DOMAIN node[kind] \ {t} : msgs[y] = node[kind][y]
    <3>1. node[kind] \in Maps(Names, Msg) /\ t \in Names /\ msg \in Msg
      BY <2>2, <2>4 DEF Msgs
    <3> HIDE DEF msg, t
    <3>2. msgs \in Maps(Names, Msg)
      BY <3>1, InsertedMap
    <3> QED
      BY <3>2 DEF Msgs, Inserted
  <2>6. MsgsPlaced(p, n, kind, node[kind])
    BY DEF NodeOk
  <2>7. MsgsPlaced(p, n, kind, msgs)
    <3> SUFFICES ASSUME NEW y \in DOMAIN msgs
                 PROVE  msgs[y].gids # {} /\ \A x \in msgs[y].gids : Placed(p, n, x, y, kind, "")
      BY DEF MsgsPlaced
    <3>1. CASE y # t
      BY <2>5, <2>6, <3>1 DEF MsgsPlaced
    <3>2. CASE y = t
      <4>1. msgs[y].gids = gids \cup {g}
        BY <2>4, <2>5, <3>2
      <4>2. \A x \in gids : Placed(p, n, x, t, kind, "")
        BY <2>6 DEF MsgsPlaced
      <4>3. Placed(p, n, g, t, kind, "")
        BY DEF Placed
      <4> QED
        BY <3>2, <4>1, <4>2, <4>3
    <3> QED
      BY <3>1, <3>2
  <2>8. new \in Nodes /\ new[kind] = msgs /\ OnlyChanges(node, kind, new[kind], new)
    <3>1. node \in Nodes /\ kind \in Kinds \cup Lists /\ msgs \in Msgs
      BY <2>2, <2>5, KindFacts
    <3> HIDE DEF msgs
    <3>2. OnlyChanges(node, kind, msgs, new)
      BY <3>1, NodeChanged
    <3>3. new[kind] = msgs
      BY <3>2 DEF OnlyChanges
    <3> HIDE DEF new
    <3> QED
      BY <3>1, <3>2, <3>3 DEF OnlyChanges
  <2> HIDE DEF new, msgs
  <2>9. /\ NodeOk(p, n, new)
        /\ \A list \in Lists : new[list] = node[list]
        /\ \A k \in Kinds \ {kind}, x \in Names : Shows(new, k, x) <=> Shows(node, k, x)
    <3>1. /\ kind \in Kinds /\ kind \notin Calls
          /\ MsgsPlaced(p, n, kind, new[kind])
          /\ OnlyChanges(node, kind, new[kind], new)
          /\ new \in Nodes
      BY <2>7, <2>8, KindFacts
    <3> QED
      BY <3>1, OthersPlaced DEF OthersKept
  <2>10. \A x \in Names : Shows(new, kind, x) <=> Shows(node, kind, x) \/ x = t
    BY <2>5, <2>8, KindFacts DEF Shows
  <2>11. TellsFound(n, node, new, events)
    <3>1. CASE known
      <4>1. Shows(node, kind, t)
        BY <3>1, KindFacts DEF Shows
      <4>2. \A k \in Kinds, x \in Names : Shows(new, k, x) <=> Shows(node, k, x)
        BY <2>9, <2>10, <4>1
      <4> QED
        BY <3>1, <4>2 DEF TellsFound
    <3>2. CASE ~known
      <4>1. events = <<[ev |-> "Discovered", node |-> n, kind |-> kind, name |-> t]>>
        BY <3>2 DEF Event, NodeOk
      <4>2. \A k \in Kinds, x \in Names :
              Shows(new, k, x) <=> Shows(node, k, x) \/ (k = kind /\ x = t)
        BY <2>9, <2>10, KindFacts
      <4>3. kind \in Kinds /\ t \in Names
        BY <2>2, KindFacts
      <4> HIDE DEF events, t
      <4> QED
        BY <4>1, <4>2, <4>3 DEF TellsFound
    <3> QED
      BY <3>1, <3>2
  <2> DEFINE u == [node |-> new, evts |-> events]
  <2> HIDE DEF events
  <2>12. u.node = new /\ u.evts = events
    OBVIOUS
  <2> HIDE DEF u
  <2>13. UpdateOk(p, n, node, u)
    BY <2>9, <2>11, <2>12 DEF UpdateOk
  <2> QED
    BY <2>1, <2>13 DEF u
<1> QED
  BY <1>1, <1>2

-----------------------------------------------------------------------------
(* The world. *)

\* What is known of the system that is there.
WorldOk ==
  /\ IsFiniteSet(Gids)
  /\ \A g \in Gids : EntityOf(g).key = g /\ g # NOT_DISCOVERED
  /\ world.orders \subseteq Seq(Gids)
  /\ world.nodeOrders \subseteq Seq(STRING)
  /\ \A p, q \in Participants : OrphanNode(p) = OrphanNode(q) => p = q
  /\ \A g \in Gids, p \in Participants : EntityOf(g).node # OrphanNode(p)
  /\ Gids \cap Participants = {}

\* An endpoint of a service or an action is added to its interface.
LEMMA CallUpdated ==
  ASSUME NEW p, NEW n, NEW node, NodeOk(p, n, node), NEW g \in Gids, NEW kind \in Calls,
         NEW end \in Entities(kind), NEW typ \in Typs, WorldOk,
         Mine(p, n, g), Place(g) = <<kind, end>>
  PROVE  UpdateOk(p, n, node, update_call(node, kind, TopicName(g), typ, end, g))
<1> DEFINE t == TopicName(g)
           known == t \in DOMAIN node[kind]
           none == [typ |-> typ, ends |-> [e \in Entities(kind) |-> NOT_DISCOVERED]]
           old == IF known THEN node[kind][t] ELSE none
           call == [typ |-> IF typ = Untyped THEN old.typ ELSE typ,
                    ends |-> [e \in DOMAIN old.ends |-> IF e = end THEN g ELSE old.ends[e]]]
           calls == Inserted(node[kind], t, call)
           new == [node EXCEPT ![kind] = calls]
           told == known /\ call # old /\ is_complete(call)
           events == IF told THEN <<Event("Discovered", node, kind, t)>> ELSE <<>>
<1>1. CASE t \in BadNames
  BY <1>1, IgnoredOk DEF update_call
<1>2. CASE t \notin BadNames
  <2>1. update_call(node, kind, t, typ, end, g) = [node |-> new, evts |-> events]
    BY <1>2 DEF update_call
  <2>2. node[kind] \in CallsOf(kind) /\ node \in Nodes /\ t \in Names /\ typ \in Typs
    BY NodeFields DEF NodeOk, Names
  <2>3. old \in Call(kind)
    <3>1. known => node[kind][t] \in Call(kind)
      BY <2>2, MapFacts DEF CallsOf
    <3>2. none \in Call(kind)
      BY DEF Call
    <3> QED
      BY <3>1, <3>2
  <2>4. /\ call \in Call(kind)
        /\ call.ends \in [Entities(kind) -> Gids \cup {NOT_DISCOVERED}]
        /\ call.ends[end] = g
        /\ \A e \in Entities(kind) \ {end} : call.ends[e] = old.ends[e]
    BY <2>2, <2>3 DEF Call
  <2>5. /\ calls \in CallsOf(kind)
        /\ DOMAIN calls = DOMAIN node[kind] \cup {t}
        /\ calls[t] = call
        /\ \A y \in DOMAIN node[kind] \ {t} : calls[y] = node[kind][y]
    <3>1. node[kind] \in Maps(Names, Call(kind)) /\ t \in Names /\ call \in Call(kind)
      BY <2>2, <2>4 DEF CallsOf
    <3> HIDE DEF call, t
    <3>2. calls \in Maps(Names, Call(kind))
      BY <3>1, InsertedMap
    <3> QED
      BY <3>2 DEF CallsOf, Inserted
  <2>6. CallsPlaced(p, n, kind, node[kind])
    BY DEF NodeOk
  <2>7. CallsPlaced(p, n, kind, calls)
    <3> SUFFICES ASSUME NEW y \in DOMAIN calls, NEW e \in Entities(kind),
                        calls[y].ends[e] # NOT_DISCOVERED
                 PROVE  Placed(p, n, calls[y].ends[e], y, kind, e)
      BY DEF CallsPlaced
    <3>1. CASE y # t
      BY <2>5, <2>6, <3>1 DEF CallsPlaced
    <3>2. CASE y = t /\ e = end
      BY <2>4, <2>5, <3>2 DEF Placed
    <3>3. CASE y = t /\ e # end
      <4>1. calls[y].ends[e] = old.ends[e]
        BY <2>4, <2>5, <3>3
      <4>2. known
        <5>1. none.ends[e] = NOT_DISCOVERED
          OBVIOUS
        <5> QED
          BY <4>1, <5>1
      <4>3. calls[y].ends[e] = node[kind][t].ends[e]
        BY <4>1, <4>2
      <4> HIDE DEF calls, t
      <4> QED
        BY <2>6, <3>3, <4>2, <4>3 DEF CallsPlaced
    <3> QED
      BY <3>1, <3>2, <3>3
  <2>8. new \in Nodes /\ new[kind] = calls /\ OnlyChanges(node, kind, new[kind], new)
    <3>1. node \in Nodes /\ kind \in Kinds \cup Lists /\ calls \in CallsOf(kind)
      BY <2>2, <2>5, KindFacts
    <3> HIDE DEF calls
    <3>2. OnlyChanges(node, kind, calls, new)
      BY <3>1, NodeChanged
    <3>3. new[kind] = calls
      BY <3>2 DEF OnlyChanges
    <3> HIDE DEF new
    <3> QED
      BY <3>1, <3>2, <3>3 DEF OnlyChanges
  <2>9. told \/ (is_complete(call) <=> known /\ is_complete(old))
    <3>1. DOMAIN old.ends = Entities(kind) /\ DOMAIN call.ends = Entities(kind)
      BY <2>3, <2>4 DEF Call
    <3>2. g # NOT_DISCOVERED
      BY DEF WorldOk
    <3>3. CASE ~known
      <4>1. \E e \in Entities(kind) : e # end
        BY DEF Entities, Calls, ServiceSrvEntities, ServiceCliEntities,
               ActionSrvEntities, ActionCliEntities
      <4>2. \A e \in Entities(kind) : old.ends[e] = NOT_DISCOVERED
        BY <3>3
      <4> QED
        BY <2>4, <3>1, <3>3, <4>1, <4>2 DEF is_complete
    <3>4. CASE known
      <4>1. is_complete(old) => is_complete(call)
        BY <2>4, <3>1, <3>2 DEF is_complete
      <4> HIDE DEF call, old, known
      <4> QED
        BY <3>4, <4>1
    <3> QED
      BY <3>3, <3>4
  <2>10. known => old = node[kind][t]
    OBVIOUS
  <2> HIDE DEF new, calls, call, old, t
  <2>11. NodeOk(p, n, new) /\ OthersKept(node, kind, new)
    <3>1. /\ kind \in Kinds /\ kind \notin MsgKinds
          /\ CallsPlaced(p, n, kind, new[kind])
          /\ OnlyChanges(node, kind, new[kind], new)
          /\ new \in Nodes
      BY <2>7, <2>8, KindFacts
    <3> QED
      BY <3>1, OthersPlaced
  <2>12. \A x \in Names : Shows(new, kind, x) <=> IF x = t THEN is_complete(call)
                                                  ELSE Shows(node, kind, x)
    BY <2>5, <2>8 DEF Shows
  <2>13. Shows(node, kind, t) <=> known /\ is_complete(old)
    BY <2>10 DEF Shows
  <2>14. TellsFound(n, node, new, events)
    <3>1. CASE ~told
      <4>1. \A k \in Kinds, x \in Names : Shows(new, k, x) <=> Shows(node, k, x)
        BY <2>9, <2>11, <2>12, <2>13, <3>1 DEF OthersKept
      <4> QED
        BY <3>1, <4>1 DEF TellsFound
    <3>2. CASE told
      <4>1. events = <<[ev |-> "Discovered", node |-> n, kind |-> kind, name |-> t]>>
        BY <3>2 DEF Event, NodeOk
      <4>2. \A k \in Kinds, x \in Names :
              Shows(new, k, x) <=> Shows(node, k, x) \/ (k = kind /\ x = t)
        BY <2>11, <2>12, <3>2, KindFacts DEF OthersKept
      <4>3. kind \in Kinds /\ t \in Names
        BY <2>2, KindFacts
      <4> HIDE DEF events
      <4> QED
        BY <4>1, <4>2, <4>3 DEF TellsFound
    <3> QED
      BY <3>1, <3>2
  <2> DEFINE u == [node |-> new, evts |-> events]
  <2> HIDE DEF events
  <2>15. u.node = new /\ u.evts = events
    OBVIOUS
  <2> HIDE DEF u
  <2>16. UpdateOk(p, n, node, u)
    BY <2>11, <2>14, <2>15 DEF UpdateOk, OthersKept
  <2> QED
    BY <2>1, <2>16 DEF u, t
<1> QED
  BY <1>1, <1>2

\* u is what the method for the interface of g makes of the node.
UpdatesPlace(node, g, u) ==
  \/ u = Ignored(node)
  \/ \E kind \in MsgKinds :
       /\ Place(g) = <<kind, "">>
       /\ u = update_msg(node, kind, TopicName(g), EntityOf(g).typ, g)
  \/ \E kind \in Calls : \E end \in Entities(kind), typ \in {EntityOf(g).typ, Untyped} :
       /\ Place(g) = <<kind, end>>
       /\ u = update_call(node, kind, TopicName(g), typ, end, g)

\* A found Reader updates the interface that its topic says.
LEMMA ReaderPlaced ==
  ASSUME NEW node, NEW g \in Gids, WorldOk, EntityOf(g).dir # "Writer"
  PROVE  UpdatesPlace(node, g, update_with_reader(node, EntityOf(g)))
<1> DEFINE On(prefix, suffix) ==
             EntityOf(g).topic.prefix = prefix /\ EntityOf(g).topic.suffix = suffix
           u == update_with_reader(node, EntityOf(g))
<1>1. EntityOf(g).key = g
  BY DEF WorldOk
<1>2. CASE On("rt", "status")
  <2>1. Place(g) = <<"action_cli", "status_reader">>
    BY <1>2 DEF Place, PlaceOf
  <2>2. u = update_call(node, "action_cli", TopicName(g), Untyped,
                        "status_reader", g)
    BY <1>1, <1>2 DEF update_with_reader, update_action_cli_status_reader, TopicName
  <2>3. "status_reader" \in Entities("action_cli") /\ "action_cli" \in Calls
    BY DEF Entities, ActionCliEntities, Calls
  <2> QED
    BY <2>1, <2>2, <2>3 DEF UpdatesPlace
<1>3. CASE On("rt", "feedback")
  <2>1. Place(g) = <<"action_cli", "feedback_reader">>
    BY <1>3 DEF Place, PlaceOf
  <2>2. u = update_call(node, "action_cli", TopicName(g), EntityOf(g).typ,
                        "feedback_reader", g)
    BY <1>1, <1>3 DEF update_with_reader, update_action_cli_feedback_reader, TopicName
  <2>3. "feedback_reader" \in Entities("action_cli") /\ "action_cli" \in Calls
    BY DEF Entities, ActionCliEntities, Calls
  <2> QED
    BY <2>1, <2>2, <2>3 DEF UpdatesPlace
<1>4. CASE On("rt", "msg")
  <2>1. Place(g) = <<"msg_sub", "">>
    BY <1>4 DEF Place, PlaceOf
  <2>2. u = update_msg(node, "msg_sub", TopicName(g), EntityOf(g).typ, g)
    BY <1>1, <1>4 DEF update_with_reader, update_msg_sub, TopicName
  <2>3. "msg_sub" \in MsgKinds
    BY DEF MsgKinds
  <2> QED
    BY <2>1, <2>2, <2>3 DEF UpdatesPlace
<1>5. CASE On("rq", "send_goal")
  <2>1. Place(g) = <<"action_srv", "send_goal_req_reader">>
    BY <1>5 DEF Place, PlaceOf
  <2>2. u = update_call(node, "action_srv", TopicName(g), EntityOf(g).typ,
                        "send_goal_req_reader", g)
    BY <1>1, <1>5 DEF update_with_reader, update_action_srv_send_req_reader, TopicName
  <2>3. "send_goal_req_reader" \in Entities("action_srv") /\ "action_srv" \in Calls
    BY DEF Entities, ActionSrvEntities, Calls
  <2> QED
    BY <2>1, <2>2, <2>3 DEF UpdatesPlace
<1>6. CASE On("rq", "cancel_goal")
  <2>1. Place(g) = <<"action_srv", "cancel_goal_req_reader">>
    BY <1>6 DEF Place, PlaceOf
  <2>2. u = update_call(node, "action_srv", TopicName(g), Untyped,
                        "cancel_goal_req_reader", g)
    BY <1>1, <1>6 DEF update_with_reader, update_action_srv_cancel_req_reader, TopicName
  <2>3. "cancel_goal_req_reader" \in Entities("action_srv") /\ "action_srv" \in Calls
    BY DEF Entities, ActionSrvEntities, Calls
  <2> QED
    BY <2>1, <2>2, <2>3 DEF UpdatesPlace
<1>7. CASE On("rq", "get_result")
  <2>1. Place(g) = <<"action_srv", "get_result_req_reader">>
    BY <1>7 DEF Place, PlaceOf
  <2>2. u = update_call(node, "action_srv", TopicName(g), EntityOf(g).typ,
                        "get_result_req_reader", g)
    BY <1>1, <1>7 DEF update_with_reader, update_action_srv_result_req_reader, TopicName
  <2>3. "get_result_req_reader" \in Entities("action_srv") /\ "action_srv" \in Calls
    BY DEF Entities, ActionSrvEntities, Calls
  <2> QED
    BY <2>1, <2>2, <2>3 DEF UpdatesPlace
<1>8. CASE On("rq", "call")
  <2>1. Place(g) = <<"service_srv", "req_reader">>
    BY <1>8 DEF Place, PlaceOf
  <2>2. u = update_call(node, "service_srv", TopicName(g), EntityOf(g).typ,
                        "req_reader", g)
    BY <1>1, <1>8 DEF update_with_reader, update_service_srv_req_reader, TopicName
  <2>3. "req_reader" \in Entities("service_srv") /\ "service_srv" \in Calls
    BY DEF Entities, ServiceSrvEntities, Calls
  <2> QED
    BY <2>1, <2>2, <2>3 DEF UpdatesPlace
<1>9. CASE On("rr", "send_goal")
  <2>1. Place(g) = <<"action_cli", "send_goal_rep_reader">>
    BY <1>9 DEF Place, PlaceOf
  <2>2. u = update_call(node, "action_cli", TopicName(g), EntityOf(g).typ,
                        "send_goal_rep_reader", g)
    BY <1>1, <1>9 DEF update_with_reader, update_action_cli_send_rep_reader, TopicName
  <2>3. "send_goal_rep_reader" \in Entities("action_cli") /\ "action_cli" \in Calls
    BY DEF Entities, ActionCliEntities, Calls
  <2> QED
    BY <2>1, <2>2, <2>3 DEF UpdatesPlace
<1>10. CASE On("rr", "cancel_goal")
  <2>1. Place(g) = <<"action_cli", "cancel_goal_rep_reader">>
    BY <1>10 DEF Place, PlaceOf
  <2>2. u = update_call(node, "action_cli", TopicName(g), Untyped,
                        "cancel_goal_rep_reader", g)
    BY <1>1, <1>10 DEF update_with_reader, update_action_cli_cancel_rep_reader, TopicName
  <2>3. "cancel_goal_rep_reader" \in Entities("action_cli") /\ "action_cli" \in Calls
    BY DEF Entities, ActionCliEntities, Calls
  <2> QED
    BY <2>1, <2>2, <2>3 DEF UpdatesPlace
<1>11. CASE On("rr", "get_result")
  <2>1. Place(g) = <<"action_cli", "get_result_rep_reader">>
    BY <1>11 DEF Place, PlaceOf
  <2>2. u = update_call(node, "action_cli", TopicName(g), EntityOf(g).typ,
                        "get_result_rep_reader", g)
    BY <1>1, <1>11 DEF update_with_reader, update_action_cli_result_rep_reader, TopicName
  <2>3. "get_result_rep_reader" \in Entities("action_cli") /\ "action_cli" \in Calls
    BY DEF Entities, ActionCliEntities, Calls
  <2> QED
    BY <2>1, <2>2, <2>3 DEF UpdatesPlace
<1>12. CASE On("rr", "call")
  <2>1. Place(g) = <<"service_cli", "rep_reader">>
    BY <1>12 DEF Place, PlaceOf
  <2>2. u = update_call(node, "service_cli", TopicName(g), EntityOf(g).typ,
                        "rep_reader", g)
    BY <1>1, <1>12 DEF update_with_reader, update_service_cli_rep_reader, TopicName
  <2>3. "rep_reader" \in Entities("service_cli") /\ "service_cli" \in Calls
    BY DEF Entities, ServiceCliEntities, Calls
  <2> QED
    BY <2>1, <2>2, <2>3 DEF UpdatesPlace
<1>13. CASE
          /\ ~On("rt", "status")
          /\ ~On("rt", "feedback")
          /\ ~On("rt", "msg")
          /\ ~On("rq", "send_goal")
          /\ ~On("rq", "cancel_goal")
          /\ ~On("rq", "get_result")
          /\ ~On("rq", "call")
          /\ ~On("rr", "send_goal")
          /\ ~On("rr", "cancel_goal")
          /\ ~On("rr", "get_result")
          /\ ~On("rr", "call")
  BY <1>13 DEF update_with_reader, UpdatesPlace
<1> QED
  BY <1>2, <1>3, <1>4, <1>5, <1>6, <1>7, <1>8, <1>9, <1>10, <1>11, <1>12, <1>13

\* A found Writer updates the interface that its topic says.
LEMMA WriterPlaced ==
  ASSUME NEW node, NEW g \in Gids, WorldOk, EntityOf(g).dir = "Writer"
  PROVE  UpdatesPlace(node, g, update_with_writer(node, EntityOf(g)))
<1> DEFINE On(prefix, suffix) ==
             EntityOf(g).topic.prefix = prefix /\ EntityOf(g).topic.suffix = suffix
           u == update_with_writer(node, EntityOf(g))
<1>1. EntityOf(g).key = g
  BY DEF WorldOk
<1>2. CASE On("rt", "status")
  <2>1. Place(g) = <<"action_srv", "status_writer">>
    BY <1>2 DEF Place, PlaceOf
  <2>2. u = update_call(node, "action_srv", TopicName(g), Untyped,
                        "status_writer", g)
    BY <1>1, <1>2 DEF update_with_writer, update_action_srv_status_writer, TopicName
  <2>3. "status_writer" \in Entities("action_srv") /\ "action_srv" \in Calls
    BY DEF Entities, ActionSrvEntities, Calls
  <2> QED
    BY <2>1, <2>2, <2>3 DEF UpdatesPlace
<1>3. CASE On("rt", "feedback")
  <2>1. Place(g) = <<"action_srv", "feedback_writer">>
    BY <1>3 DEF Place, PlaceOf
  <2>2. u = update_call(node, "action_srv", TopicName(g), EntityOf(g).typ,
                        "feedback_writer", g)
    BY <1>1, <1>3 DEF update_with_writer, update_action_srv_feedback_writer, TopicName
  <2>3. "feedback_writer" \in Entities("action_srv") /\ "action_srv" \in Calls
    BY DEF Entities, ActionSrvEntities, Calls
  <2> QED
    BY <2>1, <2>2, <2>3 DEF UpdatesPlace
<1>4. CASE On("rt", "msg")
  <2>1. Place(g) = <<"msg_pub", "">>
    BY <1>4 DEF Place, PlaceOf
  <2>2. u = update_msg(node, "msg_pub", TopicName(g), EntityOf(g).typ, g)
    BY <1>1, <1>4 DEF update_with_writer, update_msg_pub, TopicName
  <2>3. "msg_pub" \in MsgKinds
    BY DEF MsgKinds
  <2> QED
    BY <2>1, <2>2, <2>3 DEF UpdatesPlace
<1>5. CASE On("rq", "send_goal")
  <2>1. Place(g) = <<"action_cli", "send_goal_req_writer">>
    BY <1>5 DEF Place, PlaceOf
  <2>2. u = update_call(node, "action_cli", TopicName(g), EntityOf(g).typ,
                        "send_goal_req_writer", g)
    BY <1>1, <1>5 DEF update_with_writer, update_action_cli_send_req_writer, TopicName
  <2>3. "send_goal_req_writer" \in Entities("action_cli") /\ "action_cli" \in Calls
    BY DEF Entities, ActionCliEntities, Calls
  <2> QED
    BY <2>1, <2>2, <2>3 DEF UpdatesPlace
<1>6. CASE On("rq", "cancel_goal")
  <2>1. Place(g) = <<"action_cli", "cancel_goal_req_writer">>
    BY <1>6 DEF Place, PlaceOf
  <2>2. u = update_call(node, "action_cli", TopicName(g), Untyped,
                        "cancel_goal_req_writer", g)
    BY <1>1, <1>6 DEF update_with_writer, update_action_cli_cancel_req_writer, TopicName
  <2>3. "cancel_goal_req_writer" \in Entities("action_cli") /\ "action_cli" \in Calls
    BY DEF Entities, ActionCliEntities, Calls
  <2> QED
    BY <2>1, <2>2, <2>3 DEF UpdatesPlace
<1>7. CASE On("rq", "get_result")
  <2>1. Place(g) = <<"action_cli", "get_result_req_writer">>
    BY <1>7 DEF Place, PlaceOf
  <2>2. u = update_call(node, "action_cli", TopicName(g), EntityOf(g).typ,
                        "get_result_req_writer", g)
    BY <1>1, <1>7 DEF update_with_writer, update_action_cli_result_req_writer, TopicName
  <2>3. "get_result_req_writer" \in Entities("action_cli") /\ "action_cli" \in Calls
    BY DEF Entities, ActionCliEntities, Calls
  <2> QED
    BY <2>1, <2>2, <2>3 DEF UpdatesPlace
<1>8. CASE On("rq", "call")
  <2>1. Place(g) = <<"service_cli", "req_writer">>
    BY <1>8 DEF Place, PlaceOf
  <2>2. u = update_call(node, "service_cli", TopicName(g), EntityOf(g).typ,
                        "req_writer", g)
    BY <1>1, <1>8 DEF update_with_writer, update_service_cli_req_writer, TopicName
  <2>3. "req_writer" \in Entities("service_cli") /\ "service_cli" \in Calls
    BY DEF Entities, ServiceCliEntities, Calls
  <2> QED
    BY <2>1, <2>2, <2>3 DEF UpdatesPlace
<1>9. CASE On("rr", "send_goal")
  <2>1. Place(g) = <<"action_srv", "send_goal_rep_writer">>
    BY <1>9 DEF Place, PlaceOf
  <2>2. u = update_call(node, "action_srv", TopicName(g), EntityOf(g).typ,
                        "send_goal_rep_writer", g)
    BY <1>1, <1>9 DEF update_with_writer, update_action_srv_send_rep_writer, TopicName
  <2>3. "send_goal_rep_writer" \in Entities("action_srv") /\ "action_srv" \in Calls
    BY DEF Entities, ActionSrvEntities, Calls
  <2> QED
    BY <2>1, <2>2, <2>3 DEF UpdatesPlace
<1>10. CASE On("rr", "cancel_goal")
  <2>1. Place(g) = <<"action_srv", "cancel_goal_rep_writer">>
    BY <1>10 DEF Place, PlaceOf
  <2>2. u = update_call(node, "action_srv", TopicName(g), Untyped,
                        "cancel_goal_rep_writer", g)
    BY <1>1, <1>10 DEF update_with_writer, update_action_srv_cancel_rep_writer, TopicName
  <2>3. "cancel_goal_rep_writer" \in Entities("action_srv") /\ "action_srv" \in Calls
    BY DEF Entities, ActionSrvEntities, Calls
  <2> QED
    BY <2>1, <2>2, <2>3 DEF UpdatesPlace
<1>11. CASE On("rr", "get_result")
  <2>1. Place(g) = <<"action_srv", "get_result_rep_writer">>
    BY <1>11 DEF Place, PlaceOf
  <2>2. u = update_call(node, "action_srv", TopicName(g), EntityOf(g).typ,
                        "get_result_rep_writer", g)
    BY <1>1, <1>11 DEF update_with_writer, update_action_srv_result_rep_writer, TopicName
  <2>3. "get_result_rep_writer" \in Entities("action_srv") /\ "action_srv" \in Calls
    BY DEF Entities, ActionSrvEntities, Calls
  <2> QED
    BY <2>1, <2>2, <2>3 DEF UpdatesPlace
<1>12. CASE On("rr", "call")
  <2>1. Place(g) = <<"service_srv", "rep_writer">>
    BY <1>12 DEF Place, PlaceOf
  <2>2. u = update_call(node, "service_srv", TopicName(g), EntityOf(g).typ,
                        "rep_writer", g)
    BY <1>1, <1>12 DEF update_with_writer, update_service_srv_rep_writer, TopicName
  <2>3. "rep_writer" \in Entities("service_srv") /\ "service_srv" \in Calls
    BY DEF Entities, ServiceSrvEntities, Calls
  <2> QED
    BY <2>1, <2>2, <2>3 DEF UpdatesPlace
<1>13. CASE
          /\ ~On("rt", "status")
          /\ ~On("rt", "feedback")
          /\ ~On("rt", "msg")
          /\ ~On("rq", "send_goal")
          /\ ~On("rq", "cancel_goal")
          /\ ~On("rq", "get_result")
          /\ ~On("rq", "call")
          /\ ~On("rr", "send_goal")
          /\ ~On("rr", "cancel_goal")
          /\ ~On("rr", "get_result")
          /\ ~On("rr", "call")
  BY <1>13 DEF update_with_writer, UpdatesPlace
<1> QED
  BY <1>2, <1>3, <1>4, <1>5, <1>6, <1>7, <1>8, <1>9, <1>10, <1>11, <1>12, <1>13

\* A declared endpoint that DDS has announced is added to its node.
LEMMA UpdatedWith ==
  ASSUME NEW p, NEW n, NEW node, NodeOk(p, n, node), NEW g \in Gids, WorldOk, Mine(p, n, g)
  PROVE  UpdateOk(p, n, node, update_with(node, g))
<1>1. UpdatesPlace(node, g, update_with(node, g))
  BY ReaderPlaced, WriterPlaced DEF update_with, IsWriter
<1>2. ASSUME NEW kind \in MsgKinds, Place(g) = <<kind, "">>
      PROVE  UpdateOk(p, n, node, update_msg(node, kind, TopicName(g), EntityOf(g).typ, g))
  BY <1>2, MsgUpdated
<1>3. ASSUME NEW kind \in Calls, NEW end \in Entities(kind),
             NEW typ \in {EntityOf(g).typ, Untyped}, Place(g) = <<kind, end>>
      PROVE  UpdateOk(p, n, node, update_call(node, kind, TopicName(g), typ, end, g))
  <2>1. typ \in Typs
    BY DEF Typs
  <2> QED
    BY <1>3, <2>1, CallUpdated
<1> QED
  BY <1>1, <1>2, <1>3, IgnoredOk DEF UpdatesPlace

\* What is kept when an endpoint is removed.
RemoveOk(p, n, node, u) ==
  /\ NodeOk(p, n, u.node)
  /\ \A list \in Lists : u.node[list] = node[list]
  /\ TellsLost(n, node, u.node, u.evts)

\* An interface is forgotten, and told of.
LEMMA Undiscovered ==
  ASSUME NEW p, NEW n, NEW node, NodeOk(p, n, node), NEW kind \in Kinds, NEW t \in Names
  PROVE  RemoveOk(p, n, node, Undiscover(node, kind, t))
<1> DEFINE map == Restrict(node[kind], DOMAIN node[kind] \ {t})
           new == [node EXCEPT ![kind] = map]
           events == <<Event("Undiscovered", node, kind, t)>>
           u == [node |-> new, evts |-> events]
<1>1. Undiscover(node, kind, t) = u
  BY DEF Undiscover
<1>2. node \in Nodes
  BY DEF NodeOk
<1>3. /\ DOMAIN map = DOMAIN node[kind] \ {t}
      /\ \A y \in DOMAIN map : map[y] = node[kind][y]
  BY DEF Restrict
<1>4. kind \in MsgKinds => map \in Msgs
  BY <1>2, NodeFields, RestrictMap DEF Msgs
<1>5. kind \in Calls => map \in CallsOf(kind)
  BY <1>2, NodeFields, RestrictMap DEF CallsOf
<1> HIDE DEF map
<1>6. OnlyChanges(node, kind, map, new)
  BY <1>2, NodeChanged
<1> HIDE DEF new
<1>7. new[kind] = map /\ new \in Nodes /\ OnlyChanges(node, kind, new[kind], new)
  BY <1>4, <1>5, <1>6, KindFacts DEF OnlyChanges
<1>8. kind \in MsgKinds => MsgsPlaced(p, n, kind, new[kind])
  BY <1>3, <1>7 DEF MsgsPlaced, NodeOk
<1>9. kind \in Calls => CallsPlaced(p, n, kind, new[kind])
  BY <1>3, <1>7 DEF CallsPlaced, NodeOk
<1>10. NodeOk(p, n, new) /\ OthersKept(node, kind, new)
  BY <1>7, <1>8, <1>9, OthersPlaced
<1>11. \A x \in Names : Shows(new, kind, x) <=> Shows(node, kind, x) /\ x # t
  BY <1>3, <1>7 DEF Shows
<1>12. TellsLost(n, node, new, events)
  <2>1. events = <<[ev |-> "Undiscovered", node |-> n, kind |-> kind, name |-> t]>>
    BY DEF Event, NodeOk
  <2>2. \A k \in Kinds, x \in Names :
          Shows(new, k, x) <=> Shows(node, k, x) /\ ~(k = kind /\ x = t)
    BY <1>10, <1>11 DEF OthersKept
  <2> HIDE DEF events
  <2> QED
    BY <2>1, <2>2 DEF TellsLost
<1> HIDE DEF events
<1>13. u.node = new /\ u.evts = events
  OBVIOUS
<1> HIDE DEF u
<1> QED
  BY <1>1, <1>10, <1>12, <1>13 DEF RemoveOk, OthersKept

\* Two nodes show the same.
ShowSame(node, new) == \A kind \in Kinds, t \in Names : Shows(new, kind, t) <=> Shows(node, kind, t)

\* What is told of a node is true of one that shows the same.
LEMMA TellsSame ==
  ASSUME NEW n, NEW node, NEW left, NEW new, NEW events, ShowSame(node, left),
         TellsLost(n, left, new, events)
  PROVE  TellsLost(n, node, new, events)
<1>1. CASE events = <<>> /\ ShowSame(left, new)
  BY <1>1 DEF TellsLost, ShowSame
<1>2. ASSUME NEW k \in Kinds, NEW m \in Names,
             events = <<[ev |-> "Undiscovered", node |-> n, kind |-> k, name |-> m]>>,
             \A kind \in Kinds, t \in Names :
               Shows(new, kind, t) <=> Shows(left, kind, t) /\ ~(kind = k /\ t = m)
      PROVE  TellsLost(n, node, new, events)
  <2>1. \A kind \in Kinds, t \in Names :
          Shows(new, kind, t) <=> Shows(node, kind, t) /\ ~(kind = k /\ t = m)
    BY <1>2 DEF ShowSame
  <2> QED
    BY <1>2, <2>1 DEF TellsLost
<1> QED
  BY <1>1, <1>2 DEF TellsLost, ShowSame

\* A publisher or subscriber goes with its last endpoint, a service or an action with any.
LEMMA EndpointRemoved ==
  ASSUME NEW p, NEW n, NEW node, NodeOk(p, n, node), NEW g \in Gids, NEW msg \in MsgKinds,
         NEW ends
  PROVE  RemoveOk(p, n, node, remove_endpoint(node, msg, ends, g))
<1> DEFINE Without(m) == [typ |-> m.typ, gids |-> m.gids \ {g}]
           msgs == [x \in DOMAIN node[msg] |-> Without(node[msg][x])]
           left == [node EXCEPT ![msg] = msgs]
           emptied == {x \in DOMAIN node[msg] : node[msg][x].gids = {g}}
           Using(kind) == {x \in DOMAIN node[kind] :
                             \E end \in Entities(kind) \cap ends : node[kind][x].ends[end] = g}
           used == {k \in DOMAIN CallKinds : Using(CallKinds[k]) # {}}
           first == CallKinds[Min(used)]
           r == remove_endpoint(node, msg, ends, g)
<1> SUFFICES RemoveOk(p, n, node, r)
  OBVIOUS
<1>1. r = IF emptied # {} THEN Undiscover(left, msg, CHOOSE x \in emptied : TRUE)
          ELSE IF used # {} THEN Undiscover(left, first, CHOOSE x \in Using(first) : TRUE)
          ELSE Ignored(left)
  BY DEF remove_endpoint
<1> HIDE DEF r
<1>2. node \in Nodes /\ node[msg] \in Msgs /\ node.fullname = n
  BY NodeFields DEF NodeOk
<1>3. /\ DOMAIN node[msg] \subseteq Names
      /\ \A x \in DOMAIN node[msg] : node[msg][x] \in Msg
  BY <1>2, MapFacts DEF Msgs
<1>4. \A x \in DOMAIN node[msg] : msgs[x] \in Msg /\ msgs[x].gids = node[msg][x].gids \ {g}
  BY <1>3 DEF Msg
<1>5. msgs \in Msgs /\ DOMAIN msgs = DOMAIN node[msg]
  BY <1>3, <1>4, MapIntro DEF Msgs
<1>6. MsgsPlaced(p, n, msg, node[msg])
  BY DEF NodeOk
<1>7. \A x \in emptied : x = TopicName(g) /\ x \in Names
  BY <1>3, <1>6 DEF MsgsPlaced, Placed
<1>8. \A x \in DOMAIN msgs \ emptied :
        msgs[x].gids # {} /\ \A y \in msgs[x].gids : Placed(p, n, y, x, msg, "")
  <2> SUFFICES ASSUME NEW x \in DOMAIN node[msg], node[msg][x].gids # {g}
               PROVE  /\ msgs[x].gids # {}
                      /\ \A y \in msgs[x].gids : Placed(p, n, y, x, msg, "")
    BY <1>5
  <2> DEFINE gids == node[msg][x].gids
  <2>1. gids # {} /\ \A y \in gids : Placed(p, n, y, x, msg, "")
    BY <1>6 DEF MsgsPlaced
  <2>2. msgs[x].gids = gids \ {g}
    BY <1>4
  <2> HIDE DEF gids, msgs
  <2>3. gids \ {g} # {}
    BY <2>1 DEF gids
  <2> QED
    BY <2>1, <2>2, <2>3
<1> HIDE DEF msgs
<1>9. OnlyChanges(node, msg, msgs, left) /\ left \in Nodes /\ left[msg] = msgs
  <2>1. OnlyChanges(node, msg, msgs, left)
    BY <1>2, KindFacts, NodeChanged
  <2> QED
    BY <1>5, <2>1 DEF OnlyChanges
<1>10. left.fullname = n
  BY <1>2, <1>9, KindFacts DEF OnlyChanges
<1> HIDE DEF left
<1>11. CASE emptied # {}
  <2> DEFINE t == TopicName(g)
             map == Restrict(left[msg], DOMAIN left[msg] \ {t})
             new == [left EXCEPT ![msg] = map]
             events == <<Event("Undiscovered", left, msg, t)>>
             u == [node |-> new, evts |-> events]
  <2>1. (CHOOSE x \in emptied : TRUE) = t /\ t \in emptied /\ emptied = {t} /\ t \in Names
    <3> HIDE DEF emptied
    <3> QED
      BY <1>7, <1>11
  <2>2. r = u
    BY <1>1, <1>11, <2>1 DEF Undiscover
  <2>3. /\ DOMAIN map = DOMAIN msgs \ {t}
        /\ \A y \in DOMAIN map : map[y] = msgs[y]
    BY <1>9 DEF Restrict
  <2>4. map \in Msgs
    BY <1>5, <1>9, RestrictMap DEF Msgs
  <2> HIDE DEF map
  <2>5. OnlyChanges(left, msg, map, new)
    BY <1>9, KindFacts, NodeChanged
  <2> HIDE DEF new
  <2>6. OnlyChanges(node, msg, new[msg], new) /\ new \in Nodes /\ new[msg] = map
    BY <1>9, <2>4, <2>5, KindFacts DEF OnlyChanges
  <2>7. MsgsPlaced(p, n, msg, new[msg])
    BY <1>8, <2>1, <2>3, <2>6 DEF MsgsPlaced
  <2>8. NodeOk(p, n, new) /\ OthersKept(node, msg, new)
    <3>1. msg \in Kinds /\ msg \notin Calls
      BY KindFacts
    <3> QED
      BY <2>6, <2>7, <3>1, OthersPlaced
  <2>9. \A x \in Names : Shows(new, msg, x) <=> Shows(node, msg, x) /\ x # t
    BY <1>5, <2>3, <2>6, KindFacts DEF Shows
  <2>10. TellsLost(n, node, new, events)
    <3>1. events = <<[ev |-> "Undiscovered", node |-> n, kind |-> msg, name |-> t]>>
      BY <1>10 DEF Event
    <3>2. \A k \in Kinds, x \in Names :
            Shows(new, k, x) <=> Shows(node, k, x) /\ ~(k = msg /\ x = t)
      BY <2>8, <2>9 DEF OthersKept
    <3>3. msg \in Kinds
      BY KindFacts
    <3> HIDE DEF events, t
    <3> QED
      BY <2>1, <3>1, <3>2, <3>3 DEF TellsLost
  <2> HIDE DEF events
  <2>11. u.node = new /\ u.evts = events
    OBVIOUS
  <2> HIDE DEF u
  <2> QED
    BY <2>2, <2>8, <2>10, <2>11 DEF RemoveOk, OthersKept
<1>12. CASE emptied = {}
  <2>1. NodeOk(p, n, left) /\ OthersKept(node, msg, left)
    <3>1. MsgsPlaced(p, n, msg, left[msg])
      BY <1>8, <1>9, <1>12 DEF MsgsPlaced
    <3>2. msg \in Kinds /\ msg \notin Calls /\ OnlyChanges(node, msg, left[msg], left)
      BY <1>9, KindFacts
    <3> QED
      BY <1>9, <3>1, <3>2, OthersPlaced
  <2>2. \A kind \in Kinds, x \in Names : Shows(left, kind, x) <=> Shows(node, kind, x)
    <3>1. \A x \in Names : Shows(left, msg, x) <=> Shows(node, msg, x)
      BY <1>5, <1>9, KindFacts DEF Shows
    <3> QED
      BY <2>1, <3>1 DEF OthersKept
  <2>3. CASE used = {}
    <3>1. r = Ignored(left)
      BY <1>1, <1>12, <2>3
    <3>2. r.node = left /\ r.evts = <<>>
      BY <3>1 DEF Ignored
    <3> QED
      BY <2>1, <2>2, <3>2 DEF RemoveOk, TellsLost, OthersKept
  <2>4. CASE used # {}
    <3> DEFINE t == CHOOSE x \in Using(first) : TRUE
    <3>1. first \in Calls /\ t \in DOMAIN node[first]
      <4>1. used \subseteq Nat
        <5>1. used \subseteq 1 .. 4
          BY KindFacts
        <5>2. 1 .. 4 \subseteq Nat
          OBVIOUS
        <5> HIDE DEF used
        <5> QED
          BY <5>1, <5>2
      <4>2. Min(used) \in used
        <5> HIDE DEF used
        <5>1. \E k \in used : \A l \in used : k <= l
          BY <2>4, <4>1, LeastNatural
        <5> QED
          BY <5>1 DEF Min
      <4>3. first \in Calls
        BY <4>2, KindFacts
      <4>4. Using(first) # {} /\ Using(first) \subseteq DOMAIN node[first]
        BY <4>2
      <4> HIDE DEF Using, first
      <4> QED
        BY <4>3, <4>4
    <3>2. r = Undiscover(left, first, t)
      BY <1>1, <1>12, <2>4
    <3> HIDE DEF first, t
    <3>3. t \in Names
      <4>1. node[first] \in CallsOf(first)
        BY <1>2, <3>1, NodeFields
      <4> QED
        BY <3>1, <4>1, MapFacts DEF CallsOf
    <3>4. RemoveOk(p, n, left, r)
      BY <2>1, <3>1, <3>2, <3>3, KindFacts, Undiscovered
    <3>5. TellsLost(n, node, r.node, r.evts)
      <4>1. ShowSame(node, left) /\ TellsLost(n, left, r.node, r.evts)
        BY <2>2, <3>4 DEF RemoveOk, ShowSame
      <4> QED
        BY <4>1, TellsSame
    <3> QED
      BY <2>1, <3>4, <3>5 DEF RemoveOk, OthersKept
  <2> QED
    BY <2>3, <2>4
<1> QED
  BY <1>11, <1>12

\* The endpoints that may wait in a list of a node.
MayWait(p, n, list, set) ==
  \A g \in set : Waiting(p, n, g, list = "undiscovered_writer")

\* A list of a node changes alone.
ListChanges(node, list, set, new) ==
  /\ new[list] = set
  /\ \A l \in Lists \ {list} : new[l] = node[l]
  /\ ShowSame(node, new)

\* Endpoints are put into, or taken from, a list of a node.
LEMMA ListChanged ==
  ASSUME NEW p, NEW n, NEW node, NodeOk(p, n, node), NEW list \in Lists,
         NEW set \in SUBSET Gids, MayWait(p, n, list, set)
  PROVE  /\ NodeOk(p, n, [node EXCEPT ![list] = set])
         /\ ListChanges(node, list, set, [node EXCEPT ![list] = set])
<1> DEFINE new == [node EXCEPT ![list] = set]
<1>1. OnlyChanges(node, list, set, new)
  BY NodeChanged DEF NodeOk
<1> HIDE DEF new
<1>2. new[list] = set /\ new \in Nodes
  BY <1>1 DEF OnlyChanges
<1>3. \A k \in Kinds : new[k] = node[k]
  BY <1>1, KindFacts DEF OnlyChanges
<1>4. \A l \in Lists \ {list} : new[l] = node[l]
  BY <1>1 DEF OnlyChanges
<1>5. new.fullname = node.fullname
  BY <1>1, KindFacts DEF OnlyChanges
<1>6. ListChanges(node, list, set, new)
  BY <1>2, <1>3, <1>4 DEF ListChanges, ShowSame, Shows
<1>7. /\ \A kind \in MsgKinds : MsgsPlaced(p, n, kind, new[kind])
      /\ \A kind \in Calls : CallsPlaced(p, n, kind, new[kind])
  BY <1>3, KindFacts DEF NodeOk
<1>8. \A g \in new.undiscovered_reader : Waiting(p, n, g, FALSE)
  <2>1. CASE list = "undiscovered_reader"
    BY <1>2, <2>1 DEF MayWait
  <2>2. CASE list # "undiscovered_reader"
    <3>1. new.undiscovered_reader = node.undiscovered_reader
      BY <1>4, <2>2 DEF Lists
    <3> QED
      BY <3>1 DEF NodeOk
  <2> QED
    BY <2>1, <2>2
<1>9. \A g \in new.undiscovered_writer : Waiting(p, n, g, TRUE)
  <2>1. CASE list = "undiscovered_writer"
    BY <1>2, <2>1 DEF MayWait
  <2>2. CASE list # "undiscovered_writer"
    <3>1. new.undiscovered_writer = node.undiscovered_writer
      BY <1>4, <2>2 DEF Lists
    <3> QED
      BY <3>1 DEF NodeOk
  <2> QED
    BY <2>1, <2>2
<1>10. NodeOk(p, n, new)
  BY <1>2, <1>5, <1>7, <1>8, <1>9 DEF NodeOk
<1> QED
  BY <1>6, <1>10 DEF new

\* The lists of a node hold endpoints that may wait.
LEMMA ListsOk ==
  ASSUME NEW p, NEW n, NEW node, NodeOk(p, n, node), NEW list \in Lists
  PROVE  node[list] \in SUBSET Gids /\ MayWait(p, n, list, node[list])
<1>1. node[list] \subseteq Gids
  BY NodeFields DEF NodeOk
<1>2. CASE list = "undiscovered_reader"
  BY <1>1, <1>2 DEF NodeOk, MayWait
<1>3. CASE list = "undiscovered_writer"
  BY <1>1, <1>3 DEF NodeOk, MayWait
<1> QED
  BY <1>2, <1>3 DEF Lists

\* What is kept when a node is told that an endpoint is gone.
GoneOk(p, n, node, u) ==
  /\ NodeOk(p, n, u.node)
  /\ \A list \in Lists : u.node[list] \subseteq node[list]
  /\ TellsLost(n, node, u.node, u.evts)

\* An endpoint that waits is forgotten, unless the node had it.
LEMMA Forgotten ==
  ASSUME NEW p, NEW n, NEW node, NodeOk(p, n, node), NEW result, RemoveOk(p, n, node, result),
         NEW list \in Lists, NEW g
  PROVE  GoneOk(p, n, node, Forget(result, list, g))
<1> DEFINE set == result.node[list] \ {g}
           new == [result.node EXCEPT ![list] = set]
           u == Forget(result, list, g)
<1> SUFFICES GoneOk(p, n, node, u)
  OBVIOUS
<1>1. u = IF result.evts = <<>> THEN Ignored(new) ELSE result
  BY DEF Forget
<1> HIDE DEF u
<1>2. CASE result.evts # <<>>
  BY <1>1, <1>2 DEF RemoveOk, GoneOk
<1>3. CASE result.evts = <<>>
  <2>1. u.node = new /\ u.evts = <<>>
    BY <1>1, <1>3 DEF Ignored
  <2>2. NodeOk(p, n, result.node)
    BY DEF RemoveOk
  <2>3. set \in SUBSET Gids /\ MayWait(p, n, list, set)
    BY <2>2, ListsOk DEF MayWait
  <2>4. set \subseteq result.node[list]
    OBVIOUS
  <2> HIDE DEF set
  <2>5. NodeOk(p, n, new) /\ ListChanges(result.node, list, set, new)
    BY <2>2, <2>3, ListChanged
  <2> HIDE DEF new
  <2>6. ShowSame(node, result.node)
    BY <1>3 DEF RemoveOk, TellsLost, ShowSame
  <2>7. ShowSame(node, new)
    BY <2>5, <2>6 DEF ShowSame, ListChanges
  <2>8. \A l \in Lists : new[l] \subseteq node[l]
    BY <2>4, <2>5 DEF ListChanges, RemoveOk
  <2> QED
    BY <2>1, <2>5, <2>7, <2>8 DEF GoneOk, TellsLost, ShowSame
<1> QED
  BY <1>2, <1>3

\* An endpoint that DDS has withdrawn is removed from a node.
LEMMA RemovedFrom ==
  ASSUME NEW p, NEW n, NEW node, NodeOk(p, n, node), NEW g \in Gids
  PROVE  /\ GoneOk(p, n, node, remove_from(node, g))
         /\ GoneOk(p, n, node, remove_writer(node, g))
<1> DEFINE r == remove_endpoint(node, "msg_sub", ReaderEnds, g)
           w == remove_endpoint(node, "msg_pub", AllEnds \ ReaderEnds, g)
<1>1. "msg_sub" \in MsgKinds /\ "msg_pub" \in MsgKinds
  BY DEF MsgKinds
<1>2. RemoveOk(p, n, node, r) /\ RemoveOk(p, n, node, w)
  BY <1>1, EndpointRemoved
<1>3. /\ remove_reader(node, g) = Forget(r, "undiscovered_reader", g)
      /\ remove_writer(node, g) = Forget(w, "undiscovered_writer", g)
  BY DEF remove_reader, remove_writer
<1>4. "undiscovered_reader" \in Lists /\ "undiscovered_writer" \in Lists
  BY DEF Lists
<1> HIDE DEF r, w
<1>5. GoneOk(p, n, node, remove_reader(node, g)) /\ GoneOk(p, n, node, remove_writer(node, g))
  BY <1>2, <1>3, <1>4, Forgotten
<1> QED
  BY <1>5 DEF remove_from

-----------------------------------------------------------------------------
(* Events. *)

\* What a sequence of events leaves discovered.
Known(known, events) == After(Len(events), known, events)

\* The events about an interface, and what the last one says.
Of(events) == {i \in 1 .. Len(events) : events[i].ev \in {"Discovered", "Undiscovered"}}
About(events, x) == {i \in Of(events) : Interface(events[i]) = x}
Leaves(events, x) ==
  About(events, x) # {} /\ events[Max(About(events, x))].ev = "Discovered"

\* The last event about an interface decides, or else what was known.
LEMMA KnownElement ==
  ASSUME NEW known, NEW events, NEW x
  PROVE  x \in Known(known, events)
           <=> (About(events, x) = {} /\ x \in known) \/ Leaves(events, x)
BY DEF Known, After, Of, About, Leaves

\* The events about an interface have a last one.
LEMMA LastAbout ==
  ASSUME NEW E, NEW events \in Seq(E), NEW x
  PROVE  /\ About(events, x) \subseteq 1 .. Len(events)
         /\ About(events, x) # {} =>
              /\ Max(About(events, x)) \in About(events, x)
              /\ \A i \in About(events, x) : i <= Max(About(events, x))
<1>1. Len(events) \in Nat /\ About(events, x) \subseteq 1 .. Len(events)
  BY DEF About, Of
<1>2. IsFiniteSet(About(events, x))
  <2>1. IsFiniteSet(1 .. Len(events))
    BY <1>1, FS_Interval
  <2> QED
    BY <1>1, <2>1, FS_Subset
<1>3. About(events, x) \subseteq Nat
  BY <1>1
<1> QED
  BY <1>1, <1>2, <1>3, MaxOfFinite

\* Events that follow others go on from what those have left.
LEMMA KnownJoined ==
  ASSUME NEW E, NEW s \in Seq(E), NEW t \in Seq(E), NEW known
  PROVE  Known(known, s \o t) = Known(Known(known, s), t)
<1> DEFINE u == s \o t
           n == Len(s)
<1>1. /\ u \in Seq(E) /\ n \in Nat /\ Len(t) \in Nat
      /\ Len(u) = n + Len(t)
      /\ \A i \in 1 .. n : u[i] = s[i]
      /\ \A i \in 1 .. Len(t) : u[n + i] = t[i]
  BY ConcatProperties
<1> HIDE DEF u, n
<1>2. ASSUME NEW x
      PROVE  /\ \A i \in About(s, x) : i \in About(u, x)
             /\ \A i \in About(t, x) : n + i \in About(u, x)
             /\ \A i \in About(u, x) : \/ i \in About(s, x)
                                       \/ i > n /\ i - n \in About(t, x)
  <2>1. ASSUME NEW i \in About(s, x) PROVE i \in About(u, x)
    <3>1. i \in 1 .. n /\ i \in 1 .. Len(u)
      BY <1>1 DEF About, Of, n
    <3>2. u[i] = s[i]
      BY <1>1, <3>1
    <3> QED
      BY <3>1, <3>2 DEF About, Of
  <2>2. ASSUME NEW i \in About(t, x) PROVE n + i \in About(u, x)
    <3>1. i \in 1 .. Len(t)
      BY DEF About, Of
    <3>2. n + i \in 1 .. Len(u)
      BY <1>1, <3>1
    <3>3. u[n + i] = t[i]
      BY <1>1, <3>1
    <3> QED
      BY <3>2, <3>3 DEF About, Of
  <2>3. ASSUME NEW i \in About(u, x) PROVE i \in About(s, x) \/ (i > n /\ i - n \in About(t, x))
    <3>1. i \in 1 .. n + Len(t)
      BY <1>1 DEF About, Of
    <3>2. CASE i \in 1 .. n
      <4>1. u[i] = s[i] /\ n = Len(s)
        BY <1>1, <3>2 DEF n
      <4> QED
        BY <3>2, <4>1 DEF About, Of
    <3>3. CASE i \notin 1 .. n
      <4>1. i > n /\ i - n \in 1 .. Len(t) /\ n + (i - n) = i
        BY <1>1, <3>1, <3>3
      <4>2. u[i] = t[i - n]
        BY <1>1, <4>1
      <4> QED
        BY <4>1, <4>2 DEF About, Of
    <3> QED
      BY <3>2, <3>3
  <2> QED
    BY <2>1, <2>2, <2>3
<1>3. ASSUME NEW x PROVE x \in Known(known, u) <=> x \in Known(Known(known, s), t)
  <2> DEFINE a == About(s, x)
             b == About(t, x)
             c == About(u, x)
  <2>1. /\ a \subseteq 1 .. n /\ b \subseteq 1 .. Len(t) /\ c \subseteq 1 .. Len(u)
        /\ a # {} => Max(a) \in a /\ \A i \in a : i <= Max(a)
        /\ b # {} => Max(b) \in b /\ \A i \in b : i <= Max(b)
        /\ c # {} => Max(c) \in c /\ \A i \in c : i <= Max(c)
    BY <1>1, LastAbout DEF n
  <2>2. /\ \A i \in a : i \in c
        /\ \A i \in b : n + i \in c
        /\ \A i \in c : i \in a \/ (i > n /\ i - n \in b)
    BY <1>2
  <2>3. /\ x \in Known(known, u) <=> (c = {} /\ x \in known) \/ Leaves(u, x)
        /\ x \in Known(known, s) <=> (a = {} /\ x \in known) \/ Leaves(s, x)
        /\ x \in Known(Known(known, s), t) <=> (b = {} /\ x \in Known(known, s)) \/ Leaves(t, x)
    BY KnownElement
  <2>4. /\ Leaves(u, x) <=> c # {} /\ u[Max(c)].ev = "Discovered"
        /\ Leaves(s, x) <=> a # {} /\ s[Max(a)].ev = "Discovered"
        /\ Leaves(t, x) <=> b # {} /\ t[Max(b)].ev = "Discovered"
    BY DEF Leaves
  <2> HIDE DEF a, b, c
  <2>5. CASE b = {}
    <3>1. c = a
      BY <2>2, <2>5
    <3>2. a # {} => u[Max(a)] = s[Max(a)]
      BY <1>1, <2>1
    <3> QED
      BY <2>3, <2>4, <2>5, <3>1, <3>2
  <2>6. CASE b # {}
    <3>1. Max(b) \in b /\ n + Max(b) \in c /\ c # {} /\ Max(b) \in 1 .. Len(t)
      BY <2>1, <2>2, <2>6
    <3>2. Max(c) \in c /\ n + Max(b) <= Max(c) /\ Max(c) \in 1 .. Len(u)
      BY <2>1, <3>1
    <3>3. Max(c) \notin a
      <4>1. \A i, l \in Nat : \A j \in 1 .. l : \A k \in Nat : i + j <= k => k \notin 1 .. i
        OBVIOUS
      <4>2. Max(c) \in Nat
        BY <1>1, <3>2
      <4>3. Max(c) \notin 1 .. n
        BY <1>1, <3>1, <3>2, <4>1, <4>2
      <4> QED
        BY <2>1, <4>3
    <3>4. Max(c) - n \in b
      BY <2>2, <3>2, <3>3
    <3>5. Max(c) - n <= Max(b)
      BY <2>1, <2>6, <3>4
    <3>6. Max(c) = n + Max(b)
      <4>1. \A i, j, k \in Int : i + j <= k /\ k - i <= j => k = i + j
        OBVIOUS
      <4>2. Max(b) \in Int /\ Max(c) \in Int /\ n \in Int
        BY <1>1, <3>1, <3>2
      <4> QED
        BY <3>2, <3>5, <4>1, <4>2
    <3>7. u[Max(c)] = t[Max(b)]
      BY <1>1, <3>1, <3>6
    <3> QED
      BY <2>3, <2>4, <2>6, <3>1, <3>7
  <2> QED
    BY <2>5, <2>6
<1>4. Known(known, u) = Known(Known(known, s), t)
  BY <1>3
<1> QED
  BY <1>4 DEF u

\* No events leave what was known.
LEMMA KnownNothing ==
  ASSUME NEW known
  PROVE  Known(known, <<>>) = known
<1>1. \A x : About(<<>>, x) = {}
  BY DEF About, Of
<1> QED
  BY <1>1, KnownElement DEF Leaves

\* An event about an interface.
LEMMA KnownOne ==
  ASSUME NEW known, NEW e
  PROVE  /\ e.ev = "Discovered" => Known(known, <<e>>) = known \cup {Interface(e)}
         /\ e.ev = "Undiscovered" => Known(known, <<e>>) = known \ {Interface(e)}
         /\ e.ev \notin {"Discovered", "Undiscovered"} => Known(known, <<e>>) = known
<1> DEFINE s == <<e>>
<1>1. s \in Seq({e}) /\ Len(s) = 1 /\ s[1] = e /\ 1 .. 1 = {1}
  OBVIOUS
<1> HIDE DEF s
<1>2. \A x : About(s, x) = IF e.ev \in {"Discovered", "Undiscovered"} /\ Interface(e) = x
                           THEN {1} ELSE {}
  BY <1>1 DEF About, Of
<1>3. \A x : About(s, x) # {} => Max(About(s, x)) = 1
  <2> SUFFICES ASSUME NEW x, About(s, x) # {} PROVE Max(About(s, x)) = 1
    OBVIOUS
  <2>1. Max(About(s, x)) \in About(s, x)
    BY <1>1, LastAbout
  <2> QED
    BY <1>2, <2>1
<1>4. \A x : Leaves(s, x) <=> e.ev = "Discovered" /\ Interface(e) = x
  BY <1>1, <1>2, <1>3 DEF Leaves
<1>5. \A x : x \in Known(known, s)
               <=> (About(s, x) = {} /\ x \in known) \/ (e.ev = "Discovered" /\ Interface(e) = x)
  BY <1>4, KnownElement
<1>6. /\ e.ev = "Discovered" => Known(known, s) = known \cup {Interface(e)}
      /\ e.ev = "Undiscovered" => Known(known, s) = known \ {Interface(e)}
      /\ e.ev \notin {"Discovered", "Undiscovered"} => Known(known, s) = known
  BY <1>2, <1>5
<1> QED
  BY <1>6 DEF s

\* What is undiscovered is no longer known.
LEMMA KnownLost ==
  ASSUME NEW E, NEW events \in Seq(E), NEW known,
         \A i \in 1 .. Len(events) : events[i].ev = "Undiscovered"
  PROVE  Known(known, events) = known \ {Interface(events[i]) : i \in 1 .. Len(events)}
<1>1. \A x : ~Leaves(events, x)
  <2> SUFFICES ASSUME NEW x, About(events, x) # {}
               PROVE  events[Max(About(events, x))].ev = "Undiscovered"
    BY DEF Leaves
  <2>1. Max(About(events, x)) \in 1 .. Len(events)
    BY LastAbout
  <2> QED
    BY <2>1
<1>2. \A x : About(events, x) = {} <=> x \notin {Interface(events[i]) : i \in 1 .. Len(events)}
  BY DEF About, Of
<1> QED
  BY <1>1, <1>2, KnownElement

-----------------------------------------------------------------------------
(* What the events tell of one node. *)

Keys == NodeNames \X Kinds \X Names
Evs == [ev : {"Discovered", "Undiscovered"}, node : NodeNames, kind : Kinds, name : Names]

\* The interfaces of the nodes named n, and those that a node shows.
Own(n) == {x \in Keys : x[1] = n}
ShownOf(n, node) == {x \in Own(n) : Shows(node, x[2], x[3])}

\* The events lead from what node n has shown to what it shows.
Follows(n, old, new, events) ==
  /\ events \in Seq(Evs)
  /\ \A known \in SUBSET Keys :
       known \cap Own(n) = old => Known(known, events) = (known \ Own(n)) \cup new

\* Nothing is told when nothing changes.
LEMMA FollowsNothing ==
  ASSUME NEW n, NEW shown
  PROVE  Follows(n, shown, shown, <<>>)
<1>1. <<>> \in Seq(Evs)
  OBVIOUS
<1> QED
  BY <1>1, KnownNothing DEF Follows

\* Changes of a node are told one after the other.
LEMMA FollowsJoined ==
  ASSUME NEW n, NEW a, NEW b \in SUBSET Own(n), NEW c, NEW s, NEW t,
         Follows(n, a, b, s), Follows(n, b, c, t)
  PROVE  Follows(n, a, c, s \o t)
<1>1. s \in Seq(Evs) /\ t \in Seq(Evs) /\ s \o t \in Seq(Evs)
  BY ConcatProperties DEF Follows
<1>2. ASSUME NEW known \in SUBSET Keys, known \cap Own(n) = a
      PROVE  Known(known, s \o t) = (known \ Own(n)) \cup c
  <2> DEFINE k == Known(known, s)
  <2>1. k = (known \ Own(n)) \cup b
    BY <1>2 DEF Follows
  <2>2. Own(n) \subseteq Keys
    BY DEF Own
  <2>3. k \in SUBSET Keys /\ k \cap Own(n) = b /\ k \ Own(n) = known \ Own(n)
    BY <2>1, <2>2
  <2>4. Known(known, s \o t) = Known(k, t)
    BY <1>1, KnownJoined
  <2> HIDE DEF k
  <2> QED
    BY <2>3, <2>4 DEF Follows
<1> QED
  BY <1>1, <1>2 DEF Follows

\* An event about a node.
LEMMA EventOf ==
  ASSUME NEW n \in NodeNames, NEW k \in Kinds, NEW m \in Names,
         NEW ev \in {"Discovered", "Undiscovered"}
  PROVE  LET e == [ev |-> ev, node |-> n, kind |-> k, name |-> m]
         IN  <<e>> \in Seq(Evs) /\ Interface(e) = <<n, k, m>> /\ <<n, k, m>> \in Own(n)
BY DEF Evs, Interface, Own, Keys

\* What is told of an endpoint that is found.
LEMMA FollowsFound ==
  ASSUME NEW n \in NodeNames, NEW node, NEW new, NEW events, TellsFound(n, node, new, events)
  PROVE  Follows(n, ShownOf(n, node), ShownOf(n, new), events)
<1> DEFINE a == ShownOf(n, node)
           b == ShownOf(n, new)
<1>1. CASE events = <<>> /\ ShowSame(node, new)
  <2>1. \A x \in Own(n) : x[2] \in Kinds /\ x[3] \in Names
    BY DEF Own, Keys
  <2>2. b = a
    BY <1>1, <2>1 DEF ShownOf, ShowSame
  <2> QED
    BY <1>1, <2>2, FollowsNothing
<1>2. ASSUME NEW k \in Kinds, NEW m \in Names,
             events = <<[ev |-> "Discovered", node |-> n, kind |-> k, name |-> m]>>,
             \A kind \in Kinds, t \in Names :
               Shows(new, kind, t) <=> Shows(node, kind, t) \/ (kind = k /\ t = m)
      PROVE  Follows(n, a, b, events)
  <2> DEFINE e == [ev |-> "Discovered", node |-> n, kind |-> k, name |-> m]
             x == <<n, k, m>>
  <2>1. <<e>> \in Seq(Evs) /\ Interface(e) = x /\ x \in Own(n)
    BY EventOf
  <2>2. \A y \in Own(n) : y[2] \in Kinds /\ y[3] \in Names /\ (y = x <=> y[2] = k /\ y[3] = m)
    BY DEF Own, Keys
  <2>3. e.ev = "Discovered"
    OBVIOUS
  <2> HIDE DEF x, e
  <2>4. b = a \cup {x}
    BY <1>2, <2>1, <2>2 DEF ShownOf
  <2>5. \A known : Known(known, <<e>>) = known \cup {x}
    BY <2>1, <2>3, KnownOne
  <2>6. a \subseteq Own(n)
    BY DEF ShownOf
  <2> HIDE DEF a, b
  <2>7. \A known \in SUBSET Keys :
          known \cap Own(n) = a => Known(known, <<e>>) = (known \ Own(n)) \cup b
    BY <2>4, <2>5
  <2>8. events = <<e>>
    BY <1>2 DEF e
  <2> QED
    BY <2>1, <2>7, <2>8 DEF Follows
<1> QED
  BY <1>1, <1>2 DEF TellsFound, ShowSame

\* What is told of an endpoint that is gone.
LEMMA FollowsLost ==
  ASSUME NEW n \in NodeNames, NEW node, NEW new, NEW events, TellsLost(n, node, new, events)
  PROVE  Follows(n, ShownOf(n, node), ShownOf(n, new), events)
<1> DEFINE a == ShownOf(n, node)
           b == ShownOf(n, new)
<1>1. CASE events = <<>> /\ ShowSame(node, new)
  <2>1. \A x \in Own(n) : x[2] \in Kinds /\ x[3] \in Names
    BY DEF Own, Keys
  <2>2. b = a
    BY <1>1, <2>1 DEF ShownOf, ShowSame
  <2> QED
    BY <1>1, <2>2, FollowsNothing
<1>2. ASSUME NEW k \in Kinds, NEW m \in Names,
             events = <<[ev |-> "Undiscovered", node |-> n, kind |-> k, name |-> m]>>,
             \A kind \in Kinds, t \in Names :
               Shows(new, kind, t) <=> Shows(node, kind, t) /\ ~(kind = k /\ t = m)
      PROVE  Follows(n, a, b, events)
  <2> DEFINE e == [ev |-> "Undiscovered", node |-> n, kind |-> k, name |-> m]
             x == <<n, k, m>>
  <2>1. <<e>> \in Seq(Evs) /\ Interface(e) = x /\ x \in Own(n)
    BY EventOf
  <2>2. \A y \in Own(n) : y[2] \in Kinds /\ y[3] \in Names /\ (y = x <=> y[2] = k /\ y[3] = m)
    BY DEF Own, Keys
  <2>3. e.ev = "Undiscovered"
    OBVIOUS
  <2> HIDE DEF x, e
  <2>4. b = a \ {x}
    BY <1>2, <2>1, <2>2 DEF ShownOf
  <2>5. \A known : Known(known, <<e>>) = known \ {x}
    BY <2>1, <2>3, KnownOne
  <2>6. a \subseteq Own(n)
    BY DEF ShownOf
  <2> HIDE DEF a, b
  <2>7. \A known \in SUBSET Keys :
          known \cap Own(n) = a => Known(known, <<e>>) = (known \ Own(n)) \cup b
    BY <2>1, <2>4, <2>5
  <2>8. events = <<e>>
    BY <1>2 DEF e
  <2> QED
    BY <2>1, <2>7, <2>8 DEF Follows
<1> QED
  BY <1>1, <1>2 DEF TellsLost, ShowSame

-----------------------------------------------------------------------------
(* A node in a sample of ros_discovery_info. *)

\* The elements of a set in the order in which they are met.
LEMMA ChosenElements ==
  ASSUME NEW S, NEW order \in Seq(S), NEW set
  PROVE  Chosen(order, set) \in Seq(S \cap set)
<1> DEFINE positions == {i \in DOMAIN order : order[i] \in set}
           t == Subsequence(order, positions)
<1>1. Chosen(order, set) = t
  BY DEF Chosen
<1>2. t \in Seq(S) /\ Selected(t, order, positions)
  BY SubsequenceElements
<1> HIDE DEF t
<1>3. \A k \in DOMAIN t : t[k] \in S \cap set
  <2> SUFFICES ASSUME NEW k \in DOMAIN t PROVE t[k] \in S \cap set
    OBVIOUS
  <2>1. PICK i \in DOMAIN order : i \in positions /\ order[i] = t[k]
    BY <1>2 DEF Selected
  <2> QED
    BY <2>1
<1>4. Len(t) \in Nat /\ t \in [1 .. Len(t) -> S \cap set]
  BY <1>2, <1>3
<1> QED
  BY <1>1, <1>4, IsASeq

\* The greatest position folds last.
LEMMA LastPosition ==
  ASSUME NEW E, NEW seq \in Seq(E)
  PROVE  /\ IsFiniteSet(DOMAIN seq)
         /\ \A s \in SUBSET (DOMAIN seq) : s # {} => Max(s) \in s
<1>1. DOMAIN seq = 1 .. Len(seq) /\ Len(seq) \in Nat
  OBVIOUS
<1>2. IsFiniteSet(DOMAIN seq) /\ DOMAIN seq \subseteq Nat
  BY <1>1, FS_Interval
<1> QED
  BY <1>2, FS_Subset, MaxOfFinite

\* A node that is well-formed and waits for nothing that DDS has announced.
NodeGood(p, n, node, rs, ws) ==
  /\ NodeOk(p, n, node)
  /\ node.undiscovered_reader \cap rs = {}
  /\ node.undiscovered_writer \cap ws = {}

\* u is what becomes of node n of participant p.
Becomes(p, n, node, u) ==
  /\ NodeGood(p, n, u.node, readers, writers)
  /\ Follows(n, ShownOf(n, node), ShownOf(n, u.node), u.evts)

\* A declared endpoint updates the node, or is remembered by it.
LEMMA DeclaredKeeps ==
  ASSUME WorldOk, NEW p, NEW n \in NodeNames, n # OrphanNode(p), NEW node, NEW acc,
         Becomes(p, n, node, acc), NEW g \in Gids, Mine(p, n, g)
  PROVE  LET found == g \in (IF IsWriter(g) THEN writers ELSE readers)
             u == update_with(acc.node, g)
             list == undiscovered(g)
         IN  /\ found => Becomes(p, n, node, [node |-> u.node, evts |-> acc.evts \o u.evts])
             /\ ~found =>
                  Becomes(p, n, node, [node |-> [acc.node EXCEPT ![list] = acc.node[list] \cup {g}],
                                       evts |-> acc.evts])
<1> DEFINE found == g \in (IF IsWriter(g) THEN writers ELSE readers)
           u == update_with(acc.node, g)
           list == undiscovered(g)
           set == acc.node[list] \cup {g}
           new == [acc.node EXCEPT ![list] = set]
           r == [node |-> u.node, evts |-> acc.evts \o u.evts]
           w == [node |-> new, evts |-> acc.evts]
<1>1. NodeOk(p, n, acc.node) /\ acc.node \in Nodes
  BY DEF Becomes, NodeGood, NodeOk
<1>2. Becomes(p, n, node, r)
  <2>1. UpdateOk(p, n, acc.node, u)
    BY <1>1, UpdatedWith
  <2> HIDE DEF u
  <2>2. NodeGood(p, n, u.node, readers, writers)
    BY <2>1 DEF UpdateOk, Lists, Becomes, NodeGood
  <2>3. Follows(n, ShownOf(n, acc.node), ShownOf(n, u.node), u.evts)
    BY <2>1, FollowsFound DEF UpdateOk
  <2>4. Follows(n, ShownOf(n, node), ShownOf(n, u.node), acc.evts \o u.evts)
    <3>1. ShownOf(n, acc.node) \in SUBSET Own(n)
      BY DEF ShownOf
    <3> QED
      BY <2>3, <3>1, FollowsJoined DEF Becomes
  <2>5. r.node = u.node /\ r.evts = acc.evts \o u.evts
    OBVIOUS
  <2> HIDE DEF r
  <2> QED
    BY <2>2, <2>4, <2>5 DEF Becomes
<1>3. ASSUME ~found PROVE Becomes(p, n, node, w)
  <2>1. list \in Lists
    BY DEF undiscovered, Lists
  <2>2. set \in SUBSET Gids /\ MayWait(p, n, list, set)
    <3>1. acc.node[list] \in SUBSET Gids /\ MayWait(p, n, list, acc.node[list])
      BY <1>1, <2>1, ListsOk
    <3>2. Waiting(p, n, g, list = "undiscovered_writer")
      BY DEF Waiting, undiscovered
    <3> HIDE DEF list
    <3> QED
      BY <3>1, <3>2 DEF MayWait
  <2> HIDE DEF set
  <2>3. NodeOk(p, n, new) /\ ListChanges(acc.node, list, set, new)
    BY <1>1, <2>1, <2>2, ListChanged
  <2> HIDE DEF new
  <2>4. NodeGood(p, n, new, readers, writers)
    <3>1. CASE IsWriter(g)
      <4>1. /\ new.undiscovered_writer = acc.node.undiscovered_writer \cup {g}
            /\ new.undiscovered_reader = acc.node.undiscovered_reader
        BY <2>3, <3>1 DEF ListChanges, undiscovered, Lists, set
      <4> QED
        BY <1>3, <2>3, <3>1, <4>1 DEF NodeGood, Becomes
    <3>2. CASE ~IsWriter(g)
      <4>1. /\ new.undiscovered_reader = acc.node.undiscovered_reader \cup {g}
            /\ new.undiscovered_writer = acc.node.undiscovered_writer
        BY <2>3, <3>2 DEF ListChanges, undiscovered, Lists, set
      <4> QED
        BY <1>3, <2>3, <3>2, <4>1 DEF NodeGood, Becomes
    <3> QED
      BY <3>1, <3>2
  <2>5. ShownOf(n, new) = ShownOf(n, acc.node)
    <3>1. \A x \in Own(n) : x[2] \in Kinds /\ x[3] \in Names
      BY DEF Own, Keys
    <3> QED
      BY <2>3, <3>1 DEF ShownOf, ListChanges, ShowSame
  <2>6. w.node = new /\ w.evts = acc.evts
    OBVIOUS
  <2> HIDE DEF w
  <2> QED
    BY <2>4, <2>5, <2>6 DEF Becomes
<1> QED
  BY <1>2, <1>3

\* What a declared endpoint makes of a node.
Declares(acc, g) ==
  LET found == g \in (IF IsWriter(g) THEN writers ELSE readers)
      u == update_with(acc.node, g)
      list == undiscovered(g)
  IN  IF found THEN [node |-> u.node, evts |-> acc.evts \o u.evts]
      ELSE [node |-> [acc.node EXCEPT ![list] = acc.node[list] \cup {g}], evts |-> acc.evts]

\* The declared endpoints in the order in which the node is updated with them.
Declarations(ends, order) ==
  Chosen(order, {g \in ends : ~IsWriter(g)}) \o Chosen(order, {g \in ends : IsWriter(g)})

\* What each of them keeps, they all keep.
LEMMA InfoFolds ==
  ASSUME NEW node, NEW ends, NEW order, NEW S, NEW seq \in Seq(S),
         seq = Declarations(ends, order),
         NEW V, NEW base \in V, base = Ignored(node),
         \A acc \in V : \A i \in 1 .. Len(seq) : Declares(acc, seq[i]) \in V,
         NEW W, <<0, base>> \in W,
         \A k \in 1 .. Len(seq) : \A acc \in V :
           <<k - 1, acc>> \in W => <<k, Declares(acc, seq[k])>> \in W
  PROVE  /\ update_node_info(node, ends, order) \in V
         /\ <<Len(seq), update_node_info(node, ends, order)>> \in W
<1> DEFINE Step(acc, g) ==
             LET found == g \in (IF IsWriter(g) THEN writers ELSE readers)
                 u == update_with(acc.node, g)
             IN  IF found THEN [node |-> u.node, evts |-> acc.evts \o u.evts]
                 ELSE LET list == undiscovered(g)
                      IN  [node |-> [acc.node EXCEPT ![list] = acc.node[list] \cup {g}],
                           evts |-> acc.evts]
           len == Len(seq)
           D == 1 .. len
           P(h) == h = [t \in SUBSET (DOMAIN seq) |->
                          IF t = {} THEN base ELSE Step(h[t \ {Max(t)}], seq[Max(t)])]
           iter == CHOOSE h : P(h)
           step == [x \in D \X V |-> Step(x[2], seq[x[1]])]
<1>1. update_node_info(node, ends, order) = iter[DOMAIN seq]
  BY DEF update_node_info, FoldLeft, MapThenFoldSet, Declarations
<1>2. DOMAIN seq = D /\ Len(seq) \in Nat
  OBVIOUS
<1>3. \A acc, x : Step(acc, x) = Declares(acc, x)
  BY DEF Declares
<1> HIDE DEF Step
<1>4. step \in [D \X V -> V]
  BY <1>2, <1>3
<1>5. PICK g \in [SUBSET D -> V] : Folded(g, Len(seq), base, step)
  <2> HIDE DEF step
  <2> QED
    BY <1>2, <1>4, SequenceFold
<1>6. ASSUME NEW t \in SUBSET D, t # {}, NEW f, f[t \ {Max(t)}] \in V
      PROVE  step[<<Max(t), f[t \ {Max(t)}]>>] = Step(f[t \ {Max(t)}], seq[Max(t)])
  <2>1. Max(t) \in D
    BY <1>2, <1>6, LastPosition
  <2> QED
    BY <1>6, <2>1
<1>7. P(g)
  <2> SUFFICES ASSUME NEW t \in SUBSET D, t # {}
               PROVE  g[t] = Step(g[t \ {Max(t)}], seq[Max(t)])
    BY <1>2, <1>5 DEF Folded
  <2>1. g[t] = step[<<Max(t), g[t \ {Max(t)}]>>]
    BY <1>5 DEF Folded
  <2> HIDE DEF step
  <2> QED
    BY <1>6, <2>1
<1>8. P(iter)
  <2> HIDE DEF P
  <2> QED
    BY <1>7
<1> HIDE DEF iter
<1>9. /\ iter[{}] = base
      /\ \A t \in SUBSET D : t # {} => iter[t] = Step(iter[t \ {Max(t)}], seq[Max(t)])
  BY <1>2, <1>8
<1>10. \A t \in SUBSET D :
         t # {} /\ iter[t \ {Max(t)}] \in V
           => iter[t] = step[<<Max(t), iter[t \ {Max(t)}]>>]
  <2> HIDE DEF step, P, len
  <2> QED
    BY <1>6, <1>9
<1>11. \A k \in D : \A x \in V : <<k - 1, x>> \in W => <<k, step[<<k, x>>]>> \in W
  BY <1>3
<1>12. iter[D] \in V /\ <<len, iter[D]>> \in W
  <2> HIDE DEF step, P, len
  <2>1. Iterates(iter, len, base, step, V)
    BY <1>9, <1>10 DEF Iterates
  <2>2. Maintains(W, len, step, V)
    BY <1>11 DEF Maintains
  <2>3. len \in Nat /\ base \in V /\ <<0, base>> \in W
    BY <1>2, <1>11 DEF len
  <2> QED
    BY <1>4, <2>1, <2>2, <2>3, SequenceFoldKeeps
<1> QED
  BY <1>1, <1>2, <1>12

\* They are endpoints of the node.
LEMMA DeclarationsOf ==
  ASSUME NEW ends \in SUBSET Gids, NEW order \in Seq(Gids)
  PROVE  Declarations(ends, order) \in Seq(ends)
<1> DEFINE rs == Chosen(order, {g \in ends : ~IsWriter(g)})
           ws == Chosen(order, {g \in ends : IsWriter(g)})
<1>1. rs \in Seq(Gids \cap {g \in ends : ~IsWriter(g)})
  BY ChosenElements
<1>2. ws \in Seq(Gids \cap {g \in ends : IsWriter(g)})
  BY ChosenElements
<1>3. Declarations(ends, order) = rs \o ws
  BY DEF Declarations
<1> HIDE DEF rs, ws
<1>4. rs \in Seq(ends) /\ ws \in Seq(ends)
  BY <1>1, <1>2
<1> QED
  BY <1>3, <1>4, ConcatProperties

\* A node is updated with the endpoints that it declares.
LEMMA InfoUpdated ==
  ASSUME WorldOk, NEW p, NEW n \in NodeNames, n # OrphanNode(p), NEW node,
         NodeGood(p, n, node, readers, writers),
         NEW ends \in SUBSET Gids, \A g \in ends : Mine(p, n, g), NEW order \in Seq(Gids)
  PROVE  Becomes(p, n, node, update_node_info(node, ends, order))
<1> DEFINE base == Ignored(node)
           seq == Declarations(ends, order)
           V == {acc \in [node : Nodes, evts : Seq(Evs)] : Becomes(p, n, node, acc)}
           W == Nat \X V
<1>1. seq \in Seq(ends)
  BY DeclarationsOf
<1> HIDE DEF seq
<1>2. base \in V
  <2>1. base.node = node /\ base.evts = <<>> /\ node \in Nodes
    BY DEF Ignored, NodeGood, NodeOk
  <2>2. Follows(n, ShownOf(n, node), ShownOf(n, node), <<>>)
    BY FollowsNothing
  <2>3. base \in [node : Nodes, evts : Seq(Evs)]
    BY <2>1 DEF Ignored
  <2> HIDE DEF base
  <2> QED
    BY <2>1, <2>2, <2>3 DEF Becomes
<1>3. ASSUME NEW acc \in V, NEW i \in 1 .. Len(seq) PROVE Declares(acc, seq[i]) \in V
  <2> DEFINE g == seq[i]
  <2>1. g \in Gids /\ Mine(p, n, g) /\ Becomes(p, n, node, acc)
    BY <1>1
  <2> HIDE DEF g
  <2>2. Becomes(p, n, node, Declares(acc, g))
    BY <2>1, DeclaredKeeps DEF Declares
  <2>3. Declares(acc, g) \in [node : Nodes, evts : Seq(Evs)]
    <3>1. Declares(acc, g).node \in Nodes /\ Declares(acc, g).evts \in Seq(Evs)
      BY <2>2 DEF Becomes, NodeGood, NodeOk, Follows
    <3> QED
      BY <3>1 DEF Declares
  <2> QED
    BY <2>2, <2>3 DEF g
<1> HIDE DEF V
<1>4. /\ <<0, base>> \in W
      /\ \A k \in 1 .. Len(seq) : \A acc \in V :
           <<k - 1, acc>> \in W => <<k, Declares(acc, seq[k])>> \in W
  BY <1>1, <1>2, <1>3
<1>5. update_node_info(node, ends, order) \in V
  <2> HIDE DEF W
  <2>1. base = Ignored(node) /\ seq = Declarations(ends, order)
    BY DEF seq
  <2> HIDE DEF base
  <2> QED
    BY <1>1, <1>2, <1>3, <1>4, <2>1, InfoFolds
<1> QED
  BY <1>5 DEF V

-----------------------------------------------------------------------------
(* The nodes of all participants. *)

NodeMaps == Maps(Participants, Maps(NodeNames, Nodes))
IdsOf(nodes) ==
  {id \in Participants \X NodeNames : id[1] \in DOMAIN nodes /\ id[2] \in DOMAIN nodes[id[1]]}

\* The names of the nodes that a participant may have.
NamesOf(p) == ({EntityOf(g).node : g \in EndsOf(p)} \ {Nobody}) \cup {OrphanNode(p)}
NamesDisjoint == \A p, q \in Participants : NamesOf(p) \cap NamesOf(q) # {} => p = q

NodesGood(nodes, rs, ws) ==
  /\ nodes \in NodeMaps
  /\ \A id \in IdsOf(nodes) :
       id[2] \in NamesOf(id[1]) /\ NodeGood(id[1], id[2], nodes[id[1]][id[2]], rs, ws)

\* What the events are to have told.
DiscoveredIn(nodes) ==
  {x \in Keys : \E id \in IdsOf(nodes) : x \in ShownOf(id[2], nodes[id[1]][id[2]])}

\* The nodes of a participant are a map.
LEMMA NodesOf ==
  ASSUME NEW nodes \in NodeMaps, NEW p \in DOMAIN nodes
  PROVE  /\ p \in Participants /\ nodes[p] \in Maps(NodeNames, Nodes)
         /\ \A n \in DOMAIN nodes[p] : n \in NodeNames /\ <<p, n>> \in IdsOf(nodes)
<1>1. p \in Participants /\ nodes[p] \in Maps(NodeNames, Nodes)
  BY MapFacts DEF NodeMaps
<1>2. DOMAIN nodes[p] \subseteq NodeNames
  BY <1>1, MapFacts
<1> QED
  BY <1>1, <1>2 DEF IdsOf

\* The names of nodes.
LEMMA NamesOfType ==
  ASSUME NEW p \in Participants
  PROVE  NamesOf(p) \subseteq NodeNames
BY DEF NamesOf, NodeNames, EndsOf

\* A node that has nothing yet.
LEMMA Created ==
  ASSUME NEW p, NEW n \in NodeNames, NEW rs, NEW ws
  PROVE  NodeGood(p, n, create(n), rs, ws) /\ ShownOf(n, create(n)) = {}
<1> DEFINE node == create(n)
<1>1. \A X, Y : <<>> \in Maps(X, Y) /\ DOMAIN <<>> = {}
  BY EmptyMap
<1>2. <<>> \in Msgs /\ \A kind \in Calls : <<>> \in CallsOf(kind)
  BY <1>1 DEF Msgs, CallsOf
<1>3. node \in Nodes
  BY <1>2 DEF create, Nodes, Calls
<1>4. \A kind \in Kinds : node[kind] = <<>>
  BY DEF create, Kinds, MsgKinds, Calls
<1>5. /\ node.fullname = n
      /\ node.undiscovered_reader = {} /\ node.undiscovered_writer = {}
  BY DEF create
<1> HIDE DEF node
<1>6. \A kind \in Kinds : DOMAIN node[kind] = {}
  BY <1>1, <1>4
<1>7. NodeOk(p, n, node)
  BY <1>3, <1>5, <1>6, KindFacts DEF NodeOk, MsgsPlaced, CallsPlaced
<1>8. ShownOf(n, node) = {}
  BY <1>6 DEF ShownOf, Shows, Own, Keys
<1> QED
  BY <1>5, <1>7, <1>8 DEF NodeGood, node

\* Node n of participant p is put into the map.
Puts(nodes, p, n, node, after) ==
  /\ DOMAIN after = DOMAIN nodes
  /\ IdsOf(after) = IdsOf(nodes) \cup {<<p, n>>}
  /\ after[p][n] = node
  /\ \A id \in IdsOf(nodes) \ {<<p, n>>} : after[id[1]][id[2]] = nodes[id[1]][id[2]]

\* The map with a node that is new or changed.
LEMMA NodePut ==
  ASSUME NEW rs, NEW ws, NEW nodes, NodesGood(nodes, rs, ws), NEW p \in DOMAIN nodes,
         NEW n \in NamesOf(p), NEW node, NodeGood(p, n, node, rs, ws)
  PROVE  LET after == [nodes EXCEPT ![p] = Inserted(nodes[p], n, node)]
         IN  Puts(nodes, p, n, node, after) /\ NodesGood(after, rs, ws)
<1> DEFINE own == Inserted(nodes[p], n, node)
           after == [nodes EXCEPT ![p] = own]
<1>1. nodes \in NodeMaps /\ p \in Participants /\ nodes[p] \in Maps(NodeNames, Nodes)
  BY NodesOf DEF NodesGood
<1>2. n \in NodeNames /\ node \in Nodes
  BY <1>1, NamesOfType DEF NodeGood, NodeOk
<1>3. /\ own \in Maps(NodeNames, Nodes)
      /\ DOMAIN own = DOMAIN nodes[p] \cup {n}
      /\ own[n] = node
      /\ \A m \in DOMAIN nodes[p] \ {n} : own[m] = nodes[p][m]
  BY <1>1, <1>2, InsertedMap DEF Inserted
<1> HIDE DEF own
<1>4. /\ DOMAIN after = DOMAIN nodes
      /\ after[p] = own
      /\ \A q \in DOMAIN nodes \ {p} : after[q] = nodes[q]
  BY <1>1, MapFacts DEF NodeMaps
<1>5. after \in NodeMaps
  <2>1. after \in [DOMAIN nodes -> Maps(NodeNames, Nodes)]
    BY <1>1, <1>3, MapFacts DEF NodeMaps
  <2>2. DOMAIN nodes \subseteq Participants
    BY <1>1, MapFacts DEF NodeMaps
  <2> HIDE DEF after
  <2> QED
    BY <2>1, <2>2, MapIntro DEF NodeMaps
<1> HIDE DEF after
<1>6. IdsOf(after) = IdsOf(nodes) \cup {<<p, n>>}
  <2>1. \A id \in Participants \X NodeNames :
          id \in IdsOf(after) <=> id \in IdsOf(nodes) \/ (id[1] = p /\ id[2] = n)
    BY <1>3, <1>4 DEF IdsOf
  <2>2. \A id \in Participants \X NodeNames : (id[1] = p /\ id[2] = n) <=> id = <<p, n>>
    BY <1>1, <1>2
  <2>3. /\ IdsOf(after) \subseteq Participants \X NodeNames
        /\ IdsOf(nodes) \subseteq Participants \X NodeNames
        /\ <<p, n>> \in Participants \X NodeNames
    BY <1>1, <1>2 DEF IdsOf
  <2> QED
    BY <2>1, <2>2, <2>3
<1>7. after[p][n] = node
  BY <1>3, <1>4
<1>8. \A id \in IdsOf(nodes) \ {<<p, n>>} : after[id[1]][id[2]] = nodes[id[1]][id[2]]
  <2> SUFFICES ASSUME NEW id \in IdsOf(nodes), id # <<p, n>>
               PROVE  after[id[1]][id[2]] = nodes[id[1]][id[2]]
    OBVIOUS
  <2>1. /\ id = <<id[1], id[2]>>
        /\ id[1] \in DOMAIN nodes /\ id[2] \in DOMAIN nodes[id[1]]
    BY DEF IdsOf
  <2> QED
    BY <1>3, <1>4, <2>1
<1>9. NodesGood(after, rs, ws)
  <2> SUFFICES ASSUME NEW id \in IdsOf(after)
               PROVE  /\ id[2] \in NamesOf(id[1])
                      /\ NodeGood(id[1], id[2], after[id[1]][id[2]], rs, ws)
    BY <1>5 DEF NodesGood
  <2>1. CASE id = <<p, n>>
    BY <1>7, <2>1
  <2>2. CASE id # <<p, n>>
    BY <1>6, <1>8, <2>2 DEF NodesGood
  <2> QED
    BY <2>1, <2>2
<1> QED
  BY <1>4, <1>6, <1>7, <1>8, <1>9 DEF Puts, after, own

\* What node n of participant p has shown.
HadShown(nodes, p, n) ==
  IF <<p, n>> \in IdsOf(nodes) THEN ShownOf(n, nodes[p][n]) ELSE {}

\* The events that tell of a node tell of all.
LEMMA PutTold ==
  ASSUME NamesDisjoint, NEW rs, NEW ws, NEW nodes, NodesGood(nodes, rs, ws),
         NEW p \in Participants, NEW n \in NamesOf(p), NEW node, NEW after,
         Puts(nodes, p, n, node, after), NEW events,
         Follows(n, HadShown(nodes, p, n), ShownOf(n, node), events)
  PROVE  Known(DiscoveredIn(nodes), events) = DiscoveredIn(after)
<1> DEFINE known == DiscoveredIn(nodes)
<1>1. \A id \in IdsOf(nodes) :
        id[1] \in Participants /\ (id[2] = n => id = <<p, n>>)
  <2> SUFFICES ASSUME NEW id \in IdsOf(nodes)
               PROVE  id[1] \in Participants /\ (id[2] = n => id = <<p, n>>)
    OBVIOUS
  <2>1. id[1] \in Participants /\ id = <<id[1], id[2]>>
    BY DEF IdsOf
  <2>2. id[2] \in NamesOf(id[1])
    BY DEF NodesGood
  <2>3. id[2] = n => id[1] = p
    BY <2>1, <2>2 DEF NamesDisjoint
  <2> QED
    BY <2>1, <2>3
<1>2. \A m, x, any : x \in ShownOf(m, any) => x \in Keys /\ x[1] = m /\ x \in Own(m)
  BY DEF ShownOf, Own
<1>3. known \cap Own(n) = HadShown(nodes, p, n)
  <2>1. ASSUME NEW x \in known, x \in Own(n) PROVE x \in HadShown(nodes, p, n)
    <3>1. PICK id \in IdsOf(nodes) : x \in ShownOf(id[2], nodes[id[1]][id[2]])
      BY <2>1 DEF DiscoveredIn
    <3>2. id[2] = n
      BY <1>2, <2>1, <3>1 DEF Own
    <3>3. id = <<p, n>>
      BY <1>1, <3>2
    <3> QED
      BY <3>1, <3>3 DEF HadShown
  <2>2. ASSUME NEW x \in HadShown(nodes, p, n) PROVE x \in known /\ x \in Own(n)
    <3>1. <<p, n>> \in IdsOf(nodes) /\ x \in ShownOf(n, nodes[p][n])
      BY DEF HadShown
    <3>2. \E id \in IdsOf(nodes) : x \in ShownOf(id[2], nodes[id[1]][id[2]])
      BY <3>1
    <3> QED
      BY <1>2, <3>1, <3>2 DEF DiscoveredIn
  <2> QED
    BY <2>1, <2>2
<1>4. known \in SUBSET Keys
  BY DEF DiscoveredIn
<1>5. Known(known, events) = (known \ Own(n)) \cup ShownOf(n, node)
  <2> HIDE DEF known
  <2> QED
    BY <1>3, <1>4 DEF Follows
<1>6. ASSUME NEW x \in (known \ Own(n)) \cup ShownOf(n, node) PROVE x \in DiscoveredIn(after)
  <2>1. CASE x \in ShownOf(n, node)
    <3>1. <<p, n>> \in IdsOf(after) /\ after[p][n] = node
      BY DEF Puts
    <3>2. \E id \in IdsOf(after) : x \in ShownOf(id[2], after[id[1]][id[2]])
      BY <2>1, <3>1
    <3> QED
      BY <1>2, <2>1, <3>2 DEF DiscoveredIn
  <2>2. CASE x \in known \ Own(n)
    <3>1. PICK id \in IdsOf(nodes) : x \in ShownOf(id[2], nodes[id[1]][id[2]])
      BY <2>2 DEF DiscoveredIn
    <3>2. id # <<p, n>>
      BY <1>2, <2>2, <3>1
    <3>3. id \in IdsOf(after) /\ after[id[1]][id[2]] = nodes[id[1]][id[2]]
      BY <3>2 DEF Puts
    <3> QED
      BY <1>2, <3>1, <3>3 DEF DiscoveredIn
  <2> QED
    BY <1>6, <2>1, <2>2
<1>7. ASSUME NEW x \in DiscoveredIn(after) PROVE x \in (known \ Own(n)) \cup ShownOf(n, node)
  <2>1. PICK id \in IdsOf(after) : x \in ShownOf(id[2], after[id[1]][id[2]])
    BY DEF DiscoveredIn
  <2>2. CASE id = <<p, n>>
    BY <2>1, <2>2 DEF Puts
  <2>3. CASE id # <<p, n>>
    <3>1. id \in IdsOf(nodes) /\ x \in ShownOf(id[2], nodes[id[1]][id[2]])
      BY <2>1, <2>3 DEF Puts
    <3>2. x \in known /\ x[1] = id[2]
      BY <1>2, <3>1 DEF DiscoveredIn
    <3>3. id[2] # n
      BY <1>1, <2>3, <3>1
    <3> QED
      BY <3>2, <3>3 DEF Own
  <2> QED
    BY <2>2, <2>3
<1> HIDE DEF known
<1>8. (known \ Own(n)) \cup ShownOf(n, node) = DiscoveredIn(after)
  BY <1>6, <1>7
<1> QED
  BY <1>5, <1>8 DEF known

\* The nodes of participant p whose names are lost go out of the map.
Drops(nodes, p, lost, after) ==
  /\ IdsOf(after) = IdsOf(nodes) \ ({p} \X lost)
  /\ \A id \in IdsOf(after) : after[id[1]][id[2]] = nodes[id[1]][id[2]]

\* The events undiscover what the lost nodes have shown, and nothing of other nodes.
Forgets(nodes, p, lost, events) ==
  /\ events \in Seq(Evs)
  /\ \A i \in 1 .. Len(events) :
       events[i].ev = "Undiscovered" /\ Interface(events[i])[1] \in lost
  /\ \A n \in lost : \A x \in HadShown(nodes, p, n) :
       \E i \in 1 .. Len(events) : Interface(events[i]) = x

\* The nodes that remain are good.
LEMMA DropsGood ==
  ASSUME NEW rs, NEW ws, NEW nodes, NodesGood(nodes, rs, ws), NEW p, NEW lost,
         NEW after \in NodeMaps, Drops(nodes, p, lost, after)
  PROVE  NodesGood(after, rs, ws)
<1>1. \A id \in IdsOf(after) : id \in IdsOf(nodes)
  BY DEF Drops
<1> QED
  BY <1>1 DEF NodesGood, Drops

\* The events that tell of the lost nodes tell of all.
LEMMA DropTold ==
  ASSUME NamesDisjoint, NEW rs, NEW ws, NEW nodes, NodesGood(nodes, rs, ws),
         NEW p \in Participants, NEW lost \in SUBSET NamesOf(p), NEW after,
         Drops(nodes, p, lost, after), NEW events, Forgets(nodes, p, lost, events)
  PROVE  Known(DiscoveredIn(nodes), events) = DiscoveredIn(after)
<1> DEFINE known == DiscoveredIn(nodes)
           forgotten == {Interface(events[i]) : i \in 1 .. Len(events)}
<1>1. ASSUME NEW id \in IdsOf(nodes), id[2] \in lost PROVE id = <<p, id[2]>>
  <2>1. id[1] \in Participants /\ id = <<id[1], id[2]>>
    BY DEF IdsOf
  <2>2. id[2] \in NamesOf(id[1])
    BY DEF NodesGood
  <2>3. id[1] = p
    BY <1>1, <2>1, <2>2 DEF NamesDisjoint
  <2> QED
    BY <2>1, <2>3
<1>2. \A m, x, any : x \in ShownOf(m, any) => x \in Keys /\ x[1] = m
  BY DEF ShownOf, Own
<1>3. Known(known, events) = known \ forgotten
  <2>1. events \in Seq(Evs) /\ \A i \in 1 .. Len(events) : events[i].ev = "Undiscovered"
    BY DEF Forgets
  <2> QED
    BY <2>1, KnownLost
<1>4. ASSUME NEW x \in known \ forgotten PROVE x \in DiscoveredIn(after)
  <2>1. PICK id \in IdsOf(nodes) : x \in ShownOf(id[2], nodes[id[1]][id[2]])
    BY DEF DiscoveredIn
  <2>2. id[2] \notin lost
    <3> SUFFICES ASSUME id[2] \in lost PROVE FALSE
      OBVIOUS
    <3>1. id = <<p, id[2]>>
      BY <1>1
    <3>2. x \in HadShown(nodes, p, id[2])
      BY <2>1, <3>1 DEF HadShown
    <3>3. \E i \in 1 .. Len(events) : Interface(events[i]) = x
      BY <3>2 DEF Forgets
    <3> QED
      BY <3>3
  <2>3. id \in IdsOf(after) /\ after[id[1]][id[2]] = nodes[id[1]][id[2]]
    BY <2>2 DEF Drops
  <2> QED
    BY <1>2, <2>1, <2>3 DEF DiscoveredIn
<1>5. ASSUME NEW x \in DiscoveredIn(after) PROVE x \in known \ forgotten
  <2>1. PICK id \in IdsOf(after) : x \in ShownOf(id[2], after[id[1]][id[2]])
    BY DEF DiscoveredIn
  <2>2. id \in IdsOf(nodes) /\ id \notin {p} \X lost
    BY DEF Drops
  <2>3. x \in ShownOf(id[2], nodes[id[1]][id[2]])
    BY <2>1 DEF Drops
  <2>4. x \in known /\ x[1] = id[2]
    BY <1>2, <2>2, <2>3 DEF DiscoveredIn
  <2>5. id[2] \notin lost
    <3> SUFFICES ASSUME id[2] \in lost PROVE FALSE
      OBVIOUS
    <3>1. id = <<p, id[2]>>
      BY <1>1, <2>2
    <3> QED
      BY <2>2, <3>1
  <2>6. x \notin forgotten
    BY <2>4, <2>5 DEF Forgets
  <2> QED
    BY <2>4, <2>6
<1> HIDE DEF known, forgotten
<1>6. known \ forgotten = DiscoveredIn(after)
  BY <1>4, <1>5
<1> QED
  BY <1>3, <1>6 DEF known

\* The image of a finite set is finite.
LEMMA ImageFinite ==
  ASSUME NEW S, IsFiniteSet(S), NEW f
  PROVE  IsFiniteSet({f[x] : x \in S})
<1> DEFINE T == {f[x] : x \in S}
           g == [x \in S |-> f[x]]
<1>1. g \in Surjection(S, T)
  BY DEF Surjection, Range
<1> HIDE DEF g, T
<1>2. IsFiniteSet(T)
  BY <1>1, FS_Surjection
<1> QED
  BY <1>2 DEF T

\* A system has finitely many participants and node names.
LEMMA NodesFinite ==
  ASSUME WorldOk
  PROVE  IsFiniteSet(Participants) /\ IsFiniteSet(NodeNames)
<1>1. IsFiniteSet(Gids)
  BY DEF WorldOk
<1>2. IsFiniteSet(Participants)
  <2> DEFINE f == [g \in Gids |-> EntityOf(g).participant]
  <2>1. {f[g] : g \in Gids} = Participants
    BY DEF Participants
  <2> HIDE DEF f
  <2> QED
    BY <1>1, <2>1, ImageFinite
<1>3. IsFiniteSet(NodeNames)
  <2> DEFINE f == [g \in Gids |-> EntityOf(g).node]
             h == [p \in Participants |-> OrphanNode(p)]
  <2>1. NodeNames = {f[g] : g \in Gids} \cup {h[p] : p \in Participants}
    BY DEF NodeNames
  <2> HIDE DEF f, h
  <2>2. IsFiniteSet({f[g] : g \in Gids}) /\ IsFiniteSet({h[p] : p \in Participants})
    BY <1>1, <1>2, ImageFinite
  <2> QED
    BY <2>1, <2>2, FS_Union
<1> QED
  BY <1>2, <1>3

\* A system has finitely many interfaces.
LEMMA KeysFinite ==
  ASSUME WorldOk
  PROVE  IsFiniteSet(NodeNames \X (Kinds \X Names))
<1>1. IsFiniteSet(Gids)
  BY DEF WorldOk
<1>2. IsFiniteSet(Names)
  <2> DEFINE f == [g \in Gids |-> TopicName(g)]
  <2>1. {f[g] : g \in Gids} = Names
    BY DEF Names
  <2> HIDE DEF f
  <2> QED
    BY <1>1, <2>1, ImageFinite
<1>3. IsFiniteSet(Kinds)
  <2>1. Kinds = {"msg_pub"} \cup {"msg_sub"} \cup {"service_srv"} \cup {"service_cli"}
                  \cup {"action_srv"} \cup {"action_cli"}
    BY DEF Kinds, MsgKinds, Calls
  <2>2. \A S, x : IsFiniteSet(S) => IsFiniteSet(S \cup {x})
    BY FS_AddElement
  <2>3. IsFiniteSet({"msg_pub"})
    BY FS_Singleton
  <2> QED
    BY <2>1, <2>2, <2>3
<1>4. IsFiniteSet(Kinds \X Names)
  BY <1>2, <1>3, FS_Product
<1> QED
  BY <1>4, NodesFinite, FS_Product

\* The events of nodes that are gone.
LostEvents(own, lost) == UNION {remove_all_entities(own[n]) : n \in lost}

\* They are about those nodes and what these have.
LEMMA LostTold ==
  ASSUME WorldOk, NEW own \in Maps(NodeNames, Nodes), NEW lost \in SUBSET (DOMAIN own),
         \A n \in lost : own[n].fullname = n, NEW nodes, NEW p,
         \A n \in lost : HadShown(nodes, p, n) \subseteq ShownOf(n, own[n])
  PROVE  Forgets(nodes, p, lost, SetToSeq(LostEvents(own, lost)))
<1> DEFINE F(n, kind, t) ==
             [ev |-> "Undiscovered", node |-> n, kind |-> kind, name |-> t]
           U == LostEvents(own, lost)
           s == SetToSeq(U)
<1>1. MsgKinds \cup Range(CallKinds) = Kinds
  BY KindFacts DEF Range
<1>2. \A n \in lost : own[n] \in Nodes /\ n \in NodeNames
  BY MapFacts
<1>3. \A n \in lost : \A kind \in Kinds : DOMAIN own[n][kind] \subseteq Names
  <2> SUFFICES ASSUME NEW n \in lost, NEW kind \in Kinds PROVE DOMAIN own[n][kind] \subseteq Names
    OBVIOUS
  <2>1. own[n][kind] \in Msgs \/ own[n][kind] \in CallsOf(kind)
    BY <1>2, NodeFields, KindFacts
  <2> QED
    BY <2>1, MapFacts DEF Msgs, CallsOf
<1>4. \A e \in U : \E n \in lost, kind \in Kinds : \E t \in DOMAIN own[n][kind] : e = F(n, kind, t)
  <2> SUFFICES ASSUME NEW n \in lost, NEW e \in remove_all_entities(own[n])
               PROVE  \E kind \in Kinds : \E t \in DOMAIN own[n][kind] : e = F(n, kind, t)
    BY DEF LostEvents
  <2>1. PICK kind \in Kinds : \E t \in DOMAIN own[n][kind] :
                                e = Event("Undiscovered", own[n], kind, t)
    BY <1>1 DEF remove_all_entities
  <2> QED
    BY <2>1 DEF Event
<1>5. \A n \in lost, kind \in Kinds : \A t \in DOMAIN own[n][kind] : F(n, kind, t) \in U
  <2> SUFFICES ASSUME NEW n \in lost, NEW kind \in Kinds, NEW t \in DOMAIN own[n][kind]
               PROVE  F(n, kind, t) \in U
    OBVIOUS
  <2>1. F(n, kind, t) = Event("Undiscovered", own[n], kind, t)
    BY DEF Event
  <2> HIDE DEF F
  <2>2. F(n, kind, t) \in remove_all_entities(own[n])
    BY <1>1, <2>1 DEF remove_all_entities
  <2> QED
    BY <2>2 DEF LostEvents
<1>6. IsFiniteSet(U)
  <2> DEFINE S == NodeNames \X (Kinds \X Names)
             f == [x \in S |-> F(x[1], x[2][1], x[2][2])]
  <2>1. IsFiniteSet(S)
    BY KeysFinite
  <2>2. \A n \in NodeNames, kind \in Kinds, t \in Names :
          <<n, <<kind, t>>>> \in S /\ f[<<n, <<kind, t>>>>] = F(n, kind, t)
    OBVIOUS
  <2> HIDE DEF S, f, F
  <2>3. U \subseteq {f[x] : x \in S}
    <3> SUFFICES ASSUME NEW e \in U PROVE e \in {f[x] : x \in S}
      OBVIOUS
    <3>1. PICK n \in lost, kind \in Kinds, t \in Names : e = F(n, kind, t)
      BY <1>3, <1>4
    <3> QED
      BY <1>2, <2>2, <3>1
  <2> QED
    <3> DEFINE T == {f[x] : x \in S}
    <3>1. IsFiniteSet(T)
      BY <2>1, ImageFinite
    <3>2. U \in SUBSET T
      BY <2>3
    <3> HIDE DEF T, U
    <3> QED
      BY <3>1, <3>2, FS_Subset
<1>7. U \subseteq Evs
  <2> SUFFICES ASSUME NEW e \in U PROVE e \in Evs
    OBVIOUS
  <2>1. PICK n \in lost, kind \in Kinds, t \in Names : e = F(n, kind, t)
    BY <1>3, <1>4
  <2> QED
    BY <1>2, <2>1 DEF Evs
<1> HIDE DEF U
<1>8. /\ s \in Seq(U)
      /\ \A e \in U : \E i \in DOMAIN s : s[i] = e
  BY <1>6, SequenceOfSet
<1> HIDE DEF s
<1>9. DOMAIN s = 1 .. Len(s) /\ s \in Seq(Evs)
  BY <1>7, <1>8
<1>10. \A i \in 1 .. Len(s) : s[i].ev = "Undiscovered" /\ Interface(s[i])[1] \in lost
  <2> SUFFICES ASSUME NEW i \in 1 .. Len(s)
               PROVE  s[i].ev = "Undiscovered" /\ Interface(s[i])[1] \in lost
    OBVIOUS
  <2>1. s[i] \in U
    BY <1>8
  <2>2. PICK n \in lost, kind \in Kinds, t \in Names : s[i] = F(n, kind, t)
    BY <1>3, <1>4, <2>1
  <2> QED
    BY <2>2 DEF Interface
<1>11. \A n \in lost : \A x \in HadShown(nodes, p, n) :
         \E i \in 1 .. Len(s) : Interface(s[i]) = x
  <2> SUFFICES ASSUME NEW n \in lost, NEW x \in HadShown(nodes, p, n)
               PROVE  \E i \in 1 .. Len(s) : Interface(s[i]) = x
    OBVIOUS
  <2>1. /\ x = <<n, x[2], x[3]>> /\ x[2] \in Kinds
        /\ x[3] \in DOMAIN own[n][x[2]]
    <3>1. x \in ShownOf(n, own[n])
      OBVIOUS
    <3>2. x \in NodeNames \X Kinds \X Names /\ x[1] = n
      BY <3>1 DEF ShownOf, Own, Keys
    <3>3. x[3] \in DOMAIN own[n][x[2]]
      BY <3>1 DEF ShownOf, Shows
    <3> QED
      BY <3>2, <3>3
  <2>2. F(n, x[2], x[3]) \in U
    BY <1>5, <2>1
  <2>3. PICK i \in DOMAIN s : s[i] = F(n, x[2], x[3])
    BY <1>8, <2>2
  <2>4. Interface(s[i]) = x
    BY <2>1, <2>3 DEF Interface
  <2> QED
    BY <1>9, <2>4
<1>12. Forgets(nodes, p, lost, s)
  BY <1>9, <1>10, <1>11 DEF Forgets
<1> QED
  BY <1>12 DEF s, U

-----------------------------------------------------------------------------
(* What a poll works on. *)

\* What the admin space is to list.
AdminOf(nodes, ps, ws, rs) ==
  {<<"participant", p>> : p \in ps}
    \cup {<<"writer", g>> : g \in ws}
    \cup {<<"reader", g>> : g \in rs}
    \cup {<<"node", id[1], id[2]>> : id \in IdsOf(nodes)}

PollStates ==
  [nodes : NodeMaps, admin : {AdminOf(m, participants, writers, readers) : m \in NodeMaps},
   evts : Seq(Evs)]

\* In the middle of a poll the admin space lists the nodes, and the events have told of them.
Good(s) ==
  /\ s \in PollStates
  /\ NodesGood(s.nodes, readers, writers)
  /\ s.admin = AdminOf(s.nodes, participants, writers, readers)
  /\ NamesDisjoint => Known(local_nodes, s.evts) = DiscoveredIn(s.nodes)

\* The admin space with a node more, and without the nodes that are lost.
Listing(admin, p, n) == admin \cup {<<"node", p, n>>}
Delisting(admin, p, lost) == admin \ {<<"node", p, n>> : n \in lost}

\* The admin space lists one node more.
LEMMA AdminPut ==
  ASSUME NEW nodes, NEW after, NEW p, NEW n, NEW node, NEW ps, NEW ws, NEW rs,
         Puts(nodes, p, n, node, after)
  PROVE  Listing(AdminOf(nodes, ps, ws, rs), p, n) = AdminOf(after, ps, ws, rs)
<1>0. IdsOf(after) = IdsOf(nodes) \cup {<<p, n>>}
  BY DEF Puts
<1>1. {<<"node", id[1], id[2]>> : id \in IdsOf(after)}
        = {<<"node", id[1], id[2]>> : id \in IdsOf(nodes)} \cup {<<"node", p, n>>}
  <2>1. <<p, n>>[1] = p /\ <<p, n>>[2] = n
    OBVIOUS
  <2> QED
    BY <1>0, <2>1
<1> QED
  BY <1>1 DEF AdminOf, Listing

\* The admin space no longer lists the nodes that are lost.
LEMMA AdminDropped ==
  ASSUME NEW nodes, NEW after, NEW p, NEW lost, NEW ps, NEW ws, NEW rs,
         Drops(nodes, p, lost, after)
  PROVE  Delisting(AdminOf(nodes, ps, ws, rs), p, lost) = AdminOf(after, ps, ws, rs)
<1>0. IdsOf(after) = IdsOf(nodes) \ ({p} \X lost)
  BY DEF Drops
<1> DEFINE listed(ids) == {<<"node", id[1], id[2]>> : id \in ids}
           gone == {<<"node", p, n>> : n \in lost}
<1>1. listed(IdsOf(after)) = listed(IdsOf(nodes)) \ gone
  <2>1. \A id \in IdsOf(nodes) : id = <<id[1], id[2]>>
    BY DEF IdsOf
  <2>2. \A id \in IdsOf(nodes) : id \in {p} \X lost <=> id[1] = p /\ id[2] \in lost
    BY <2>1
  <2>3. \A id \in IdsOf(nodes) : <<"node", id[1], id[2]>> \in gone <=> id[1] = p /\ id[2] \in lost
    OBVIOUS
  <2> HIDE DEF gone
  <2> QED
    BY <1>0, <2>2, <2>3
<1>2. /\ \A q \in ps : <<"participant", q>> \notin gone
      /\ \A g \in ws : <<"writer", g>> \notin gone
      /\ \A g \in rs : <<"reader", g>> \notin gone
  OBVIOUS
<1> HIDE DEF gone, listed
<1>3. AdminOf(nodes, ps, ws, rs) \ gone =
        {<<"participant", q>> : q \in ps} \cup {<<"writer", g>> : g \in ws}
          \cup {<<"reader", g>> : g \in rs} \cup (listed(IdsOf(nodes)) \ gone)
  BY <1>2 DEF AdminOf, listed
<1> QED
  BY <1>1, <1>3 DEF AdminOf, listed, gone, Delisting

\* A node that is updated, with its events.
LEMMA WithNodeGood ==
  ASSUME NEW s, Good(s), NEW p \in DOMAIN s.nodes, NEW n \in NamesOf(p), NEW u,
         NodeGood(p, n, u.node, readers, writers),
         Follows(n, HadShown(s.nodes, p, n), ShownOf(n, u.node), u.evts)
  PROVE  /\ Good(WithNode(s, p, n, u))
         /\ DOMAIN WithNode(s, p, n, u).nodes = DOMAIN s.nodes
         /\ Puts(s.nodes, p, n, u.node, WithNode(s, p, n, u).nodes)
<1> DEFINE after == [s.nodes EXCEPT ![p] = Inserted(s.nodes[p], n, u.node)]
           admin == s.admin \cup {<<"node", p, n>>}
           events == s.evts \o u.evts
           r == [nodes |-> after, admin |-> admin, evts |-> events]
<1>1. WithNode(s, p, n, u) = r
  BY DEF WithNode
<1>2. NodesGood(s.nodes, readers, writers) /\ s.nodes \in NodeMaps /\ s.evts \in Seq(Evs)
  BY DEF Good, PollStates
<1>3. Puts(s.nodes, p, n, u.node, after) /\ NodesGood(after, readers, writers)
  BY <1>2, NodePut
<1> HIDE DEF after
<1>4. admin = AdminOf(after, participants, writers, readers)
  <2>1. s.admin = AdminOf(s.nodes, participants, writers, readers)
    BY DEF Good
  <2>2. Listing(s.admin, p, n) = AdminOf(after, participants, writers, readers)
    BY <1>3, <2>1, AdminPut
  <2> QED
    BY <2>2 DEF Listing
<1>5. events \in Seq(Evs) /\ u.evts \in Seq(Evs)
  BY <1>2, ConcatProperties DEF Follows
<1>6. NamesDisjoint => Known(local_nodes, events) = DiscoveredIn(after)
  <2>1. Known(local_nodes, events) = Known(Known(local_nodes, s.evts), u.evts)
    BY <1>2, <1>5, KnownJoined
  <2>2. p \in Participants
    BY <1>2, NodesOf
  <2>3. NamesDisjoint => Known(DiscoveredIn(s.nodes), u.evts) = DiscoveredIn(after)
    BY <1>2, <1>3, <2>2, PutTold
  <2> QED
    BY <2>1, <2>3 DEF Good
<1> HIDE DEF admin, events
<1>7. r.nodes = after /\ r.admin = admin /\ r.evts = events
  OBVIOUS
<1>8. r \in PollStates
  BY <1>3, <1>4, <1>5 DEF PollStates, NodesGood
<1> HIDE DEF r
<1>9. Good(r)
  BY <1>3, <1>4, <1>6, <1>7, <1>8 DEF Good
<1> QED
  BY <1>1, <1>3, <1>7, <1>9 DEF Puts

\* Nodes that are lost, with their events.
LEMMA DroppedGood ==
  ASSUME NEW s, Good(s), NEW p \in Participants, NEW lost \in SUBSET NamesOf(p),
         NEW after \in NodeMaps, Drops(s.nodes, p, lost, after), NEW events,
         Forgets(s.nodes, p, lost, events)
  PROVE  Good([nodes |-> after, admin |-> s.admin \ {<<"node", p, n>> : n \in lost},
               evts |-> s.evts \o events])
<1> DEFINE admin == s.admin \ {<<"node", p, n>> : n \in lost}
           told == s.evts \o events
           r == [nodes |-> after, admin |-> admin, evts |-> told]
<1>1. NodesGood(s.nodes, readers, writers) /\ s.evts \in Seq(Evs)
  BY DEF Good, PollStates
<1>2. NodesGood(after, readers, writers)
  BY <1>1, DropsGood
<1>3. admin = AdminOf(after, participants, writers, readers)
  <2>1. s.admin = AdminOf(s.nodes, participants, writers, readers)
    BY DEF Good
  <2>2. Delisting(s.admin, p, lost) = AdminOf(after, participants, writers, readers)
    BY <2>1, AdminDropped
  <2> QED
    BY <2>2 DEF Delisting
<1>4. told \in Seq(Evs) /\ events \in Seq(Evs)
  BY <1>1, ConcatProperties DEF Forgets
<1>5. NamesDisjoint => Known(local_nodes, told) = DiscoveredIn(after)
  <2>1. Known(local_nodes, told) = Known(Known(local_nodes, s.evts), events)
    BY <1>1, <1>4, KnownJoined
  <2>2. NamesDisjoint => Known(DiscoveredIn(s.nodes), events) = DiscoveredIn(after)
    BY <1>1, DropTold
  <2> QED
    BY <2>1, <2>2 DEF Good
<1> HIDE DEF admin, told
<1>6. r.nodes = after /\ r.admin = admin /\ r.evts = told
  OBVIOUS
<1>7. r \in PollStates
  BY <1>3, <1>4 DEF PollStates
<1> HIDE DEF r
<1>8. Good(r)
  BY <1>2, <1>3, <1>5, <1>6, <1>7 DEF Good
<1> QED
  BY <1>8 DEF r, admin, told

\* The nodes of a participant, if it has any.
OwnNodes(nodes, p) == IF p \in DOMAIN nodes THEN nodes[p] ELSE <<>>

\* Some nodes of participant p are dropped from the map.
LEMMA OwnRestricted ==
  ASSUME NEW nodes \in NodeMaps, NEW p \in Participants, NEW lost
  PROVE  LET own == OwnNodes(nodes, p)
             after == Inserted(nodes, p, Restrict(own, DOMAIN own \ lost))
         IN  /\ after \in NodeMaps /\ p \in DOMAIN after
             /\ Drops(nodes, p, lost, after)
<1> DEFINE own == OwnNodes(nodes, p)
           rest == Restrict(own, DOMAIN own \ lost)
           after == Inserted(nodes, p, rest)
<1>1. own \in Maps(NodeNames, Nodes) /\ (p \notin DOMAIN nodes => DOMAIN own = {})
  BY NodesOf, EmptyMap DEF OwnNodes
<1>2. p \in DOMAIN nodes => own = nodes[p]
  BY DEF OwnNodes
<1> HIDE DEF own
<1>3. /\ rest \in Maps(NodeNames, Nodes)
      /\ DOMAIN rest = DOMAIN own \ lost
      /\ \A n \in DOMAIN rest : rest[n] = own[n]
  BY <1>1, RestrictMap DEF Restrict
<1> HIDE DEF rest
<1>4. /\ after \in NodeMaps
      /\ DOMAIN after = DOMAIN nodes \cup {p}
      /\ after[p] = rest
      /\ \A q \in DOMAIN nodes \ {p} : after[q] = nodes[q]
  BY <1>3, InsertedMap DEF NodeMaps, Inserted
<1> HIDE DEF after
<1>5. \A id \in Participants \X NodeNames :
        id \in IdsOf(after) <=> id \in IdsOf(nodes) /\ ~(id[1] = p /\ id[2] \in lost)
  <2> SUFFICES ASSUME NEW id \in Participants \X NodeNames
               PROVE  id \in IdsOf(after)
                        <=> id \in IdsOf(nodes) /\ ~(id[1] = p /\ id[2] \in lost)
    OBVIOUS
  <2>1. CASE id[1] = p
    BY <1>1, <1>2, <1>3, <1>4, <2>1 DEF IdsOf
  <2>2. CASE id[1] # p
    BY <1>4, <2>2 DEF IdsOf
  <2> QED
    BY <2>1, <2>2
<1>6. \A id \in Participants \X NodeNames : id \in {p} \X lost <=> id[1] = p /\ id[2] \in lost
  OBVIOUS
<1>7. IdsOf(after) = IdsOf(nodes) \ ({p} \X lost)
  <2>1. /\ IdsOf(after) \subseteq Participants \X NodeNames
        /\ IdsOf(nodes) \subseteq Participants \X NodeNames
    BY DEF IdsOf
  <2> QED
    BY <1>5, <1>6, <2>1
<1>8. \A id \in IdsOf(after) : after[id[1]][id[2]] = nodes[id[1]][id[2]]
  <2> SUFFICES ASSUME NEW id \in IdsOf(after)
               PROVE  after[id[1]][id[2]] = nodes[id[1]][id[2]]
    OBVIOUS
  <2>1. /\ id \in IdsOf(nodes) /\ id[1] \in DOMAIN nodes
        /\ id[1] \in DOMAIN after /\ id[2] \in DOMAIN after[id[1]]
    BY <1>7 DEF IdsOf
  <2>2. CASE id[1] = p
    BY <1>2, <1>3, <1>4, <2>1, <2>2
  <2>3. CASE id[1] # p
    BY <1>4, <2>1, <2>3
  <2> QED
    BY <2>2, <2>3
<1> QED
  BY <1>4, <1>7, <1>8 DEF Drops, after, rest, own

\* The synthetic node has no interfaces but its publishers.
LEMMA OrphanShows ==
  ASSUME NEW p, NEW node, NodeOk(p, OrphanNode(p), node), NEW kind \in Kinds, NEW t,
         Shows(node, kind, t)
  PROVE  kind = "msg_pub"
<1>1. \A g : Mine(p, OrphanNode(p), g) => Place(g)[1] = "msg_pub"
  BY DEF Mine, IsMessage, IsWriter, Place, PlaceOf
<1>2. t \in DOMAIN node[kind]
  BY DEF Shows
<1>3. CASE kind \in MsgKinds
  <2>1. MsgsPlaced(p, OrphanNode(p), kind, node[kind])
    BY <1>3 DEF NodeOk
  <2>2. PICK g \in node[kind][t].gids : Placed(p, OrphanNode(p), g, t, kind, "")
    BY <1>2, <2>1 DEF MsgsPlaced
  <2>3. Mine(p, OrphanNode(p), g) /\ Place(g)[1] = kind
    <3>1. Mine(p, OrphanNode(p), g) /\ Place(g) = <<kind, "">>
      BY <2>2 DEF Placed
    <3>2. <<kind, "">>[1] = kind
      OBVIOUS
    <3> QED
      BY <3>1, <3>2
  <2>4. Place(g)[1] = "msg_pub"
    BY <1>1, <2>3
  <2> QED
    BY <2>3, <2>4
<1>4. CASE kind \in Calls
  <2>1. node[kind][t].ends \in [Entities(kind) -> Gids \cup {NOT_DISCOVERED}]
    <3>1. node[kind] \in Maps(Names, Call(kind))
      BY <1>4, NodeFields DEF NodeOk, CallsOf
    <3>2. node[kind][t] \in Call(kind)
      BY <1>2, <3>1, MapFacts
    <3> QED
      BY <3>2 DEF Call
  <2>2. PICK end : end \in Entities(kind)
    <3>1. /\ "req_reader" \in ServiceSrvEntities /\ "req_writer" \in ServiceCliEntities
          /\ "status_writer" \in ActionSrvEntities /\ "status_reader" \in ActionCliEntities
      BY DEF ServiceSrvEntities, ServiceCliEntities, ActionSrvEntities, ActionCliEntities
    <3>2. \/ Entities(kind) = ServiceSrvEntities \/ Entities(kind) = ServiceCliEntities
          \/ Entities(kind) = ActionSrvEntities \/ Entities(kind) = ActionCliEntities
      BY <1>4 DEF Calls, Entities
    <3> QED
      BY <3>1, <3>2
  <2>3. node[kind][t].ends[end] # NOT_DISCOVERED
    <3>1. is_complete(node[kind][t])
      BY <1>4 DEF Shows
    <3> QED
      BY <2>1, <2>2, <3>1 DEF is_complete
  <2>4. /\ Mine(p, OrphanNode(p), node[kind][t].ends[end])
        /\ Place(node[kind][t].ends[end])[1] = kind
    BY <1>2, <1>4, <2>2, <2>3 DEF NodeOk, CallsPlaced, Placed
  <2> QED
    BY <1>1, <2>4
<1> QED
  BY <1>3, <1>4 DEF Kinds

\* A node that shows nothing is dropped.
LEMMA WithoutNodeGood ==
  ASSUME NEW s, Good(s), NEW p \in DOMAIN s.nodes, NEW n \in NamesOf(p),
         HadShown(s.nodes, p, n) = {}
  PROVE  /\ Good(WithoutNode(s, p, n))
         /\ DOMAIN WithoutNode(s, p, n).nodes = DOMAIN s.nodes
<1> DEFINE own == OwnNodes(s.nodes, p)
           after == Inserted(s.nodes, p, Restrict(own, DOMAIN own \ {n}))
           r == [nodes |-> after, admin |-> s.admin \ {<<"node", p, m>> : m \in {n}},
                 evts |-> s.evts \o <<>>]
<1>1. s.nodes \in NodeMaps /\ s.evts \in Seq(Evs) /\ p \in Participants
  BY NodesOf DEF Good, PollStates
<1>2. after \in NodeMaps /\ Drops(s.nodes, p, {n}, after)
  BY <1>1, OwnRestricted
<1>3. Forgets(s.nodes, p, {n}, <<>>)
  BY DEF Forgets
<1>4. Good(r)
  <2> HIDE DEF after
  <2>1. {n} \in SUBSET NamesOf(p)
    OBVIOUS
  <2> QED
    BY <1>1, <1>2, <1>3, <2>1, DroppedGood
<1>5. after = [s.nodes EXCEPT ![p] = Restrict(s.nodes[p], DOMAIN s.nodes[p] \ {n})]
  BY <1>1, MapFacts DEF Inserted, OwnNodes, NodeMaps
<1>6. s.evts \o <<>> = s.evts /\ {<<"node", p, m>> : m \in {n}} = {<<"node", p, n>>}
  BY <1>1
<1>7. WithoutNode(s, p, n) = r
  <2> HIDE DEF after
  <2> QED
    BY <1>5, <1>6 DEF WithoutNode
<1>8. DOMAIN after = DOMAIN s.nodes
  BY DEF Inserted
<1>9. r.nodes = after
  BY DEF r
<1> HIDE DEF r
<1> QED
  BY <1>4, <1>7, <1>8, <1>9

\* What DDS has been told of endpoints that nodes declare.
DeclaredOk == declared \subseteq Gids /\ \A g \in declared : EntityOf(g).node # Nobody

\* What a poll knows of node n of participant p, or a new one.
NodeIn(nodes, p, n) == IF n \in DOMAIN nodes[p] THEN nodes[p][n] ELSE create(n)

\* It is good, and shows what it had shown.
LEMMA NodeInGood ==
  ASSUME NEW rs, NEW ws, NEW nodes, NodesGood(nodes, rs, ws), NEW p \in DOMAIN nodes,
         NEW n \in NodeNames
  PROVE  /\ NodeGood(p, n, NodeIn(nodes, p, n), rs, ws)
         /\ HadShown(nodes, p, n) = ShownOf(n, NodeIn(nodes, p, n))
<1>1. p \in Participants /\ <<p, n>>[1] = p /\ <<p, n>>[2] = n
  BY NodesOf DEF NodesGood
<1>2. <<p, n>> \in IdsOf(nodes) <=> n \in DOMAIN nodes[p]
  BY <1>1 DEF IdsOf
<1>3. CASE n \in DOMAIN nodes[p]
  BY <1>1, <1>2, <1>3 DEF NodesGood, NodeIn, HadShown
<1>4. CASE n \notin DOMAIN nodes[p]
  BY <1>2, <1>4, Created DEF NodeIn, HadShown
<1> QED
  BY <1>3, <1>4

\* A node that a sample lists, with the endpoints that it lists.
WithListed(s, p, n, info, order) ==
  WithNode(s, p, n, update_node_info(NodeIn(s.nodes, p, n),
                                     {g \in info : EntityOf(g).node = n}, order))

\* A node that a sample lists is updated.
LEMMA ListedUpdated ==
  ASSUME WorldOk, DeclaredOk, NEW s, Good(s), NEW p \in DOMAIN s.nodes, NEW n,
         NEW info \in SUBSET (declared \cap EndsOf(p)), n \in {EntityOf(g).node : g \in info},
         NEW order \in Seq(Gids)
  PROVE  /\ Good(WithListed(s, p, n, info, order))
         /\ DOMAIN WithListed(s, p, n, info, order).nodes = DOMAIN s.nodes
<1> DEFINE ends == {g \in info : EntityOf(g).node = n}
           node == NodeIn(s.nodes, p, n)
           u == update_node_info(node, ends, order)
<1>1. NodesGood(s.nodes, readers, writers) /\ p \in Participants
  BY NodesOf DEF Good, NodesGood
<1>2. n \in NamesOf(p) /\ n # OrphanNode(p) /\ n \in NodeNames
  <2>1. PICK g \in info : n = EntityOf(g).node
    OBVIOUS
  <2>2. g \in Gids /\ g \in EndsOf(p) /\ n # Nobody
    BY <2>1 DEF DeclaredOk
  <2>3. n # OrphanNode(p)
    BY <1>1, <2>1, <2>2 DEF WorldOk
  <2> QED
    BY <1>1, <2>1, <2>2, <2>3, NamesOfType DEF NamesOf
<1>3. NodeGood(p, n, node, readers, writers) /\ HadShown(s.nodes, p, n) = ShownOf(n, node)
  BY <1>1, <1>2, NodeInGood
<1>4. ends \in SUBSET Gids /\ \A g \in ends : Mine(p, n, g)
  BY <1>2 DEF EndsOf, Mine
<1> HIDE DEF ends, node
<1>5. Becomes(p, n, node, u)
  BY <1>2, <1>3, <1>4, InfoUpdated
<1> HIDE DEF u
<1>6. /\ NodeGood(p, n, u.node, readers, writers)
      /\ Follows(n, HadShown(s.nodes, p, n), ShownOf(n, u.node), u.evts)
  BY <1>3, <1>5 DEF Becomes
<1>7. Good(WithNode(s, p, n, u)) /\ DOMAIN WithNode(s, p, n, u).nodes = DOMAIN s.nodes
  BY <1>2, <1>6, WithNodeGood
<1> QED
  BY <1>7 DEF WithListed, u, node, ends

\* The synthetic node loses a Writer.
LEMMA TransferGood ==
  ASSUME WorldOk, NEW s, Good(s), NEW p \in DOMAIN s.nodes, NEW w \in Gids
  PROVE  Good(Transfer(s, p, w)) /\ DOMAIN Transfer(s, p, w).nodes = DOMAIN s.nodes
<1> DEFINE n == OrphanNode(p)
           node == s.nodes[p][n]
           u == remove_writer(node, w)
           put == WithNode(s, p, n, u)
           left == [put EXCEPT !.admin = s.admin]
<1>1. CASE n \notin DOMAIN s.nodes[p]
  BY <1>1 DEF Transfer
<1>2. CASE n \in DOMAIN s.nodes[p]
  <2>1. NodesGood(s.nodes, readers, writers) /\ p \in Participants /\ s.nodes \in NodeMaps
    BY NodesOf DEF Good, NodesGood
  <2>2. n \in NodeNames /\ n \in NamesOf(p) /\ <<p, n>> \in IdsOf(s.nodes)
    BY <1>2, <2>1, NodesOf DEF NamesOf
  <2>3. NodeGood(p, n, node, readers, writers)
    <3>1. <<p, n>>[1] = p /\ <<p, n>>[2] = n
      OBVIOUS
    <3> QED
      BY <2>1, <2>2, <3>1 DEF NodesGood
  <2>4. GoneOk(p, n, node, u)
    BY <2>3, RemovedFrom DEF NodeGood
  <2>5. HadShown(s.nodes, p, n) = ShownOf(n, node)
    BY <2>2 DEF HadShown
  <2> HIDE DEF u
  <2>6. NodeGood(p, n, u.node, readers, writers)
    <3>1. /\ u.node.undiscovered_reader \subseteq node.undiscovered_reader
          /\ u.node.undiscovered_writer \subseteq node.undiscovered_writer
      BY <2>4 DEF GoneOk, Lists
    <3> QED
      BY <2>3, <2>4, <3>1 DEF NodeGood, GoneOk
  <2>7. Follows(n, HadShown(s.nodes, p, n), ShownOf(n, u.node), u.evts)
    BY <2>2, <2>4, <2>5, FollowsLost DEF GoneOk
  <2> HIDE DEF node, n
  <2>8. Good(put) /\ DOMAIN put.nodes = DOMAIN s.nodes /\ Puts(s.nodes, p, n, u.node, put.nodes)
    BY <2>2, <2>6, <2>7, WithNodeGood
  <2>9. left = put
    <3>1. s.admin = AdminOf(s.nodes, participants, writers, readers)
      BY DEF Good
    <3>2. <<"node", p, n>> \in s.admin
      <4>1. <<p, n>>[1] = p /\ <<p, n>>[2] = n
        OBVIOUS
      <4> QED
        BY <2>2, <3>1, <4>1 DEF AdminOf
    <3>3. s.admin \cup {<<"node", p, n>>} = s.admin
      BY <3>2
    <3>4. \A a, b, c : [[nodes |-> a, admin |-> b, evts |-> c] EXCEPT !.admin = b]
                         = [nodes |-> a, admin |-> b, evts |-> c]
      OBVIOUS
    <3> QED
      BY <3>3, <3>4 DEF WithNode
  <2>10. CASE DOMAIN u.node.msg_pub # {}
    <3>1. Transfer(s, p, w) = left
      BY <1>2, <2>10 DEF Transfer, u, node, n
    <3> QED
      BY <2>8, <2>9, <3>1
  <2>11. CASE DOMAIN u.node.msg_pub = {}
    <3>1. Transfer(s, p, w) = WithoutNode(left, p, n)
      BY <1>2, <2>11 DEF Transfer, u, node, n
    <3>2. HadShown(put.nodes, p, n) = {}
      <4>1. put.nodes[p][n] = u.node
        BY <2>8 DEF Puts
      <4>2. \A kind \in Kinds : \A t : ~Shows(u.node, kind, t)
        BY <2>6, <2>11, OrphanShows DEF NodeGood, n, Shows
      <4>3. ShownOf(n, u.node) = {}
        BY <4>2 DEF ShownOf, Own, Keys
      <4> QED
        BY <4>1, <4>3 DEF HadShown
    <3> HIDE DEF put, left
    <3>3. /\ Good(WithoutNode(put, p, n))
          /\ DOMAIN WithoutNode(put, p, n).nodes = DOMAIN put.nodes
      BY <2>2, <2>8, <3>2, WithoutNodeGood
    <3> QED
      BY <2>8, <2>9, <3>1, <3>3
  <2> QED
    BY <2>10, <2>11
<1> QED
  BY <1>1, <1>2

\* The states of a poll in which participant p has nodes.
GoodWith(p) == {acc \in PollStates : Good(acc) /\ p \in DOMAIN acc.nodes}

\* The nodes that a sample lists are updated, in the order of seq.
UpdateAll(p, info, order, base, seq) ==
  LET Update(acc, n) ==
        LET node == IF n \in DOMAIN acc.nodes[p] THEN acc.nodes[p][n] ELSE create(n)
            ends == {g \in info : EntityOf(g).node = n}
        IN  WithNode(acc, p, n, update_node_info(node, ends, order))
  IN  FoldLeft(Update, base, seq)

\* What each of them keeps, they all keep.
LEMMA UpdateFolds ==
  ASSUME NEW p, NEW info, NEW order, NEW S, NEW seq \in Seq(S),
         NEW V, NEW base \in V,
         \A acc \in V : \A i \in 1 .. Len(seq) : WithListed(acc, p, seq[i], info, order) \in V,
         NEW W, <<0, base>> \in W,
         \A k \in 1 .. Len(seq) : \A acc \in V :
           <<k - 1, acc>> \in W => <<k, WithListed(acc, p, seq[k], info, order)>> \in W
  PROVE  /\ UpdateAll(p, info, order, base, seq) \in V
         /\ <<Len(seq), UpdateAll(p, info, order, base, seq)>> \in W
<1> DEFINE Step(acc, n) ==
             LET node == IF n \in DOMAIN acc.nodes[p] THEN acc.nodes[p][n] ELSE create(n)
                 ends == {g \in info : EntityOf(g).node = n}
             IN  WithNode(acc, p, n, update_node_info(node, ends, order))
           len == Len(seq)
           D == 1 .. len
           P(h) == h = [t \in SUBSET (DOMAIN seq) |->
                          IF t = {} THEN base ELSE Step(h[t \ {Max(t)}], seq[Max(t)])]
           iter == CHOOSE h : P(h)
           step == [x \in D \X V |-> Step(x[2], seq[x[1]])]
<1>1. UpdateAll(p, info, order, base, seq) = iter[DOMAIN seq]
  BY DEF UpdateAll, FoldLeft, MapThenFoldSet
<1>2. DOMAIN seq = D /\ Len(seq) \in Nat
  OBVIOUS
<1>3. \A acc, x : Step(acc, x) = WithListed(acc, p, x, info, order)
  BY DEF WithListed, NodeIn
<1> HIDE DEF Step
<1>4. step \in [D \X V -> V]
  BY <1>2, <1>3
<1>5. PICK g \in [SUBSET D -> V] : Folded(g, Len(seq), base, step)
  <2> HIDE DEF step
  <2> QED
    BY <1>2, <1>4, SequenceFold
<1>6. ASSUME NEW t \in SUBSET D, t # {}, NEW f, f[t \ {Max(t)}] \in V
      PROVE  step[<<Max(t), f[t \ {Max(t)}]>>] = Step(f[t \ {Max(t)}], seq[Max(t)])
  <2>1. Max(t) \in D
    BY <1>2, <1>6, LastPosition
  <2> QED
    BY <1>6, <2>1
<1>7. P(g)
  <2> SUFFICES ASSUME NEW t \in SUBSET D, t # {}
               PROVE  g[t] = Step(g[t \ {Max(t)}], seq[Max(t)])
    BY <1>2, <1>5 DEF Folded
  <2>1. g[t] = step[<<Max(t), g[t \ {Max(t)}]>>]
    BY <1>5 DEF Folded
  <2> HIDE DEF step
  <2> QED
    BY <1>6, <2>1
<1>8. P(iter)
  <2> HIDE DEF P
  <2> QED
    BY <1>7
<1> HIDE DEF iter
<1>9. /\ iter[{}] = base
      /\ \A t \in SUBSET D : t # {} => iter[t] = Step(iter[t \ {Max(t)}], seq[Max(t)])
  BY <1>2, <1>8
<1>10. \A t \in SUBSET D :
         t # {} /\ iter[t \ {Max(t)}] \in V
           => iter[t] = step[<<Max(t), iter[t \ {Max(t)}]>>]
  <2> HIDE DEF step, P, len
  <2> QED
    BY <1>6, <1>9
<1>11. \A k \in D : \A x \in V : <<k - 1, x>> \in W => <<k, step[<<k, x>>]>> \in W
  BY <1>3
<1>12. iter[D] \in V /\ <<len, iter[D]>> \in W
  <2> HIDE DEF step, P, len
  <2>1. Iterates(iter, len, base, step, V)
    BY <1>9, <1>10 DEF Iterates
  <2>2. Maintains(W, len, step, V)
    BY <1>11 DEF Maintains
  <2>3. len \in Nat /\ base \in V /\ <<0, base>> \in W
    BY <1>2, <1>11 DEF len
  <2> QED
    BY <1>4, <2>1, <2>2, <2>3, SequenceFoldKeeps
<1> QED
  BY <1>1, <1>2, <1>12

\* They all stay good.
LEMMA AllUpdated ==
  ASSUME WorldOk, DeclaredOk, NEW p, NEW info \in SUBSET (declared \cap EndsOf(p)),
         NEW order \in Seq(Gids), NEW base \in GoodWith(p),
         NEW seq \in Seq({EntityOf(g).node : g \in info})
  PROVE  UpdateAll(p, info, order, base, seq) \in GoodWith(p)
<1> DEFINE V == GoodWith(p)
           W == Nat \X V
<1>1. ASSUME NEW acc \in V, NEW i \in 1 .. Len(seq)
      PROVE  WithListed(acc, p, seq[i], info, order) \in V
  <2> DEFINE n == seq[i]
  <2>1. n \in {EntityOf(g).node : g \in info} /\ Good(acc) /\ p \in DOMAIN acc.nodes
    BY DEF GoodWith
  <2> HIDE DEF n
  <2>2. /\ Good(WithListed(acc, p, n, info, order))
        /\ DOMAIN WithListed(acc, p, n, info, order).nodes = DOMAIN acc.nodes
    BY <2>1, ListedUpdated
  <2> QED
    BY <2>1, <2>2 DEF GoodWith, Good, n
<1> HIDE DEF V
<1>2. /\ base \in V
      /\ <<0, base>> \in W
      /\ \A k \in 1 .. Len(seq) : \A acc \in V :
           <<k - 1, acc>> \in W => <<k, WithListed(acc, p, seq[k], info, order)>> \in W
  BY <1>1 DEF V
<1> HIDE DEF W
<1>3. UpdateAll(p, info, order, base, seq) \in V
  BY <1>1, <1>2, UpdateFolds
<1> QED
  BY <1>3 DEF V

\* The synthetic node loses the Writers that are transferred, in the order of seq.
TransferAll(p, base, seq) == FoldLeft(LAMBDA acc, w : Transfer(acc, p, w), base, seq)

\* What each of these steps keeps, they all keep.
LEMMA TransferFolds ==
  ASSUME NEW p, NEW S, NEW seq \in Seq(S), NEW V, NEW base \in V,
         \A acc \in V : \A i \in 1 .. Len(seq) : Transfer(acc, p, seq[i]) \in V
  PROVE  TransferAll(p, base, seq) \in V
<1> DEFINE Step(acc, w) == Transfer(acc, p, w)
           W == Nat \X V
           len == Len(seq)
           D == 1 .. len
           P(h) == h = [t \in SUBSET (DOMAIN seq) |->
                          IF t = {} THEN base ELSE Step(h[t \ {Max(t)}], seq[Max(t)])]
           iter == CHOOSE h : P(h)
           step == [x \in D \X V |-> Step(x[2], seq[x[1]])]
<1>1. TransferAll(p, base, seq) = iter[DOMAIN seq]
  BY DEF TransferAll, FoldLeft, MapThenFoldSet
<1>2. DOMAIN seq = D /\ Len(seq) \in Nat
  OBVIOUS
<1>3. \A acc, x : Step(acc, x) = Transfer(acc, p, x)
  OBVIOUS
<1> HIDE DEF Step
<1>4. step \in [D \X V -> V]
  BY <1>2, <1>3
<1>5. PICK g \in [SUBSET D -> V] : Folded(g, Len(seq), base, step)
  <2> HIDE DEF step
  <2> QED
    BY <1>2, <1>4, SequenceFold
<1>6. ASSUME NEW t \in SUBSET D, t # {}, NEW f, f[t \ {Max(t)}] \in V
      PROVE  step[<<Max(t), f[t \ {Max(t)}]>>] = Step(f[t \ {Max(t)}], seq[Max(t)])
  <2>1. Max(t) \in D
    BY <1>2, <1>6, LastPosition
  <2> QED
    BY <1>6, <2>1
<1>7. P(g)
  <2> SUFFICES ASSUME NEW t \in SUBSET D, t # {}
               PROVE  g[t] = Step(g[t \ {Max(t)}], seq[Max(t)])
    BY <1>2, <1>5 DEF Folded
  <2>1. g[t] = step[<<Max(t), g[t \ {Max(t)}]>>]
    BY <1>5 DEF Folded
  <2> HIDE DEF step
  <2> QED
    BY <1>6, <2>1
<1>8. P(iter)
  <2> HIDE DEF P
  <2> QED
    BY <1>7
<1> HIDE DEF iter
<1>9. /\ iter[{}] = base
      /\ \A t \in SUBSET D : t # {} => iter[t] = Step(iter[t \ {Max(t)}], seq[Max(t)])
  BY <1>2, <1>8
<1>10. \A t \in SUBSET D :
         t # {} /\ iter[t \ {Max(t)}] \in V
           => iter[t] = step[<<Max(t), iter[t \ {Max(t)}]>>]
  <2> HIDE DEF step, P, W, len
  <2> QED
    BY <1>6, <1>9
<1>11. /\ <<0, base>> \in W
       /\ \A k \in D : \A x \in V : <<k - 1, x>> \in W => <<k, step[<<k, x>>]>> \in W
  BY <1>2, <1>4
<1>12. iter[D] \in V /\ <<len, iter[D]>> \in W
  <2> HIDE DEF step, P, W, len
  <2>1. Iterates(iter, len, base, step, V)
    BY <1>9, <1>10 DEF Iterates
  <2>2. Maintains(W, len, step, V)
    BY <1>11 DEF Maintains
  <2>3. len \in Nat /\ base \in V /\ <<0, base>> \in W
    BY <1>2, <1>11 DEF len
  <2> QED
    BY <1>4, <2>1, <2>2, <2>3, SequenceFoldKeeps
<1> QED
  BY <1>1, <1>2, <1>12

\* They all stay good.
LEMMA AllTransferred ==
  ASSUME WorldOk, NEW p, NEW base \in GoodWith(p), NEW seq \in Seq(Gids)
  PROVE  TransferAll(p, base, seq) \in GoodWith(p)
<1>1. ASSUME NEW acc \in GoodWith(p), NEW i \in 1 .. Len(seq)
      PROVE  Transfer(acc, p, seq[i]) \in GoodWith(p)
  <2> DEFINE w == seq[i]
  <2>1. w \in Gids /\ Good(acc) /\ p \in DOMAIN acc.nodes
    BY DEF GoodWith
  <2> HIDE DEF w
  <2>2. Good(Transfer(acc, p, w)) /\ DOMAIN Transfer(acc, p, w).nodes = DOMAIN acc.nodes
    BY <2>1, TransferGood
  <2> QED
    BY <2>1, <2>2 DEF GoodWith, Good, w
<1> QED
  BY <1>1, TransferFolds

\* What the last sample of a participant lists, and the nodes that it no longer lists.
InfoOf(p) == declared \cap EndsOf(p)
Listed(p) == {EntityOf(g).node : g \in InfoOf(p)}
LostOf(own, p) == {n \in DOMAIN own : ~is_orphan_node_name(n) /\ n \notin Listed(p)}

\* The others are retained.
Retained(s, p) ==
  LET own == OwnNodes(s.nodes, p)
      lost == LostOf(own, p)
  IN  [nodes |-> Inserted(s.nodes, p, Restrict(own, DOMAIN own \ lost)),
       admin |-> s.admin \ {<<"node", p, n>> : n \in lost},
       evts |-> s.evts \o SetToSeq(LostEvents(own, lost))]

\* The listed nodes, up to the first one whose name is refused, and the Writers that
\* they share with the synthetic node.
Queue(p, nodeOrder) == Chosen(nodeOrder, Listed(p))
Accepted(p, nodeOrder) ==
  {i \in DOMAIN Queue(p, nodeOrder) : \A j \in 1 .. i : Queue(p, nodeOrder)[j] \notin BadNodes}
Updated(s, p, order, nodeOrder) ==
  UpdateAll(p, InfoOf(p), order, Retained(s, p),
            Subsequence(Queue(p, nodeOrder), Accepted(p, nodeOrder)))
Transferred(s, p, nodeOrder) ==
  {w \in OrphanOwned(Retained(s, p).nodes, p) \cap InfoOf(p) :
     \E i \in Accepted(p, nodeOrder) : Queue(p, nodeOrder)[i] = EntityOf(w).node}

\* A sample is read in these steps.
LEMMA SampleRead ==
  ASSUME NEW s, NEW p, NEW order, NEW nodeOrder
  PROVE  update_participant_info(s, p, order, nodeOrder)
           = TransferAll(p, Updated(s, p, order, nodeOrder),
                         Chosen(order, Transferred(s, p, nodeOrder)))
BY DEF update_participant_info, UpdateAll, TransferAll, FoldLeft, MapThenFoldSet, Updated,
   Transferred, Retained, Queue, Accepted, InfoOf, Listed, LostOf, OwnNodes, LostEvents

\* What is retained is good, and the events tell what is lost.
LEMMA RetainedGood ==
  ASSUME WorldOk, NEW s, Good(s), NEW p \in Participants
  PROVE  /\ Retained(s, p) \in GoodWith(p)
         /\ Forgets(s.nodes, p, LostOf(OwnNodes(s.nodes, p), p),
                    SetToSeq(LostEvents(OwnNodes(s.nodes, p), LostOf(OwnNodes(s.nodes, p), p))))
<1> DEFINE nodes == OwnNodes(s.nodes, p)
           lost == LostOf(nodes, p)
           after == Inserted(s.nodes, p, Restrict(nodes, DOMAIN nodes \ lost))
           events == SetToSeq(LostEvents(nodes, lost))
           retained == [nodes |-> after, admin |-> s.admin \ {<<"node", p, n>> : n \in lost},
                        evts |-> s.evts \o events]
<1>1. NodesGood(s.nodes, readers, writers) /\ s.nodes \in NodeMaps
  BY DEF Good, NodesGood
<1>2. nodes \in Maps(NodeNames, Nodes)
  BY <1>1, NodesOf, EmptyMap DEF OwnNodes
<1>3. \A n \in DOMAIN nodes : /\ <<p, n>> \in IdsOf(s.nodes) /\ nodes[n] = s.nodes[p][n]
                              /\ n \in NamesOf(p) /\ nodes[n].fullname = n
  <2> SUFFICES ASSUME NEW n \in DOMAIN nodes
               PROVE  /\ <<p, n>> \in IdsOf(s.nodes) /\ nodes[n] = s.nodes[p][n]
                      /\ n \in NamesOf(p) /\ nodes[n].fullname = n
    OBVIOUS
  <2>1. p \in DOMAIN s.nodes
    BY EmptyMap DEF OwnNodes
  <2>2. <<p, n>> \in IdsOf(s.nodes) /\ nodes[n] = s.nodes[p][n]
    BY <1>1, <2>1, NodesOf DEF OwnNodes
  <2>3. <<p, n>>[1] = p /\ <<p, n>>[2] = n
    OBVIOUS
  <2> HIDE DEF nodes
  <2> QED
    BY <1>1, <2>2, <2>3 DEF NodesGood, NodeGood, NodeOk
<1>4. lost \in SUBSET NamesOf(p) /\ lost \in SUBSET (DOMAIN nodes)
  BY <1>3 DEF LostOf
<1>5. after \in NodeMaps /\ p \in DOMAIN after /\ Drops(s.nodes, p, lost, after)
  BY <1>1, OwnRestricted
<1>6. Forgets(s.nodes, p, lost, events)
  <2>1. \A n \in lost : /\ nodes[n].fullname = n
                        /\ HadShown(s.nodes, p, n) \subseteq ShownOf(n, nodes[n])
    BY <1>3, <1>4 DEF HadShown
  <2> HIDE DEF nodes, lost
  <2> QED
    BY <1>2, <1>4, <2>1, LostTold
<1>7. Retained(s, p) = retained
  BY DEF Retained
<1> HIDE DEF after, lost, events
<1>8. Good(retained)
  BY <1>4, <1>5, <1>6, DroppedGood
<1>9. retained.nodes = after
  OBVIOUS
<1> HIDE DEF retained
<1>10. Retained(s, p) \in GoodWith(p)
  BY <1>5, <1>7, <1>8, <1>9 DEF GoodWith, Good
<1> QED
  BY <1>6, <1>10 DEF events, lost, nodes

\* The accepted nodes are listed, each in its place.
LEMMA AcceptedNodes ==
  ASSUME NEW p, NEW nodeOrder \in Seq(STRING)
  PROVE  LET queue == Queue(p, nodeOrder)
             seq == Subsequence(queue, Accepted(p, nodeOrder))
         IN  seq \in Seq(Listed(p)) /\ Selected(seq, queue, Accepted(p, nodeOrder))
<1>1. Queue(p, nodeOrder) \in Seq(STRING \cap Listed(p))
  BY ChosenElements DEF Queue
<1>2. Queue(p, nodeOrder) \in Seq(Listed(p))
  BY <1>1
<1> QED
  BY <1>2, SubsequenceElements

\* The nodes that are updated are good.
LEMMA UpdatedGood ==
  ASSUME WorldOk, DeclaredOk, NEW s, Good(s), NEW p \in Participants,
         NEW order \in Seq(Gids), NEW nodeOrder \in Seq(STRING)
  PROVE  Updated(s, p, order, nodeOrder) \in GoodWith(p)
<1> DEFINE seq == Subsequence(Queue(p, nodeOrder), Accepted(p, nodeOrder))
           info == InfoOf(p)
<1>1. seq \in Seq({EntityOf(g).node : g \in info})
  BY AcceptedNodes DEF Listed
<1>2. info \in SUBSET (declared \cap EndsOf(p)) /\ Retained(s, p) \in GoodWith(p)
  BY RetainedGood DEF InfoOf
<1> HIDE DEF seq, info
<1>3. UpdateAll(p, info, order, Retained(s, p), seq) \in GoodWith(p)
  BY <1>1, <1>2, AllUpdated
<1> QED
  BY <1>3 DEF Updated, seq, info

\* The sample of a participant is read.
LEMMA ParticipantUpdated ==
  ASSUME WorldOk, DeclaredOk, NEW s, Good(s), NEW p \in Participants,
         NEW order \in Seq(Gids), NEW nodeOrder \in Seq(STRING)
  PROVE  Good(update_participant_info(s, p, order, nodeOrder))
<1> DEFINE set == Transferred(s, p, nodeOrder)
<1>1. Chosen(order, set) \in Seq(Gids)
  <2>1. Chosen(order, set) \in Seq(Gids \cap set)
    BY ChosenElements
  <2> QED
    BY <2>1
<1>2. TransferAll(p, Updated(s, p, order, nodeOrder), Chosen(order, set)) \in GoodWith(p)
  BY <1>1, UpdatedGood, AllTransferred
<1> QED
  BY <1>2, SampleRead DEF GoodWith

\* A node that waits for the endpoints of seq is updated with them.
PendingAll(s, id, seq) ==
  LET Pending(t, g) ==
        LET old == t.nodes[id[1]][id[2]]
            list == undiscovered(g)
        IN  WithNode(t, id[1], id[2],
                     update_with([old EXCEPT ![list] = old[list] \ {g}], g))
  IN  FoldLeft(Pending, s, seq)

\* No endpoint updates no node.
LEMMA NothingPending ==
  ASSUME NEW s, NEW id
  PROVE  PendingAll(s, id, <<>>) = s
<1> DEFINE Pending(t, g) ==
             LET old == t.nodes[id[1]][id[2]]
                 list == undiscovered(g)
             IN  WithNode(t, id[1], id[2],
                          update_with([old EXCEPT ![list] = old[list] \ {g}], g))
           seq == <<>>
           D == DOMAIN seq
           P(h) == h = [t \in SUBSET D |-> IF t = {} THEN s
                          ELSE Pending(h[t \ {Max(t)}], seq[Max(t)])]
           iter == CHOOSE h : P(h)
           g == [t \in SUBSET D |-> s]
<1>1. PendingAll(s, id, <<>>) = iter[D]
  BY DEF PendingAll, FoldLeft, MapThenFoldSet
<1>2. D = {}
  OBVIOUS
<1> HIDE DEF D, Pending, seq
<1>3. P(g)
  BY <1>2
<1>4. P(iter)
  <2> HIDE DEF P
  <2> QED
    BY <1>3
<1>5. iter[D] = s
  <2> HIDE DEF iter
  <2> QED
    BY <1>2, <1>4
<1> QED
  BY <1>1, <1>5

\* No node waits for what was announced, so that nothing is pending.
LEMMA PendingGood ==
  ASSUME WorldOk, NEW base, Good(base), NEW order \in Seq(Gids)
  PROVE  resolve_pending_endpoints(base, order) = base
<1> DEFINE OfNode(acc, id) ==
             LET node == acc.nodes[id[1]][id[2]]
                 rs == Chosen(order, node.undiscovered_reader \cap readers)
                 ws == Chosen(order, node.undiscovered_writer \cap writers)
             IN  PendingAll(acc, id, rs \o ws)
           ids == UNION {{p} \X DOMAIN base.nodes[p] : p \in DOMAIN base.nodes}
           V == {base}
           P(h) == h = [t \in SUBSET ids |-> IF t = {} THEN base
                          ELSE OfNode(h[t \ {CHOOSE x \in t : TRUE}],
                                       CHOOSE x \in t : TRUE)]
           iter == CHOOSE h : P(h)
           pick == [t \in SUBSET ids |-> Picked(t)]
           step == [x \in ids \X V |-> OfNode(x[2], x[1])]
<1>1. resolve_pending_endpoints(base, order) = iter[ids]
  BY DEF resolve_pending_endpoints, PendingAll, FoldLeft, FoldSet, MapThenFoldSet
<1>2. base \in V
  OBVIOUS
<1>9. \A id \in ids : id \in IdsOf(base.nodes)
  <2>1. base.nodes \in NodeMaps
    BY DEF Good, PollStates
  <2> SUFFICES ASSUME NEW p \in DOMAIN base.nodes, NEW n \in DOMAIN base.nodes[p]
               PROVE  <<p, n>> \in IdsOf(base.nodes)
    OBVIOUS
  <2> QED
    BY <2>1, NodesOf
<1>10. IsFiniteSet(ids)
  <2>1. IsFiniteSet(Participants \X NodeNames)
    BY NodesFinite, FS_Product
  <2>2. ids \in SUBSET (Participants \X NodeNames)
    BY <1>9 DEF IdsOf
  <2> HIDE DEF ids
  <2> QED
    BY <2>1, <2>2, FS_Subset
<1> HIDE DEF ids
<1>3. IsFiniteSet(ids) /\ \A t \in SUBSET ids : t # {} => Picked(t) \in t
  BY <1>10, PickedElement
<1>4. ASSUME NEW acc \in V, NEW x \in ids PROVE OfNode(acc, x) \in V
  <2> DEFINE node == base.nodes[x[1]][x[2]]
  <2>1. /\ node.undiscovered_reader \cap readers = {}
        /\ node.undiscovered_writer \cap writers = {}
    BY <1>9 DEF Good, NodesGood, NodeGood
  <2>2. Chosen(order, {}) = <<>>
    <3>1. Chosen(order, {}) \in Seq(Gids \cap {})
      BY ChosenElements
    <3> QED
      BY <3>1
  <2>3. <<>> \o <<>> = <<>>
    OBVIOUS
  <2>4. OfNode(base, x) = PendingAll(base, x, <<>>)
    BY <2>1, <2>2, <2>3
  <2> HIDE DEF OfNode
  <2> QED
    BY <2>4, NothingPending
<1> HIDE DEF V, OfNode
<1>5. PICK g \in [SUBSET ids -> V] : IsFold(g, ids, base, pick, step)
  <2>1. \A t \in SUBSET ids : t # {} => pick[t] \in t
    BY <1>3
  <2>2. step \in [ids \X V -> V]
    BY <1>4
  <2> HIDE DEF pick, step
  <2> QED
    BY <1>2, <1>3, <2>1, <2>2, FoldExists
<1>6. P(g)
  <2> SUFFICES ASSUME NEW t \in SUBSET ids, t # {}
               PROVE  g[t] = OfNode(g[t \ {Picked(t)}], Picked(t))
    BY <1>5 DEF IsFold, Picked
  <2>1. Picked(t) \in ids /\ g[t \ {Picked(t)}] \in V /\ pick[t] = Picked(t)
    BY <1>3
  <2>2. g[t] = step[<<pick[t], g[t \ {pick[t]}]>>]
    BY <1>5 DEF IsFold
  <2> QED
    BY <2>1, <2>2
<1>7. P(iter)
  <2> HIDE DEF P
  <2> QED
    BY <1>6
<1>8. iter[ids] \in V
  <2> HIDE DEF iter
  <2>1. iter[{}] \in V
    BY <1>2, <1>7
  <2>2. ASSUME NEW t \in SUBSET ids, t # {}
        PROVE  pick[t] \in t /\ (iter[t \ {pick[t]}] \in V => iter[t] \in V)
    <3>1. pick[t] = Picked(t) /\ Picked(t) \in t /\ Picked(t) \in ids
      BY <1>3, <2>2
    <3>2. iter[t] = OfNode(iter[t \ {Picked(t)}], Picked(t))
      BY <1>7, <2>2 DEF Picked
    <3> QED
      BY <1>4, <3>1, <3>2
  <2> HIDE DEF pick
  <2> QED
    BY <1>3, <2>1, <2>2, FoldKeeps
<1> QED
  BY <1>1, <1>8 DEF V

\* A message Writer that no node has, or waits for, goes to the synthetic node.
Claimed(acc, w) ==
  LET p == EntityOf(w).participant
      n == OrphanNode(p)
      known == p \in DOMAIN acc.nodes
      node == IF known /\ n \in DOMAIN acc.nodes[p] THEN acc.nodes[p][n] ELSE create(n)
  IN  WithNode(IF known THEN acc ELSE [acc EXCEPT !.nodes = Inserted(acc.nodes, p, <<>>)],
               p, n, update_with_writer(node, EntityOf(w)))

\* The state in which participant p has nodes, maybe none.
BaseFor(s, p) ==
  IF p \in DOMAIN s.nodes THEN s ELSE [s EXCEPT !.nodes = Inserted(s.nodes, p, <<>>)]

\* It is as good, and the Writer is claimed in it.
LEMMA ClaimBase ==
  ASSUME NEW s, Good(s), NEW w \in Gids
  PROVE  LET p == EntityOf(w).participant
             n == OrphanNode(p)
             base == BaseFor(s, p)
         IN  /\ Good(base) /\ p \in DOMAIN base.nodes
             /\ Claimed(s, w) = WithNode(base, p, n, update_with_writer(NodeIn(base.nodes, p, n),
                                                                        EntityOf(w)))
<1> DEFINE p == EntityOf(w).participant
           n == OrphanNode(p)
           base == IF p \in DOMAIN s.nodes THEN s
                   ELSE [s EXCEPT !.nodes = Inserted(s.nodes, p, <<>>)]
           node == NodeIn(base.nodes, p, n)
           u == update_with_writer(node, EntityOf(w))
<1>0. p \in Participants /\ s.nodes \in NodeMaps /\ s.evts \in Seq(Evs)
  BY DEF Participants, Good, PollStates
<1>1. Good(base) /\ p \in DOMAIN base.nodes /\ Claimed(s, w) = WithNode(base, p, n, u)
  <2>1. CASE p \in DOMAIN s.nodes
    <3>1. base = s
      BY <2>1
    <3>2. node = IF p \in DOMAIN s.nodes /\ n \in DOMAIN s.nodes[p] THEN s.nodes[p][n]
                 ELSE create(n)
      BY <2>1, <3>1 DEF NodeIn
    <3>3. Claimed(s, w) = WithNode(base, p, n, u)
      <4> HIDE DEF base
      <4> QED
        BY <2>1, <3>1, <3>2 DEF Claimed
    <3> QED
      BY <2>1, <3>1, <3>3
  <2>2. CASE p \notin DOMAIN s.nodes
    <3> DEFINE after == Inserted(s.nodes, p, <<>>)
               r == [nodes |-> after, admin |-> s.admin \ {<<"node", p, m>> : m \in {}},
                     evts |-> s.evts \o <<>>]
    <3>1. OwnNodes(s.nodes, p) = <<>> /\ Restrict(<<>>, DOMAIN <<>> \ {}) = <<>>
      BY <2>2 DEF OwnNodes, Restrict
    <3>2. after \in NodeMaps /\ p \in DOMAIN after /\ Drops(s.nodes, p, {}, after)
      <4>1. after = Inserted(s.nodes, p, Restrict(OwnNodes(s.nodes, p),
                                                  DOMAIN OwnNodes(s.nodes, p) \ {}))
        BY <3>1
      <4> HIDE DEF after
      <4> QED
        BY <1>0, <4>1, OwnRestricted
    <3>3. Forgets(s.nodes, p, {}, <<>>)
      BY DEF Forgets
    <3>4. after[p] = <<>>
      BY DEF Inserted
    <3> HIDE DEF after
    <3>5. Good(r)
      <4>1. {} \in SUBSET NamesOf(p)
        OBVIOUS
      <4> QED
        BY <1>0, <3>2, <3>3, <4>1, DroppedGood
    <3>6. s.evts \o <<>> = s.evts /\ s.admin \ {<<"node", p, m>> : m \in {}} = s.admin
      BY <1>0
    <3>7. s = [nodes |-> s.nodes, admin |-> s.admin, evts |-> s.evts]
      BY DEF Good, PollStates
    <3>8. r = [s EXCEPT !.nodes = after]
      <4>1. \A x, a, b, c, d :
              x = [nodes |-> a, admin |-> b, evts |-> c]
                => [x EXCEPT !.nodes = d] = [nodes |-> d, admin |-> b, evts |-> c]
        OBVIOUS
      <4>2. [s EXCEPT !.nodes = after] = [nodes |-> after, admin |-> s.admin, evts |-> s.evts]
        BY <3>7, <4>1
      <4> QED
        BY <3>6, <4>2
    <3>9. base = r
      BY <2>2, <3>8 DEF after
    <3>10. r.nodes = after
      OBVIOUS
    <3>11. node = IF p \in DOMAIN s.nodes /\ n \in DOMAIN s.nodes[p] THEN s.nodes[p][n]
                  ELSE create(n)
      <4> HIDE DEF base, r
      <4> QED
        BY <2>2, <3>4, <3>9, <3>10 DEF NodeIn
    <3>12. Claimed(s, w) = WithNode(base, p, n, u)
      <4>1. base = [s EXCEPT !.nodes = Inserted(s.nodes, p, <<>>)]
        BY <2>2
      <4> HIDE DEF base
      <4> QED
        BY <2>2, <3>11, <4>1 DEF Claimed
    <3> HIDE DEF base, r
    <3> QED
      BY <3>2, <3>5, <3>9, <3>10, <3>12
  <2> QED
    BY <2>1, <2>2
<1>2. base = BaseFor(s, p)
  BY DEF BaseFor
<1> HIDE DEF base
<1> QED
  BY <1>1, <1>2

\* It is told of.
LEMMA ClaimedGood ==
  ASSUME WorldOk, NEW s, Good(s), NEW w \in Gids, IsWriter(w), IsMessage(w)
  PROVE  Good(Claimed(s, w))
<1> DEFINE p == EntityOf(w).participant
           n == OrphanNode(p)
           base == BaseFor(s, p)
           node == NodeIn(base.nodes, p, n)
           u == update_with_writer(node, EntityOf(w))
<1>1. p \in Participants
  BY DEF Participants
<1>2. Good(base) /\ p \in DOMAIN base.nodes /\ Claimed(s, w) = WithNode(base, p, n, u)
  BY ClaimBase
<1> HIDE DEF base
<1>3. n \in NamesOf(p) /\ n \in NodeNames /\ Mine(p, n, w)
  BY <1>1 DEF NamesOf, NodeNames, Mine
<1>4. NodesGood(base.nodes, readers, writers)
  BY <1>2 DEF Good
<1>5. NodeGood(p, n, node, readers, writers) /\ HadShown(base.nodes, p, n) = ShownOf(n, node)
  BY <1>2, <1>3, <1>4, NodeInGood
<1> HIDE DEF p, n, node
<1>6. UpdateOk(p, n, node, u)
  <2>1. UpdateOk(p, n, node, update_with(node, w))
    BY <1>3, <1>5, UpdatedWith DEF NodeGood
  <2> QED
    BY <2>1 DEF update_with
<1> HIDE DEF u
<1>7. NodeGood(p, n, u.node, readers, writers)
  BY <1>5, <1>6 DEF NodeGood, UpdateOk, Lists
<1>8. Follows(n, HadShown(base.nodes, p, n), ShownOf(n, u.node), u.evts)
  BY <1>3, <1>5, <1>6, FollowsFound DEF UpdateOk
<1> QED
  BY <1>2, <1>3, <1>7, <1>8, WithNodeGood

\* The Writers that DDS has told of.
WritersOk == writers \subseteq {g \in Gids : IsWriter(g)}

\* The states of a poll that are good.
GoodStates == {acc \in PollStates : Good(acc)}

\* The Writers that are due for their synthetic nodes, in the order in which they are met.
Due(base, order) ==
  Chosen(order, {w \in orphan_candidates(base) : FirstSeen(w) >= ORPHAN_GRACE_PERIOD})

\* What each of them keeps, they all keep.
LEMMA ClaimFolds ==
  ASSUME NEW order, NEW base, NEW S, NEW seq \in Seq(S), seq = Due(base, order), NEW V, base \in V,
         \A acc \in V : \A i \in 1 .. Len(seq) : Claimed(acc, seq[i]) \in V
  PROVE  forward_orphan_writers(base, order) \in V
<1> DEFINE Step(acc, w) ==
             LET p == EntityOf(w).participant
                 n == OrphanNode(p)
                 known == p \in DOMAIN acc.nodes
                 node == IF known /\ n \in DOMAIN acc.nodes[p] THEN acc.nodes[p][n]
                         ELSE create(n)
             IN  WithNode(IF known THEN acc
                          ELSE [acc EXCEPT !.nodes = Inserted(acc.nodes, p, <<>>)],
                          p, n, update_with_writer(node, EntityOf(w)))
           W == Nat \X V
           len == Len(seq)
           D == 1 .. len
           P(h) == h = [t \in SUBSET (DOMAIN seq) |->
                          IF t = {} THEN base ELSE Step(h[t \ {Max(t)}], seq[Max(t)])]
           iter == CHOOSE h : P(h)
           step == [x \in D \X V |-> Step(x[2], seq[x[1]])]
<1>1. forward_orphan_writers(base, order) = iter[DOMAIN seq]
  BY DEF forward_orphan_writers, FoldLeft, MapThenFoldSet, Due
<1>2. DOMAIN seq = D /\ Len(seq) \in Nat
  OBVIOUS
<1>3. \A acc, x : Step(acc, x) = Claimed(acc, x)
  BY DEF Claimed
<1> HIDE DEF Step
<1>4. step \in [D \X V -> V]
  BY <1>2, <1>3
<1>5. PICK g \in [SUBSET D -> V] : Folded(g, Len(seq), base, step)
  <2> HIDE DEF step
  <2> QED
    BY <1>2, <1>4, SequenceFold
<1>6. ASSUME NEW t \in SUBSET D, t # {}, NEW f, f[t \ {Max(t)}] \in V
      PROVE  step[<<Max(t), f[t \ {Max(t)}]>>] = Step(f[t \ {Max(t)}], seq[Max(t)])
  <2>1. Max(t) \in D
    BY <1>2, <1>6, LastPosition
  <2> QED
    BY <1>6, <2>1
<1>7. P(g)
  <2> SUFFICES ASSUME NEW t \in SUBSET D, t # {}
               PROVE  g[t] = Step(g[t \ {Max(t)}], seq[Max(t)])
    BY <1>2, <1>5 DEF Folded
  <2>1. g[t] = step[<<Max(t), g[t \ {Max(t)}]>>]
    BY <1>5 DEF Folded
  <2> HIDE DEF step
  <2> QED
    BY <1>6, <2>1
<1>8. P(iter)
  <2> HIDE DEF P
  <2> QED
    BY <1>7
<1> HIDE DEF iter
<1>9. /\ iter[{}] = base
      /\ \A t \in SUBSET D : t # {} => iter[t] = Step(iter[t \ {Max(t)}], seq[Max(t)])
  BY <1>2, <1>8
<1>10. \A t \in SUBSET D :
         t # {} /\ iter[t \ {Max(t)}] \in V
           => iter[t] = step[<<Max(t), iter[t \ {Max(t)}]>>]
  <2> HIDE DEF step, P, W, len
  <2> QED
    BY <1>6, <1>9
<1>11. /\ <<0, base>> \in W
       /\ \A k \in D : \A x \in V : <<k - 1, x>> \in W => <<k, step[<<k, x>>]>> \in W
  BY <1>2, <1>4
<1>12. iter[D] \in V /\ <<len, iter[D]>> \in W
  <2> HIDE DEF step, P, W, len
  <2>1. Iterates(iter, len, base, step, V)
    BY <1>9, <1>10 DEF Iterates
  <2>2. Maintains(W, len, step, V)
    BY <1>11 DEF Maintains
  <2>3. len \in Nat /\ base \in V /\ <<0, base>> \in W
    BY <1>2, <1>11 DEF len
  <2> QED
    BY <1>4, <2>1, <2>2, <2>3, SequenceFoldKeeps
<1> QED
  BY <1>1, <1>2, <1>12

\* They are Writers of messages.
LEMMA DueWriters ==
  ASSUME WritersOk, NEW base, NEW order \in Seq(Gids)
  PROVE  Due(base, order) \in Seq({w \in Gids : IsWriter(w) /\ IsMessage(w)})
<1> DEFINE due == {w \in orphan_candidates(base) : FirstSeen(w) >= ORPHAN_GRACE_PERIOD}
<1>1. Due(base, order) \in Seq(Gids \cap due)
  BY ChosenElements DEF Due
<1>2. Gids \cap due \subseteq {w \in Gids : IsWriter(w) /\ IsMessage(w)}
  BY DEF orphan_candidates, WritersOk
<1> HIDE DEF due
<1> QED
  BY <1>1, <1>2

\* The Writers that are due go to their synthetic nodes.
LEMMA OrphansGood ==
  ASSUME WorldOk, WritersOk, NEW base \in GoodStates, NEW order \in Seq(Gids)
  PROVE  forward_orphan_writers(base, order) \in GoodStates
<1> DEFINE seq == Due(base, order)
<1>1. seq \in Seq({w \in Gids : IsWriter(w) /\ IsMessage(w)})
  BY DueWriters
<1> HIDE DEF seq
<1>2. ASSUME NEW acc \in GoodStates, NEW i \in 1 .. Len(seq)
      PROVE  Claimed(acc, seq[i]) \in GoodStates
  <2> DEFINE w == seq[i]
  <2>1. w \in Gids /\ IsWriter(w) /\ IsMessage(w) /\ Good(acc)
    BY <1>1 DEF GoodStates
  <2> HIDE DEF w
  <2>2. Good(Claimed(acc, w))
    BY <2>1, ClaimedGood
  <2> QED
    BY <2>2 DEF GoodStates, Good, w
<1> QED
  BY <1>1, <1>2, ClaimFolds DEF seq

\* The samples of the participants of box are read.
Informed(base, box, order, nodeOrder) ==
  FoldSet(LAMBDA p, s : update_participant_info(s, p, order, nodeOrder), base, box)

\* What each sample keeps, they all keep.
LEMMA InformFolds ==
  ASSUME WorldOk, NEW box \in SUBSET Participants, NEW order, NEW nodeOrder,
         NEW V, NEW base \in V,
         \A acc \in V : \A p \in box : update_participant_info(acc, p, order, nodeOrder) \in V,
         NEW W, <<{}, base>> \in W,
         \A t \in SUBSET box : \A p \in t : \A acc \in V :
           <<t \ {p}, acc>> \in W
             => <<t, update_participant_info(acc, p, order, nodeOrder)>> \in W
  PROVE  /\ Informed(base, box, order, nodeOrder) \in V
         /\ <<box, Informed(base, box, order, nodeOrder)>> \in W
<1> DEFINE Update(acc, p) == update_participant_info(acc, p, order, nodeOrder)
           P(h) == h = [t \in SUBSET box |-> IF t = {} THEN base
                          ELSE Update(h[t \ {CHOOSE x \in t : TRUE}],
                                       CHOOSE x \in t : TRUE)]
           iter == CHOOSE h : P(h)
           pick == [t \in SUBSET box |-> Picked(t)]
           step == [x \in box \X V |-> Update(x[2], x[1])]
           pairs == [t \in SUBSET box |-> <<t, iter[t]>>]
           U == {x \in (SUBSET box) \X V : x \in W}
<1>1. Informed(base, box, order, nodeOrder) = iter[box]
  BY DEF Informed, FoldSet, MapThenFoldSet
<1>2. IsFiniteSet(box)
  BY NodesFinite, FS_Subset
<1>3. \A t \in SUBSET box : t # {} => Picked(t) \in t
  BY PickedElement
<1>4. /\ \A acc \in V : \A p \in box : Update(acc, p) \in V
      /\ \A t \in SUBSET box : \A p \in t : \A acc \in V :
           <<t \ {p}, acc>> \in W => <<t, Update(acc, p)>> \in W
  OBVIOUS
<1> HIDE DEF Update
<1>5. PICK g \in [SUBSET box -> V] : IsFold(g, box, base, pick, step)
  <2>1. \A t \in SUBSET box : t # {} => pick[t] \in t
    BY <1>3
  <2>2. step \in [box \X V -> V]
    BY <1>4
  <2> HIDE DEF pick, step
  <2> QED
    BY <1>2, <2>1, <2>2, FoldExists
<1>6. P(g)
  <2> SUFFICES ASSUME NEW t \in SUBSET box, t # {}
               PROVE  g[t] = Update(g[t \ {Picked(t)}], Picked(t))
    BY <1>5 DEF IsFold, Picked
  <2>1. Picked(t) \in box /\ g[t \ {Picked(t)}] \in V /\ pick[t] = Picked(t)
    BY <1>3
  <2>2. g[t] = step[<<pick[t], g[t \ {pick[t]}]>>]
    BY <1>5 DEF IsFold
  <2> QED
    BY <2>1, <2>2
<1>7. P(iter)
  <2> HIDE DEF P
  <2> QED
    BY <1>6
<1>8. iter[{}] = base
  <2> HIDE DEF iter
  <2> QED
    BY <1>7
<1>9. \A t \in SUBSET box : t # {} => iter[t] = Update(iter[t \ {Picked(t)}], Picked(t))
  <2> HIDE DEF iter
  <2> QED
    BY <1>7 DEF Picked
<1> HIDE DEF iter, P
<1>10. pairs[{}] \in U
  BY <1>8
<1>11. ASSUME NEW t \in SUBSET box, t # {}
       PROVE  pick[t] \in t /\ (pairs[t \ {pick[t]}] \in U => pairs[t] \in U)
  <2> DEFINE x == Picked(t)
             rest == t \ {x}
  <2>1. pick[t] = x /\ x \in t /\ x \in box /\ rest \in SUBSET box
    BY <1>3, <1>11
  <2>2. iter[t] = Update(iter[rest], x)
    BY <1>9, <1>11
  <2>3. pairs[rest] = <<rest, iter[rest]>> /\ pairs[t] = <<t, iter[t]>>
    BY <2>1
  <2> HIDE DEF x
  <2>4. ASSUME pairs[rest] \in U PROVE pairs[t] \in U
    <3>1. <<rest, iter[rest]>> \in W /\ iter[rest] \in V
      BY <2>3, <2>4
    <3>2. iter[t] \in V /\ <<t, iter[t]>> \in W
      <4> DEFINE acc == iter[rest]
      <4>1. acc \in V /\ <<t \ {x}, acc>> \in W /\ iter[t] = Update(acc, x)
        BY <2>2, <3>1
      <4> HIDE DEF acc
      <4>2. Update(acc, x) \in V
        BY <1>4, <2>1, <4>1
      <4>3. <<t, Update(acc, x)>> \in W
        BY <1>4, <2>1, <4>1
      <4> QED
        BY <4>1, <4>2, <4>3
    <3> QED
      BY <2>3, <3>2
  <2> QED
    BY <2>1, <2>4
<1>12. pairs[box] \in U
  <2> HIDE DEF pairs, U, pick
  <2>1. \A t \in SUBSET box :
          t # {} => pick[t] \in t /\ (pairs[t \ {pick[t]}] \in U => pairs[t] \in U)
    BY <1>11
  <2> QED
    BY <1>2, <1>10, <2>1, FoldKeeps
<1>13. <<box, iter[box]>> \in U
  BY <1>12
<1> HIDE DEF pairs
<1> QED
  BY <1>1, <1>13

\* All stay good.
LEMMA InformedGood ==
  ASSUME WorldOk, DeclaredOk, NEW box \in SUBSET Participants,
         NEW base \in GoodStates, NEW order \in Seq(Gids), NEW nodeOrder \in Seq(STRING)
  PROVE  Informed(base, box, order, nodeOrder) \in GoodStates
<1> DEFINE W == (SUBSET box) \X GoodStates
<1>1. ASSUME NEW acc \in GoodStates, NEW p \in box
      PROVE  update_participant_info(acc, p, order, nodeOrder) \in GoodStates
  <2>1. Good(acc) /\ p \in Participants
    BY DEF GoodStates
  <2>2. Good(update_participant_info(acc, p, order, nodeOrder))
    BY <2>1, ParticipantUpdated
  <2> QED
    BY <2>2 DEF GoodStates, Good
<1>2. <<{}, base>> \in W
  OBVIOUS
<1>3. \A t \in SUBSET box : \A p \in t : \A acc \in GoodStates :
        <<t \ {p}, acc>> \in W
          => <<t, update_participant_info(acc, p, order, nodeOrder)>> \in W
  BY <1>1
<1> HIDE DEF W
<1> QED
  BY <1>1, <1>2, <1>3, InformFolds

-----------------------------------------------------------------------------
(* The steps.  What is said of the nodes is said of values, so that it carries over *)
(* to the next state of the same system.                                            *)

\* The nodes are good, the admin space lists them, and the events have told of them.
Tells(nodes, ps, ws, rs, admin, known) ==
  /\ NodesGood(nodes, rs, ws)
  /\ admin = AdminOf(nodes, ps, ws, rs)
  /\ NamesDisjoint => known = DiscoveredIn(nodes)

\* The endpoints of a system that stays are the same.
LEMMA SameEndpoints ==
  ASSUME world' = world
  PROVE  /\ Gids' = Gids /\ Participants' = Participants
         /\ \A g : /\ EntityOf(g)' = EntityOf(g) /\ IsWriter(g)' = IsWriter(g)
                   /\ IsMessage(g)' = IsMessage(g) /\ TopicName(g)' = TopicName(g)
         /\ \A p : EndsOf(p)' = EndsOf(p)
         /\ WorldOk' <=> WorldOk
<1>1. Gids' = Gids
  BY DEF Gids
<1>2. \A g : EntityOf(g)' = EntityOf(g)
  BY DEF EntityOf
<1>3. Participants' = Participants
  BY <1>1, <1>2 DEF Participants
<1>4. \A g : /\ IsWriter(g)' = IsWriter(g) /\ IsMessage(g)' = IsMessage(g)
             /\ TopicName(g)' = TopicName(g)
  BY <1>2 DEF IsWriter, IsMessage, TopicName
<1>5. \A p : EndsOf(p)' = EndsOf(p)
  BY <1>1, <1>2 DEF EndsOf
<1>6. WorldOk' <=> WorldOk
  BY <1>1, <1>2, <1>3 DEF WorldOk
<1> QED
  BY <1>1, <1>2, <1>3, <1>4, <1>5, <1>6

\* So are the nodes that it may have.
LEMMA SameNodes ==
  ASSUME world' = world
  PROVE  /\ NodeNames' = NodeNames /\ Names' = Names /\ Nodes' = Nodes
         /\ Keys' = Keys
         /\ \A p : NamesOf(p)' = NamesOf(p)
         /\ \A n : Own(n)' = Own(n)
         /\ NamesDisjoint' <=> NamesDisjoint
<1>1. /\ Gids' = Gids /\ Participants' = Participants
      /\ \A g : EntityOf(g)' = EntityOf(g) /\ TopicName(g)' = TopicName(g)
      /\ \A p : EndsOf(p)' = EndsOf(p)
  BY SameEndpoints
<1>2. NodeNames' = NodeNames /\ Names' = Names /\ Typs' = Typs
  BY <1>1 DEF NodeNames, Names, Typs
<1>3. Msgs' = Msgs /\ \A kind : CallsOf(kind)' = CallsOf(kind)
  BY <1>1, <1>2 DEF Msgs, Msg, CallsOf, Call
<1>4. Nodes' = Nodes
  BY <1>1, <1>2, <1>3 DEF Nodes
<1>5. Keys' = Keys
  BY <1>2 DEF Keys
<1>6. \A n : Own(n)' = Own(n)
  BY <1>5 DEF Own
<1>7. \A p : NamesOf(p)' = NamesOf(p)
  BY <1>1 DEF NamesOf
<1>8. NamesDisjoint' <=> NamesDisjoint
  BY <1>1, <1>7 DEF NamesDisjoint
<1> QED
  BY <1>2, <1>4, <1>5, <1>6, <1>7, <1>8

\* A node is as good in the next state.
LEMMA SameNode ==
  ASSUME world' = world, NEW p, NEW n, NEW node, NEW rs, NEW ws
  PROVE  /\ NodeGood(p, n, node, rs, ws)' <=> NodeGood(p, n, node, rs, ws)
         /\ ShownOf(n, node)' = ShownOf(n, node)
<1>1. /\ Nodes' = Nodes
      /\ \A m : Own(m)' = Own(m)
  BY SameNodes
<1>2. \A g : /\ EntityOf(g)' = EntityOf(g) /\ IsWriter(g)' = IsWriter(g)
             /\ IsMessage(g)' = IsMessage(g) /\ TopicName(g)' = TopicName(g)
  BY SameEndpoints
<1>3. \A g : Place(g)' = Place(g)
  <2>1. \A g : PlaceOf(EntityOf(g))' = PlaceOf(EntityOf(g)')
    OBVIOUS
  <2> QED
    BY <1>2, <2>1 DEF Place
<1>4. \A g : Mine(p, n, g)' <=> Mine(p, n, g)
  BY <1>2 DEF Mine
<1>5. \A g, t, kind, end : Placed(p, n, g, t, kind, end)' <=> Placed(p, n, g, t, kind, end)
  BY <1>2, <1>3, <1>4 DEF Placed
<1>6. \A g, writer : Waiting(p, n, g, writer)' <=> Waiting(p, n, g, writer)
  BY <1>2, <1>4 DEF Waiting
<1>7. NodeOk(p, n, node)' <=> NodeOk(p, n, node)
  BY <1>1, <1>5, <1>6 DEF NodeOk, MsgsPlaced, CallsPlaced
<1>8. ShownOf(n, node)' = ShownOf(n, node)
  BY <1>1 DEF ShownOf
<1> QED
  BY <1>7, <1>8 DEF NodeGood

\* The nodes that tell all in this state do so in the next one.
LEMMA TellsNext ==
  ASSUME world' = world, NEW nodes, NEW ps, NEW ws, NEW rs, NEW admin, NEW known,
         Tells(nodes, ps, ws, rs, admin, known)
  PROVE  Tells(nodes, ps, ws, rs, admin, known)'
<1>1. /\ Participants' = Participants /\ NodeNames' = NodeNames /\ Nodes' = Nodes
      /\ Keys' = Keys /\ (NamesDisjoint' <=> NamesDisjoint)
      /\ \A p : NamesOf(p)' = NamesOf(p)
  BY SameEndpoints, SameNodes
<1>2. NodeMaps' = NodeMaps
  BY <1>1 DEF NodeMaps
<1>3. IdsOf(nodes)' = IdsOf(nodes)
  BY <1>1 DEF IdsOf
<1>4. NodesGood(nodes, rs, ws)'
  <2>1. NodesGood(nodes, rs, ws)
    BY DEF Tells
  <2>2. \A id \in IdsOf(nodes) :
          NodeGood(id[1], id[2], nodes[id[1]][id[2]], rs, ws)
            => NodeGood(id[1], id[2], nodes[id[1]][id[2]], rs, ws)'
    BY SameNode
  <2> QED
    BY <1>1, <1>2, <1>3, <2>1, <2>2 DEF NodesGood
<1>5. AdminOf(nodes, ps, ws, rs)' = AdminOf(nodes, ps, ws, rs)
  BY <1>3 DEF AdminOf
<1>6. DiscoveredIn(nodes)' = DiscoveredIn(nodes)
  <2>1. \A id \in IdsOf(nodes) :
          ShownOf(id[2], nodes[id[1]][id[2]])' = ShownOf(id[2], nodes[id[1]][id[2]])
    BY SameNode
  <2> QED
    BY <1>1, <1>3, <2>1 DEF DiscoveredIn
<1> QED
  BY <1>1, <1>4, <1>5, <1>6 DEF Tells

\* The nodes that are known are those of the map.
LEMMA NodeIdsAre ==
  ASSUME nodes_info \in NodeMaps
  PROVE  NodeIds = IdsOf(nodes_info)
<1>1. \A p \in DOMAIN nodes_info : \A n \in DOMAIN nodes_info[p] :
        p \in Participants /\ n \in NodeNames
  BY NodesOf
<1>2. DOMAIN nodes_info \subseteq Participants
  BY MapFacts DEF NodeMaps
<1> QED
  BY <1>1, <1>2 DEF NodeIds, IdsOf

\* The event that the Writers on a topic have changed is about no interface.
Changes == {<<>>} \cup {<<[ev |-> "LocalWritersChanged", name |-> t]>> : t \in Names}
LEMMA ChangeTold ==
  ASSUME NEW known, NEW events \in Seq(Evs), NEW changed \in Changes
  PROVE  Known(known, events \o changed) = Known(known, events)
<1>1. CASE changed = <<>>
  BY <1>1
<1>2. ASSUME NEW t \in Names, changed = <<[ev |-> "LocalWritersChanged", name |-> t]>>
      PROVE  Known(known, events \o changed) = Known(known, events)
  <2> DEFINE e == [ev |-> "LocalWritersChanged", name |-> t]
             E == Evs \cup {e}
  <2>1. e.ev \notin {"Discovered", "Undiscovered"}
    OBVIOUS
  <2> HIDE DEF e
  <2>2. events \in Seq(E) /\ <<e>> \in Seq(E)
    OBVIOUS
  <2>3. Known(Known(known, events), <<e>>) = Known(known, events)
    BY <2>1, KnownOne
  <2> HIDE DEF E
  <2>4. Known(known, events \o <<e>>) = Known(Known(known, events), <<e>>)
    BY <2>2, KnownJoined
  <2> QED
    BY <1>2, <2>3, <2>4 DEF e
<1> QED
  BY <1>1, <1>2 DEF Changes

\* What a Writer that comes or goes is told of.
LEMMA ChangesOf ==
  ASSUME NEW g \in Gids
  PROVE  local_writers_changed(g) \in Changes /\ <<>> \in Changes
BY DEF local_writers_changed, Changes, Names

\* The nodes stay good when DDS has told of other endpoints that none waits for.
LEMMA NodesStayGood ==
  ASSUME NEW nodes, NEW rs, NEW ws, NodesGood(nodes, rs, ws), NEW rs2, NEW ws2,
         \A id \in IdsOf(nodes) :
           /\ nodes[id[1]][id[2]].undiscovered_reader \cap rs2 = {}
           /\ nodes[id[1]][id[2]].undiscovered_writer \cap ws2 = {}
  PROVE  NodesGood(nodes, rs2, ws2)
BY DEF NodesGood, NodeGood

\* One endpoint more that is known.
More(set, g, is) == IF is THEN set \cup {g} ELSE set

\* A node that waits for the endpoint that is announced is updated, and tells of it.
LEMMA ResolveGood ==
  ASSUME WorldOk, NodesGood(nodes_info, readers, writers),
         NamesDisjoint => local_nodes = DiscoveredIn(nodes_info),
         NEW g \in Gids, NEW changed \in Changes, Resolve(g, changed)
  PROVE  /\ NodesGood(nodes_info', More(readers, g, ~IsWriter(g)), More(writers, g, IsWriter(g)))
         /\ IdsOf(nodes_info') = IdsOf(nodes_info)
         /\ NamesDisjoint => local_nodes' = DiscoveredIn(nodes_info')
<1> DEFINE list == undiscovered(g)
           rs2 == More(readers, g, ~IsWriter(g))
           ws2 == More(writers, g, IsWriter(g))
           waiting == {id \in NodeIds : g \in NodeAt(id)[list]}
<1>1. nodes_info \in NodeMaps /\ NodeIds = IdsOf(nodes_info)
  BY NodeIdsAre DEF NodesGood
<1>2. list \in Lists /\ (list = "undiscovered_writer" <=> IsWriter(g))
  BY DEF undiscovered, Lists
<1>3. \A node, rs, ws :
        /\ node.undiscovered_reader \cap readers = {}
        /\ node.undiscovered_writer \cap writers = {}
        /\ g \notin node[list]
        => /\ node.undiscovered_reader \cap rs2 = {}
           /\ node.undiscovered_writer \cap ws2 = {}
  BY DEF undiscovered, More
<1> HIDE DEF rs2, ws2
<1>4. \A id \in IdsOf(nodes_info) : NodeGood(id[1], id[2], NodeAt(id), readers, writers)
  BY DEF NodesGood, NodeAt
<1>5. CASE waiting = {} /\ nodes_info' = nodes_info /\ Send(changed)
  <2>1. \A id \in IdsOf(nodes_info) : g \notin NodeAt(id)[list]
    BY <1>1, <1>5
  <2>2. NodesGood(nodes_info, rs2, ws2)
    <3>1. \A id \in IdsOf(nodes_info) :
            /\ nodes_info[id[1]][id[2]].undiscovered_reader \cap rs2 = {}
            /\ nodes_info[id[1]][id[2]].undiscovered_writer \cap ws2 = {}
      BY <1>3, <1>4, <2>1 DEF NodeGood, NodeAt
    <3> QED
      BY <3>1, NodesStayGood
  <2>3. local_nodes' = local_nodes
    <3>1. local_nodes' = Known(local_nodes, changed)
      BY <1>5 DEF Send, Known
    <3>2. <<>> \in Seq(Evs) /\ <<>> \o changed = changed
      BY DEF Changes
    <3>3. Known(local_nodes, <<>> \o changed) = Known(local_nodes, <<>>)
      BY <3>2, ChangeTold
    <3> QED
      BY <3>1, <3>2, <3>3, KnownNothing
  <2> QED
    BY <1>5, <2>2, <2>3 DEF rs2, ws2
<1>6. ASSUME NEW id \in waiting,
             LET u == update_with([NodeAt(id) EXCEPT ![list] = NodeAt(id)[list] \ {g}], g)
                 nodes == Inserted(nodes_info[id[1]], id[2], u.node)
             IN  /\ nodes_info' = [nodes_info EXCEPT ![id[1]] = nodes]
                 /\ Send(u.evts \o changed)
      PROVE  /\ NodesGood(nodes_info', rs2, ws2)
             /\ IdsOf(nodes_info') = IdsOf(nodes_info)
             /\ NamesDisjoint => local_nodes' = DiscoveredIn(nodes_info')
  <2> DEFINE p == id[1]
             n == id[2]
             node == NodeAt(id)
             old == [node EXCEPT ![list] = node[list] \ {g}]
             u == update_with(old, g)
             after == [nodes_info EXCEPT ![p] = Inserted(nodes_info[p], n, u.node)]
  <2>1. /\ id \in IdsOf(nodes_info) /\ id = <<p, n>> /\ g \in node[list]
        /\ p \in DOMAIN nodes_info /\ p \in Participants
        /\ n \in NamesOf(p) /\ n \in NodeNames
        /\ node = nodes_info[p][n]
    BY <1>1 DEF IdsOf, NodesGood, NodeAt
  <2>2. nodes_info' = after /\ Send(u.evts \o changed)
    BY <1>6
  <2>3. NodeGood(p, n, node, readers, writers)
    BY <1>4, <2>1
  <2> HIDE DEF node
  <2>4. NodeOk(p, n, old) /\ ListChanges(node, list, node[list] \ {g}, old)
    <3>1. node[list] \in SUBSET Gids /\ MayWait(p, n, list, node[list])
      BY <1>2, <2>3, ListsOk DEF NodeGood
    <3>2. node[list] \ {g} \in SUBSET Gids /\ MayWait(p, n, list, node[list] \ {g})
      BY <3>1 DEF MayWait
    <3> QED
      BY <1>2, <2>3, <3>2, ListChanged DEF NodeGood
  <2>5. Mine(p, n, g)
    <3>1. MayWait(p, n, list, node[list])
      BY <1>2, <2>3, ListsOk DEF NodeGood
    <3> QED
      BY <2>1, <3>1 DEF MayWait, Waiting
  <2> HIDE DEF old
  <2>6. UpdateOk(p, n, old, u)
    BY <2>4, <2>5, UpdatedWith
  <2> HIDE DEF u, list
  <2>7. NodeGood(p, n, u.node, readers, writers) /\ g \notin u.node[list]
    <3>1. /\ u.node[list] = node[list] \ {g}
          /\ \A l \in Lists \ {list} : u.node[l] = node[l]
      BY <1>2, <2>4, <2>6 DEF UpdateOk, ListChanges
    <3>2. /\ u.node.undiscovered_reader \subseteq node.undiscovered_reader
          /\ u.node.undiscovered_writer \subseteq node.undiscovered_writer
      BY <1>2, <3>1 DEF Lists
    <3> QED
      BY <2>3, <2>6, <3>1, <3>2 DEF NodeGood, UpdateOk
  <2>8. Puts(nodes_info, p, n, u.node, after) /\ NodesGood(after, readers, writers)
    BY <2>1, <2>7, NodePut
  <2>9. IdsOf(after) = IdsOf(nodes_info)
    BY <2>1, <2>8 DEF Puts
  <2> HIDE DEF after
  <2>10. ASSUME NEW other \in IdsOf(after)
         PROVE  /\ after[other[1]][other[2]].undiscovered_reader \cap rs2 = {}
                /\ after[other[1]][other[2]].undiscovered_writer \cap ws2 = {}
    <3> DEFINE its == after[other[1]][other[2]]
    <3>1. NodeGood(other[1], other[2], its, readers, writers)
      BY <2>8 DEF NodesGood
    <3>2. g \notin its[list]
      <4>1. CASE other = <<p, n>>
        BY <2>7, <2>8, <4>1 DEF Puts
      <4>2. CASE other # <<p, n>>
        <5>1. NodeOk(other[1], other[2], its)
          BY <3>1 DEF NodeGood
        <5> HIDE DEF its
        <5>2. MayWait(other[1], other[2], list, its[list])
          BY <1>2, <5>1, ListsOk
        <5>3. MayWait(p, n, list, node[list])
          BY <1>2, <2>3, ListsOk DEF NodeGood
        <5>4. g \in its[list] => other[1] = p /\ other[2] = n
          BY <2>1, <5>2, <5>3 DEF MayWait, Waiting, Mine
        <5>5. other = <<other[1], other[2]>>
          BY DEF IdsOf
        <5> QED
          BY <4>2, <5>4, <5>5
      <4> QED
        BY <4>1, <4>2
    <3> HIDE DEF its
    <3>3. its.undiscovered_reader \cap rs2 = {} /\ its.undiscovered_writer \cap ws2 = {}
      BY <1>3, <3>1, <3>2 DEF NodeGood
    <3> QED
      BY <3>3 DEF its
  <2>11. NodesGood(after, rs2, ws2)
    BY <2>8, <2>10, NodesStayGood
  <2>12. Follows(n, HadShown(nodes_info, p, n), ShownOf(n, u.node), u.evts)
    <3>1. HadShown(nodes_info, p, n) = ShownOf(n, node)
      BY <2>1 DEF HadShown
    <3>2. ShownOf(n, old) = ShownOf(n, node)
      BY <2>4 DEF ListChanges, ShowSame, ShownOf, Own, Keys
    <3> QED
      BY <2>1, <2>6, <3>1, <3>2, FollowsFound DEF UpdateOk
  <2>13. NamesDisjoint => Known(local_nodes, u.evts) = DiscoveredIn(after)
    BY <2>1, <2>8, <2>12, PutTold
  <2>14. local_nodes' = Known(local_nodes, u.evts)
    <3>1. local_nodes' = Known(local_nodes, u.evts \o changed)
      BY <2>2 DEF Send, Known
    <3> QED
      BY <2>12, <3>1, ChangeTold DEF Follows
  <2> QED
    BY <2>2, <2>9, <2>11, <2>13, <2>14
<1> QED
  <2>1. \/ waiting = {} /\ nodes_info' = nodes_info /\ Send(changed)
        \/ \E id \in waiting :
             LET u == update_with([NodeAt(id) EXCEPT ![list] = NodeAt(id)[list] \ {g}], g)
                 nodes == Inserted(nodes_info[id[1]], id[2], u.node)
             IN  /\ nodes_info' = [nodes_info EXCEPT ![id[1]] = nodes]
                 /\ Send(u.evts \o changed)
    BY DEF Resolve
  <2> QED
    BY <1>5, <1>6, <2>1 DEF rs2, ws2

\* An endpoint more, or less, in the admin space.
AdminMoves(nodes, after, ps, ws, rs, x) ==
  /\ AdminOf(nodes, ps, ws, rs) \cup {<<"participant", x>>} = AdminOf(after, ps \cup {x}, ws, rs)
  /\ AdminOf(nodes, ps, ws, rs) \cup {<<"writer", x>>} = AdminOf(after, ps, ws \cup {x}, rs)
  /\ AdminOf(nodes, ps, ws, rs) \cup {<<"reader", x>>} = AdminOf(after, ps, ws, rs \cup {x})
  /\ AdminOf(nodes, ps, ws, rs) \ {<<"writer", x>>} = AdminOf(after, ps, ws \ {x}, rs)
  /\ AdminOf(nodes, ps, ws, rs) \ {<<"reader", x>>} = AdminOf(after, ps, ws, rs \ {x})

\* The admin space moves with the sets of what is known, as long as the nodes are the same.
LEMMA AdminChanges ==
  ASSUME NEW nodes, NEW after, IdsOf(after) = IdsOf(nodes), NEW ps, NEW ws, NEW rs, NEW x
  PROVE  AdminMoves(nodes, after, ps, ws, rs, x)
<1> DEFINE listed == {<<"node", id[1], id[2]>> : id \in IdsOf(nodes)}
           others == {<<"participant", p>> : p \in ps} \cup listed
<1>1. AdminOf(after, ps, ws, rs) = AdminOf(nodes, ps, ws, rs)
  BY DEF AdminOf
<1>2. /\ <<"writer", x>> \notin listed /\ <<"reader", x>> \notin listed
  OBVIOUS
<1> HIDE DEF listed
<1>3. \A ps2, ws2, rs2 :
        AdminOf(after, ps2, ws2, rs2)
          = {<<"participant", p>> : p \in ps2} \cup {<<"writer", g>> : g \in ws2}
              \cup {<<"reader", g>> : g \in rs2} \cup listed
  BY DEF AdminOf, listed
<1>4. AdminOf(nodes, ps, ws, rs)
        = {<<"participant", p>> : p \in ps} \cup {<<"writer", g>> : g \in ws}
            \cup {<<"reader", g>> : g \in rs} \cup listed
  BY <1>1, <1>3
<1>5. AdminOf(nodes, ps, ws, rs) \cup {<<"participant", x>>} = AdminOf(after, ps \cup {x}, ws, rs)
  BY <1>3, <1>4
<1>6. AdminOf(nodes, ps, ws, rs) \cup {<<"writer", x>>} = AdminOf(after, ps, ws \cup {x}, rs)
  BY <1>3, <1>4
<1>7. AdminOf(nodes, ps, ws, rs) \cup {<<"reader", x>>} = AdminOf(after, ps, ws, rs \cup {x})
  BY <1>3, <1>4
<1>8. AdminOf(nodes, ps, ws, rs) \ {<<"writer", x>>} = AdminOf(after, ps, ws \ {x}, rs)
  <2>1. {<<"writer", g>> : g \in ws} \ {<<"writer", x>>} = {<<"writer", g>> : g \in ws \ {x}}
    OBVIOUS
  <2>2. /\ <<"writer", x>> \notin {<<"participant", p>> : p \in ps}
        /\ <<"writer", x>> \notin {<<"reader", g>> : g \in rs}
    OBVIOUS
  <2> QED
    BY <1>2, <1>3, <1>4, <2>1, <2>2
<1>9. AdminOf(nodes, ps, ws, rs) \ {<<"reader", x>>} = AdminOf(after, ps, ws, rs \ {x})
  <2>1. {<<"reader", g>> : g \in rs} \ {<<"reader", x>>} = {<<"reader", g>> : g \in rs \ {x}}
    OBVIOUS
  <2>2. /\ <<"reader", x>> \notin {<<"participant", p>> : p \in ps}
        /\ <<"reader", x>> \notin {<<"writer", g>> : g \in ws}
    OBVIOUS
  <2> QED
    BY <1>2, <1>3, <1>4, <2>1, <2>2
<1> QED
  BY <1>5, <1>6, <1>7, <1>8, <1>9 DEF AdminMoves

\* The nodes that were told of an endpoint that is gone.
Asked(nodes, visited, g) ==
  [p \in DOMAIN nodes |->
    [n \in DOMAIN nodes[p] |->
      IF <<p, n>> \in visited THEN remove_from(nodes[p][n], g).node ELSE nodes[p][n]]]

\* They are the same nodes, and are good.
LEMMA AskedGood ==
  ASSUME NEW rs, NEW ws, NEW nodes, NodesGood(nodes, rs, ws), NEW visited, NEW g \in Gids
  PROVE  /\ NodesGood(Asked(nodes, visited, g), rs, ws)
         /\ IdsOf(Asked(nodes, visited, g)) = IdsOf(nodes)
         /\ \A id \in IdsOf(nodes) :
              Asked(nodes, visited, g)[id[1]][id[2]] =
                IF id \in visited THEN remove_from(nodes[id[1]][id[2]], g).node
                ELSE nodes[id[1]][id[2]]
<1> DEFINE after == Asked(nodes, visited, g)
           Heard(p, n) == IF <<p, n>> \in visited THEN remove_from(nodes[p][n], g).node
                          ELSE nodes[p][n]
<1>1. nodes \in NodeMaps
  BY DEF NodesGood
<1>2. /\ DOMAIN after = DOMAIN nodes
      /\ \A p \in DOMAIN nodes : /\ DOMAIN after[p] = DOMAIN nodes[p]
                                 /\ after[p] = [n \in DOMAIN nodes[p] |-> Heard(p, n)]
      /\ after = [p \in DOMAIN nodes |-> after[p]]
  BY DEF Asked
<1>3. \A p \in DOMAIN nodes : \A n \in DOMAIN nodes[p] : after[p][n] = Heard(p, n)
  BY <1>2
<1> HIDE DEF after
<1>4. IdsOf(after) = IdsOf(nodes)
  BY <1>2 DEF IdsOf
<1>5. \A p \in DOMAIN nodes : \A n \in DOMAIN nodes[p] : NodeGood(p, n, Heard(p, n), rs, ws)
  <2> SUFFICES ASSUME NEW p \in DOMAIN nodes, NEW n \in DOMAIN nodes[p]
               PROVE  NodeGood(p, n, Heard(p, n), rs, ws)
    OBVIOUS
  <2> DEFINE node == nodes[p][n]
             u == remove_from(node, g)
  <2>1. NodeGood(p, n, node, rs, ws)
    <3>1. <<p, n>> \in IdsOf(nodes) /\ <<p, n>>[1] = p /\ <<p, n>>[2] = n
      BY <1>1, NodesOf
    <3> QED
      BY <3>1 DEF NodesGood
  <2>2. GoneOk(p, n, node, u)
    BY <2>1, RemovedFrom DEF NodeGood
  <2> HIDE DEF node, u
  <2>3. NodeGood(p, n, u.node, rs, ws)
    <3>1. /\ u.node.undiscovered_reader \subseteq node.undiscovered_reader
          /\ u.node.undiscovered_writer \subseteq node.undiscovered_writer
      BY <2>2 DEF GoneOk, Lists
    <3> QED
      BY <2>1, <2>2, <3>1 DEF NodeGood, GoneOk
  <2> QED
    BY <2>1, <2>3 DEF u, node
<1> HIDE DEF Heard
<1>6. after \in NodeMaps
  <2>1. \A p \in DOMAIN nodes : after[p] \in Maps(NodeNames, Nodes)
    <3> SUFFICES ASSUME NEW p \in DOMAIN nodes PROVE after[p] \in Maps(NodeNames, Nodes)
      OBVIOUS
    <3>1. DOMAIN nodes[p] \subseteq NodeNames
      BY <1>1, NodesOf
    <3>2. \A n \in DOMAIN nodes[p] : Heard(p, n) \in Nodes
      BY <1>5 DEF NodeGood, NodeOk
    <3>3. after[p] = [n \in DOMAIN nodes[p] |-> Heard(p, n)]
      BY <1>2
    <3>4. after[p] \in [DOMAIN nodes[p] -> Nodes]
      BY <3>2, <3>3
    <3> QED
      BY <3>1, <3>4, MapIntro
  <2>2. DOMAIN nodes \subseteq Participants
    BY <1>1, MapFacts DEF NodeMaps
  <2>3. after \in [DOMAIN nodes -> Maps(NodeNames, Nodes)]
    BY <1>2, <2>1
  <2> QED
    BY <2>2, <2>3, MapIntro DEF NodeMaps
<1>7. \A id \in IdsOf(nodes) : /\ id[1] \in DOMAIN nodes /\ id[2] \in DOMAIN nodes[id[1]]
                               /\ id = <<id[1], id[2]>>
  BY DEF IdsOf
<1>8. NodesGood(after, rs, ws)
  <2>1. \A id \in IdsOf(nodes) : NodeGood(id[1], id[2], after[id[1]][id[2]], rs, ws)
    BY <1>3, <1>5, <1>7
  <2> QED
    BY <1>4, <1>6, <2>1 DEF NodesGood
<1>9. \A id \in IdsOf(nodes) :
        after[id[1]][id[2]] = IF id \in visited THEN remove_from(nodes[id[1]][id[2]], g).node
                              ELSE nodes[id[1]][id[2]]
  BY <1>3, <1>7 DEF Heard
<1> QED
  BY <1>4, <1>8, <1>9 DEF after

\* Nodes that show the same tell the same.
LEMMA SameDiscovered ==
  ASSUME NEW nodes, NEW after, IdsOf(after) = IdsOf(nodes),
         \A id \in IdsOf(nodes) : ShowSame(nodes[id[1]][id[2]], after[id[1]][id[2]])
  PROVE  DiscoveredIn(after) = DiscoveredIn(nodes)
<1>1. \A id \in IdsOf(nodes) : ShownOf(id[2], after[id[1]][id[2]])
                                 = ShownOf(id[2], nodes[id[1]][id[2]])
  BY DEF ShowSame, ShownOf, Own, Keys
<1> QED
  BY <1>1 DEF DiscoveredIn

\* The nodes that are asked about an endpoint that is gone tell of what goes with it.
LEMMA RemovedGood ==
  ASSUME WorldOk, NodesGood(nodes_info, readers, writers),
         NamesDisjoint => local_nodes = DiscoveredIn(nodes_info),
         NEW g \in Gids, NEW changed \in Changes, RemoveFromNodes(g, changed)
  PROVE  /\ NodesGood(nodes_info', readers, writers)
         /\ IdsOf(nodes_info') = IdsOf(nodes_info)
         /\ NamesDisjoint => local_nodes' = DiscoveredIn(nodes_info')
<1> DEFINE hit == {id \in NodeIds : remove_from(NodeAt(id), g).evts # <<>>}
           Ask(visited, events) ==
             nodes_info' = Asked(nodes_info, visited, g) /\ Send(events \o changed)
<1>1. nodes_info \in NodeMaps /\ NodeIds = IdsOf(nodes_info)
  BY NodeIdsAre DEF NodesGood
<1>2. \A id \in IdsOf(nodes_info) :
        /\ id[1] \in Participants /\ id[2] \in NodeNames /\ id[2] \in NamesOf(id[1])
        /\ id = <<id[1], id[2]>> /\ id[1] \in DOMAIN nodes_info
        /\ NodeAt(id) = nodes_info[id[1]][id[2]]
        /\ GoneOk(id[1], id[2], NodeAt(id), remove_from(NodeAt(id), g))
        /\ NodeGood(id[1], id[2], NodeAt(id), readers, writers)
  BY RemovedFrom DEF IdsOf, NodesGood, NodeGood, NodeAt
<1>3. \A id \in IdsOf(nodes_info) \ hit : ShowSame(NodeAt(id), remove_from(NodeAt(id), g).node)
  <2> SUFFICES ASSUME NEW id \in IdsOf(nodes_info) \ hit
               PROVE  ShowSame(NodeAt(id), remove_from(NodeAt(id), g).node)
    OBVIOUS
  <2> DEFINE u == remove_from(NodeAt(id), g)
  <2>1. u.evts = <<>>
    BY <1>1
  <2>2. TellsLost(id[2], NodeAt(id), u.node, u.evts)
    BY <1>2 DEF GoneOk
  <2> HIDE DEF u
  <2>3. \A e : <<e>> # <<>>
    OBVIOUS
  <2>4. ShowSame(NodeAt(id), u.node)
    BY <2>1, <2>2, <2>3 DEF TellsLost, ShowSame
  <2> QED
    BY <2>4 DEF u
<1>4. \A node : ShowSame(node, node)
  BY DEF ShowSame
<1>5. CASE hit = {} /\ Ask(NodeIds, <<>>)
  <2>1. /\ NodesGood(nodes_info', readers, writers) /\ IdsOf(nodes_info') = IdsOf(nodes_info)
        /\ \A id \in IdsOf(nodes_info) :
             nodes_info'[id[1]][id[2]] = remove_from(NodeAt(id), g).node
    BY <1>1, <1>2, <1>5, AskedGood
  <2>2. DiscoveredIn(nodes_info') = DiscoveredIn(nodes_info)
    <3>1. \A id \in IdsOf(nodes_info) :
            ShowSame(nodes_info[id[1]][id[2]], nodes_info'[id[1]][id[2]])
      BY <1>2, <1>3, <1>5, <2>1
    <3> QED
      BY <2>1, <3>1, SameDiscovered
  <2>3. local_nodes' = local_nodes
    <3>1. local_nodes' = Known(local_nodes, <<>> \o changed)
      BY <1>5 DEF Send, Known
    <3>2. <<>> \in Seq(Evs)
      OBVIOUS
    <3>3. Known(local_nodes, <<>> \o changed) = Known(local_nodes, <<>>)
      BY <3>2, ChangeTold
    <3> QED
      BY <3>1, <3>3, KnownNothing
  <2> QED
    BY <2>1, <2>2, <2>3
<1>6. ASSUME NEW id \in hit, NEW before \in SUBSET (NodeIds \ hit),
             Ask({id} \cup before, remove_from(NodeAt(id), g).evts)
      PROVE  /\ NodesGood(nodes_info', readers, writers)
             /\ IdsOf(nodes_info') = IdsOf(nodes_info)
             /\ NamesDisjoint => local_nodes' = DiscoveredIn(nodes_info')
  <2> DEFINE p == id[1]
             n == id[2]
             node == NodeAt(id)
             u == remove_from(node, g)
             visited == {id} \cup before
             mid == [nodes_info EXCEPT ![p] = Inserted(nodes_info[p], n, u.node)]
             after == Asked(nodes_info, visited, g)
  <2>1. nodes_info' = after /\ Send(u.evts \o changed)
    BY <1>6
  <2>2. /\ id \in IdsOf(nodes_info) /\ id = <<p, n>> /\ p \in DOMAIN nodes_info
        /\ n \in NamesOf(p) /\ n \in NodeNames /\ p \in Participants
        /\ node = nodes_info[p][n]
        /\ GoneOk(p, n, node, u) /\ NodeGood(p, n, node, readers, writers)
    BY <1>1, <1>2
  <2>3. /\ NodesGood(after, readers, writers) /\ IdsOf(after) = IdsOf(nodes_info)
        /\ \A x \in IdsOf(nodes_info) :
             after[x[1]][x[2]] = IF x \in visited THEN remove_from(NodeAt(x), g).node
                                 ELSE NodeAt(x)
    BY <1>2, AskedGood
  <2>4. \A x \in IdsOf(nodes_info) \ {id} : ShowSame(NodeAt(x), after[x[1]][x[2]])
    BY <1>1, <1>3, <1>4, <2>3
  <2>5. after[p][n] = u.node
    BY <2>2, <2>3
  <2>6. \A x \in IdsOf(nodes_info) : NodeAt(x) = nodes_info[x[1]][x[2]]
    BY <1>2
  <2> HIDE DEF after, u, node
  <2>7. NodeGood(p, n, u.node, readers, writers)
    <3>1. /\ u.node.undiscovered_reader \subseteq node.undiscovered_reader
          /\ u.node.undiscovered_writer \subseteq node.undiscovered_writer
      BY <2>2 DEF GoneOk, Lists
    <3> QED
      BY <2>2, <3>1 DEF NodeGood, GoneOk
  <2>8. Puts(nodes_info, p, n, u.node, mid)
    BY <2>2, <2>7, NodePut
  <2>9. Follows(n, HadShown(nodes_info, p, n), ShownOf(n, u.node), u.evts)
    <3>1. HadShown(nodes_info, p, n) = ShownOf(n, node)
      BY <2>2 DEF HadShown
    <3> QED
      BY <2>2, <3>1, FollowsLost DEF GoneOk
  <2> HIDE DEF mid
  <2>10. NamesDisjoint => Known(local_nodes, u.evts) = DiscoveredIn(mid)
    BY <2>2, <2>8, <2>9, PutTold
  <2>11. DiscoveredIn(after) = DiscoveredIn(mid)
    <3>1. IdsOf(mid) = IdsOf(nodes_info)
      BY <2>2, <2>8 DEF Puts
    <3>2. \A x \in IdsOf(mid) : ShowSame(mid[x[1]][x[2]], after[x[1]][x[2]])
      <4> SUFFICES ASSUME NEW x \in IdsOf(nodes_info)
                   PROVE  ShowSame(mid[x[1]][x[2]], after[x[1]][x[2]])
        BY <3>1
      <4>1. CASE x = id
        BY <1>4, <2>2, <2>5, <2>8, <4>1 DEF Puts
      <4>2. CASE x # id
        BY <2>2, <2>4, <2>6, <2>8, <4>2 DEF Puts
      <4> QED
        BY <4>1, <4>2
    <3> QED
      BY <2>3, <3>1, <3>2, SameDiscovered
  <2>12. local_nodes' = Known(local_nodes, u.evts)
    <3>1. local_nodes' = Known(local_nodes, u.evts \o changed)
      BY <2>1 DEF Send, Known
    <3> QED
      BY <2>9, <3>1, ChangeTold DEF Follows
  <2> QED
    BY <2>1, <2>3, <2>10, <2>11, <2>12
<1> QED
  <2>1. \/ hit = {} /\ Ask(NodeIds, <<>>)
        \/ \E id \in hit, before \in SUBSET (NodeIds \ hit) :
             Ask({id} \cup before, remove_from(NodeAt(id), g).evts)
    BY DEF RemoveFromNodes, Asked
  <2> HIDE DEF hit, Ask
  <2> QED
    BY <1>5, <1>6, <2>1

\* The admin space without a participant that is gone, its nodes and its endpoints.
LEMMA AdminLeft ==
  ASSUME NEW nodes, NEW after, NEW p, NEW lost, Drops(nodes, p, lost, after),
         NEW ps, NEW ws, NEW rs, NEW E
  PROVE  AdminOf(nodes, ps, ws, rs)
           \ ({<<"participant", p>>}
                \cup {<<"node", p, n>> : n \in lost}
                \cup {<<"writer", g>> : g \in ws \cap E}
                \cup {<<"reader", g>> : g \in rs \cap E})
         = AdminOf(after, ps \ {p}, ws \ E, rs \ E)
<1> DEFINE listed(ids) == {<<"node", id[1], id[2]>> : id \in ids}
           gone == {<<"node", p, n>> : n \in lost}
<1>1. Delisting(AdminOf(nodes, {}, {}, {}), p, lost) = AdminOf(after, {}, {}, {})
  BY AdminDropped
<1>2. listed(IdsOf(after)) = listed(IdsOf(nodes)) \ gone
  BY <1>1 DEF Delisting, AdminOf
<1>3. /\ \A q : <<"participant", q>> \notin gone /\ <<"participant", q>> \notin listed(IdsOf(nodes))
      /\ \A g : <<"writer", g>> \notin gone /\ <<"writer", g>> \notin listed(IdsOf(nodes))
      /\ \A g : <<"reader", g>> \notin gone /\ <<"reader", g>> \notin listed(IdsOf(nodes))
  OBVIOUS
<1> HIDE DEF gone, listed
<1>4. \A m, ps2, ws2, rs2 :
        AdminOf(m, ps2, ws2, rs2)
          = {<<"participant", q>> : q \in ps2} \cup {<<"writer", g>> : g \in ws2}
              \cup {<<"reader", g>> : g \in rs2} \cup listed(IdsOf(m))
  BY DEF AdminOf, listed
<1> DEFINE P(set) == {<<"participant", q>> : q \in set}
           W(set) == {<<"writer", g>> : g \in set}
           R(set) == {<<"reader", g>> : g \in set}
           removed == {<<"participant", p>>} \cup gone \cup W(ws \cap E) \cup R(rs \cap E)
<1>5. /\ P(ps) \ removed = P(ps \ {p})
      /\ W(ws) \ removed = W(ws \ E)
      /\ R(rs) \ removed = R(rs \ E)
  <2>1. P(ps) \ removed = P(ps \ {p})
    BY <1>3
  <2>2. W(ws) \ removed = W(ws \ E)
    BY <1>3
  <2>3. R(rs) \ removed = R(rs \ E)
    BY <1>3
  <2> QED
    BY <2>1, <2>2, <2>3
<1>6. listed(IdsOf(nodes)) \ removed = listed(IdsOf(nodes)) \ gone
  BY <1>3
<1>7. AdminOf(nodes, ps, ws, rs) = P(ps) \cup W(ws) \cup R(rs) \cup listed(IdsOf(nodes))
  BY <1>4
<1>8. AdminOf(after, ps \ {p}, ws \ E, rs \ E)
        = P(ps \ {p}) \cup W(ws \ E) \cup R(rs \ E) \cup listed(IdsOf(after))
  BY <1>4
<1>9. removed = {<<"participant", p>>} \cup {<<"node", p, n>> : n \in lost}
                  \cup {<<"writer", g>> : g \in ws \cap E} \cup {<<"reader", g>> : g \in rs \cap E}
  BY DEF gone
<1> HIDE DEF P, W, R, removed
<1>10. (P(ps) \cup W(ws) \cup R(rs) \cup listed(IdsOf(nodes))) \ removed
         = P(ps \ {p}) \cup W(ws \ E) \cup R(rs \ E) \cup listed(IdsOf(after))
  BY <1>2, <1>5, <1>6
<1> QED
  BY <1>7, <1>8, <1>9, <1>10

\* A participant goes with its nodes and its endpoints.
LEMMA ParticipantGone ==
  ASSUME WorldOk, NEW p \in Participants, remove_participant(p),
         Tells(nodes_info, participants, writers, readers, admin_space, local_nodes)
  PROVE  Tells(nodes_info', participants', writers', readers', admin_space', local_nodes')
<1> DEFINE own == IF p \in DOMAIN nodes_info THEN nodes_info[p] ELSE <<>>
           lost == DOMAIN own
           events == SetToSeq(UNION {remove_all_entities(own[n]) : n \in DOMAIN own})
           after == Restrict(nodes_info, DOMAIN nodes_info \ {p})
<1>1. /\ NodesGood(nodes_info, readers, writers) /\ nodes_info \in NodeMaps
      /\ admin_space = AdminOf(nodes_info, participants, writers, readers)
      /\ NamesDisjoint => local_nodes = DiscoveredIn(nodes_info)
  BY DEF Tells, NodesGood
<1>2. own \in Maps(NodeNames, Nodes) /\ (p \notin DOMAIN nodes_info => DOMAIN own = {})
  BY <1>1, NodesOf, EmptyMap
<1>3. \A n \in DOMAIN own : /\ <<p, n>> \in IdsOf(nodes_info) /\ own[n] = nodes_info[p][n]
                            /\ n \in NamesOf(p) /\ own[n].fullname = n
  <2> SUFFICES ASSUME NEW n \in DOMAIN own
               PROVE  /\ <<p, n>> \in IdsOf(nodes_info) /\ own[n] = nodes_info[p][n]
                      /\ n \in NamesOf(p) /\ own[n].fullname = n
    OBVIOUS
  <2>1. p \in DOMAIN nodes_info
    BY <1>2
  <2>2. <<p, n>> \in IdsOf(nodes_info) /\ own[n] = nodes_info[p][n]
    BY <1>1, <2>1, NodesOf
  <2>3. <<p, n>>[1] = p /\ <<p, n>>[2] = n
    OBVIOUS
  <2> HIDE DEF own
  <2> QED
    BY <1>1, <2>2, <2>3 DEF NodesGood, NodeGood, NodeOk
<1>4. p \in DOMAIN nodes_info => own = nodes_info[p]
  OBVIOUS
<1>5. after \in NodeMaps /\ Drops(nodes_info, p, lost, after)
  <2>1. /\ after \in NodeMaps /\ DOMAIN after = DOMAIN nodes_info \ {p}
        /\ \A q \in DOMAIN after : after[q] = nodes_info[q]
    BY <1>1, RestrictMap DEF NodeMaps, Restrict
  <2> HIDE DEF after, own
  <2>2. \A id \in Participants \X NodeNames :
          id \in IdsOf(after) <=> id \in IdsOf(nodes_info) /\ ~(id[1] = p /\ id[2] \in lost)
    BY <1>4, <2>1 DEF IdsOf
  <2>3. \A id \in Participants \X NodeNames : id \in {p} \X lost <=> id[1] = p /\ id[2] \in lost
    OBVIOUS
  <2>4. /\ IdsOf(after) \subseteq Participants \X NodeNames
        /\ IdsOf(nodes_info) \subseteq Participants \X NodeNames
    BY DEF IdsOf
  <2>5. IdsOf(after) = IdsOf(nodes_info) \ ({p} \X lost)
    BY <2>2, <2>3, <2>4
  <2>6. \A id \in IdsOf(after) : after[id[1]][id[2]] = nodes_info[id[1]][id[2]]
    BY <2>1 DEF IdsOf
  <2> QED
    BY <2>1, <2>5, <2>6 DEF Drops
<1>6. Forgets(nodes_info, p, lost, events)
  <2>1. \A n \in lost : /\ own[n].fullname = n
                        /\ HadShown(nodes_info, p, n) \subseteq ShownOf(n, own[n])
    BY <1>3 DEF HadShown
  <2>2. events = SetToSeq(LostEvents(own, lost))
    BY DEF LostEvents
  <2>3. lost \in SUBSET (DOMAIN own)
    OBVIOUS
  <2> HIDE DEF own, lost, events
  <2> QED
    BY <1>2, <2>1, <2>2, <2>3, LostTold
<1>7. /\ participants' = participants \ {p} /\ nodes_info' = after
      /\ writers' = writers \ EndsOf(p) /\ readers' = readers \ EndsOf(p)
      /\ local_nodes' = Known(local_nodes, events)
      /\ admin_space' = admin_space
           \ ({<<"participant", p>>}
                \cup {<<"node", p, n>> : n \in lost}
                \cup {<<"writer", g>> : g \in writers \cap EndsOf(p)}
                \cup {<<"reader", g>> : g \in readers \cap EndsOf(p)})
  BY DEF remove_participant, Send, Known
<1>8. lost \in SUBSET NamesOf(p)
  BY <1>3
<1> HIDE DEF own, lost, events, after
<1>9. NodesGood(after, readers', writers')
  <2>1. NodesGood(after, readers, writers)
    BY <1>1, <1>5, DropsGood
  <2>2. \A id \in IdsOf(after) :
          /\ after[id[1]][id[2]].undiscovered_reader \cap readers' = {}
          /\ after[id[1]][id[2]].undiscovered_writer \cap writers' = {}
    BY <1>7, <2>1 DEF NodesGood, NodeGood
  <2> QED
    BY <2>1, <2>2, NodesStayGood
<1>10. admin_space' = AdminOf(after, participants', writers', readers')
  BY <1>1, <1>5, <1>7, AdminLeft
<1>11. NamesDisjoint => local_nodes' = DiscoveredIn(after)
  BY <1>1, <1>5, <1>6, <1>7, <1>8, DropTold
<1> QED
  BY <1>7, <1>9, <1>10, <1>11 DEF Tells

\* A participant, a Writer or a Reader that comes.
LEMMA Added ==
  ASSUME WorldOk, Tells(nodes_info, participants, writers, readers, admin_space, local_nodes),
         NEW x, add_participant(x) \/ add_writer(x) \/ add_reader(x)
  PROVE  Tells(nodes_info', participants', writers', readers', admin_space', local_nodes')
<1>1. /\ NodesGood(nodes_info, readers, writers)
      /\ admin_space = AdminOf(nodes_info, participants, writers, readers)
      /\ NamesDisjoint => local_nodes = DiscoveredIn(nodes_info)
  BY DEF Tells
<1>2. CASE add_participant(x)
  <2>1. /\ participants' = participants \cup {x} /\ writers' = writers /\ readers' = readers
        /\ admin_space' = admin_space \cup {<<"participant", x>>} /\ nodes_info' = nodes_info
        /\ local_nodes' = Known(local_nodes, <<>>)
    BY <1>2 DEF add_participant, Send, Known
  <2>2. local_nodes' = local_nodes
    BY <2>1, KnownNothing
  <2>3. admin_space' = AdminOf(nodes_info, participants', writers, readers)
    <3>1. AdminMoves(nodes_info, nodes_info, participants, writers, readers, x)
      BY AdminChanges
    <3> QED
      BY <1>1, <2>1, <3>1 DEF AdminMoves
  <2> QED
    BY <1>1, <2>1, <2>2, <2>3 DEF Tells
<1>3. CASE add_writer(x)
  <2>1. /\ x \in Gids /\ IsWriter(x) /\ Resolve(x, local_writers_changed(x))
        /\ participants' = participants /\ writers' = writers \cup {x} /\ readers' = readers
        /\ admin_space' = admin_space \cup {<<"writer", x>>}
    BY <1>3 DEF add_writer
  <2>2. /\ NodesGood(nodes_info', readers, writers \cup {x})
        /\ IdsOf(nodes_info') = IdsOf(nodes_info)
        /\ NamesDisjoint => local_nodes' = DiscoveredIn(nodes_info')
    <3>1. /\ NodesGood(nodes_info', More(readers, x, ~IsWriter(x)),
                                    More(writers, x, IsWriter(x)))
          /\ IdsOf(nodes_info') = IdsOf(nodes_info)
          /\ NamesDisjoint => local_nodes' = DiscoveredIn(nodes_info')
      BY <1>1, <2>1, ResolveGood, ChangesOf
    <3> QED
      BY <2>1, <3>1 DEF More
  <2>3. admin_space' = AdminOf(nodes_info', participants, writers \cup {x}, readers)
    <3>1. AdminMoves(nodes_info, nodes_info', participants, writers, readers, x)
      BY <2>2, AdminChanges
    <3> QED
      BY <1>1, <2>1, <3>1 DEF AdminMoves
  <2> QED
    BY <2>1, <2>2, <2>3 DEF Tells
<1>4. CASE add_reader(x)
  <2>1. /\ x \in Gids /\ ~IsWriter(x) /\ Resolve(x, <<>>)
        /\ participants' = participants /\ writers' = writers /\ readers' = readers \cup {x}
        /\ admin_space' = admin_space \cup {<<"reader", x>>}
    BY <1>4 DEF add_reader
  <2>2. /\ NodesGood(nodes_info', readers \cup {x}, writers)
        /\ IdsOf(nodes_info') = IdsOf(nodes_info)
        /\ NamesDisjoint => local_nodes' = DiscoveredIn(nodes_info')
    <3>1. /\ NodesGood(nodes_info', More(readers, x, ~IsWriter(x)),
                                    More(writers, x, IsWriter(x)))
          /\ IdsOf(nodes_info') = IdsOf(nodes_info)
          /\ NamesDisjoint => local_nodes' = DiscoveredIn(nodes_info')
      BY <1>1, <2>1, ResolveGood, ChangesOf
    <3> QED
      BY <2>1, <3>1 DEF More
  <2>3. admin_space' = AdminOf(nodes_info', participants, writers, readers \cup {x})
    <3>1. AdminMoves(nodes_info, nodes_info', participants, writers, readers, x)
      BY <2>2, AdminChanges
    <3> QED
      BY <1>1, <2>1, <3>1 DEF AdminMoves
  <2> QED
    BY <2>1, <2>2, <2>3 DEF Tells
<1> QED
  BY <1>2, <1>3, <1>4

\* A Writer or a Reader that goes.
LEMMA Removed ==
  ASSUME WorldOk, Tells(nodes_info, participants, writers, readers, admin_space, local_nodes),
         NEW x, RemoveWriter(x) \/ RemoveReader(x)
  PROVE  Tells(nodes_info', participants', writers', readers', admin_space', local_nodes')
<1>1. /\ NodesGood(nodes_info, readers, writers)
      /\ admin_space = AdminOf(nodes_info, participants, writers, readers)
      /\ NamesDisjoint => local_nodes = DiscoveredIn(nodes_info)
  BY DEF Tells
<1>2. CASE /\ participants' = participants /\ writers' = writers /\ readers' = readers
           /\ admin_space' = admin_space /\ nodes_info' = nodes_info /\ Send(<<>>)
  <2>1. local_nodes' = local_nodes
    BY <1>2, KnownNothing DEF Send, Known
  <2> QED
    BY <1>1, <1>2, <2>1 DEF Tells
<1>3. CASE RemoveWriter(x) /\ x \in writers
  <2>1. /\ x \in Gids /\ RemoveFromNodes(x, local_writers_changed(x))
        /\ participants' = participants /\ writers' = writers \ {x} /\ readers' = readers
        /\ admin_space' = admin_space \ {<<"writer", x>>}
    BY <1>3 DEF RemoveWriter
  <2>2. /\ NodesGood(nodes_info', readers, writers)
        /\ IdsOf(nodes_info') = IdsOf(nodes_info)
        /\ NamesDisjoint => local_nodes' = DiscoveredIn(nodes_info')
    BY <1>1, <2>1, RemovedGood, ChangesOf
  <2>3. NodesGood(nodes_info', readers, writers \ {x})
    BY <2>2 DEF NodesGood, NodeGood
  <2>4. admin_space' = AdminOf(nodes_info', participants, writers \ {x}, readers)
    <3>1. AdminMoves(nodes_info, nodes_info', participants, writers, readers, x)
      BY <2>2, AdminChanges
    <3> QED
      BY <1>1, <2>1, <3>1 DEF AdminMoves
  <2> QED
    BY <2>1, <2>2, <2>3, <2>4 DEF Tells
<1>4. CASE RemoveReader(x) /\ x \in readers
  <2>1. /\ x \in Gids /\ RemoveFromNodes(x, <<>>)
        /\ participants' = participants /\ writers' = writers /\ readers' = readers \ {x}
        /\ admin_space' = admin_space \ {<<"reader", x>>}
    BY <1>4 DEF RemoveReader
  <2>2. /\ NodesGood(nodes_info', readers, writers)
        /\ IdsOf(nodes_info') = IdsOf(nodes_info)
        /\ NamesDisjoint => local_nodes' = DiscoveredIn(nodes_info')
    BY <1>1, <2>1, RemovedGood, ChangesOf
  <2>3. NodesGood(nodes_info', readers \ {x}, writers)
    BY <2>2 DEF NodesGood, NodeGood
  <2>4. admin_space' = AdminOf(nodes_info', participants, writers, readers \ {x})
    <3>1. AdminMoves(nodes_info, nodes_info', participants, writers, readers, x)
      BY <2>2, AdminChanges
    <3> QED
      BY <1>1, <2>1, <3>1 DEF AdminMoves
  <2> QED
    BY <2>1, <2>2, <2>3, <2>4 DEF Tells
<1> QED
  BY <1>2, <1>3, <1>4 DEF RemoveWriter, RemoveReader

-----------------------------------------------------------------------------
(* The poll. *)

\* What a poll starts from, and what it ends with.
PollBase == [nodes |-> nodes_info, admin |-> admin_space, evts |-> <<>>]
Swept(order, nodeOrder) ==
  LET informed == Informed(PollBase, inbox, order, nodeOrder)
      resolved == resolve_pending_endpoints(informed, order)
  IN  IF ForwardUnclaimed THEN forward_orphan_writers(resolved, order) ELSE resolved

\* It starts from what is known.
LEMMA PollBaseGood ==
  ASSUME Tells(nodes_info, participants, writers, readers, admin_space, local_nodes)
  PROVE  PollBase \in GoodStates
<1> DEFINE base == PollBase
<1>1. /\ base.nodes = nodes_info /\ base.admin = admin_space /\ base.evts = <<>>
      /\ nodes_info \in NodeMaps
      /\ admin_space = AdminOf(nodes_info, participants, writers, readers)
  BY DEF Tells, NodesGood, PollBase
<1>2. <<>> \in Seq(Evs)
  OBVIOUS
<1>3. base \in PollStates
  BY <1>1, <1>2 DEF PollStates, PollBase
<1> HIDE DEF base
<1>4. Known(local_nodes, base.evts) = local_nodes
  BY <1>1, KnownNothing
<1>5. base \in GoodStates
  BY <1>1, <1>3, <1>4 DEF GoodStates, Good, Tells
<1> QED
  BY <1>5 DEF base

\* It ends with the nodes and the events of the next state.
LEMMA PollEnds ==
  ASSUME WorldOk, Poll
  PROVE  \E order \in Seq(Gids), nodeOrder \in Seq(STRING) :
           /\ nodes_info' = Swept(order, nodeOrder).nodes
           /\ admin_space' = Swept(order, nodeOrder).admin
           /\ Send(Swept(order, nodeOrder).evts)
           /\ UNCHANGED mapVars
<1>1. PICK order \in world.orders, nodeOrder \in world.nodeOrders :
        \E informed \in {Informed(PollBase, inbox, order, nodeOrder)} :
        \E resolved \in {resolve_pending_endpoints(informed, order)} :
        \E swept \in {IF ForwardUnclaimed THEN forward_orphan_writers(resolved, order)
                      ELSE resolved} :
          /\ nodes_info' = swept.nodes /\ admin_space' = swept.admin /\ Send(swept.evts)
          /\ UNCHANGED mapVars
  BY DEF Poll, Informed, PollBase
<1>2. order \in Seq(Gids) /\ nodeOrder \in Seq(STRING)
  BY DEF WorldOk
<1>3. /\ nodes_info' = Swept(order, nodeOrder).nodes
      /\ admin_space' = Swept(order, nodeOrder).admin
      /\ Send(Swept(order, nodeOrder).evts)
      /\ UNCHANGED mapVars
  BY <1>1 DEF Swept
<1> QED
  BY <1>2, <1>3

\* What the main loop knows, and the admin space lists, after a poll is what is there.
LEMMA Polled ==
  ASSUME WorldOk, DeclaredOk, WritersOk, inbox \in SUBSET Participants, Poll,
         Tells(nodes_info, participants, writers, readers, admin_space, local_nodes)
  PROVE  Tells(nodes_info', participants', writers', readers', admin_space', local_nodes')
<1>1. PollBase \in GoodStates
  BY PollBaseGood
<1>2. PICK order \in Seq(Gids), nodeOrder \in Seq(STRING) :
        /\ nodes_info' = Swept(order, nodeOrder).nodes
        /\ admin_space' = Swept(order, nodeOrder).admin
        /\ Send(Swept(order, nodeOrder).evts)
        /\ UNCHANGED mapVars
  BY PollEnds
<1> DEFINE informed == Informed(PollBase, inbox, order, nodeOrder)
           resolved == resolve_pending_endpoints(informed, order)
           swept == Swept(order, nodeOrder)
<1>3. informed \in GoodStates
  BY <1>1, InformedGood
<1>4. resolved = informed
  <2>1. Good(informed)
    BY <1>3 DEF GoodStates
  <2> QED
    BY <2>1, PendingGood
<1>5. swept \in GoodStates
  BY <1>3, <1>4, OrphansGood DEF Swept
<1> HIDE DEF swept
<1>6. local_nodes' = Known(local_nodes, swept.evts)
  BY <1>2 DEF Send, Known, swept
<1>7. /\ nodes_info' = swept.nodes /\ admin_space' = swept.admin
      /\ participants' = participants /\ writers' = writers /\ readers' = readers
  BY <1>2 DEF mapVars, swept
<1> QED
  BY <1>5, <1>6, <1>7 DEF GoodStates, Good, Tells

-----------------------------------------------------------------------------
(* The inductive invariant. *)

\* The system that is there is one of the described ones.
WorldInv == world \in {Described(w) : w \in Worlds}

\* DDS tells of the entities of the system, and its participants publish their endpoints.
SystemInv ==
  /\ inbox \subseteq Participants
  /\ DeclaredOk
  /\ sedp \in [Gids \cup Participants -> {"new", "seen", "gone"}]

\* The maps hold what DDS has told of.
KnownInv ==
  /\ participants \subseteq Participants
  /\ writers \subseteq {g \in Gids : IsWriter(g) /\ sedp[g] = "seen"}
  /\ readers \subseteq {g \in Gids : ~IsWriter(g) /\ sedp[g] = "seen"}

SweepInv ==
  /\ DOMAIN orphan_first_seen \subseteq Gids
  /\ \A w \in DOMAIN orphan_first_seen : orphan_first_seen[w] \in 0 .. ORPHAN_GRACE_PERIOD

NodesInv ==
  \A nodes, ps, ws, rs, admin, known :
    /\ nodes = nodes_info /\ ps = participants /\ ws = writers /\ rs = readers
    /\ admin = admin_space /\ known = local_nodes
    => Tells(nodes, ps, ws, rs, admin, known)

IInv == WorldInv /\ SystemInv /\ KnownInv /\ SweepInv /\ NodesInv

\* What is assumed of each system holds of the one that is there.
LEMMA WorldKnown ==
  ASSUME WorldInv
  PROVE  /\ WorldOk
         /\ \E w \in Worlds : Gids = DOMAIN w.ends /\ \A g : EntityOf(g) = w.ends[g]
<1>1. PICK w \in Worlds : world = Described(w)
  BY DEF WorldInv
<1>2. /\ world.ends = w.ends /\ world.orders = w.orders /\ world.nodeOrders = w.nodeOrders
  BY <1>1 DEF Described
<1>3. Gids = DOMAIN w.ends /\ \A g : EntityOf(g) = w.ends[g]
  BY <1>2 DEF Gids, EntityOf
<1> DEFINE gids == DOMAIN w.ends
           owners == {w.ends[g].participant : g \in gids}
<1>4. /\ IsFiniteSet(gids)
      /\ \A g \in gids : w.ends[g].key = g
      /\ gids \cap (owners \cup {NOT_DISCOVERED}) = {}
      /\ w.orders \subseteq Seq(gids)
      /\ w.nodeOrders \subseteq Seq(STRING)
      /\ \A p, q \in owners : OrphanNode(p) = OrphanNode(q) => p = q
      /\ \A g \in gids, p \in owners : w.ends[g].node # OrphanNode(p)
  BY WorldsAssumption
<1>5. Participants = owners
  BY <1>3 DEF Participants
<1>6. WorldOk
  BY <1>2, <1>3, <1>4, <1>5 DEF WorldOk
<1> QED
  BY <1>3, <1>6

\* With unique names the nodes of two participants are told apart.
LEMMA NamesUnique ==
  ASSUME WorldInv, UniqueNodeNames
  PROVE  NamesDisjoint
<1>1. PICK w \in Worlds : Gids = DOMAIN w.ends /\ \A g : EntityOf(g) = w.ends[g]
  BY WorldKnown
<1>2. \A g, h \in Gids :
        EntityOf(g).node = EntityOf(h).node /\ EntityOf(g).node # Nobody =>
          EntityOf(g).participant = EntityOf(h).participant
  BY <1>1 DEF UniqueNodeNames
<1>3. /\ \A p, q \in Participants : OrphanNode(p) = OrphanNode(q) => p = q
      /\ \A g \in Gids, p \in Participants : EntityOf(g).node # OrphanNode(p)
  BY WorldKnown DEF WorldOk
<1> SUFFICES ASSUME NEW p \in Participants, NEW q \in Participants,
                    NEW n \in NamesOf(p) \cap NamesOf(q)
             PROVE  p = q
  BY DEF NamesDisjoint
<1>4. /\ n = OrphanNode(p) \/ \E g \in EndsOf(p) : n = EntityOf(g).node /\ n # Nobody
      /\ n = OrphanNode(q) \/ \E g \in EndsOf(q) : n = EntityOf(g).node /\ n # Nobody
  BY DEF NamesOf
<1> QED
  BY <1>2, <1>3, <1>4 DEF EndsOf

\* Nothing is known at first.
LEMMA InitInv == Init => IInv
<1> SUFFICES ASSUME Init PROVE IInv
  OBVIOUS
<1>1. WorldInv
  BY DEF Init, WorldInv
<1>2. SystemInv
  BY DEF Init, SystemInv, DeclaredOk
<1>3. KnownInv
  BY DEF Init, KnownInv
<1>4. SweepInv
  <2>1. DOMAIN orphan_first_seen = {}
    BY DEF Init
  <2> QED
    BY <2>1 DEF SweepInv
<1>5. Tells(<<>>, {}, {}, {}, {}, {})
  <2>1. <<>> \in NodeMaps /\ DOMAIN <<>> = {}
    BY EmptyMap DEF NodeMaps
  <2>2. IdsOf(<<>>) = {}
    BY <2>1 DEF IdsOf
  <2>3. NodesGood(<<>>, {}, {})
    BY <2>1, <2>2 DEF NodesGood
  <2>4. AdminOf(<<>>, {}, {}, {}) = {}
    BY <2>2 DEF AdminOf
  <2>5. DiscoveredIn(<<>>) = {}
    BY <2>2 DEF DiscoveredIn
  <2> QED
    BY <2>3, <2>4, <2>5 DEF Tells
<1>6. NodesInv
  BY <1>5 DEF NodesInv, Init
<1> QED
  BY <1>1, <1>2, <1>3, <1>4, <1>6 DEF IInv

\* What is known of the nodes after a step is known in the next state.
LEMMA NodesNext ==
  ASSUME world' = world,
         Tells(nodes_info', participants', writers', readers', admin_space', local_nodes')
  PROVE  NodesInv'
<1> SUFFICES ASSUME NEW nodes, NEW ps, NEW ws, NEW rs, NEW admin, NEW known,
                    nodes = nodes_info', ps = participants', ws = writers', rs = readers',
                    admin = admin_space', known = local_nodes'
             PROVE  Tells(nodes, ps, ws, rs, admin, known)'
  BY DEF NodesInv
<1>1. Tells(nodes, ps, ws, rs, admin, known)
  OBVIOUS
<1> QED
  BY <1>1, TellsNext
\* A step that leaves the nodes alone tells nothing, and nothing is to be told.
LEMMA NodesSame ==
  ASSUME NodesInv, world' = world,
         UNCHANGED <<nodes_info, participants, writers, readers, admin_space, local_nodes>>
  PROVE  NodesInv'
<1>1. Tells(nodes_info, participants, writers, readers, admin_space, local_nodes)
  BY DEF NodesInv
<1>2. /\ nodes_info' = nodes_info /\ participants' = participants /\ writers' = writers
      /\ readers' = readers /\ admin_space' = admin_space /\ local_nodes' = local_nodes
  OBVIOUS
<1>3. Tells(nodes_info', participants', writers', readers', admin_space', local_nodes')
  BY <1>1, <1>2
<1> QED
  BY <1>3, NodesNext

\* What the participants do keeps the invariant.
LEMMA SystemSteps ==
  ASSUME IInv, (\E g \in Gids : DeclareNode(EntityOf(g).node) \/ Destroy(g))
                 \/ \E p \in Participants : Leave(p)
  PROVE  IInv'
<1>1. WorldInv /\ SystemInv /\ KnownInv /\ SweepInv /\ NodesInv
  BY DEF IInv
<1>2. /\ world' = world /\ sedp' = sedp /\ UNCHANGED mapVars
      /\ UNCHANGED <<nodes_info, participants, writers, readers, admin_space, local_nodes>>
      /\ orphan_first_seen' = orphan_first_seen
  BY DEF DeclareNode, Destroy, Leave, mapVars, nodeVars
<1>3. /\ Gids' = Gids /\ Participants' = Participants
      /\ \A g : EntityOf(g)' = EntityOf(g) /\ IsWriter(g)' = IsWriter(g)
  BY <1>2, SameEndpoints
<1>4. declared' \subseteq Gids /\ \A g \in declared' : EntityOf(g).node # Nobody
  <2>1. ASSUME NEW n, DeclareNode(n)
        PROVE  declared' \subseteq Gids /\ \A g \in declared' : EntityOf(g).node # Nobody
    BY <1>1, <2>1 DEF DeclareNode, SystemInv, DeclaredOk
  <2>2. ASSUME NEW g, Destroy(g)
        PROVE  declared' \subseteq declared
    BY <2>2 DEF Destroy
  <2>3. ASSUME NEW p, Leave(p)
        PROVE  declared' = declared
    BY <2>3 DEF Leave
  <2> QED
    BY <1>1, <2>1, <2>2, <2>3 DEF SystemInv, DeclaredOk
<1>5. inbox' \subseteq Participants
  BY <1>1 DEF DeclareNode, Destroy, Leave, SystemInv, DeclaredOk, Participants
<1>6. SystemInv'
  BY <1>1, <1>2, <1>3, <1>4, <1>5 DEF SystemInv, DeclaredOk
<1>7. WorldInv' /\ KnownInv' /\ SweepInv'
  BY <1>1, <1>2, <1>3 DEF WorldInv, KnownInv, SweepInv
<1>8. NodesInv'
  BY <1>1, <1>2, NodesSame
<1> QED
  BY <1>6, <1>7, <1>8 DEF IInv

\* What DDS tells of keeps the invariant.
LEMMA ToldSteps ==
  ASSUME IInv, NEW x \in Gids \cup Participants, Told(x)
  PROVE  IInv'
<1>1. WorldInv /\ SystemInv /\ KnownInv /\ SweepInv /\ NodesInv
  BY DEF IInv
<1>2. WorldOk
  BY <1>1, WorldKnown
<1>3. Tells(nodes_info, participants, writers, readers, admin_space, local_nodes)
  BY <1>1 DEF NodesInv
<1>4. /\ world' = world /\ declared' = declared /\ inbox' = inbox
      /\ Announced(x) \/ Withdrawn(x)
  BY DEF Told, add_participant, remove_participant, add_writer, RemoveWriter, add_reader,
         RemoveReader, Announced, Withdrawn
<1>5. /\ Gids' = Gids /\ Participants' = Participants
      /\ \A g : EntityOf(g)' = EntityOf(g) /\ IsWriter(g)' = IsWriter(g)
  BY <1>4, SameEndpoints
<1>6. sedp \in [Gids \cup Participants -> {"new", "seen", "gone"}]
  BY <1>1 DEF SystemInv
<1>7. \E told \in {"seen", "gone"} : sedp' = [sedp EXCEPT ![x] = told]
  BY <1>4 DEF Announced, Withdrawn
<1>8. SystemInv'
  BY <1>1, <1>4, <1>5, <1>6, <1>7 DEF SystemInv, DeclaredOk
<1>9. Gids \cap Participants = {}
  BY <1>2 DEF WorldOk
<1>10. KnownInv'
  <2>1. ASSUME participants' \subseteq Participants,
               writers' \subseteq {g \in Gids : IsWriter(g) /\ sedp'[g] = "seen"},
               readers' \subseteq {g \in Gids : ~IsWriter(g) /\ sedp'[g] = "seen"}
        PROVE  KnownInv'
    BY <1>5, <2>1 DEF KnownInv
  <2>2. /\ participants \subseteq Participants
        /\ writers \subseteq {g \in Gids : IsWriter(g) /\ sedp[g] = "seen"}
        /\ readers \subseteq {g \in Gids : ~IsWriter(g) /\ sedp[g] = "seen"}
    BY <1>1 DEF KnownInv
  <2>3. \A g \in Gids \ {x} : sedp'[g] = sedp[g]
    BY <1>6, <1>7
  <2>4. ASSUME add_participant(x) \/ remove_participant(x)
        PROVE  KnownInv'
    <3>1. x \in Participants
      BY <2>4 DEF add_participant, remove_participant
    <3>2. \A g \in Gids : sedp'[g] = sedp[g]
      BY <1>9, <2>3, <3>1
    <3>3. participants' \subseteq Participants /\ writers' \subseteq writers
          /\ readers' \subseteq readers
      BY <2>2, <2>4, <3>1 DEF add_participant, remove_participant
    <3> QED
      BY <2>1, <2>2, <3>2, <3>3
  <2>5. ASSUME add_writer(x) \/ add_reader(x)
        PROVE  KnownInv'
    <3>1. /\ x \in Gids /\ sedp[x] = "new" /\ sedp'[x] = "seen" /\ participants' = participants
          /\ \/ IsWriter(x) /\ writers' = writers \cup {x} /\ readers' = readers
             \/ ~IsWriter(x) /\ writers' = writers /\ readers' = readers \cup {x}
      BY <1>6, <2>5 DEF add_writer, add_reader, Announced
    <3> QED
      BY <2>1, <2>2, <2>3, <3>1
  <2>6. ASSUME RemoveWriter(x) \/ RemoveReader(x)
        PROVE  KnownInv'
    <3>1. /\ x \in Gids /\ participants' = participants
          /\ \/ IsWriter(x) /\ writers' = writers \ {x} /\ readers' = readers
             \/ ~IsWriter(x) /\ writers' = writers /\ readers' = readers \ {x}
      BY <2>6 DEF RemoveWriter, RemoveReader
    <3> QED
      BY <2>1, <2>2, <2>3, <3>1
  <2> QED
    BY <2>4, <2>5, <2>6 DEF Told
<1>11. SweepInv'
  <2>1. \/ orphan_first_seen' = orphan_first_seen
        \/ \E D \in SUBSET (DOMAIN orphan_first_seen) :
             orphan_first_seen' = [w \in D |-> orphan_first_seen[w]]
    BY DEF Told, add_participant, remove_participant, add_writer, RemoveWriter, add_reader,
           RemoveReader, Restrict
  <2> QED
    BY <1>1, <1>5, <2>1 DEF SweepInv
<1>12. Tells(nodes_info', participants', writers', readers', admin_space', local_nodes')
  <2>1. CASE remove_participant(x)
    <3>1. x \in Participants
      BY <2>1 DEF remove_participant
    <3> QED
      BY <1>2, <1>3, <2>1, <3>1, ParticipantGone
  <2>2. CASE add_participant(x) \/ add_writer(x) \/ add_reader(x)
    BY <1>2, <1>3, <2>2, Added
  <2>3. CASE RemoveWriter(x) \/ RemoveReader(x)
    BY <1>2, <1>3, <2>3, Removed
  <2> QED
    BY <2>1, <2>2, <2>3 DEF Told
<1> QED
  BY <1>1, <1>4, <1>8, <1>10, <1>11, <1>12, NodesNext DEF IInv, WorldInv

\* So do the timers.
LEMMA TimerSteps ==
  ASSUME IInv, Poll \/ Tick
  PROVE  IInv'
<1>1. WorldInv /\ SystemInv /\ KnownInv /\ SweepInv /\ NodesInv
  BY DEF IInv
<1>2. WorldOk
  BY <1>1, WorldKnown
<1>3. /\ world' = world /\ declared' = declared /\ sedp' = sedp
      /\ participants' = participants /\ writers' = writers /\ readers' = readers
      /\ inbox' \subseteq inbox
  BY DEF Poll, Tick, ddsVars, mapVars
<1>4. /\ Gids' = Gids /\ Participants' = Participants
      /\ \A g : EntityOf(g)' = EntityOf(g) /\ IsWriter(g)' = IsWriter(g)
  BY <1>3, SameEndpoints
<1>5. WorldInv' /\ SystemInv' /\ KnownInv'
  BY <1>1, <1>3, <1>4 DEF WorldInv, SystemInv, DeclaredOk, KnownInv
<1>6. \A w \in DOMAIN orphan_first_seen : orphan_first_seen[w] \in 0 .. ORPHAN_GRACE_PERIOD
  BY <1>1 DEF SweepInv
<1>7. ORPHAN_GRACE_PERIOD \in Nat
  BY DiscoveredEntitiesAssumption
<1>8. CASE Poll
  <2>1. WritersOk /\ writers \subseteq Gids
    BY <1>1 DEF KnownInv, WritersOk
  <2>2. Tells(nodes_info', participants', writers', readers', admin_space', local_nodes')
    <3>1. Tells(nodes_info, participants, writers, readers, admin_space, local_nodes)
      BY <1>1 DEF NodesInv
    <3> QED
      BY <1>1, <1>2, <1>8, <2>1, <3>1, Polled DEF SystemInv
  <2>3. \/ orphan_first_seen' = orphan_first_seen
        \/ \E s : orphan_first_seen' = still_unclaimed(s)
    BY <1>8 DEF Poll
  <2>4. ASSUME NEW s, orphan_first_seen' = still_unclaimed(s)
        PROVE  SweepInv'
    <3>1. DOMAIN orphan_first_seen' \subseteq writers
      BY <2>4 DEF still_unclaimed, orphan_candidates
    <3>2. \A w \in DOMAIN orphan_first_seen' :
            orphan_first_seen'[w] = FirstSeen(w) /\ FirstSeen(w) < ORPHAN_GRACE_PERIOD
      BY <2>4 DEF still_unclaimed
    <3>3. \A w : FirstSeen(w) \in 0 .. ORPHAN_GRACE_PERIOD
      BY <1>6, <1>7 DEF FirstSeen
    <3> QED
      BY <1>4, <2>1, <3>1, <3>2, <3>3 DEF SweepInv
  <2>5. SweepInv'
    BY <1>1, <1>4, <2>3, <2>4 DEF SweepInv
  <2> QED
    BY <1>3, <1>5, <2>2, <2>5, NodesNext DEF IInv
<1>9. CASE Tick
  <2>1. /\ DOMAIN orphan_first_seen' = DOMAIN orphan_first_seen
        /\ \A w \in DOMAIN orphan_first_seen : orphan_first_seen'[w] =
             IF orphan_first_seen[w] < ORPHAN_GRACE_PERIOD THEN orphan_first_seen[w] + 1
             ELSE orphan_first_seen[w]
    BY <1>9 DEF Tick
  <2>2. \A w \in DOMAIN orphan_first_seen : orphan_first_seen'[w] \in 0 .. ORPHAN_GRACE_PERIOD
    BY <1>6, <1>7, <2>1
  <2>3. SweepInv'
    BY <1>1, <1>4, <2>1, <2>2 DEF SweepInv
  <2>4. UNCHANGED <<nodes_info, participants, writers, readers, admin_space, local_nodes>>
    BY <1>9 DEF Tick, mapVars
  <2> QED
    BY <1>1, <1>3, <1>5, <2>3, <2>4, NodesSame DEF IInv
<1> QED
  BY <1>8, <1>9

\* A step that changes nothing keeps the invariant.
LEMMA StutterStep ==
  ASSUME IInv, UNCHANGED vars
  PROVE  IInv'
<1>1. WorldInv /\ SystemInv /\ KnownInv /\ SweepInv /\ NodesInv
  BY DEF IInv
<1>2. /\ world' = world /\ UNCHANGED ddsVars /\ orphan_first_seen' = orphan_first_seen
      /\ UNCHANGED <<nodes_info, participants, writers, readers, admin_space, local_nodes>>
  BY DEF vars, ddsVars, mapVars, nodeVars
<1>3. /\ Gids' = Gids /\ Participants' = Participants
      /\ \A g : EntityOf(g)' = EntityOf(g) /\ IsWriter(g)' = IsWriter(g)
  BY <1>2, SameEndpoints
<1>4. WorldInv' /\ SystemInv' /\ KnownInv' /\ SweepInv'
  BY <1>1, <1>2, <1>3 DEF WorldInv, SystemInv, DeclaredOk, KnownInv, SweepInv, ddsVars
<1> QED
  BY <1>1, <1>2, <1>4, NodesSame DEF IInv

\* The invariant is inductive.
THEOREM Inductive == Spec => []IInv
<1>1. IInv /\ [Next]_vars => IInv'
  BY SystemSteps, ToldSteps, TimerSteps, StutterStep DEF Next
<1> QED
  BY InitInv, <1>1, PTL DEF Spec

-----------------------------------------------------------------------------
(* The theorems. *)

\* A node is what the type says of it.
LEMMA NodeTyped ==
  ASSUME NEW p, NEW n, NEW node, NodeGood(p, n, node, readers, writers)
  PROVE  node.fullname = n /\ NodeType(node)
<1>1. node \in Nodes /\ node.fullname = n
  BY DEF NodeGood, NodeOk
<1>2. \A kind \in MsgKinds : \A t \in DOMAIN node[kind] :
        node[kind][t].gids # {} /\ node[kind][t].gids \subseteq Gids
  <2> SUFFICES ASSUME NEW kind \in MsgKinds, NEW t \in DOMAIN node[kind]
               PROVE  node[kind][t].gids # {} /\ node[kind][t].gids \subseteq Gids
    OBVIOUS
  <2>1. node[kind] \in Maps(Names, Msg)
    BY <1>1, NodeFields DEF Msgs
  <2>2. node[kind][t] \in Msg
    BY <2>1, MapFacts
  <2> QED
    BY <2>2 DEF NodeGood, NodeOk, MsgsPlaced, Msg
<1>3. \A kind \in Calls : \A t \in DOMAIN node[kind] :
        node[kind][t].ends \in [Entities(kind) -> Gids \cup {NOT_DISCOVERED}]
  <2> SUFFICES ASSUME NEW kind \in Calls, NEW t \in DOMAIN node[kind]
               PROVE  node[kind][t].ends \in [Entities(kind) -> Gids \cup {NOT_DISCOVERED}]
    OBVIOUS
  <2>1. node[kind] \in Maps(Names, Call(kind))
    BY <1>1, NodeFields DEF CallsOf
  <2>2. node[kind][t] \in Call(kind)
    BY <2>1, MapFacts
  <2> QED
    BY <2>2 DEF Call
<1>4. \A k \in DOMAIN CallKinds : CallKinds[k] \in Calls
  BY KindFacts
<1> QED
  BY <1>1, <1>2, <1>3, <1>4 DEF NodeType, NodeGood

\* The complete interfaces of a node are those that it shows.
LEMMA InterfacesShown ==
  ASSUME NodesGood(nodes_info, readers, writers), NEW id \in NodeIds
  PROVE  InterfacesAt(id) = ShownOf(id[2], NodeAt(id))
<1> DEFINE node == NodeAt(id)
           has(kind) == {m \in DOMAIN node[kind] :
                           kind \in MsgKinds \/ is_complete(node[kind][m])}
           S(kind) == {<<id[2], kind, n>> : n \in has(kind)}
<1>1. Kinds = MsgKinds \cup Range(CallKinds) /\ Kinds = MsgKinds \cup Calls
      /\ MsgKinds \cap Calls = {}
  BY KindFacts DEF Range
<1>2. InterfacesAt(id) = UNION {S(kind) : kind \in Kinds}
  BY <1>1 DEF InterfacesAt
<1>3. id[2] \in NodeNames /\ node \in Nodes
  <2>1. NodeIds = IdsOf(nodes_info)
    BY NodeIdsAre DEF NodesGood
  <2> QED
    BY <2>1 DEF IdsOf, NodesGood, NodeGood, NodeOk, NodeAt
<1> HIDE DEF node
<1>4. \A kind \in Kinds : \A n \in has(kind) : n \in Names
  <2> SUFFICES ASSUME NEW kind \in Kinds
               PROVE  DOMAIN node[kind] \subseteq Names
    OBVIOUS
  <2>1. CASE kind \in MsgKinds
    <3>1. node[kind] \in Maps(Names, Msg)
      BY <1>3, <2>1, NodeFields DEF Msgs
    <3> QED
      BY <3>1, MapFacts
  <2>2. CASE kind \in Calls
    <3>1. node[kind] \in Maps(Names, Call(kind))
      BY <1>3, <2>2, NodeFields DEF CallsOf
    <3> QED
      BY <3>1, MapFacts
  <2> QED
    BY <1>1, <2>1, <2>2
<1>5. \A kind \in Kinds : \A n : n \in has(kind) <=> Shows(node, kind, n)
  BY <1>1 DEF Shows
<1> HIDE DEF has
<1>6. ASSUME NEW x \in ShownOf(id[2], node)
      PROVE  \E kind \in Kinds : x \in S(kind)
  <2>1. /\ x \in NodeNames \X Kinds \X Names /\ x[1] = id[2]
        /\ Shows(node, x[2], x[3])
    BY DEF ShownOf, Own, Keys
  <2>2. x = <<x[1], x[2], x[3]>> /\ x[2] \in Kinds
    BY <2>1
  <2>3. x[3] \in has(x[2])
    BY <1>5, <2>1, <2>2
  <2> QED
    BY <2>1, <2>2, <2>3
<1>7. ASSUME NEW kind \in Kinds, NEW x \in S(kind)
      PROVE  x \in ShownOf(id[2], node)
  <2>1. PICK n \in has(kind) : x = <<id[2], kind, n>>
    OBVIOUS
  <2>2. n \in Names /\ Shows(node, kind, n)
    BY <1>4, <1>5
  <2>3. x \in NodeNames \X Kinds \X Names /\ x[1] = id[2] /\ x[2] = kind /\ x[3] = n
    BY <1>3, <2>1, <2>2
  <2> QED
    BY <2>2, <2>3 DEF ShownOf, Own, Keys
<1> HIDE DEF S
<1>8. UNION {S(kind) : kind \in Kinds} = ShownOf(id[2], node)
  BY <1>6, <1>7
<1> QED
  BY <1>2, <1>8 DEF node

\* The events have told of the interfaces that the nodes have.
LEMMA ShownInterfaces ==
  ASSUME NodesGood(nodes_info, readers, writers)
  PROVE  DiscoveredIn(nodes_info) = UNION {InterfacesAt(id) : id \in NodeIds}
<1>1. NodeIds = IdsOf(nodes_info) /\ \A id \in NodeIds : NodeAt(id) = nodes_info[id[1]][id[2]]
  BY NodeIdsAre DEF NodesGood, NodeAt
<1>2. \A id \in NodeIds : InterfacesAt(id) = ShownOf(id[2], NodeAt(id))
  BY InterfacesShown
<1>3. \A x : x \in DiscoveredIn(nodes_info) <=>
               \E id \in NodeIds : x \in ShownOf(id[2], NodeAt(id))
  BY <1>1 DEF DiscoveredIn, ShownOf, Own
<1> QED
  BY <1>2, <1>3

\* The maps of the discovery hold what DDS has told of, whatever the order of
\* declarations, announcements and losses: no node waits for an endpoint that was
\* announced, and none keeps an interface without endpoints.
THEOREM TypeCorrect == Spec => []TypeOK
<1>1. IInv => TypeOK
  <2> SUFFICES ASSUME IInv PROVE TypeOK
    OBVIOUS
  <2>1. NodesGood(nodes_info, readers, writers)
    BY DEF IInv, NodesInv, Tells
  <2>2. NodeIds = IdsOf(nodes_info) /\ DOMAIN nodes_info \subseteq Participants
    BY <2>1, NodeIdsAre, MapFacts DEF NodesGood, NodeMaps
  <2>3. \A id \in NodeIds : NodeAt(id).fullname = id[2] /\ NodeType(NodeAt(id))
    BY <2>1, <2>2, NodeTyped DEF NodesGood, NodeAt
  <2> QED
    BY <2>2, <2>3 DEF TypeOK, IInv, KnownInv, SweepInv
<1> QED
  BY Inductive, <1>1, PTL

\* The admin space lists every participant, endpoint and node that is discovered, and
\* nothing that is gone.
THEOREM AdminSpaceIsExact == Spec => []AdminSpaceExact
<1>1. IInv => AdminSpaceExact
  <2> SUFFICES ASSUME IInv PROVE AdminSpaceExact
    OBVIOUS
  <2>1. /\ NodesGood(nodes_info, readers, writers)
        /\ admin_space = AdminOf(nodes_info, participants, writers, readers)
    BY DEF IInv, NodesInv, Tells
  <2>2. NodeIds = IdsOf(nodes_info)
    BY <2>1, NodeIdsAre DEF NodesGood
  <2> QED
    BY <2>1, <2>2 DEF AdminSpaceExact, AdminOf
<1> QED
  BY Inductive, <1>1, PTL

\* In systems without two nodes of one name the events have always told of exactly the
\* interfaces that are complete.
THEOREM EventsMatch ==
  ASSUME UniqueNodeNames
  PROVE  Spec => []EventsMatchNodes
<1>1. IInv => EventsMatchNodes
  <2> SUFFICES ASSUME IInv PROVE EventsMatchNodes
    OBVIOUS
  <2>1. NamesDisjoint
    BY NamesUnique DEF IInv
  <2>2. NodesGood(nodes_info, readers, writers) /\ local_nodes = DiscoveredIn(nodes_info)
    BY <2>1 DEF IInv, NodesInv, Tells
  <2> QED
    BY <2>2, ShownInterfaces DEF EventsMatchNodes
<1> QED
  BY Inductive, <1>1, PTL

-----------------------------------------------------------------------------
(* Alike events keep an interface that is known before and after them. *)

\* What the first events leave is what they alone would leave.
LEMMA AfterFirst ==
  ASSUME NEW known, NEW events, NEW E, NEW first \in Seq(E),
         \A i \in 1 .. Len(first) : events[i] = first[i]
  PROVE  After(Len(first), known, events) = Known(known, first)
<1> DEFINE of(e) == {i \in 1 .. Len(first) : e[i].ev \in {"Discovered", "Undiscovered"}}
           about(e, x) == {i \in of(e) : Interface(e[i]) = x}
           told(e) == {x \in {Interface(e[i]) : i \in of(e)} :
                         e[Max(about(e, x))].ev = "Discovered"}
<1>1. of(events) = of(first) /\ \A x : about(events, x) = about(first, x)
  OBVIOUS
<1>2. /\ After(Len(first), known, events) = {x \in known : about(events, x) = {}} \cup told(events)
      /\ Known(known, first) = {x \in known : about(first, x) = {}} \cup told(first)
  BY DEF After, Known
<1>3. told(events) = told(first)
  <2>1. \A i \in of(first) : Interface(events[i]) = Interface(first[i])
    OBVIOUS
  <2>2. {Interface(events[i]) : i \in of(events)} = {Interface(first[i]) : i \in of(first)}
    BY <1>1, <2>1
  <2>3. ASSUME NEW x \in {Interface(first[i]) : i \in of(first)}
        PROVE  events[Max(about(first, x))] = first[Max(about(first, x))]
    <3>1. about(first, x) = About(first, x) /\ About(first, x) # {}
      BY DEF About, Of
    <3>2. Max(About(first, x)) \in 1 .. Len(first)
      BY <3>1, LastAbout
    <3> QED
      BY <3>1, <3>2
  <2>4. \A x \in {Interface(first[i]) : i \in of(first)} :
          events[Max(about(events, x))] = first[Max(about(first, x))]
    BY <1>1, <2>3
  <2> HIDE DEF of, about
  <2> QED
    BY <2>2, <2>4
<1> HIDE DEF told, about, of
<1> QED
  BY <1>1, <1>2, <1>3

\* The events discover interfaces only, or undiscover some only.
Alike(events) == \A i, j \in 1 .. Len(events) : events[i].ev = events[j].ev

\* From s to t such events are told.
Grows(s, t) == \E e \in Seq(Evs) : t.evts = s.evts \o e /\ Alike(e)

\* Whenever events are told, one of the interfaces xs is known.
Covered(xs, events) == \A k \in 0 .. Len(events) : xs \cap After(k, local_nodes, events) # {}

\* An interface that is known before alike events and after them is known all the time.
LEMMA KnownThroughout ==
  ASSUME NEW known, NEW e \in Seq(Evs), Alike(e), NEW x \in known, x \in Known(known, e),
         NEW m \in 0 .. Len(e)
  PROVE  x \in Known(known, SubSeq(e, 1, m))
<1> DEFINE first == SubSeq(e, 1, m)
<1> SUFFICES x \in Known(known, first)
  OBVIOUS
<1>1. /\ Len(e) \in Nat /\ first \in Seq(Evs) /\ Len(first) = m
      /\ \A i \in 1 .. m : first[i] = e[i]
  OBVIOUS
<1> HIDE DEF first
<1>2. CASE About(first, x) = {}
  BY <1>2, KnownElement
<1>3. CASE About(first, x) # {}
  <2> DEFINE i == Max(About(first, x))
             j == Max(About(e, x))
  <2>1. i \in About(first, x) /\ i \in 1 .. m
    BY <1>1, <1>3, LastAbout
  <2>2. i \in About(e, x) /\ i \in 1 .. Len(e)
    BY <1>1, <2>1 DEF About, Of
  <2>3. Leaves(e, x)
    BY <2>2, KnownElement
  <2>4. j \in 1 .. Len(e) /\ e[j].ev = "Discovered"
    BY <2>3, LastAbout DEF Leaves
  <2> HIDE DEF i, j
  <2>5. e[i].ev = "Discovered" /\ first[i] = e[i]
    BY <1>1, <2>1, <2>2, <2>4 DEF Alike
  <2> QED
    BY <1>3, <2>5, KnownElement DEF Leaves, i
<1> QED
  BY <1>2, <1>3

\* Alike events of a poll keep up what its earlier events have, with an interface that
\* the nodes have before them and after.
LEMMA CoverKept ==
  ASSUME NamesDisjoint, NEW s, NEW t, Good(s), Good(t), Grows(s, t), NEW xs, NEW x \in xs,
         x \in DiscoveredIn(s.nodes), x \in DiscoveredIn(t.nodes), Covered(xs, s.evts)
  PROVE  Covered(xs, t.evts)
<1>1. PICK e \in Seq(Evs) : t.evts = s.evts \o e /\ Alike(e)
  BY DEF Grows
<1> DEFINE n == Len(s.evts)
           u == t.evts
<1>2. /\ s.evts \in Seq(Evs) /\ n \in Nat /\ Len(e) \in Nat
      /\ Len(u) = n + Len(e)
      /\ \A i \in 1 .. n : u[i] = s.evts[i]
      /\ \A i \in 1 .. Len(e) : u[n + i] = e[i]
  <2>1. s.evts \in Seq(Evs)
    BY DEF Good, PollStates
  <2> QED
    BY <1>1, <2>1, ConcatProperties
<1>3. Known(local_nodes, s.evts) = DiscoveredIn(s.nodes)
  BY DEF Good
<1>4. x \in Known(DiscoveredIn(s.nodes), e)
  <2>1. Known(local_nodes, u) = Known(Known(local_nodes, s.evts), e)
    BY <1>1, <1>2, KnownJoined
  <2> QED
    BY <1>3, <2>1 DEF Good
<1> SUFFICES ASSUME NEW k \in 0 .. Len(u)
             PROVE  xs \cap After(k, local_nodes, u) # {}
  BY DEF Covered
<1> HIDE DEF u, n
<1>5. CASE k <= n
  <2> DEFINE first == SubSeq(s.evts, 1, k)
  <2>1. k \in 0 .. Len(s.evts) /\ k \in Nat
    BY <1>2, <1>5 DEF n
  <2>2. first \in Seq(Evs) /\ Len(first) = k /\ \A i \in 1 .. k : first[i] = s.evts[i]
    BY <1>2, <2>1
  <2> HIDE DEF first
  <2>3. \A i \in 1 .. k : u[i] = first[i]
    BY <1>2, <1>5, <2>1, <2>2
  <2>4. /\ After(k, local_nodes, u) = Known(local_nodes, first)
        /\ After(k, local_nodes, s.evts) = Known(local_nodes, first)
    BY <2>2, <2>3, AfterFirst
  <2> QED
    BY <2>1, <2>4 DEF Covered
<1>6. CASE k > n
  <2> DEFINE m == k - n
             more == SubSeq(e, 1, m)
             first == s.evts \o more
  <2>1. m \in 1 .. Len(e) /\ m \in 0 .. Len(e) /\ k = n + m /\ m \in Nat
    BY <1>2, <1>6
  <2> HIDE DEF m
  <2>2. more \in Seq(Evs) /\ Len(more) = m /\ \A i \in 1 .. m : more[i] = e[i]
    BY <2>1
  <2>3. x \in Known(DiscoveredIn(s.nodes), more)
    BY <1>1, <1>4, <2>1, KnownThroughout
  <2> HIDE DEF more
  <2>4. Known(local_nodes, first) = Known(DiscoveredIn(s.nodes), more)
    BY <1>2, <1>3, <2>2, KnownJoined
  <2>5. /\ first \in Seq(Evs) /\ Len(first) = n + m
        /\ \A i \in 1 .. n : first[i] = s.evts[i]
        /\ \A i \in 1 .. m : first[n + i] = more[i]
    <3>1. Len(s.evts) = n
      BY DEF n
    <3>2. s.evts \in Seq(Evs)
      BY <1>2
    <3>3. /\ n \in Nat /\ m \in Nat
          /\ \A i \in 1 .. n : i \in 1 .. n + m /\ i <= n
          /\ \A i \in 1 .. m : n + i \in 1 .. n + m /\ ~(n + i <= n) /\ (n + i) - n = i
      BY <1>2, <2>1
    <3>4. /\ first \in Seq(Evs) /\ Len(first) = n + m
          /\ \A i \in 1 .. n + m : first[i] = IF i <= n THEN s.evts[i] ELSE more[i - n]
      BY <2>2, <3>1, <3>2, ConcatProperties
    <3> HIDE DEF first
    <3> QED
      BY <3>3, <3>4
  <2> HIDE DEF first
  <2>6. \A i \in 1 .. Len(first) : u[i] = first[i]
    <3> SUFFICES ASSUME NEW i \in 1 .. n + m PROVE u[i] = first[i]
      BY <2>5
    <3>1. CASE i <= n
      BY <1>2, <2>1, <2>5, <3>1
    <3>2. CASE i > n
      <4> DEFINE j == i - n
      <4>1. j \in 1 .. m /\ j \in 1 .. Len(e) /\ i = n + j
        BY <1>2, <2>1, <3>2
      <4> HIDE DEF j
      <4>2. u[n + j] = e[j] /\ first[n + j] = more[j] /\ more[j] = e[j]
        BY <1>2, <2>2, <2>5, <4>1
      <4> QED
        BY <4>1, <4>2
    <3> QED
      BY <1>2, <2>1, <3>1, <3>2
  <2>7. After(k, local_nodes, u) = Known(local_nodes, first)
    BY <2>1, <2>5, <2>6, AfterFirst
  <2> QED
    BY <2>3, <2>4, <2>7
<1> QED
  BY <1>2, <1>5, <1>6

-----------------------------------------------------------------------------
(* The publishers of a node. *)

\* A publisher of the node has Writer w.
Publishes(node, w) == \E t \in DOMAIN node.msg_pub : w \in node.msg_pub[t].gids

\* A Writer that makes a publisher.
OnTopic(w) == IsWriter(w) /\ IsMessage(w) /\ TopicName(w) \notin BadNames

\* What the publishers gain from endpoint g.
Gains(node, new, g) ==
  /\ DOMAIN node.msg_pub \subseteq DOMAIN new.msg_pub
  /\ \A w : Publishes(node, w) => Publishes(new, w)
  /\ \A w : Publishes(new, w) => Publishes(node, w) \/ (w = g /\ OnTopic(g))
  /\ OnTopic(g) => TopicName(g) \in DOMAIN new.msg_pub

\* They gain a message Writer and no other endpoint.
LEMMA PublisherGained ==
  ASSUME WorldOk, NEW node \in Nodes, NEW g \in Gids
  PROVE  Gains(node, update_with(node, g).node, g)
<1> DEFINE u == update_with(node, g)
           t == TopicName(g)
           typ == EntityOf(g).typ
           pubs == node.msg_pub
<1> SUFFICES Gains(node, u.node, g)
  OBVIOUS
<1>1. CASE IsWriter(g) /\ IsMessage(g)
  <2> DEFINE known == t \in DOMAIN pubs
             new == [typ |-> typ, gids |-> (IF known THEN pubs[t].gids ELSE {}) \cup {g}]
             msgs == Inserted(pubs, t, new)
             made == [node EXCEPT !["msg_pub"] = msgs]
  <2>1. u = update_msg(node, "msg_pub", t, typ, g)
    <3>1. EntityOf(g).key = g
      BY DEF WorldOk
    <3> QED
      BY <1>1, <3>1 DEF update_with, IsWriter, IsMessage, TopicName, update_with_writer,
         update_msg_pub
  <2>2. CASE t \in BadNames \/ (known /\ pubs[t].typ # typ)
    <3>1. u.node = node
      BY <2>1, <2>2 DEF update_msg, Ignored
    <3>2. OnTopic(g) => t \in DOMAIN pubs
      BY <2>2 DEF OnTopic
    <3> HIDE DEF u
    <3> QED
      BY <3>1, <3>2 DEF Gains
  <2>3. CASE ~(t \in BadNames \/ (known /\ pubs[t].typ # typ))
    <3>1. u.node = made
      BY <2>1, <2>3 DEF update_msg
    <3>2. made.msg_pub = msgs
      BY DEF Nodes
    <3>3. /\ DOMAIN msgs = DOMAIN pubs \cup {t} /\ msgs[t].gids = new.gids
          /\ \A x \in DOMAIN pubs \ {t} : msgs[x] = pubs[x]
      BY DEF Inserted
    <3>4. /\ \A w : known /\ w \in pubs[t].gids => w \in new.gids
          /\ g \in new.gids
          /\ \A w \in new.gids : w = g \/ (known /\ w \in pubs[t].gids)
      OBVIOUS
    <3>5. OnTopic(g)
      BY <1>1, <2>3 DEF OnTopic
    <3> HIDE DEF u, made, msgs, new
    <3>6. \A w : Publishes(node, w) => Publishes(u.node, w)
      BY <3>1, <3>2, <3>3, <3>4 DEF Publishes
    <3>7. \A w : Publishes(u.node, w) => Publishes(node, w) \/ w = g
      BY <3>1, <3>2, <3>3, <3>4 DEF Publishes
    <3> QED
      BY <3>1, <3>2, <3>3, <3>5, <3>6, <3>7 DEF Gains
  <2> QED
    BY <2>2, <2>3
<1>2. CASE ~(IsWriter(g) /\ IsMessage(g))
  <2>1. Place(g)[1] # "msg_pub"
    BY <1>2 DEF Place, PlaceOf, IsWriter, IsMessage
  <2>2. UpdatesPlace(node, g, u)
    BY ReaderPlaced, WriterPlaced DEF update_with, IsWriter
  <2> HIDE DEF u
  <2>3. u.node.msg_pub = node.msg_pub
    <3>1. CASE u = Ignored(node)
      BY <3>1 DEF Ignored
    <3>2. ASSUME NEW kind \in MsgKinds, Place(g) = <<kind, "">>,
                 u = update_msg(node, kind, t, typ, g)
          PROVE  u.node.msg_pub = node.msg_pub
      <4>1. <<kind, "">>[1] = kind
        OBVIOUS
      <4>2. kind = "msg_sub"
        BY <2>1, <3>2, <4>1 DEF MsgKinds
      <4> QED
        BY <3>2, <4>2 DEF update_msg, Ignored, Nodes
    <3>3. ASSUME NEW kind \in Calls, NEW end \in Entities(kind), NEW x,
                 u = update_call(node, kind, t, x, end, g)
          PROVE  u.node.msg_pub = node.msg_pub
      <4>1. \A y : OnlyChanges(node, kind, y, [node EXCEPT ![kind] = y])
        BY NodeChanged, KindFacts
      <4>2. "msg_pub" \in Kinds \ {kind}
        BY KindFacts DEF MsgKinds
      <4>3. \A y : [node EXCEPT ![kind] = y].msg_pub = node.msg_pub
        BY <4>1, <4>2 DEF OnlyChanges
      <4> QED
        BY <3>3, <4>3 DEF update_call, Ignored
    <3> QED
      BY <2>2, <3>1, <3>2, <3>3 DEF UpdatesPlace
  <2> QED
    BY <1>2, <2>3 DEF Gains, Publishes, OnTopic
<1> QED
  BY <1>1, <1>2

\* What the publishers lose with endpoint g.
Loses(node, new, g) ==
  /\ \A w : Publishes(new, w) => Publishes(node, w)
  /\ \A w : w # g /\ Publishes(node, w) => Publishes(new, w)

\* They lose no other endpoint.
LEMMA EndpointLost ==
  ASSUME NEW node \in Nodes, NEW g, NEW msg \in MsgKinds, NEW ends
  PROVE  Loses(node, remove_endpoint(node, msg, ends, g).node, g)
<1> DEFINE Without(m) == [typ |-> m.typ, gids |-> m.gids \ {g}]
           msgs == [x \in DOMAIN node[msg] |-> Without(node[msg][x])]
           left == [node EXCEPT ![msg] = msgs]
           emptied == {x \in DOMAIN node[msg] : node[msg][x].gids = {g}}
           Using(kind) == {x \in DOMAIN node[kind] :
                             \E end \in Entities(kind) \cap ends : node[kind][x].ends[end] = g}
           used == {k \in DOMAIN CallKinds : Using(CallKinds[k]) # {}}
           first == CallKinds[Min(used)]
           r == remove_endpoint(node, msg, ends, g)
<1> SUFFICES Loses(node, r.node, g)
  OBVIOUS
<1>1. r = IF emptied # {} THEN Undiscover(left, msg, CHOOSE x \in emptied : TRUE)
          ELSE IF used # {} THEN Undiscover(left, first, CHOOSE x \in Using(first) : TRUE)
          ELSE Ignored(left)
  BY DEF remove_endpoint
<1> HIDE DEF r
<1>2. /\ DOMAIN msgs = DOMAIN node[msg]
      /\ \A x \in DOMAIN msgs : msgs[x].gids = node[msg][x].gids \ {g}
  OBVIOUS
<1>3. left.msg_pub = IF msg = "msg_pub" THEN msgs ELSE node.msg_pub
  BY DEF Nodes, MsgKinds
<1>4. left \in [DOMAIN node -> {left[f] : f \in DOMAIN node}]
  OBVIOUS
<1> HIDE DEF msgs
<1>5. Loses(node, left, g)
  BY <1>2, <1>3 DEF Loses, Publishes
<1>6. CASE emptied # {}
  <2> DEFINE t == CHOOSE x \in emptied : TRUE
             map == Restrict(left[msg], DOMAIN left[msg] \ {t})
             new == [left EXCEPT ![msg] = map]
  <2>1. r.node = new
    BY <1>1, <1>6 DEF Undiscover
  <2>2. t \in emptied
    <3> HIDE DEF emptied
    <3> QED
      BY <1>6
  <2>3. DOMAIN map = DOMAIN left[msg] \ {t} /\ \A x \in DOMAIN map : map[x] = left[msg][x]
    BY DEF Restrict
  <2>4. new.msg_pub = IF msg = "msg_pub" THEN map ELSE left.msg_pub
    BY DEF Nodes, MsgKinds
  <2> HIDE DEF t, map, new, left
  <2>5. \A w : Publishes(new, w) => Publishes(left, w)
    BY <2>3, <2>4 DEF Publishes
  <2>6. \A w : w # g /\ Publishes(left, w) => Publishes(new, w)
    <3>1. CASE msg = "msg_pub"
      <4>1. left[msg] = msgs /\ left.msg_pub = msgs
        BY <1>3, <3>1
      <4>2. msgs[t].gids = {}
        BY <1>2, <2>2
      <4> QED
        BY <2>3, <2>4, <3>1, <4>1, <4>2 DEF Publishes
    <3>2. CASE msg # "msg_pub"
      BY <2>4, <3>2 DEF Publishes
    <3> QED
      BY <3>1, <3>2
  <2> QED
    BY <1>5, <2>1, <2>5, <2>6 DEF Loses
<1>7. CASE emptied = {} /\ used # {}
  <2>1. first \in Calls
    <3>1. used \subseteq 1 .. 4
      BY KindFacts
    <3>2. Min(used) \in used
      <4>1. 1 .. 4 \subseteq Nat
        OBVIOUS
      <4> HIDE DEF used
      <4>2. \E k \in used : \A l \in used : k <= l
        BY <1>7, <3>1, <4>1, LeastNatural
      <4> QED
        BY <4>2 DEF Min
    <3> HIDE DEF used
    <3> QED
      BY <3>1, <3>2, KindFacts
  <2>2. r.node.msg_pub = left.msg_pub
    <3> HIDE DEF first, left
    <3>1. r.node = [left EXCEPT ![first] = Restrict(left[first], DOMAIN left[first]
                                                      \ {CHOOSE x \in Using(first) : TRUE})]
      BY <1>1, <1>7 DEF Undiscover
    <3>2. first # "msg_pub"
      BY <2>1 DEF Calls
    <3> QED
      BY <3>1, <3>2
  <2> HIDE DEF left
  <2> QED
    BY <1>5, <2>2 DEF Loses, Publishes
<1>8. CASE emptied = {} /\ used = {}
  BY <1>1, <1>5, <1>8 DEF Ignored
<1> QED
  BY <1>6, <1>7, <1>8

\* A node that is told that endpoint g is gone loses no other one.
LEMMA PublisherLost ==
  ASSUME NEW node \in Nodes, NEW g
  PROVE  /\ Loses(node, remove_writer(node, g).node, g)
         /\ Loses(node, remove_from(node, g).node, g)
<1> DEFINE r == remove_endpoint(node, "msg_sub", ReaderEnds, g)
           w == remove_endpoint(node, "msg_pub", AllEnds \ ReaderEnds, g)
<1>1. Loses(node, r.node, g) /\ Loses(node, w.node, g)
  BY EndpointLost DEF MsgKinds
<1>2. ASSUME NEW result, NEW list \in Lists, Loses(node, result.node, g)
      PROVE  Loses(node, Forget(result, list, g).node, g)
  <2>1. [result.node EXCEPT ![list] = result.node[list] \ {g}].msg_pub = result.node.msg_pub
    BY <1>2 DEF Lists
  <2>2. Forget(result, list, g).node.msg_pub = result.node.msg_pub
    BY <2>1 DEF Forget, Ignored
  <2> QED
    BY <1>2, <2>2 DEF Loses, Publishes
<1>3. /\ remove_reader(node, g) = Forget(r, "undiscovered_reader", g)
      /\ remove_writer(node, g) = Forget(w, "undiscovered_writer", g)
  BY DEF remove_reader, remove_writer
<1> HIDE DEF r, w
<1>4. /\ Loses(node, Forget(r, "undiscovered_reader", g).node, g)
      /\ Loses(node, Forget(w, "undiscovered_writer", g).node, g)
  BY <1>1, <1>2 DEF Lists
<1> QED
  BY <1>3, <1>4 DEF remove_from

\* DDS has announced the Writer of a publisher.
Gainable(w) == w \in writers /\ OnTopic(w)

\* All events are discoveries.
Discoveries(events) == \A i \in 1 .. Len(events) : events[i].ev = "Discovered"

\* Discoveries follow discoveries.
LEMMA DiscoveriesJoined ==
  ASSUME NEW E, NEW s \in Seq(E), NEW t \in Seq(E), Discoveries(s), Discoveries(t)
  PROVE  Discoveries(s \o t)
<1> DEFINE u == s \o t
           m == Len(s)
           n == Len(t)
<1>1. /\ Len(u) = m + n
      /\ \A i \in 1 .. m + n : u[i] = IF i <= m THEN s[i] ELSE t[i - m]
  BY ConcatProperties
<1>2. m \in Nat /\ n \in Nat
  OBVIOUS
<1> HIDE DEF u
<1> SUFFICES ASSUME NEW i \in 1 .. m + n PROVE u[i].ev = "Discovered"
  BY <1>1 DEF Discoveries, u
<1>3. CASE i <= m
  <2>1. i \in 1 .. m
    BY <1>2, <1>3
  <2> QED
    BY <1>1, <1>3, <2>1 DEF Discoveries
<1>4. CASE ~(i <= m)
  <2>1. i - m \in 1 .. n
    BY <1>2, <1>4
  <2> QED
    BY <1>1, <1>4, <2>1 DEF Discoveries
<1> QED
  BY <1>3, <1>4

\* What tells of a find is a discovery.
LEMMA FoundDiscovers ==
  ASSUME NEW n, NEW node, NEW new, NEW events, TellsFound(n, node, new, events)
  PROVE  Discoveries(events)
<1>1. CASE events = <<>>
  BY <1>1 DEF Discoveries
<1>2. ASSUME NEW k, NEW m,
             events = <<[ev |-> "Discovered", node |-> n, kind |-> k, name |-> m]>>
      PROVE  Discoveries(events)
  BY <1>2 DEF Discoveries
<1> QED
  BY <1>1, <1>2 DEF TellsFound

\* What was chosen is chosen in some place.
LEMMA ChosenAll ==
  ASSUME NEW S, NEW order \in Seq(S), NEW set, NEW j \in DOMAIN order, order[j] \in set
  PROVE  \E i \in DOMAIN Chosen(order, set) : Chosen(order, set)[i] = order[j]
<1> DEFINE positions == {i \in DOMAIN order : order[i] \in set}
<1>1. Selected(Subsequence(order, positions), order, positions)
  BY SubsequenceElements
<1>2. j \in positions
  OBVIOUS
<1> HIDE DEF positions
<1> QED
  BY <1>1, <1>2 DEF Selected, Chosen, positions

\* Every declared Writer that is met is declared in some place.
LEMMA DeclarationsAll ==
  ASSUME NEW ends \in SUBSET Gids, NEW order \in Seq(Gids), NEW j \in DOMAIN order,
         order[j] \in ends, IsWriter(order[j])
  PROVE  \E i \in 1 .. Len(Declarations(ends, order)) : Declarations(ends, order)[i] = order[j]
<1> DEFINE rs == Chosen(order, {g \in ends : ~IsWriter(g)})
           ws == Chosen(order, {g \in ends : IsWriter(g)})
<1>1. rs \in Seq(Gids \cap {g \in ends : ~IsWriter(g)})
  BY ChosenElements
<1>2. ws \in Seq(Gids \cap {g \in ends : IsWriter(g)})
  BY ChosenElements
<1>3. PICK i \in DOMAIN ws : ws[i] = order[j]
  <2>1. order[j] \in {g \in ends : IsWriter(g)}
    OBVIOUS
  <2> QED
    BY <2>1, ChosenAll
<1>4. Declarations(ends, order) = rs \o ws
  BY DEF Declarations
<1> HIDE DEF rs, ws
<1>5. rs \in Seq(Gids) /\ ws \in Seq(Gids)
  BY <1>1, <1>2
<1>6. /\ Len(rs \o ws) = Len(rs) + Len(ws)
      /\ \A k \in 1 .. Len(rs) + Len(ws) :
           (rs \o ws)[k] = IF k <= Len(rs) THEN rs[k] ELSE ws[k - Len(rs)]
  BY <1>5, ConcatProperties
<1> DEFINE k == Len(rs) + i
<1>7. Len(rs) \in Nat /\ Len(ws) \in Nat /\ i \in 1 .. Len(ws)
  BY <1>5
<1>8. k \in 1 .. Len(rs) + Len(ws) /\ ~(k <= Len(rs)) /\ k - Len(rs) = i
  BY <1>7
<1> HIDE DEF k
<1>9. (rs \o ws)[k] = order[j]
  BY <1>3, <1>6, <1>8
<1> QED
  BY <1>4, <1>6, <1>8, <1>9

\* What the publishers of a node gain from the endpoints that it declares: the announced
\* Writers, and a publisher for each of them.
Informs(node, ends, order, u) ==
  /\ DOMAIN node.msg_pub \subseteq DOMAIN u.node.msg_pub
  /\ \A w : Publishes(u.node, w) => Publishes(node, w) \/ Gainable(w)
  /\ Discoveries(u.evts)
  /\ \A j \in DOMAIN order :
       order[j] \in ends /\ Gainable(order[j]) => TopicName(order[j]) \in DOMAIN u.node.msg_pub

\* A node gains what it declares.
LEMMA InfoGains ==
  ASSUME WorldOk, NEW p, NEW n \in NodeNames, n # OrphanNode(p), NEW node,
         NodeGood(p, n, node, readers, writers),
         NEW ends \in SUBSET Gids, \A g \in ends : Mine(p, n, g), NEW order \in Seq(Gids)
  PROVE  Informs(node, ends, order, update_node_info(node, ends, order))
<1> DEFINE base == Ignored(node)
           seq == Declarations(ends, order)
           V == {acc \in [node : Nodes, evts : Seq(Evs)] : Becomes(p, n, node, acc)}
           Gained(k, acc) ==
             /\ DOMAIN node.msg_pub \subseteq DOMAIN acc.node.msg_pub
             /\ \A w : Publishes(acc.node, w) => Publishes(node, w) \/ Gainable(w)
             /\ Discoveries(acc.evts)
             /\ \A i \in 1 .. k :
                  Gainable(seq[i]) => TopicName(seq[i]) \in DOMAIN acc.node.msg_pub
           W == {x \in Nat \X V : Gained(x[1], x[2])}
<1>1. seq \in Seq(ends) /\ Len(seq) \in Nat
  BY DeclarationsOf
<1>2. base \in V
  <2>1. base.node = node /\ base.evts = <<>> /\ node \in Nodes
    BY DEF Ignored, NodeGood, NodeOk
  <2>2. Follows(n, ShownOf(n, node), ShownOf(n, node), <<>>)
    BY FollowsNothing
  <2>3. base \in [node : Nodes, evts : Seq(Evs)]
    BY <2>1 DEF Ignored
  <2> HIDE DEF base
  <2> QED
    BY <2>1, <2>2, <2>3 DEF Becomes
<1>3. base.node = node /\ base.evts = <<>>
  BY DEF Ignored
<1>4. /\ seq = Declarations(ends, order)
      /\ base = Ignored(node)
  OBVIOUS
<1> HIDE DEF seq, base
<1>5. ASSUME NEW acc \in V, NEW i \in 1 .. Len(seq)
      PROVE  /\ Declares(acc, seq[i]) \in V
             /\ Gained(i - 1, acc) => Gained(i, Declares(acc, seq[i]))
  <2> DEFINE g == seq[i]
             list == undiscovered(g)
             u == update_with(acc.node, g)
             r == Declares(acc, g)
  <2>1. g \in Gids /\ Mine(p, n, g) /\ Becomes(p, n, node, acc)
    BY <1>1
  <2>2. NodeOk(p, n, acc.node) /\ acc.node \in Nodes /\ acc.evts \in Seq(Evs)
    BY <2>1 DEF Becomes, NodeGood, NodeOk, Follows
  <2> HIDE DEF g
  <2>3. Becomes(p, n, node, r)
    BY <2>1, DeclaredKeeps DEF Declares
  <2>4. r \in V
    <3>1. r \in [node : Nodes, evts : Seq(Evs)]
      <4>1. r.node \in Nodes /\ r.evts \in Seq(Evs)
        BY <2>3 DEF Becomes, NodeGood, NodeOk, Follows
      <4> QED
        BY <4>1 DEF Declares
    <3> HIDE DEF r
    <3> QED
      BY <2>3, <3>1
  <2>5. ASSUME Gained(i - 1, acc) PROVE Gained(i, r)
    <3> SUFFICES /\ DOMAIN acc.node.msg_pub \subseteq DOMAIN r.node.msg_pub
                 /\ \A w : Publishes(r.node, w) => Publishes(acc.node, w) \/ Gainable(w)
                 /\ Discoveries(r.evts)
                 /\ Gainable(g) => TopicName(g) \in DOMAIN r.node.msg_pub
      <4>1. \A k \in 1 .. i : k \in 1 .. i - 1 \/ k = i
        OBVIOUS
      <4> HIDE DEF r
      <4> QED
        BY <2>5, <4>1 DEF g
    <3>1. CASE g \in (IF IsWriter(g) THEN writers ELSE readers)
      <4>1. r.node = u.node /\ r.evts = acc.evts \o u.evts
        BY <3>1 DEF Declares
      <4>2. UpdateOk(p, n, acc.node, u)
        BY <2>1, <2>2, UpdatedWith
      <4>3. Gains(acc.node, u.node, g)
        BY <2>1, <2>2, PublisherGained
      <4> HIDE DEF r, u
      <4>4. Discoveries(u.evts) /\ u.evts \in Seq(Evs)
        <5>1. Follows(n, ShownOf(n, acc.node), ShownOf(n, u.node), u.evts)
          BY <4>2, FollowsFound DEF UpdateOk
        <5> QED
          BY <4>2, <5>1, FoundDiscovers DEF UpdateOk, Follows
      <4>5. Discoveries(r.evts)
        BY <2>2, <2>5, <4>1, <4>4, DiscoveriesJoined
      <4>6. OnTopic(g) => Gainable(g)
        BY <3>1 DEF Gainable, OnTopic
      <4> QED
        BY <4>1, <4>3, <4>5, <4>6 DEF Gains, Gainable
    <3>2. CASE g \notin (IF IsWriter(g) THEN writers ELSE readers)
      <4>1. r.node.msg_pub = acc.node.msg_pub /\ r.evts = acc.evts
        <5>1. [acc.node EXCEPT ![list] = acc.node[list] \cup {g}].msg_pub = acc.node.msg_pub
          BY <2>2 DEF undiscovered, Nodes
        <5> QED
          BY <3>2, <5>1 DEF Declares
      <4>2. ~Gainable(g)
        BY <3>2 DEF Gainable, OnTopic
      <4> HIDE DEF r
      <4> QED
        BY <2>5, <4>1, <4>2 DEF Publishes
    <3> QED
      BY <3>1, <3>2
  <2> HIDE DEF r
  <2> QED
    BY <2>4, <2>5 DEF r, g
<1>6. Gained(0, base)
  BY <1>3 DEF Discoveries
<1> HIDE DEF V, Gained
<1>7. <<0, base>> \in W
  BY <1>2, <1>6
<1>8. \A k \in 1 .. Len(seq) : \A acc \in V :
        <<k - 1, acc>> \in W => <<k, Declares(acc, seq[k])>> \in W
  BY <1>1, <1>5
<1>9. <<Len(seq), update_node_info(node, ends, order)>> \in W
  <2> HIDE DEF W
  <2> QED
    BY <1>1, <1>2, <1>4, <1>5, <1>7, <1>8, InfoFolds
<1>10. Gained(Len(seq), update_node_info(node, ends, order))
  BY <1>9
<1>11. \A j \in DOMAIN order :
         order[j] \in ends /\ Gainable(order[j]) => \E i \in 1 .. Len(seq) : seq[i] = order[j]
  BY <1>4, DeclarationsAll DEF Gainable, OnTopic
<1> QED
  BY <1>10, <1>11 DEF Gained, Informs

-----------------------------------------------------------------------------
(* The transfer of a Writer from the synthetic node of its participant. *)

\* The nodes of a participant are good.
LEMMA OwnGood ==
  ASSUME NEW s, Good(s), NEW p, NEW m \in DOMAIN OwnNodes(s.nodes, p)
  PROVE  /\ p \in DOMAIN s.nodes /\ p \in Participants /\ OwnNodes(s.nodes, p) = s.nodes[p]
         /\ m \in NodeNames /\ m \in NamesOf(p) /\ <<p, m>> \in IdsOf(s.nodes)
         /\ NodeGood(p, m, OwnNodes(s.nodes, p)[m], readers, writers)
         /\ OwnNodes(s.nodes, p)[m] \in Nodes
<1>1. NodesGood(s.nodes, readers, writers) /\ s.nodes \in NodeMaps
  BY DEF Good, NodesGood
<1>2. p \in DOMAIN s.nodes
  BY EmptyMap DEF OwnNodes
<1>3. OwnNodes(s.nodes, p) = s.nodes[p] /\ p \in Participants
  BY <1>1, <1>2, NodesOf DEF OwnNodes
<1>4. m \in NodeNames /\ <<p, m>> \in IdsOf(s.nodes)
  BY <1>1, <1>2, <1>3, NodesOf
<1>5. <<p, m>>[1] = p /\ <<p, m>>[2] = m
  OBVIOUS
<1>6. m \in NamesOf(p) /\ NodeGood(p, m, s.nodes[p][m], readers, writers)
  BY <1>1, <1>4, <1>5 DEF NodesGood
<1> QED
  BY <1>2, <1>3, <1>4, <1>6 DEF NodeGood, NodeOk

\* A publisher of a node is discovered.
LEMMA PublisherKnown ==
  ASSUME NEW s, Good(s), NEW p, NEW m \in DOMAIN OwnNodes(s.nodes, p),
         NEW t \in DOMAIN OwnNodes(s.nodes, p)[m].msg_pub
  PROVE  <<m, "msg_pub", t>> \in DiscoveredIn(s.nodes)
<1> DEFINE x == <<m, "msg_pub", t>>
           node == OwnNodes(s.nodes, p)[m]
           id == <<p, m>>
<1>1. /\ m \in NodeNames /\ id \in IdsOf(s.nodes) /\ node = s.nodes[p][m]
      /\ node \in Nodes
  BY OwnGood
<1>2. t \in Names
  <2>1. node.msg_pub \in Maps(Names, Msg)
    BY <1>1 DEF Nodes, Msgs
  <2> HIDE DEF node
  <2> QED
    BY <2>1, MapFacts DEF node
<1>3. "msg_pub" \in Kinds /\ "msg_pub" \notin Calls
  BY DEF Kinds, MsgKinds, Calls
<1>4. x \in Own(m) /\ x \in Keys /\ x[2] = "msg_pub" /\ x[3] = t
  BY <1>1, <1>2, <1>3 DEF Own, Keys
<1>5. Shows(node, x[2], x[3])
  BY <1>3, <1>4 DEF Shows
<1>6. id[1] = p /\ id[2] = m
  OBVIOUS
<1> HIDE DEF x, id, node
<1>7. x \in ShownOf(id[2], s.nodes[id[1]][id[2]])
  BY <1>1, <1>4, <1>5, <1>6 DEF ShownOf
<1> QED
  BY <1>1, <1>4, <1>7 DEF DiscoveredIn, x

\* The synthetic node has Writer w; the node that declares it has a publisher on its
\* topic; that node does not have it.
Holds(own, w) ==
  LET o == OrphanNode(EntityOf(w).participant)
  IN  o \in DOMAIN own /\ Publishes(own[o], w)
Takes(own, w) ==
  LET n == EntityOf(w).node
  IN  n \in DOMAIN own /\ TopicName(w) \in DOMAIN own[n].msg_pub
Lacks(own, w) ==
  LET n == EntityOf(w).node
  IN  n \in DOMAIN own => ~Publishes(own[n], w)

\* The publishers that keep the route of w.
Keepers(w) ==
  {<<OrphanNode(EntityOf(w).participant), "msg_pub", TopicName(w)>>,
   <<EntityOf(w).node, "msg_pub", TopicName(w)>>}

\* Before the sample of its participant is read, the synthetic node has w; then it may
\* be the node that declares it.  Without an announcement this one does not get it.
NodesWith(s, w) == OwnNodes(s.nodes, EntityOf(w).participant)
Ready(w, s) ==
  /\ Good(s)
  /\ Gainable(w) => Holds(NodesWith(s, w), w) /\ Covered(Keepers(w), s.evts)
  /\ ~Gainable(w) => Lacks(NodesWith(s, w), w)
Safe(w, s) ==
  /\ Good(s)
  /\ Gainable(w) => /\ Holds(NodesWith(s, w), w) \/ Takes(NodesWith(s, w), w)
                    /\ Covered(Keepers(w), s.evts)
  /\ ~Gainable(w) => Lacks(NodesWith(s, w), w)

\* The publisher that has the Writer is discovered.
LEMMA KeeperKnown ==
  ASSUME NEW s, Good(s), NEW w
  PROVE  /\ Holds(NodesWith(s, w), w) =>
              <<OrphanNode(EntityOf(w).participant), "msg_pub", TopicName(w)>>
                \in DiscoveredIn(s.nodes)
         /\ Takes(NodesWith(s, w), w) =>
              <<EntityOf(w).node, "msg_pub", TopicName(w)>> \in DiscoveredIn(s.nodes)
<1> DEFINE p == EntityOf(w).participant
           o == OrphanNode(p)
           own == OwnNodes(s.nodes, p)
<1>1. ASSUME Holds(own, w)
      PROVE  <<o, "msg_pub", TopicName(w)>> \in DiscoveredIn(s.nodes)
  <2>1. PICK t \in DOMAIN own[o].msg_pub : o \in DOMAIN own /\ w \in own[o].msg_pub[t].gids
    BY <1>1 DEF Holds, Publishes
  <2>2. NodeGood(p, o, own[o], readers, writers)
    BY <2>1, OwnGood
  <2> HIDE DEF own
  <2>3. MsgsPlaced(p, o, "msg_pub", own[o].msg_pub)
    BY <2>2 DEF NodeGood, NodeOk, MsgKinds
  <2>4. TopicName(w) = t
    BY <2>1, <2>3 DEF MsgsPlaced, Placed
  <2> QED
    BY <2>1, <2>4, PublisherKnown DEF own
<1>2. ASSUME Takes(own, w)
      PROVE  <<EntityOf(w).node, "msg_pub", TopicName(w)>> \in DiscoveredIn(s.nodes)
  BY <1>2, PublisherKnown DEF Takes
<1> QED
  BY <1>1, <1>2 DEF NodesWith

\* Alike events keep the route while one of the two nodes keeps the Writer.
LEMMA RouteCovered ==
  ASSUME NamesDisjoint, NEW s, NEW t, Good(s), Good(t), Grows(s, t), NEW w,
         \/ Holds(NodesWith(s, w), w) /\ Holds(NodesWith(t, w), w)
         \/ Takes(NodesWith(s, w), w) /\ Takes(NodesWith(t, w), w),
         Covered(Keepers(w), s.evts)
  PROVE  Covered(Keepers(w), t.evts)
<1>1. PICK x \in Keepers(w) : x \in DiscoveredIn(s.nodes) /\ x \in DiscoveredIn(t.nodes)
  BY KeeperKnown DEF Keepers
<1> QED
  BY <1>1, CoverKept

\* What happens to the nodes of other participants does not matter.
LEMMA Elsewhere ==
  ASSUME NamesDisjoint, NEW s, NEW t, Good(t), Grows(s, t), NEW w,
         NodesWith(t, w) = NodesWith(s, w)
  PROVE  /\ Ready(w, s) => Ready(w, t)
         /\ Safe(w, s) => Safe(w, t)
<1>1. Ready(w, s) => Ready(w, t)
  BY RouteCovered DEF Ready
<1>2. Safe(w, s) => Safe(w, t)
  BY RouteCovered DEF Safe
<1> QED
  BY <1>1, <1>2

\* Only the nodes of participant p change.
Replaces(nodes, after, p, own) ==
  /\ OwnNodes(after, p) = own
  /\ \A q : q # p => OwnNodes(after, q) = OwnNodes(nodes, q)

\* The nodes of participants when a node is put in.
LEMMA OwnPut ==
  ASSUME NEW s, s.nodes \in NodeMaps, NEW p \in DOMAIN s.nodes, NEW n, NEW u
  PROVE  Replaces(s.nodes, WithNode(s, p, n, u).nodes, p,
                  Inserted(OwnNodes(s.nodes, p), n, u.node))
<1> DEFINE after == [s.nodes EXCEPT ![p] = Inserted(s.nodes[p], n, u.node)]
<1>1. WithNode(s, p, n, u).nodes = after
  BY DEF WithNode
<1>2. /\ DOMAIN after = DOMAIN s.nodes
      /\ after[p] = Inserted(s.nodes[p], n, u.node)
      /\ \A q \in DOMAIN s.nodes \ {p} : after[q] = s.nodes[q]
  BY MapFacts DEF NodeMaps
<1> HIDE DEF after
<1> QED
  BY <1>1, <1>2 DEF OwnNodes, Replaces

\* And when it is taken out.
LEMMA OwnTaken ==
  ASSUME NEW s, s.nodes \in NodeMaps, NEW p \in DOMAIN s.nodes, NEW n
  PROVE  Replaces(s.nodes, WithoutNode(s, p, n).nodes, p,
                  Restrict(OwnNodes(s.nodes, p), DOMAIN OwnNodes(s.nodes, p) \ {n}))
<1> DEFINE after == [s.nodes EXCEPT ![p] = Restrict(s.nodes[p], DOMAIN s.nodes[p] \ {n})]
<1>1. WithoutNode(s, p, n).nodes = after
  BY DEF WithoutNode
<1>2. /\ DOMAIN after = DOMAIN s.nodes
      /\ after[p] = Restrict(s.nodes[p], DOMAIN s.nodes[p] \ {n})
      /\ \A q \in DOMAIN s.nodes \ {p} : after[q] = s.nodes[q]
  BY MapFacts DEF NodeMaps
<1> HIDE DEF after
<1> QED
  BY <1>1, <1>2 DEF OwnNodes, Replaces

-----------------------------------------------------------------------------
(* What each method of a poll keeps for such a Writer. *)

\* Discoveries are alike.
LEMMA DiscoveriesGrow ==
  ASSUME NEW s, NEW t, NEW e \in Seq(Evs), t.evts = s.evts \o e,
         Discoveries(e) \/ (\A i \in 1 .. Len(e) : e[i].ev = "Undiscovered")
  PROVE  Grows(s, t)
BY DEF Grows, Alike, Discoveries

\* A node that nothing is known of has no Writer.
LEMMA NothingPublished ==
  ASSUME NEW n, NEW w
  PROVE  ~Publishes(create(n), w)
BY DEF Publishes, create

\* The retained nodes.
LEMMA RetainedKeeps ==
  ASSUME WorldOk, NamesDisjoint, NEW s, NEW p \in Participants, NEW w \in Gids
  PROVE  /\ Ready(w, s) => Ready(w, Retained(s, p))
         /\ EntityOf(w).participant # p /\ Safe(w, s) => Safe(w, Retained(s, p))
<1> DEFINE t == Retained(s, p)
           own == OwnNodes(s.nodes, p)
           lost == LostOf(own, p)
           events == SetToSeq(LostEvents(own, lost))
           kept == Restrict(own, DOMAIN own \ lost)
           o == OrphanNode(p)
           n == EntityOf(w).node
<1> SUFFICES ASSUME Good(s)
             PROVE  /\ Ready(w, s) => Ready(w, t)
                    /\ EntityOf(w).participant # p /\ Safe(w, s) => Safe(w, t)
  BY DEF Ready, Safe
<1>1. Good(t) /\ Forgets(s.nodes, p, lost, events)
  BY RetainedGood DEF GoodWith
<1>2. Grows(s, t)
  <2>1. t.evts = s.evts \o events
    BY DEF Retained
  <2> HIDE DEF t, events
  <2> QED
    BY <1>1, <2>1, DiscoveriesGrow DEF Forgets
<1>3. Replaces(s.nodes, t.nodes, p, kept)
  <2>1. t.nodes = Inserted(s.nodes, p, kept)
    BY DEF Retained
  <2> HIDE DEF t, kept
  <2> QED
    BY <2>1 DEF OwnNodes, Inserted, Replaces
<1>4. /\ DOMAIN kept = DOMAIN own \ lost
      /\ \A m \in DOMAIN kept : kept[m] = own[m]
  BY DEF Restrict
<1>5. o \notin lost
  BY DEF LostOf, is_orphan_node_name
<1> HIDE DEF t, kept, lost, events
<1>6. CASE EntityOf(w).participant # p
  <2>1. NodesWith(t, w) = NodesWith(s, w)
    BY <1>3, <1>6 DEF NodesWith, Replaces
  <2> QED
    BY <1>1, <1>2, <2>1, Elsewhere
<1>7. CASE EntityOf(w).participant = p
  <2>1. NodesWith(t, w) = kept /\ NodesWith(s, w) = own
    BY <1>3, <1>7 DEF NodesWith, Replaces
  <2> HIDE DEF own
  <2>2. Holds(own, w) => Holds(kept, w)
    BY <1>4, <1>5, <1>7 DEF Holds
  <2>3. Lacks(own, w) => Lacks(kept, w)
    BY <1>4 DEF Lacks
  <2> QED
    BY <1>1, <1>2, <1>7, <2>1, <2>2, <2>3, RouteCovered DEF Ready
<1> QED
  BY <1>6, <1>7

\* A node that a sample lists is updated: another one than the synthetic node.
LEMMA ListedKeeps ==
  ASSUME WorldOk, DeclaredOk, NamesDisjoint, NEW s, Good(s), NEW p \in DOMAIN s.nodes, NEW n,
         NEW info \in SUBSET (declared \cap EndsOf(p)), n \in {EntityOf(g).node : g \in info},
         NEW order \in Seq(Gids), NEW w \in Gids
  PROVE  LET t == WithListed(s, p, n, info, order)
         IN  /\ Ready(w, s) => Ready(w, t)
             /\ Safe(w, s) => Safe(w, t)
             /\ Takes(NodesWith(s, w), w) => Takes(NodesWith(t, w), w)
             /\ \A j \in DOMAIN order :
                  order[j] = w /\ w \in info /\ EntityOf(w).node = n /\ Gainable(w)
                    => Takes(NodesWith(t, w), w)
<1> DEFINE ends == {g \in info : EntityOf(g).node = n}
           node == NodeIn(s.nodes, p, n)
           u == update_node_info(node, ends, order)
           t == WithListed(s, p, n, info, order)
           own == OwnNodes(s.nodes, p)
           o == OrphanNode(p)
<1>1. s.nodes \in NodeMaps /\ NodesGood(s.nodes, readers, writers) /\ p \in Participants
      /\ own = s.nodes[p]
  BY NodesOf DEF Good, NodesGood, OwnNodes
<1>2. n \in NodeNames /\ n # o
  <2>1. PICK g \in info : n = EntityOf(g).node
    OBVIOUS
  <2>2. g \in Gids
    BY <2>1 DEF DeclaredOk
  <2> QED
    BY <1>1, <2>1, <2>2 DEF WorldOk, NodeNames
<1>3. NodeGood(p, n, node, readers, writers)
  BY <1>1, <1>2, NodeInGood
<1>4. ends \in SUBSET Gids /\ \A g \in ends : Mine(p, n, g)
  BY <1>2 DEF EndsOf, Mine
<1>5. t = WithNode(s, p, n, u)
  BY DEF WithListed
<1>6. Good(t)
  BY ListedUpdated
<1>7. \A x : n \in DOMAIN own => (Publishes(node, x) <=> Publishes(own[n], x))
  BY <1>1 DEF NodeIn
<1>8. \A x : n \notin DOMAIN own => ~Publishes(node, x)
  BY <1>1, NothingPublished DEF NodeIn
<1>9. n \in DOMAIN own => node = own[n]
  BY <1>1 DEF NodeIn
<1>10. \A j \in DOMAIN order :
         order[j] = w /\ w \in info /\ EntityOf(w).node = n
           => order[j] \in ends /\ EntityOf(w).participant = p
  BY DEF EndsOf
<1> HIDE DEF ends, node
<1>11. Informs(node, ends, order, u)
  BY <1>2, <1>3, <1>4, InfoGains
<1>12. Becomes(p, n, node, u)
  BY <1>2, <1>3, <1>4, InfoUpdated
<1> HIDE DEF u, t
<1>13. Grows(s, t)
  <2>1. t.evts = s.evts \o u.evts
    BY <1>5 DEF WithNode
  <2>2. u.evts \in Seq(Evs) /\ Discoveries(u.evts)
    BY <1>11, <1>12 DEF Becomes, Follows, Informs
  <2> QED
    BY <2>1, <2>2, DiscoveriesGrow
<1>14. Replaces(s.nodes, t.nodes, p, Inserted(own, n, u.node))
  <2>1. s.nodes \in NodeMaps
    BY <1>1
  <2>2. Replaces(s.nodes, WithNode(s, p, n, u).nodes, p, Inserted(own, n, u.node))
    BY <2>1, OwnPut
  <2> QED
    BY <1>5, <2>2
<1> DEFINE put == Inserted(own, n, u.node)
<1>15. /\ DOMAIN put = DOMAIN own \cup {n} /\ put[n] = u.node
       /\ \A m \in DOMAIN own \ {n} : put[m] = own[m]
  BY DEF Inserted
<1> HIDE DEF put, own
<1>16. CASE EntityOf(w).participant # p
  <2>1. NodesWith(t, w) = NodesWith(s, w)
    BY <1>14, <1>16 DEF NodesWith, Replaces
  <2> QED
    BY <1>6, <1>10, <1>13, <1>16, <2>1, Elsewhere DEF t
<1>17. CASE EntityOf(w).participant = p
  <2>1. NodesWith(t, w) = put /\ NodesWith(s, w) = own
    BY <1>14, <1>17 DEF NodesWith, Replaces, own, put
  <2>2. Holds(own, w) => Holds(put, w)
    BY <1>2, <1>15, <1>17 DEF Holds
  <2>3. Takes(own, w) => Takes(put, w)
    BY <1>9, <1>11, <1>15 DEF Takes, Informs
  <2>4. ~Gainable(w) /\ Lacks(own, w) => Lacks(put, w)
    BY <1>7, <1>8, <1>11, <1>15 DEF Lacks, Informs
  <2>5. \A j \in DOMAIN order :
          order[j] = w /\ w \in info /\ EntityOf(w).node = n /\ Gainable(w) => Takes(put, w)
    BY <1>10, <1>11, <1>15 DEF Takes, Informs
  <2>6. Ready(w, s) => Ready(w, t)
    BY <1>6, <1>13, <2>1, <2>2, <2>4, RouteCovered DEF Ready
  <2>7. Safe(w, s) => Safe(w, t)
    BY <1>6, <1>13, <2>1, <2>2, <2>3, <2>4, RouteCovered DEF Safe
  <2> QED
    BY <2>1, <2>3, <2>5, <2>6, <2>7 DEF t
<1> QED
  BY <1>16, <1>17

\* The nodes of a participant without Writer g: what becomes of the synthetic one is u.
Released(own, n, u, left) ==
  /\ DOMAIN left \ {n} = DOMAIN own \ {n}
  /\ \A m \in DOMAIN own \ {n} : left[m] = own[m]
  /\ n \in DOMAIN left => left[n] = u.node
  /\ DOMAIN u.node.msg_pub # {} => n \in DOMAIN left

\* What the transfer of a Writer changes and tells.
LEMMA TransferChanges ==
  ASSUME NEW s, s.nodes \in NodeMaps, NEW p \in DOMAIN s.nodes, NEW g,
         OrphanNode(p) \in DOMAIN s.nodes[p]
  PROVE  LET u == remove_writer(s.nodes[p][OrphanNode(p)], g)
             t == Transfer(s, p, g)
         IN  /\ t.evts = s.evts \o u.evts
             /\ Replaces(s.nodes, t.nodes, p, OwnNodes(t.nodes, p))
             /\ Released(OwnNodes(s.nodes, p), OrphanNode(p), u, OwnNodes(t.nodes, p))
<1> DEFINE n == OrphanNode(p)
           u == remove_writer(s.nodes[p][n], g)
           own == OwnNodes(s.nodes, p)
           put == Inserted(own, n, u.node)
           after == [s.nodes EXCEPT ![p] = put]
           rest == Restrict(after[p], DOMAIN after[p] \ {n})
           final == [after EXCEPT ![p] = rest]
           left == [WithNode(s, p, n, u) EXCEPT !.admin = s.admin]
           t == Transfer(s, p, g)
<1>0. own = s.nodes[p]
  BY DEF OwnNodes
<1>1. t = IF DOMAIN u.node.msg_pub = {} THEN WithoutNode(left, p, n) ELSE left
  BY DEF Transfer
<1>2. left.nodes = after /\ left.evts = s.evts \o u.evts
  BY <1>0 DEF WithNode
<1>3. /\ DOMAIN after = DOMAIN s.nodes
      /\ after[p] = put
      /\ \A q \in DOMAIN s.nodes \ {p} : after[q] = s.nodes[q]
  BY MapFacts DEF NodeMaps
<1>4. /\ DOMAIN put = DOMAIN own \cup {n} /\ put[n] = u.node
      /\ \A m \in DOMAIN own \ {n} : put[m] = own[m]
  BY DEF Inserted
<1>5. /\ DOMAIN rest = DOMAIN after[p] \ {n}
      /\ \A m \in DOMAIN rest : rest[m] = after[p][m]
  BY DEF Restrict
<1>6. /\ DOMAIN final = DOMAIN after
      /\ final[p] = rest
      /\ \A q \in DOMAIN after \ {p} : final[q] = after[q]
  BY <1>3
<1>7. WithoutNode(left, p, n).nodes = final /\ WithoutNode(left, p, n).evts = left.evts
  BY <1>2 DEF WithoutNode
<1> HIDE DEF final, rest, put, after, left, t, u, own, n
<1>8. CASE DOMAIN u.node.msg_pub = {}
  <2>1. t.nodes = final /\ t.evts = s.evts \o u.evts
    BY <1>1, <1>2, <1>7, <1>8
  <2>2. OwnNodes(t.nodes, p) = rest
    BY <1>3, <1>6, <2>1 DEF OwnNodes
  <2>3. Replaces(s.nodes, t.nodes, p, OwnNodes(t.nodes, p))
    BY <1>3, <1>6, <2>1 DEF OwnNodes, Replaces
  <2>4. Released(own, n, u, rest)
    BY <1>3, <1>4, <1>5, <1>8 DEF Released
  <2> QED
    BY <2>1, <2>2, <2>3, <2>4 DEF t, u, own, n
<1>9. CASE DOMAIN u.node.msg_pub # {}
  <2>1. t.nodes = after /\ t.evts = s.evts \o u.evts
    BY <1>1, <1>2, <1>9
  <2>2. OwnNodes(t.nodes, p) = put
    BY <1>3, <2>1 DEF OwnNodes
  <2>3. Replaces(s.nodes, t.nodes, p, OwnNodes(t.nodes, p))
    BY <1>3, <2>1 DEF OwnNodes, Replaces
  <2>4. Released(own, n, u, put)
    BY <1>4 DEF Released
  <2> QED
    BY <2>1, <2>2, <2>3, <2>4 DEF t, u, own, n
<1> QED
  BY <1>8, <1>9

\* A Writer is taken from the synthetic node, one that its own node has got.
LEMMA TransferKeeps ==
  ASSUME WorldOk, NamesDisjoint, NEW s, Good(s), NEW p \in DOMAIN s.nodes, NEW g \in Gids,
         NEW w \in Gids
  PROVE  LET t == Transfer(s, p, g)
         IN  /\ EntityOf(w).participant # p \/ g # w => (Ready(w, s) => Ready(w, t))
             /\ EntityOf(w).participant # p => (Safe(w, s) => Safe(w, t))
             /\ Safe(w, s) /\ (Gainable(w) => Takes(NodesWith(s, w), w))
                  => Safe(w, t) /\ (Gainable(w) => Takes(NodesWith(t, w), w))
<1> DEFINE o == OrphanNode(p)
           n == EntityOf(w).node
           t == Transfer(s, p, g)
           own == OwnNodes(s.nodes, p)
           left == OwnNodes(t.nodes, p)
           node == s.nodes[p][o]
           u == remove_writer(node, g)
<1>1. CASE o \notin DOMAIN s.nodes[p]
  <2>1. t = s
    BY <1>1 DEF Transfer
  <2> QED
    BY <2>1
<1>2. CASE o \in DOMAIN s.nodes[p]
  <2>1. s.nodes \in NodeMaps /\ p \in Participants /\ own = s.nodes[p]
    BY NodesOf DEF Good, NodesGood, OwnNodes
  <2>2. Good(t)
    BY TransferGood
  <2>3. /\ t.evts = s.evts \o u.evts
        /\ Replaces(s.nodes, t.nodes, p, left)
        /\ Released(own, o, u, left)
    BY <1>2, <2>1, TransferChanges
  <2>4. node \in Nodes /\ NodeOk(p, o, node) /\ o \in NodeNames /\ own[o] = node
    BY <1>2, <2>1, OwnGood DEF NodeGood
  <2>5. GoneOk(p, o, node, u)
    BY <2>4, RemovedFrom
  <2>6. Loses(node, u.node, g)
    BY <2>4, PublisherLost
  <2>7. n # o
    BY <2>1 DEF WorldOk
  <2> HIDE DEF t, u, left, own, node
  <2>8. Grows(s, t)
    <3>1. u.evts \in Seq(Evs)
      BY <2>4, <2>5, FollowsLost DEF GoneOk, Follows
    <3>2. \A i \in 1 .. Len(u.evts) : u.evts[i].ev = "Undiscovered"
      <4>1. TellsLost(o, node, u.node, u.evts)
        BY <2>5 DEF GoneOk
      <4>2. CASE u.evts = <<>>
        BY <4>2
      <4>3. ASSUME NEW k, NEW m,
                   u.evts = <<[ev |-> "Undiscovered", node |-> o, kind |-> k, name |-> m]>>
            PROVE  \A i \in 1 .. Len(u.evts) : u.evts[i].ev = "Undiscovered"
        BY <4>3
      <4> QED
        BY <4>1, <4>2, <4>3 DEF TellsLost
    <3> QED
      BY <2>3, <3>1, <3>2, DiscoveriesGrow
  <2>9. CASE EntityOf(w).participant # p
    <3>1. NodesWith(t, w) = NodesWith(s, w)
      BY <2>3, <2>9 DEF NodesWith, Replaces
    <3> QED
      BY <2>2, <2>8, <3>1, Elsewhere DEF t
  <2>10. CASE EntityOf(w).participant = p
    <3>1. NodesWith(t, w) = left /\ NodesWith(s, w) = own
      BY <2>10 DEF NodesWith, left, own
    <3>2. g # w /\ Holds(own, w) => Holds(left, w)
      <4> SUFFICES ASSUME g # w, Holds(own, w)
                   PROVE  Holds(left, w)
        OBVIOUS
      <4>1. Publishes(node, w)
        BY <2>4, <2>10 DEF Holds
      <4>2. Publishes(u.node, w)
        BY <2>6, <4>1 DEF Loses
      <4>3. DOMAIN u.node.msg_pub # {}
        BY <4>2 DEF Publishes
      <4>4. o \in DOMAIN left /\ left[o] = u.node
        BY <2>3, <4>3 DEF Released
      <4> QED
        BY <2>10, <4>2, <4>4 DEF Holds
    <3>3. /\ Lacks(own, w) => Lacks(left, w)
          /\ Takes(own, w) => Takes(left, w)
      BY <2>3, <2>7 DEF Released, Lacks, Takes
    <3>4. g # w /\ Ready(w, s) => Ready(w, t)
      BY <2>2, <2>8, <3>1, <3>2, <3>3, RouteCovered DEF Ready
    <3>5. Safe(w, s) /\ (Gainable(w) => Takes(own, w))
            => Safe(w, t) /\ (Gainable(w) => Takes(left, w))
      BY <2>2, <2>8, <3>1, <3>3, RouteCovered DEF Safe
    <3> QED
      BY <2>10, <3>1, <3>4, <3>5 DEF t
  <2> QED
    BY <2>9, <2>10
<1> QED
  BY <1>1, <1>2

\* A Writer that is claimed is another one's, or unclaimed: no Writer loses its node.
LEMMA ClaimedKeeps ==
  ASSUME WorldOk, NamesDisjoint, NEW s, Good(s), NEW g \in Gids, IsWriter(g), IsMessage(g),
         NEW w \in Gids, Safe(w, s)
  PROVE  Safe(w, Claimed(s, g))
<1> DEFINE p == EntityOf(g).participant
           o == OrphanNode(p)
           n == EntityOf(w).node
           base == BaseFor(s, p)
           node == NodeIn(base.nodes, p, o)
           u == update_with_writer(node, EntityOf(g))
           own == OwnNodes(s.nodes, p)
           put == Inserted(own, o, u.node)
           t == Claimed(s, g)
<1> SUFFICES Safe(w, t)
  OBVIOUS
<1>1. Good(t)
  BY ClaimedGood
<1>2. Good(base) /\ p \in DOMAIN base.nodes /\ t = WithNode(base, p, o, u)
  BY ClaimBase
<1>3. base.evts = s.evts /\ \A q : OwnNodes(base.nodes, q) = OwnNodes(s.nodes, q)
  <2>1. CASE p \in DOMAIN s.nodes
    BY <2>1 DEF BaseFor
  <2>2. CASE p \notin DOMAIN s.nodes
    <3> DEFINE after == Inserted(s.nodes, p, <<>>)
    <3>1. base = [s EXCEPT !.nodes = after]
      BY <2>2 DEF BaseFor
    <3>2. DOMAIN after = DOMAIN s.nodes \cup {p} /\ after[p] = <<>>
          /\ \A q \in DOMAIN s.nodes \ {p} : after[q] = s.nodes[q]
      BY DEF Inserted
    <3> HIDE DEF after, base
    <3>3. base.nodes = after /\ base.evts = s.evts
      BY <3>1 DEF Good, PollStates
    <3> HIDE DEF p
    <3> QED
      BY <2>2, <3>2, <3>3 DEF OwnNodes
  <2> QED
    BY <2>1, <2>2
<1>4. p \in Participants /\ o \in NodeNames
  BY DEF Participants, NodeNames
<1>5. base.nodes \in NodeMaps /\ NodesGood(base.nodes, readers, writers)
  BY <1>2 DEF Good, NodesGood
<1> HIDE DEF base, t
<1>6. NodeGood(p, o, node, readers, writers)
  BY <1>2, <1>4, <1>5, NodeInGood
<1>7. u = update_with(node, g)
  BY DEF update_with
<1>8. Mine(p, o, g)
  BY DEF Mine
<1>9. OwnNodes(base.nodes, p) = base.nodes[p]
  BY <1>2 DEF OwnNodes
<1>10. o \in DOMAIN own => node = own[o]
  BY <1>3, <1>9 DEF NodeIn
<1> HIDE DEF node, o
<1>11. node \in Nodes /\ UpdateOk(p, o, node, u)
  BY <1>6, <1>7, <1>8, UpdatedWith DEF NodeGood, NodeOk
<1>12. Gains(node, u.node, g)
  BY <1>7, <1>11, PublisherGained
<1> HIDE DEF u, p
<1>13. Grows(s, t)
  <2>1. u.evts \in Seq(Evs)
    BY <1>4, <1>11, FollowsFound DEF UpdateOk, Follows
  <2>2. Discoveries(u.evts)
    BY <1>11, FoundDiscovers DEF UpdateOk
  <2>3. t.evts = s.evts \o u.evts
    BY <1>2, <1>3 DEF WithNode
  <2> QED
    BY <2>1, <2>2, <2>3, DiscoveriesGrow
<1>14. Replaces(base.nodes, t.nodes, p, Inserted(OwnNodes(base.nodes, p), o, u.node))
  BY <1>2, <1>5, OwnPut
<1>15. Replaces(s.nodes, t.nodes, p, put)
  BY <1>3, <1>14 DEF Replaces
<1>16. /\ DOMAIN put = DOMAIN own \cup {o} /\ put[o] = u.node
       /\ \A m \in DOMAIN own \ {o} : put[m] = own[m]
  BY DEF Inserted
<1> HIDE DEF put, own
<1>17. CASE EntityOf(w).participant # p
  <2>1. NodesWith(t, w) = NodesWith(s, w)
    BY <1>15, <1>17 DEF NodesWith, Replaces
  <2> QED
    BY <1>1, <1>13, <2>1, Elsewhere
<1>18. CASE EntityOf(w).participant = p
  <2>1. NodesWith(t, w) = put /\ NodesWith(s, w) = own
    BY <1>15, <1>18 DEF NodesWith, Replaces, own
  <2>2. n # o
    BY <1>4 DEF WorldOk, o
  <2>3. Holds(own, w) => Holds(put, w)
    BY <1>10, <1>12, <1>16, <1>18 DEF Holds, Gains, o
  <2>4. /\ Lacks(own, w) => Lacks(put, w)
        /\ Takes(own, w) => Takes(put, w)
    BY <1>16, <2>2 DEF Lacks, Takes
  <2> QED
    BY <1>1, <1>13, <2>1, <2>3, <2>4, RouteCovered DEF Safe
<1> QED
  BY <1>17, <1>18

-----------------------------------------------------------------------------
(* A sample, and all samples of a poll. *)

\* What a sample changes for a Writer of another participant.
LEMMA OtherSample ==
  ASSUME WorldOk, DeclaredOk, NamesDisjoint, NEW s, Good(s), NEW p \in Participants,
         NEW order \in Seq(Gids), NEW nodeOrder \in Seq(STRING),
         NEW w \in Gids, EntityOf(w).participant # p
  PROVE  LET t == update_participant_info(s, p, order, nodeOrder)
         IN  /\ Ready(w, s) => Ready(w, t)
             /\ Safe(w, s) => Safe(w, t)
<1> DEFINE V == {acc \in GoodWith(p) : /\ Ready(w, s) => Ready(w, acc)
                                       /\ Safe(w, s) => Safe(w, acc)}
           W == Nat \X V
           seq == Subsequence(Queue(p, nodeOrder), Accepted(p, nodeOrder))
           info == InfoOf(p)
           released == Chosen(order, Transferred(s, p, nodeOrder))
           base == Retained(s, p)
<1>1. seq \in Seq({EntityOf(g).node : g \in info}) /\ info \in SUBSET (declared \cap EndsOf(p))
  BY AcceptedNodes DEF Listed, InfoOf
<1>2. base \in V
  BY RetainedGood, RetainedKeeps
<1>3. released \in Seq(Gids)
  <2>1. released \in Seq(Gids \cap Transferred(s, p, nodeOrder))
    BY ChosenElements
  <2> QED
    BY <2>1
<1>4. Updated(s, p, order, nodeOrder) = UpdateAll(p, info, order, base, seq)
  BY DEF Updated
<1> HIDE DEF seq, info, released, base
<1>5. ASSUME NEW acc \in V, NEW i \in 1 .. Len(seq)
      PROVE  WithListed(acc, p, seq[i], info, order) \in V
  <2> DEFINE n == seq[i]
             t == WithListed(acc, p, n, info, order)
  <2>1. n \in {EntityOf(g).node : g \in info} /\ Good(acc) /\ p \in DOMAIN acc.nodes
    BY <1>1 DEF GoodWith
  <2> HIDE DEF n
  <2>2. Good(t) /\ DOMAIN t.nodes = DOMAIN acc.nodes
    BY <1>1, <2>1, ListedUpdated
  <2>3. (Ready(w, acc) => Ready(w, t)) /\ (Safe(w, acc) => Safe(w, t))
    BY <1>1, <2>1, ListedKeeps
  <2> HIDE DEF t
  <2>4. t \in GoodWith(p)
    BY <2>1, <2>2 DEF GoodWith, Good
  <2>5. t \in V
    BY <2>3, <2>4
  <2> QED
    BY <2>5 DEF t, n
<1>6. ASSUME NEW acc \in V, NEW i \in 1 .. Len(released)
      PROVE  Transfer(acc, p, released[i]) \in V
  <2> DEFINE g == released[i]
             t == Transfer(acc, p, g)
  <2>1. g \in Gids /\ Good(acc) /\ p \in DOMAIN acc.nodes
    BY <1>3 DEF GoodWith
  <2> HIDE DEF g
  <2>2. Good(t) /\ DOMAIN t.nodes = DOMAIN acc.nodes
    BY <2>1, TransferGood
  <2>3. (Ready(w, acc) => Ready(w, t)) /\ (Safe(w, acc) => Safe(w, t))
    BY <2>1, TransferKeeps
  <2> HIDE DEF t
  <2>4. t \in GoodWith(p)
    BY <2>1, <2>2 DEF GoodWith, Good
  <2>5. t \in V
    BY <2>3, <2>4
  <2> QED
    BY <2>5 DEF t, g
<1>7. TransferAll(p, Updated(s, p, order, nodeOrder), released) \in V
  <2> HIDE DEF V
  <2>1. <<0, base>> \in W /\ \A k \in 1 .. Len(seq) : \A acc \in V :
          <<k - 1, acc>> \in W => <<k, WithListed(acc, p, seq[k], info, order)>> \in W
    BY <1>2, <1>5
  <2> HIDE DEF W
  <2>2. UpdateAll(p, info, order, base, seq) \in V
    BY <1>1, <1>2, <1>5, <2>1, UpdateFolds
  <2> QED
    BY <1>3, <1>4, <1>6, <2>2, TransferFolds
<1> QED
  BY <1>7, SampleRead DEF released

\* The position in the queue of nodes at which w is taken by the node that declares it.
MetAt(p, order, seq, i, w) ==
  /\ seq[i] = EntityOf(w).node /\ w \in InfoOf(p)
  /\ \E j \in DOMAIN order : order[j] = w

\* A sample of its own participant leaves Writer w at the synthetic node, or moves it to the
\* node that declares it.
LEMMA OwnSample ==
  ASSUME WorldOk, DeclaredOk, NamesDisjoint, NEW s, NEW p \in Participants,
         NEW order \in Seq(Gids), NEW nodeOrder \in Seq(STRING),
         NEW w \in Gids, Ready(w, s)
  PROVE  Safe(w, update_participant_info(s, p, order, nodeOrder))
<1> DEFINE V == {acc \in GoodWith(p) : Ready(w, acc)}
           seq == Subsequence(Queue(p, nodeOrder), Accepted(p, nodeOrder))
           Got(k, acc) ==
             \A i \in 1 .. k : MetAt(p, order, seq, i, w) /\ Gainable(w)
                                 => Takes(NodesWith(acc, w), w)
           W == {x \in Nat \X V : Got(x[1], x[2])}
           info == InfoOf(p)
           set == Transferred(s, p, nodeOrder)
           released == Chosen(order, set)
           base == Retained(s, p)
           updated == Updated(s, p, order, nodeOrder)
<1>0. Good(s)
  BY DEF Ready
<1>1. /\ seq \in Seq({EntityOf(g).node : g \in info}) /\ Len(seq) \in Nat
      /\ info \in SUBSET (declared \cap EndsOf(p))
  BY AcceptedNodes DEF Listed, InfoOf
<1>2. base \in V
  BY <1>0, RetainedGood, RetainedKeeps
<1>3. released \in Seq(Gids \cap set) /\ Selected(released, order, {i \in DOMAIN order :
                                                                      order[i] \in set})
  BY ChosenElements, SubsequenceElements DEF Chosen
<1>4. updated = UpdateAll(p, info, order, base, seq)
  BY DEF Updated
<1>5. \A i \in Accepted(p, nodeOrder) : \E k \in 1 .. Len(seq) : seq[k] = Queue(p, nodeOrder)[i]
  <2>1. Selected(seq, Queue(p, nodeOrder), Accepted(p, nodeOrder))
    BY AcceptedNodes
  <2>2. DOMAIN seq = 1 .. Len(seq)
    BY <1>1
  <2>3. \A i \in Accepted(p, nodeOrder) : i \in DOMAIN Queue(p, nodeOrder)
    BY DEF Accepted
  <2> HIDE DEF seq
  <2> QED
    BY <2>1, <2>2, <2>3 DEF Selected
<1>6. \A g \in set : g \in info /\ \E k \in 1 .. Len(seq) : seq[k] = EntityOf(g).node
  BY <1>5 DEF Transferred
<1> HIDE DEF seq, set, released, base, updated, Got
<1>7. ASSUME NEW acc \in V, NEW i \in 1 .. Len(seq)
      PROVE  /\ WithListed(acc, p, seq[i], info, order) \in V
             /\ Got(i - 1, acc) => Got(i, WithListed(acc, p, seq[i], info, order))
  <2> DEFINE n == seq[i]
             t == WithListed(acc, p, n, info, order)
  <2>1. n \in {EntityOf(g).node : g \in info} /\ Good(acc) /\ p \in DOMAIN acc.nodes
    BY <1>1 DEF GoodWith
  <2>2. Good(t) /\ DOMAIN t.nodes = DOMAIN acc.nodes
    <3> HIDE DEF n
    <3> QED
      BY <1>1, <2>1, ListedUpdated
  <2>3. /\ Ready(w, acc) => Ready(w, t)
        /\ Takes(NodesWith(acc, w), w) => Takes(NodesWith(t, w), w)
        /\ \A j \in DOMAIN order :
             order[j] = w /\ w \in info /\ EntityOf(w).node = n /\ Gainable(w)
               => Takes(NodesWith(t, w), w)
    <3> HIDE DEF n
    <3> QED
      BY <1>1, <2>1, ListedKeeps
  <2> HIDE DEF t
  <2>4. t \in V
    BY <2>1, <2>2, <2>3 DEF GoodWith, Good
  <2>5. Got(i - 1, acc) => Got(i, t)
    <3> SUFFICES ASSUME Got(i - 1, acc), NEW k \in 1 .. i, MetAt(p, order, seq, k, w),
                        Gainable(w)
                 PROVE  Takes(NodesWith(t, w), w)
      BY DEF Got
    <3>1. CASE k = i
      BY <2>3, <3>1 DEF MetAt
    <3>2. CASE k # i
      <4>1. k \in 1 .. i - 1
        BY <1>1, <3>2
      <4> QED
        BY <2>3, <4>1 DEF Got
    <3> QED
      BY <3>1, <3>2
  <2> QED
    BY <2>4, <2>5 DEF t, n
<1>8. updated \in V /\ <<Len(seq), updated>> \in W
  <2>1. <<0, base>> \in W
    BY <1>2 DEF Got
  <2>2. \A k \in 1 .. Len(seq) : \A acc \in V :
          <<k - 1, acc>> \in W => <<k, WithListed(acc, p, seq[k], info, order)>> \in W
    <3> SUFFICES ASSUME NEW k \in 1 .. Len(seq), NEW acc \in V, <<k - 1, acc>> \in W
                 PROVE  <<k, WithListed(acc, p, seq[k], info, order)>> \in W
      OBVIOUS
    <3>1. k \in Nat /\ Got(k - 1, acc)
      BY <1>1
    <3> HIDE DEF V
    <3> QED
      BY <1>7, <3>1
  <2> HIDE DEF V, W
  <2> QED
    BY <1>1, <1>2, <1>4, <1>7, <2>1, <2>2, UpdateFolds
<1>9. Got(Len(seq), updated)
  BY <1>8
<1>10. CASE \E i \in 1 .. Len(released) : released[i] = w
  <2> DEFINE U == {acc \in GoodWith(p) :
                     Safe(w, acc) /\ (Gainable(w) => Takes(NodesWith(acc, w), w))}
  <2>1. updated \in U
    <3>1. w \in set /\ \E j \in DOMAIN order : order[j] = w
      BY <1>3, <1>10 DEF Selected
    <3>2. PICK k \in 1 .. Len(seq) : MetAt(p, order, seq, k, w)
      BY <1>6, <3>1 DEF MetAt
    <3>3. Gainable(w) => Takes(NodesWith(updated, w), w)
      BY <1>9, <3>2 DEF Got
    <3>4. Safe(w, updated)
      BY <1>8 DEF Safe, Ready
    <3> QED
      BY <1>8, <3>3, <3>4
  <2>2. ASSUME NEW acc \in U, NEW i \in 1 .. Len(released)
        PROVE  Transfer(acc, p, released[i]) \in U
    <3> DEFINE g == released[i]
               t == Transfer(acc, p, g)
    <3>1. g \in Gids /\ Good(acc) /\ p \in DOMAIN acc.nodes
      BY <1>3 DEF GoodWith
    <3> HIDE DEF g
    <3>2. Good(t) /\ DOMAIN t.nodes = DOMAIN acc.nodes
      BY <3>1, TransferGood
    <3>3. Safe(w, t) /\ (Gainable(w) => Takes(NodesWith(t, w), w))
      BY <3>1, TransferKeeps
    <3> HIDE DEF t
    <3>4. t \in GoodWith(p)
      BY <3>1, <3>2 DEF GoodWith, Good
    <3>5. t \in U
      BY <3>3, <3>4
    <3> QED
      BY <3>5 DEF t, g
  <2> HIDE DEF U
  <2>3. TransferAll(p, updated, released) \in U
    BY <1>3, <2>1, <2>2, TransferFolds
  <2> QED
    BY <2>3, SampleRead DEF U, released, updated, set
<1>11. CASE ~\E i \in 1 .. Len(released) : released[i] = w
  <2>1. ASSUME NEW acc \in V, NEW i \in 1 .. Len(released)
        PROVE  Transfer(acc, p, released[i]) \in V
    <3> DEFINE g == released[i]
               t == Transfer(acc, p, g)
    <3>1. g \in Gids /\ g # w /\ Good(acc) /\ p \in DOMAIN acc.nodes
      BY <1>3, <1>11 DEF GoodWith
    <3> HIDE DEF g
    <3>2. Good(t) /\ DOMAIN t.nodes = DOMAIN acc.nodes
      BY <3>1, TransferGood
    <3>3. Ready(w, t)
      BY <3>1, TransferKeeps
    <3> HIDE DEF t
    <3>4. t \in GoodWith(p)
      BY <3>1, <3>2 DEF GoodWith, Good
    <3>5. t \in V
      BY <3>3, <3>4
    <3> QED
      BY <3>5 DEF t, g
  <2> HIDE DEF V
  <2>2. TransferAll(p, updated, released) \in V
    BY <1>3, <1>8, <2>1, TransferFolds
  <2>3. update_participant_info(s, p, order, nodeOrder) \in V
    BY <2>2, SampleRead DEF released, updated, set
  <2> QED
    BY <2>3 DEF V, Ready, Safe
<1> QED
  BY <1>10, <1>11

\* No stage of a poll takes the Writer from its route.
LEMMA SweptKeeps ==
  ASSUME WorldOk, DeclaredOk, WritersOk, NamesDisjoint, inbox \in SUBSET Participants,
         NEW w \in Gids, Ready(w, PollBase), PollBase \in GoodStates,
         NEW order \in Seq(Gids), NEW nodeOrder \in Seq(STRING)
  PROVE  Safe(w, Swept(order, nodeOrder))
<1> DEFINE p == EntityOf(w).participant
           V == GoodStates
           W == {x \in (SUBSET Participants) \X V :
                   Safe(w, x[2]) /\ (p \notin x[1] => Ready(w, x[2]))}
           informed == Informed(PollBase, inbox, order, nodeOrder)
<1>0. \A acc : Ready(w, acc) => Safe(w, acc)
  BY DEF Ready, Safe
<1>1. <<{}, PollBase>> \in W
  BY <1>0
<1>2. ASSUME NEW acc \in V, NEW q \in inbox
      PROVE  update_participant_info(acc, q, order, nodeOrder) \in V
  <2>1. Good(acc) /\ q \in Participants
    BY DEF GoodStates
  <2>2. Good(update_participant_info(acc, q, order, nodeOrder))
    BY <2>1, ParticipantUpdated
  <2> QED
    BY <2>2 DEF GoodStates, Good
<1>3. ASSUME NEW t \in SUBSET inbox, NEW q \in t, NEW acc \in V, <<t \ {q}, acc>> \in W
      PROVE  <<t, update_participant_info(acc, q, order, nodeOrder)>> \in W
  <2> DEFINE new == update_participant_info(acc, q, order, nodeOrder)
  <2>1. /\ Good(acc) /\ q \in Participants /\ Safe(w, acc)
        /\ p \notin t \ {q} => Ready(w, acc)
    BY <1>3 DEF GoodStates
  <2>2. new \in V
    BY <1>2
  <2>3. Safe(w, new) /\ (p \notin t => Ready(w, new))
    <3>1. CASE q = p
      <4>1. Ready(w, acc)
        BY <2>1, <3>1
      <4>2. Safe(w, new)
        BY <2>1, <4>1, OwnSample
      <4> QED
        BY <3>1, <4>2
    <3>2. CASE q # p
      <4>1. /\ Ready(w, acc) => Ready(w, new)
            /\ Safe(w, acc) => Safe(w, new)
        BY <2>1, <3>2, OtherSample
      <4> QED
        BY <2>1, <4>1
    <3> QED
      BY <3>1, <3>2
  <2> HIDE DEF new, V
  <2>4. t \in SUBSET Participants
    OBVIOUS
  <2>5. <<t, new>> \in W
    BY <2>2, <2>3, <2>4
  <2> QED
    BY <2>5 DEF new
<1>4. informed \in V /\ <<inbox, informed>> \in W
  <2>1. PollBase \in V
    OBVIOUS
  <2> HIDE DEF V, W
  <2>2. /\ \A acc \in V : \A q \in inbox :
             update_participant_info(acc, q, order, nodeOrder) \in V
        /\ \A t \in SUBSET inbox : \A q \in t : \A acc \in V :
             <<t \ {q}, acc>> \in W
               => <<t, update_participant_info(acc, q, order, nodeOrder)>> \in W
    BY <1>2, <1>3
  <2>3. inbox \in SUBSET Participants
    OBVIOUS
  <2> DEFINE base == PollBase
  <2>4. base \in V /\ <<{}, base>> \in W /\ informed = Informed(base, inbox, order, nodeOrder)
    BY <1>1, <2>1
  <2> HIDE DEF informed, base
  <2> QED
    BY <2>2, <2>3, <2>4, InformFolds
<1> HIDE DEF informed
<1>5. Good(informed) /\ Safe(w, informed)
  BY <1>4 DEF GoodStates
<1>6. resolve_pending_endpoints(informed, order) = informed
  BY <1>5, PendingGood
<1>7. Safe(w, forward_orphan_writers(informed, order))
  <2> DEFINE U == {acc \in GoodStates : Safe(w, acc)}
             seq == Due(informed, order)
  <2>1. seq \in Seq({g \in Gids : IsWriter(g) /\ IsMessage(g)})
    BY DueWriters
  <2>2. informed \in U
    BY <1>4, <1>5
  <2> HIDE DEF seq
  <2>3. ASSUME NEW acc \in U, NEW i \in 1 .. Len(seq)
        PROVE  Claimed(acc, seq[i]) \in U
    <3> DEFINE g == seq[i]
    <3>1. g \in Gids /\ IsWriter(g) /\ IsMessage(g) /\ Good(acc) /\ Safe(w, acc)
      BY <2>1 DEF GoodStates
    <3> HIDE DEF g
    <3>2. Good(Claimed(acc, g)) /\ Safe(w, Claimed(acc, g))
      BY <3>1, ClaimedGood, ClaimedKeeps
    <3> QED
      BY <3>2 DEF GoodStates, Good, g
  <2> HIDE DEF U
  <2>4. forward_orphan_writers(informed, order) \in U
    BY <2>1, <2>2, <2>3, ClaimFolds DEF seq
  <2> QED
    BY <2>4 DEF U
<1> QED
  BY <1>5, <1>6, <1>7 DEF Swept, informed

\* The nodes of a map that have Writer w.
OwnersIn(nodes, w) ==
  {id \in UNION {{p} \X DOMAIN nodes[p] : p \in DOMAIN nodes} :
     Publishes(nodes[id[1]][id[2]], w)}

\* A Writer is owned by the synthetic node, or by another one, if that has it alone.
LEMMA OwnerIs ==
  ASSUME NEW w, world' = world
  PROVE  /\ Owner(w) = "orphan" =>
              \E id : OwnersIn(nodes_info, w) = {id} /\ is_orphan_node_name(id[2])
         /\ Owner(w)' = "node" =>
              \E id : OwnersIn(nodes_info', w) = {id} /\ ~is_orphan_node_name(id[2])
<1>1. Owners(w) = OwnersIn(nodes_info, w) /\ Owners(w)' = OwnersIn(nodes_info', w)
  BY DEF Owners, OwnersIn, NodeIds, NodeAt, Publishes
<1>2. \A n : is_orphan_node_name(n)' <=> is_orphan_node_name(n)
  BY SameEndpoints DEF is_orphan_node_name
<1> DEFINE A == \E id \in Owners(w) : Owners(w) = {id} /\ is_orphan_node_name(id[2])
           B == \E id \in Owners(w) : Owners(w) = {id} /\ ~is_orphan_node_name(id[2])
<1>3. Owner(w) = CASE Owners(w) = {} -> "none" [] A -> "orphan" [] B -> "node"
                   [] OTHER -> "several"
  BY DEF Owner
<1>4. Owner(w)' = CASE Owners(w)' = {} -> "none" [] A' -> "orphan" [] B' -> "node"
                    [] OTHER -> "several"
  BY DEF Owner
<1>5. Owner(w) = "orphan" => A
  <2> HIDE DEF A, B
  <2> QED
    BY <1>3
<1>6. Owner(w)' = "node" => B'
  <2> HIDE DEF A, B
  <2> QED
    BY <1>4
<1> QED
  BY <1>1, <1>2, <1>5, <1>6

\* It is the synthetic node of its participant, or the one that declares it.
LEMMA OwnerPlaces ==
  ASSUME WorldOk, NEW w \in Gids, NEW nodes, NEW rs, NEW ws, NodesGood(nodes, rs, ws),
         NEW id \in OwnersIn(nodes, w)
  PROVE  LET p == EntityOf(w).participant
         IN  /\ id[1] = p /\ p \in DOMAIN nodes /\ id[2] \in DOMAIN nodes[p]
             /\ id = <<id[1], id[2]>> /\ Publishes(nodes[p][id[2]], w)
             /\ is_orphan_node_name(id[2]) => id[2] = OrphanNode(p)
             /\ ~is_orphan_node_name(id[2]) => id[2] = EntityOf(w).node
<1> DEFINE p == EntityOf(w).participant
           n == EntityOf(w).node
<1>1. PICK q \in DOMAIN nodes : id \in {q} \X DOMAIN nodes[q]
  BY DEF OwnersIn
<1>2. id = <<id[1], id[2]>> /\ id[1] = q /\ id[2] \in DOMAIN nodes[q]
  BY <1>1
<1>3. nodes \in NodeMaps
  BY DEF NodesGood
<1>4. q \in Participants /\ id \in IdsOf(nodes)
  BY <1>2, <1>3, NodesOf
<1>5. NodeGood(q, id[2], nodes[q][id[2]], rs, ws)
  BY <1>2, <1>4 DEF NodesGood
<1>6. Publishes(nodes[q][id[2]], w)
  BY <1>2 DEF OwnersIn
<1>7. Mine(q, id[2], w)
  <2>1. MsgsPlaced(q, id[2], "msg_pub", nodes[q][id[2]].msg_pub)
    BY <1>5 DEF NodeGood, NodeOk, MsgKinds
  <2> QED
    BY <1>6, <2>1 DEF Publishes, MsgsPlaced, Placed
<1>8. q = p /\ (id[2] # OrphanNode(p) => id[2] = n)
  BY <1>7 DEF Mine
<1>9. ~is_orphan_node_name(n) /\ is_orphan_node_name(OrphanNode(p))
  BY <1>4, <1>8 DEF WorldOk, is_orphan_node_name
<1> QED
  BY <1>2, <1>6, <1>8, <1>9

-----------------------------------------------------------------------------
(* The route of a Writer that leaves the synthetic node. *)

\* A node that waits for an endpoint is updated: it is not a synthetic one.
LEMMA ResolveOwners ==
  ASSUME NodesGood(nodes_info, readers, writers), NEW g \in Gids, NEW changed,
         Resolve(g, changed), NEW w, NEW p, OwnersIn(nodes_info, w) = {<<p, OrphanNode(p)>>}
  PROVE  <<p, OrphanNode(p)>> \in OwnersIn(nodes_info', w)
<1> DEFINE list == undiscovered(g)
           o == OrphanNode(p)
           waiting == {id \in NodeIds : g \in NodeAt(id)[list]}
<1>1. nodes_info \in NodeMaps /\ NodeIds = IdsOf(nodes_info)
  BY NodeIdsAre DEF NodesGood
<1>2. p \in DOMAIN nodes_info /\ o \in DOMAIN nodes_info[p] /\ Publishes(nodes_info[p][o], w)
  <2>1. <<p, o>> \in OwnersIn(nodes_info, w) /\ <<p, o>>[1] = p /\ <<p, o>>[2] = o
    OBVIOUS
  <2> HIDE DEF o
  <2> QED
    BY <2>1 DEF OwnersIn
<1>3. CASE nodes_info' = nodes_info
  BY <1>3
<1>4. ASSUME NEW id \in waiting, NEW node,
             nodes_info' = [nodes_info EXCEPT ![id[1]] = Inserted(nodes_info[id[1]], id[2], node)]
      PROVE  <<p, o>> \in OwnersIn(nodes_info', w)
  <2> DEFINE q == id[1]
             m == id[2]
             put == Inserted(nodes_info[q], m, node)
             after == [nodes_info EXCEPT ![q] = put]
  <2>1. /\ id \in IdsOf(nodes_info) /\ id = <<q, m>> /\ g \in NodeAt(id)[list]
        /\ q \in DOMAIN nodes_info
        /\ NodeGood(q, m, NodeAt(id), readers, writers)
    BY <1>1 DEF IdsOf, NodesGood, NodeAt
  <2>2. m # OrphanNode(q)
    <3>1. list \in Lists
      BY DEF undiscovered, Lists
    <3>2. MayWait(q, m, list, NodeAt(id)[list])
      BY <2>1, <3>1, ListsOk DEF NodeGood
    <3> QED
      BY <2>1, <3>2 DEF MayWait, Waiting
  <2>3. /\ DOMAIN after = DOMAIN nodes_info
        /\ after[q] = put
        /\ \A x \in DOMAIN nodes_info \ {q} : after[x] = nodes_info[x]
    <3>1. nodes_info \in [DOMAIN nodes_info -> Maps(NodeNames, Nodes)]
      BY <1>1, MapFacts DEF NodeMaps
    <3>2. q \in DOMAIN nodes_info
      BY <2>1
    <3> HIDE DEF put, q
    <3> QED
      BY <3>1, <3>2
  <2>4. /\ DOMAIN put = DOMAIN nodes_info[q] \cup {m}
        /\ \A x \in DOMAIN nodes_info[q] \ {m} : put[x] = nodes_info[q][x]
    BY DEF Inserted
  <2>5. nodes_info' = after
    BY <1>4
  <2> HIDE DEF after, put, q, m
  <2>6. p \in DOMAIN after /\ o \in DOMAIN after[p] /\ after[p][o] = nodes_info[p][o]
    <3>1. CASE p = q
      <4>1. o # m
        BY <2>2, <3>1
      <4> QED
        BY <1>2, <2>3, <2>4, <3>1, <4>1
    <3>2. CASE p # q
      BY <1>2, <2>3, <3>2
    <3> QED
      BY <3>1, <3>2
  <2>7. <<p, o>>[1] = p /\ <<p, o>>[2] = o
    OBVIOUS
  <2> HIDE DEF o
  <2> QED
    BY <1>2, <2>5, <2>6, <2>7 DEF OwnersIn
<1>5. nodes_info' = nodes_info
        \/ \E id \in waiting : \E node :
             nodes_info' = [nodes_info EXCEPT ![id[1]] = Inserted(nodes_info[id[1]], id[2], node)]
  BY DEF Resolve
<1> QED
  BY <1>3, <1>4, <1>5

\* A step in which an entity goes gives its owner to no Writer.
LEMMA OwnersLost ==
  ASSUME NodesGood(nodes_info, readers, writers), NEW w,
         \/ \E q : nodes_info' = Restrict(nodes_info, DOMAIN nodes_info \ {q})
         \/ \E g, changed : RemoveFromNodes(g, changed)
  PROVE  OwnersIn(nodes_info', w) \subseteq OwnersIn(nodes_info, w)
<1>1. ASSUME NEW q, nodes_info' = Restrict(nodes_info, DOMAIN nodes_info \ {q})
      PROVE  OwnersIn(nodes_info', w) \subseteq OwnersIn(nodes_info, w)
  <2>1. /\ DOMAIN nodes_info' \subseteq DOMAIN nodes_info
        /\ \A p \in DOMAIN nodes_info' : nodes_info'[p] = nodes_info[p]
    BY <1>1 DEF Restrict
  <2> QED
    BY <2>1 DEF OwnersIn
<1>2. ASSUME NEW g, NEW visited, nodes_info' = Asked(nodes_info, visited, g)
      PROVE  OwnersIn(nodes_info', w) \subseteq OwnersIn(nodes_info, w)
  <2> DEFINE after == Asked(nodes_info, visited, g)
  <2>1. /\ DOMAIN after = DOMAIN nodes_info
        /\ \A p \in DOMAIN nodes_info : DOMAIN after[p] = DOMAIN nodes_info[p]
        /\ \A p \in DOMAIN nodes_info : \A n \in DOMAIN nodes_info[p] :
             \/ after[p][n] = nodes_info[p][n]
             \/ after[p][n] = remove_from(nodes_info[p][n], g).node
    BY DEF Asked
  <2> HIDE DEF after
  <2>2. ASSUME NEW p \in DOMAIN nodes_info, NEW n \in DOMAIN nodes_info[p],
               Publishes(after[p][n], w)
        PROVE  Publishes(nodes_info[p][n], w)
    <3>1. nodes_info[p][n] \in Nodes
      <4>1. nodes_info \in NodeMaps
        BY DEF NodesGood
      <4>2. nodes_info[p] \in Maps(NodeNames, Nodes)
        BY <4>1, NodesOf
      <4> QED
        BY <4>2, MapFacts
    <3>2. Loses(nodes_info[p][n], remove_from(nodes_info[p][n], g).node, g)
      BY <3>1, PublisherLost
    <3> QED
      BY <2>1, <2>2, <3>2 DEF Loses
  <2> QED
    BY <1>2, <2>1, <2>2 DEF OwnersIn, after
<1>3. ASSUME NEW g, NEW changed, RemoveFromNodes(g, changed)
      PROVE  \E visited : nodes_info' = Asked(nodes_info, visited, g)
  BY <1>3 DEF RemoveFromNodes, Asked
<1> QED
  BY <1>1, <1>2, <1>3

\* Without a poll no Writer leaves a synthetic node for another one.
LEMMA NotMoved ==
  ASSUME NodesGood(nodes_info, readers, writers), [Next]_vars, ~Poll,
         NEW w, NEW p, OwnersIn(nodes_info, w) = {<<p, OrphanNode(p)>>},
         NEW id, OwnersIn(nodes_info', w) = {id}
  PROVE  id = <<p, OrphanNode(p)>>
<1> DEFINE o == <<p, OrphanNode(p)>>
<1>1. \/ nodes_info' = nodes_info
      \/ \E q : nodes_info' = Restrict(nodes_info, DOMAIN nodes_info \ {q})
      \/ \E g \in Gids : \E changed : Resolve(g, changed)
      \/ \E g, changed : RemoveFromNodes(g, changed)
  <2>1. CASE UNCHANGED vars
    BY <2>1 DEF vars, nodeVars
  <2>2. CASE Tick
    BY <2>2 DEF Tick
  <2>3. ASSUME NEW g, DeclareNode(g) \/ Destroy(g) \/ Leave(g)
        PROVE  nodes_info' = nodes_info
    BY <2>3 DEF DeclareNode, Destroy, Leave, nodeVars
  <2>4. ASSUME NEW x, Told(x)
        PROVE  \/ nodes_info' = nodes_info
               \/ \E q : nodes_info' = Restrict(nodes_info, DOMAIN nodes_info \ {q})
               \/ \E g \in Gids : \E changed : Resolve(g, changed)
               \/ \E g, changed : RemoveFromNodes(g, changed)
    <3>1. CASE add_participant(x)
      BY <3>1 DEF add_participant
    <3>2. CASE remove_participant(x)
      BY <3>2 DEF remove_participant
    <3>3. CASE add_writer(x)
      BY <3>3 DEF add_writer
    <3>4. CASE add_reader(x)
      BY <3>4 DEF add_reader
    <3>5. CASE RemoveWriter(x)
      BY <3>5 DEF RemoveWriter
    <3>6. CASE RemoveReader(x)
      BY <3>6 DEF RemoveReader
    <3> QED
      BY <2>4, <3>1, <3>2, <3>3, <3>4, <3>5, <3>6 DEF Told
  <2> QED
    BY <2>1, <2>2, <2>3, <2>4 DEF Next
<1> HIDE DEF o
<1>2. CASE \E g \in Gids : \E changed : Resolve(g, changed)
  <2>1. o \in OwnersIn(nodes_info', w)
    BY <1>2, ResolveOwners DEF o
  <2> QED
    BY <2>1 DEF o
<1>3. CASE nodes_info' = nodes_info
  BY <1>3
<1>4. CASE \/ \E q : nodes_info' = Restrict(nodes_info, DOMAIN nodes_info \ {q})
           \/ \E g, changed : RemoveFromNodes(g, changed)
  <2>1. OwnersIn(nodes_info', w) \subseteq OwnersIn(nodes_info, w)
    BY <1>4, OwnersLost
  <2> QED
    BY <2>1
<1> QED
  BY <1>1, <1>2, <1>3, <1>4

\* A Writer that only the synthetic node has is ready for a poll.
LEMMA OrphanReady ==
  ASSUME WorldOk, NamesDisjoint, NEW w \in Gids, PollBase \in GoodStates,
         OwnersIn(nodes_info, w) = {<<EntityOf(w).participant,
                                      OrphanNode(EntityOf(w).participant)>>}
  PROVE  Ready(w, PollBase)
<1> DEFINE p == EntityOf(w).participant
           o == OrphanNode(p)
           n == EntityOf(w).node
           base == PollBase
           own == OwnNodes(nodes_info, p)
<1>1. Good(base) /\ base.nodes = nodes_info /\ base.evts = <<>>
  BY DEF GoodStates, PollBase
<1> HIDE DEF base
<1>2. <<p, o>> \in OwnersIn(nodes_info, w) /\ <<p, o>>[1] = p /\ <<p, o>>[2] = o
  OBVIOUS
<1>3. p \in DOMAIN nodes_info /\ o \in DOMAIN nodes_info[p] /\ Publishes(nodes_info[p][o], w)
  <2> HIDE DEF o, p
  <2> QED
    BY <1>2 DEF OwnersIn
<1>4. n # o
  BY DEF WorldOk, Participants
<1>5. Holds(own, w)
  BY <1>3 DEF Holds, OwnNodes
<1>6. Lacks(own, w)
  <2> SUFFICES ASSUME n \in DOMAIN own, Publishes(own[n], w)
               PROVE  FALSE
    BY DEF Lacks
  <2>1. own = nodes_info[p]
    BY <1>3 DEF OwnNodes
  <2>2. <<p, n>>[1] = p /\ <<p, n>>[2] = n
    OBVIOUS
  <2>3. <<p, n>> \in OwnersIn(nodes_info, w)
    BY <1>3, <2>1, <2>2 DEF OwnersIn
  <2>4. <<p, n>> # <<p, o>>
    BY <1>4
  <2> QED
    BY <2>3, <2>4
<1>7. NodesWith(base, w) = own
  BY <1>1 DEF NodesWith
<1>8. Covered(Keepers(w), base.evts)
  <2> DEFINE x == <<o, "msg_pub", TopicName(w)>>
  <2>1. x \in DiscoveredIn(base.nodes)
    BY <1>1, <1>5, <1>7, KeeperKnown
  <2>2. Known(local_nodes, <<>>) = local_nodes
    BY KnownNothing
  <2>3. x \in Keepers(w) /\ x \in After(0, local_nodes, <<>>)
    BY <1>1, <2>1, <2>2 DEF Keepers, Good, Known
  <2> HIDE DEF x
  <2>4. \A k \in 0 .. Len(<<>>) : k = 0
    OBVIOUS
  <2> QED
    BY <1>1, <2>3, <2>4 DEF Covered
<1> HIDE DEF own
<1> QED
  BY <1>1, <1>5, <1>6, <1>7, <1>8 DEF Ready, base

\* A step that moves a Writer keeps its route.
LEMMA MovedKeepsRoute ==
  ASSUME IInv, NamesDisjoint, [Next]_vars, NEW w \in Gids,
         Owner(w) = "orphan", Owner(w)' = "node", NEW k \in 0 .. Len(evts')
  PROVE  \E user \in After(k, local_nodes, evts') :
           user[2] = "msg_pub" /\ user[3] = TopicName(w)
<1> DEFINE p == EntityOf(w).participant
           o == OrphanNode(p)
<1>1. WorldOk
  BY WorldKnown DEF IInv
<1>2. /\ Tells(nodes_info, participants, writers, readers, admin_space, local_nodes)
      /\ NodesGood(nodes_info, readers, writers)
  BY DEF IInv, NodesInv, Tells
<1>3. world' = world
  BY DEF Next, vars, ddsVars, DeclareNode, Destroy, Leave, Told, add_participant,
     remove_participant, add_writer, RemoveWriter, add_reader, RemoveReader, Announced, Withdrawn,
     Poll, Tick
<1>4. OwnersIn(nodes_info, w) = {<<p, o>>}
  <2>1. PICK id : OwnersIn(nodes_info, w) = {id} /\ is_orphan_node_name(id[2])
    BY <1>3, OwnerIs
  <2>2. id \in OwnersIn(nodes_info, w)
    BY <2>1
  <2>3. id[1] = p /\ id[2] = o /\ id = <<id[1], id[2]>>
    BY <1>1, <1>2, <2>1, <2>2, OwnerPlaces
  <2> QED
    BY <2>1, <2>3
<1>5. PICK id : OwnersIn(nodes_info', w) = {id} /\ ~is_orphan_node_name(id[2])
  BY <1>3, OwnerIs
<1>6. Poll
  <2> SUFFICES ASSUME ~Poll PROVE FALSE
    OBVIOUS
  <2>1. id = <<p, o>>
    BY <1>2, <1>4, <1>5, NotMoved
  <2>2. is_orphan_node_name(o)
    BY DEF is_orphan_node_name, Participants
  <2>3. <<p, o>>[2] = o
    OBVIOUS
  <2> QED
    BY <1>5, <2>1, <2>2, <2>3
<1>7. PICK order \in Seq(Gids), nodeOrder \in Seq(STRING) :
        /\ nodes_info' = Swept(order, nodeOrder).nodes
        /\ Send(Swept(order, nodeOrder).evts)
  BY <1>1, <1>6, PollEnds
<1> DEFINE s == Swept(order, nodeOrder)
<1>8. Safe(w, s)
  <2>1. PollBase \in GoodStates
    BY <1>2, PollBaseGood
  <2>2. Ready(w, PollBase)
    BY <1>1, <1>4, <2>1, OrphanReady
  <2>3. DeclaredOk /\ WritersOk /\ inbox \in SUBSET Participants
    BY DEF IInv, SystemInv, KnownInv, WritersOk
  <2> QED
    BY <1>1, <2>1, <2>2, <2>3, SweptKeeps
<1> HIDE DEF s
<1>9. nodes_info' = s.nodes /\ evts' = s.evts
  BY <1>7 DEF s, Send
<1>10. Gainable(w)
  <2> SUFFICES ASSUME ~Gainable(w) PROVE FALSE
    OBVIOUS
  <2>1. Lacks(OwnNodes(s.nodes, p), w) /\ NodesGood(s.nodes, readers, writers)
    BY <1>8 DEF Safe, NodesWith, Good
  <2>2. id \in OwnersIn(s.nodes, w)
    BY <1>5, <1>9
  <2>3. /\ p \in DOMAIN s.nodes /\ id[2] \in DOMAIN s.nodes[p]
        /\ Publishes(s.nodes[p][id[2]], w)
        /\ id[2] = EntityOf(w).node
    BY <1>1, <1>5, <2>1, <2>2, OwnerPlaces
  <2> QED
    BY <2>1, <2>3 DEF Lacks, OwnNodes
<1>11. Keepers(w) \cap After(k, local_nodes, evts') # {}
  BY <1>8, <1>9, <1>10 DEF Safe, Covered
<1>12. \A user \in Keepers(w) : user[2] = "msg_pub" /\ user[3] = TopicName(w)
  BY DEF Keepers
<1> QED
  BY <1>11, <1>12

\* In systems without two nodes of one name a transfer keeps the route: at each position of
\* the events of a poll a local node has a publisher on the Writer's topic.
THEOREM TransfersKeepRoute ==
  ASSUME UniqueNodeNames
  PROVE  Spec => TransferKeepsRoute
<1>1. IInv /\ [Next]_vars =>
        \A w \in Gids : Owner(w) = "orphan" /\ Owner(w)' = "node" =>
          \A k \in 0 .. Len(evts') :
            \E user \in After(k, local_nodes, evts') :
              user[2] = "msg_pub" /\ user[3] = TopicName(w)
  <2> SUFFICES ASSUME IInv, [Next]_vars, NEW w \in Gids,
                      Owner(w) = "orphan", Owner(w)' = "node", NEW k \in 0 .. Len(evts')
               PROVE  \E user \in After(k, local_nodes, evts') :
                        user[2] = "msg_pub" /\ user[3] = TopicName(w)
    OBVIOUS
  <2>1. NamesDisjoint
    BY NamesUnique DEF IInv
  <2> QED
    BY <2>1, MovedKeepsRoute
<1> QED
  BY Inductive, <1>1, PTL DEF Spec, TransferKeepsRoute

=============================================================================
