------------------------------ MODULE RoutesMgr ------------------------------
(***************************************************************************)
(* The routes manager of the bridge (routes_mgr.rs): six maps of routes,   *)
(* one per kind of ROS 2 interface, and the admin space that lists them.   *)
(* A route is created by the first local node or remote bridge that needs  *)
(* it and dropped when nobody needs it any more.                           *)
(*                                                                         *)
(* A handler of the manager returns Ok or Err: it is written here as an    *)
(* action with a Boolean parameter ok that constrains mgrVars'.           *)
(*  The main loop that calls the handlers is module BridgeLoop. *)
(* The data path, the QoS and the DDS entities of a route are left to the  *)
(* modules of the routes.                                                  *)
(***************************************************************************)
EXTENDS Naturals, Sequences, FiniteSets

CONSTANTS
  Segments,             \* the segments that names and key expressions are made of
  Namespace,            \* config.namespace as a sequence of segments; <<>> is "/"
  Names,                \* ROS 2 interface names: sequences of segments
  KeyExprs,             \* Zenoh key expressions: sequences of segments
  Nodes,                \* full names of local ROS nodes
  MATCHED_READERS_KEY,  \* the synthetic local node of matched DDS readers
  Zids,                 \* zenoh ids of the remote bridges
  Qoses,                \* QoS of an announced publisher, as in its liveliness token
  NoQos,                \* all other announcements: the QoS is not part of their identity
  MaxFailures           \* bound on the calls to Zenoh or Cyclone DDS that fail

Kinds == {"MsgPub", "MsgSub", "ServiceSrv", "ServiceCli", "ActionSrv", "ActionCli"}

\* The configured namespace is prepended to the name.
ros2_name_to_key_expr(name) == Namespace \o name

\* The namespace is removed if the key expression starts with it.
key_expr_to_ros2_name(ke) ==
  IF /\ Len(Namespace) <= Len(ke)
     /\ SubSeq(ke, 1, Len(Namespace)) = Namespace
  THEN SubSeq(ke, Len(Namespace) + 1, Len(ke))
  ELSE ke

ASSUME NamesAssumption ==
  /\ Namespace \in Seq(Segments)
  /\ Names \subseteq Seq(Segments)
  /\ KeyExprs \subseteq Seq(Segments)

ASSUME ConversionAssumption ==
  /\ \A n \in Names : ros2_name_to_key_expr(n) \in KeyExprs
  /\ \A k \in KeyExprs : key_expr_to_ros2_name(k) \in Names

ASSUME ConstantsAssumption ==
  /\ MATCHED_READERS_KEY \notin Nodes
  /\ NoQos \notin Qoses
  /\ MaxFailures \in Nat

VARIABLES
  routes,    \* the six routes_* maps: a route or NoRoute for each kind and name
  admin,     \* admin_space: entries "route/<kind>/<key expr>" with their RouteRef
  misfiled,  \* history: routes dropped with the removal of another key's entry
  failures   \* how many calls have failed so far

mapVars == <<routes, admin, misfiled>>
mgrVars == <<mapVars, failures>>

RouteIds == Kinds \X Names
RemoteIds == [zid : Zids, ke : KeyExprs, qos : Qoses \cup {NoQos}]

\* live: the map has an entry; token: the route's liveliness token is declared
Route == [live : BOOLEAN,
          local : SUBSET (Nodes \cup {MATCHED_READERS_KEY}),
          remote : SUBSET RemoteIds,
          token : BOOLEAN]

NoRoute == [live |-> FALSE, local |-> {}, remote |-> {}, token |-> FALSE]

AdminEntries == [kind : Kinds, ke : KeyExprs, name : Names]

DiscoveryEvents ==
  [op : {"discovered", "undiscovered"}, kind : Kinds, name : Names, node : Nodes]
    \cup [op : {"writers_changed"}, name : Names]

\* The QoS identifies the announcement of a publisher only.
AnnouncementTokens ==
  [kind : {"MsgPub"}, zid : Zids, ke : KeyExprs, qos : Qoses]
    \cup [kind : Kinds \ {"MsgPub"}, zid : Zids, ke : KeyExprs, qos : {NoQos}]

InitMgr ==
  /\ routes = [r \in RouteIds |-> NoRoute]
  /\ admin = {}
  /\ misfiled = {}
  /\ failures = 0

-----------------------------------------------------------------------------
(* What the routes do for the manager: the users of a route. *)

\* Mutant: only the remote side is looked at.
is_unused_NoLocal(rt) == rt.remote = {}

is_unused(rt) == rt.local = {} /\ rt.remote = {}

\* The route is announced when its first local node comes.  Only the publisher
\* route checks that the node is a new one.
Announces(kind, rt, node) ==
  /\ rt.local \cup {node} = {node}
  /\ kind = "MsgPub" => node \notin rt.local

\* A failed announcement is logged and leaves the token as it was.
add_local_node(kind, rt, node, announced) ==
  [rt EXCEPT !.local = @ \cup {node},
             !.token = @ \/ (announced /\ Announces(kind, rt, node))]

\* Mutant: the last node leaves and the token stays.
remove_local_node_NoRetire(rt, node) == [rt EXCEPT !.local = @ \ {node}]

\* The route is retired when its last local node leaves.
remove_local_node(rt, node) ==
  [rt EXCEPT !.local = @ \ {node},
             !.token = @ /\ rt.local \ {node} # {}]

\* The entry of a remote bridge in remote_routes: the QoS is part of it for
\* the announcement of a publisher, NoQos stands for its absence.
remote_key(t) == [zid |-> t.zid, ke |-> t.ke, qos |-> t.qos]

add_remote_route(rt, t) == [rt EXCEPT !.remote = @ \cup {remote_key(t)}]

remove_remote_route(rt, t) == [rt EXCEPT !.remote = @ \ {remote_key(t)}]

prune_remote_routes_with_prefix(rt, z) ==
  [rt EXCEPT !.remote = {k \in @ : k.zid # z}]

-----------------------------------------------------------------------------
(* The maps and the admin space. *)

\* Mutant: the entry is inserted at the ROS 2 name instead of the key expression.
admin_insert_AtName(r) ==
  {a \in admin : ~(a.kind = r[1] /\ a.ke = r[2])}
    \cup {[kind |-> r[1], ke |-> r[2], name |-> r[2]]}

admin_insert(r) ==
  LET ke == ros2_name_to_key_expr(r[2])
  IN  {a \in admin : ~(a.kind = r[1] /\ a.ke = ke)}
        \cup {[kind |-> r[1], ke |-> ke, name |-> r[2]]}

\* Mutant: the entry is looked up at the ROS 2 name instead of the key expression.
admin_remove_AtName(kind, ke) ==
  {a \in admin : ~(a.kind = kind /\ a.ke = key_expr_to_ros2_name(ke))}

admin_remove(kind, ke) == {a \in admin : ~(a.kind = kind /\ a.ke = ke)}

\* The route of the map, or the route that get_or_create_route_* creates.
Occupied(r) == [routes[r] EXCEPT !.live = TRUE]

\* get_or_create_route_*: the route, changed to rt by the caller, is in the map
\* and a created one is listed in the admin space.
GetOrCreate(r, rt) ==
  /\ routes' = [routes EXCEPT ![r] = rt]
  /\ IF routes[r].live
     THEN UNCHANGED <<admin, misfiled>>
     ELSE /\ admin' = admin_insert(r)
          /\ misfiled' = misfiled \ {r}

\* A user has left, rt is what is left of the route: an unused route is dropped
\* and the admin entry at key ke is removed.
StoreOrDrop(r, rt, ke) ==
  IF is_unused(rt)
  THEN /\ routes' = [routes EXCEPT ![r] = NoRoute]
       /\ admin' = admin_remove(r[1], ke)
       /\ misfiled' = IF ke = ros2_name_to_key_expr(r[2]) THEN misfiled
                      ELSE misfiled \cup {r}
  ELSE /\ routes' = [routes EXCEPT ![r] = rt]
       /\ UNCHANGED <<admin, misfiled>>

\* The handler's failures are counted, so that they can be bounded.
Fails(bad) ==
  /\ bad => failures < MaxFailures
  /\ failures' = IF bad THEN failures + 1 ELSE failures

-----------------------------------------------------------------------------
(* on_ros_discovery_event *)

\* Err: no DDS info for the endpoint (topics only) or the route cannot be
\* created.  Otherwise the node is added, and only the publisher route can
\* still fail, when it adapts to the local Writers.
OnDiscovered(e, ok) ==
  LET r == <<e.kind, e.name>>
  IN  \/ /\ ~ok
         /\ e.kind \in {"MsgPub", "MsgSub"} \/ ~routes[r].live
         /\ UNCHANGED mapVars
         /\ Fails(TRUE)
      \/ \E announced \in BOOLEAN :
           /\ ~announced => Announces(e.kind, Occupied(r), e.node)
           /\ ok \/ e.kind = "MsgPub"
           /\ GetOrCreate(r, add_local_node(e.kind, Occupied(r), e.node, announced))
           /\ Fails(~ok \/ ~announced)

\* Err: the remaining publisher route cannot adapt to the local Writers.
OnUndiscovered(e, ok) ==
  LET r  == <<e.kind, e.name>>
      rt == remove_local_node(routes[r], e.node)
  IN  IF routes[r].live
      THEN /\ ok \/ (e.kind = "MsgPub" /\ ~is_unused(rt))
           /\ StoreOrDrop(r, rt, ros2_name_to_key_expr(e.name))
           /\ Fails(~ok)
      ELSE ok /\ UNCHANGED mgrVars

\* LocalWritersChanged: adapts the QoS of the route, which is not kept here.
OnLocalWritersChanged(e, ok) ==
  /\ ok \/ routes[<<"MsgPub", e.name>>].live
  /\ UNCHANGED mapVars
  /\ Fails(~ok)

on_ros_discovery_event(e, ok) ==
  \/ e.op = "discovered" /\ OnDiscovered(e, ok)
  \/ e.op = "undiscovered" /\ OnUndiscovered(e, ok)
  \/ e.op = "writers_changed" /\ OnLocalWritersChanged(e, ok)

-----------------------------------------------------------------------------
(* on_ros_announcement_event: a remote route is served by the local route  *)
(* of the matching kind.                                                   *)

MatchingKind(kind) ==
  CASE kind = "MsgPub" -> "MsgSub"
    [] kind = "MsgSub" -> "MsgPub"
    [] kind = "ServiceSrv" -> "ServiceCli"
    [] kind = "ServiceCli" -> "ServiceSrv"
    [] kind = "ActionSrv" -> "ActionCli"
    [] kind = "ActionCli" -> "ActionSrv"

RouteOf(t) == <<MatchingKind(t.kind), key_expr_to_ros2_name(t.ke)>>

\* Err: the route cannot be created; or, for a publisher, the remote entry is
\* added and the route's DDS Writer then cannot be adapted.
OnAnnounced(t, ok) ==
  LET r == RouteOf(t)
  IN  \/ /\ ~ok
         /\ ~routes[r].live
         /\ UNCHANGED mapVars
         /\ Fails(TRUE)
      \/ /\ ok \/ t.kind = "MsgPub"
         /\ GetOrCreate(r, add_remote_route(Occupied(r), t))
         /\ Fails(~ok)

\* Err: the DDS Writer of a remaining subscriber route cannot be adapted.
\* The admin entry is looked up with the key expression of the token.
OnRetired(t, ok) ==
  LET r  == RouteOf(t)
      rt == remove_remote_route(routes[r], t)
  IN  IF routes[r].live
      THEN /\ ok \/ (t.kind = "MsgPub" /\ ~is_unused(rt))
           /\ StoreOrDrop(r, rt, t.ke)
           /\ Fails(~ok)
      ELSE ok /\ UNCHANGED mgrVars

on_ros_announcement_event(e, ok) ==
  \/ e.op = "announced" /\ OnAnnounced(e.token, ok)
  \/ e.op = "retired" /\ OnRetired(e.token, ok)

-----------------------------------------------------------------------------
(* Matched DDS readers, departed bridges, admin queries. *)

\* The DDS readers matched by the Writer of a subscriber route count as one
\* more local node.  The route is not dropped here, even if it is unused.
on_matched_reader_event(name, matched) ==
  LET r == <<"MsgSub", name>>
  IN  IF routes[r].live
      THEN /\ UNCHANGED <<admin, misfiled>>
           /\ \/ /\ matched
                 /\ MATCHED_READERS_KEY \in routes[r].local
                 /\ UNCHANGED <<routes, failures>>
              \/ /\ matched
                 /\ MATCHED_READERS_KEY \notin routes[r].local
                 /\ \E announced \in BOOLEAN :
                      /\ ~announced =>
                           Announces("MsgSub", routes[r], MATCHED_READERS_KEY)
                      /\ routes' = [routes EXCEPT ![r] =
                           add_local_node("MsgSub", @, MATCHED_READERS_KEY, announced)]
                      /\ Fails(~announced)
              \/ /\ ~matched
                 /\ routes' = [routes EXCEPT ![r] =
                                 remove_local_node(@, MATCHED_READERS_KEY)]
                 /\ UNCHANGED failures
      ELSE UNCHANGED mgrVars

\* Every route loses the entries of the bridge; one that had some and is now
\* unused is dropped with its admin entry.
on_remote_bridge_left(z) ==
  LET pruned(r) == prune_remote_routes_with_prefix(routes[r], z)
      dropped == {r \in RouteIds : /\ routes[r].live
                                   /\ pruned(r).remote # routes[r].remote
                                   /\ is_unused(pruned(r))}
  IN  /\ routes' = [r \in RouteIds |-> IF r \in dropped THEN NoRoute ELSE pruned(r)]
      /\ admin' = {a \in admin :
                     ~ \E r \in dropped : /\ a.kind = r[1]
                                          /\ a.ke = ros2_name_to_key_expr(r[2])}
      /\ UNCHANGED <<misfiled, failures>>

\* The entries whose query is answered: get_entity_json_value finds the route.
\* For any other one send_admin_reply logs "INTERNAL ERROR: Dangling".
AnsweredEntries == {a \in admin : routes[<<a.kind, a.name>>].live}

=============================================================================
