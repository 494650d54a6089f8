--------------------------- MODULE BridgeLoopProofs ---------------------------
(***************************************************************************)
(* Theorems about the main loop and the routes manager, for any set of     *)
(* interfaces and tokens, any namespace and any bounds.                    *)
(*                                                                         *)
(* The argument has two levels.  The manager's part of the invariant       *)
(* (MgrInv) is kept by every handler on its own.  The users of the routes  *)
(* are justified (UsersValid) only because the events that wait for a      *)
(* retry are still valid, so the loop's part says that of the two queues;  *)
(* this is what the calls of retain in the arms of the loop are for.       *)
(*                                                                         *)
(* What a step may not do (drop a route before its last user is gone, lose *)
(* the remote routes of a bridge that is there) needs, beside the          *)
(* invariant, what each handler leaves of the users of the routes.         *)
(***************************************************************************)
EXTENDS BridgeLoop, TLAPS

\* A name of this bridge survives the way to a key expression and back, whatever
\* the namespace is.
LEMMA NameOfKey ==
  ASSUME NEW n \in Names
  PROVE  key_expr_to_ros2_name(ros2_name_to_key_expr(n)) = n
<1> DEFINE k == Namespace \o n
<1>1. Namespace \in Seq(Segments) /\ n \in Seq(Segments)
  BY NamesAssumption
<1>2. /\ Len(k) = Len(Namespace) + Len(n)
      /\ \A i \in 1 .. Len(k) :
           k[i] = IF i <= Len(Namespace) THEN Namespace[i] ELSE n[i - Len(Namespace)]
      /\ k \in Seq(Segments)
  BY <1>1
<1>3. SubSeq(k, 1, Len(Namespace)) = Namespace
  BY <1>1, <1>2
<1>4. SubSeq(k, Len(Namespace) + 1, Len(k)) = n
  BY <1>1, <1>2
<1>5. Len(Namespace) <= Len(k)
  BY <1>1, <1>2
<1> QED
  BY <1>3, <1>4, <1>5 DEF key_expr_to_ros2_name, ros2_name_to_key_expr

-----------------------------------------------------------------------------
(* The manager's part of the inductive invariant. *)

\* The types of the manager's variables.
MgrType ==
  /\ routes \in [RouteIds -> Route]
  /\ admin \subseteq AdminEntries
  /\ misfiled \subseteq RouteIds
  /\ failures \in 0 .. MaxFailures

\* A name without a route has no users.
DeadIsEmpty == \A r \in RouteIds : ~routes[r].live => routes[r] = NoRoute

\* A token of route r that stands outside of the configured namespace.
Foreign(r) == \E t \in Tokens : RouteOf(t) = r /\ t.ke # ros2_name_to_key_expr(r[2])

\* Only such a token leaves the entry of a dropped route behind.
MisfiledForeign == \A r \in misfiled : Foreign(r)

MgrInv ==
  /\ MgrType
  /\ DeadIsEmpty
  /\ AdminKeyed
  /\ RoutesListed
  /\ TokenWhileServed
  /\ OnlySubscribersLinger
  /\ MisfiledForeign
  /\ NoDanglingEntry

\* The users of route r that a handler may put in the map.
GoodRoute(r, rt) ==
  /\ rt \in Route
  /\ rt.live
  /\ rt.token => rt.local # {}
  /\ is_unused(rt) => r[1] = "MsgSub"

\* Two names with the same key expression are equal: the admin entry made at a
\* name's key expression is the one of that name only.
LEMMA KeyOfName ==
  ASSUME NEW m \in Names, NEW n \in Names,
         ros2_name_to_key_expr(m) = ros2_name_to_key_expr(n)
  PROVE  m = n
BY NameOfKey

\* The absent route is a route record without users.
LEMMA NoRouteType == NoRoute \in Route
BY DEF NoRoute, Route

\* A step that leaves the manager's variables alone keeps its part of the
\* invariant.
LEMMA MgrStutters ==
  ASSUME MgrInv, UNCHANGED mapVars, failures' \in 0 .. MaxFailures
  PROVE  MgrInv'
BY DEF MgrInv, MgrType, DeadIsEmpty, AdminKeyed, RoutesListed, TokenWhileServed,
       OnlySubscribersLinger, MisfiledForeign, Foreign, RouteOf, NoDanglingEntry,
       AnsweredEntries, mapVars

\* A handler's failures stay within their bound.
LEMMA FailsType ==
  ASSUME failures \in 0 .. MaxFailures, NEW bad \in BOOLEAN, Fails(bad)
  PROVE  failures' \in 0 .. MaxFailures
BY ConstantsAssumption DEF Fails

\* A route that is found or created keeps the manager consistent.
LEMMA GetOrCreateKeeps ==
  ASSUME MgrInv, NEW r \in RouteIds, NEW rt, GoodRoute(r, rt), GetOrCreate(r, rt),
         failures' \in 0 .. MaxFailures
  PROVE  MgrInv'
<1> DEFINE entry(x) == [kind |-> x[1], ke |-> ros2_name_to_key_expr(x[2]), name |-> x[2]]
<1>1. /\ routes' \in [RouteIds -> Route]
      /\ routes'[r] = rt
      /\ \A x \in RouteIds \ {r} : routes'[x] = routes[x]
  BY DEF GetOrCreate, GoodRoute, MgrInv, MgrType
<1>2. \A x \in RouteIds : entry(x) \in AdminEntries
  BY ConversionAssumption DEF AdminEntries, RouteIds
<1>3. /\ admin' \subseteq admin \cup {entry(r)}
      /\ \A a \in admin : ~(a.kind = r[1] /\ a.ke = ros2_name_to_key_expr(r[2])) => a \in admin'
      /\ ~routes[r].live => entry(r) \in admin'
      /\ routes[r].live => admin' = admin
      /\ misfiled' \subseteq misfiled
      /\ \A x \in misfiled : x # r => x \in misfiled'
  BY DEF GetOrCreate, admin_insert
<1>4. MgrType'
  BY <1>1, <1>2, <1>3 DEF MgrInv, MgrType
<1>5. DeadIsEmpty'
  BY <1>1 DEF MgrInv, DeadIsEmpty, GoodRoute
<1>6. AdminKeyed'
  BY <1>3 DEF MgrInv, AdminKeyed
<1>7. RoutesListed'
  <2> SUFFICES ASSUME NEW x \in RouteIds, routes'[x].live
               PROVE  entry(x) \in admin'
    BY DEF RoutesListed
  <2>1. CASE x = r
    BY <2>1, <1>3 DEF MgrInv, RoutesListed
  <2>2. CASE x # r
    <3>1. entry(x) \in admin
      BY <2>2, <1>1 DEF MgrInv, RoutesListed
    <3>2. ~(x[1] = r[1] /\ ros2_name_to_key_expr(x[2]) = ros2_name_to_key_expr(r[2]))
      BY <2>2, KeyOfName DEF RouteIds
    <3> QED
      BY <3>1, <3>2, <1>3
  <2> QED
    BY <2>1, <2>2
<1>8. TokenWhileServed' /\ OnlySubscribersLinger'
  BY <1>1 DEF MgrInv, TokenWhileServed, OnlySubscribersLinger, GoodRoute
<1>9. NoDanglingEntry'
  <2> SUFFICES ASSUME NEW a \in admin', ~routes'[<<a.kind, a.name>>].live
               PROVE  <<a.kind, a.name>> \in misfiled'
    BY DEF NoDanglingEntry, AnsweredEntries
  <2>1. CASE a \in admin
    <3>1. <<a.kind, a.name>> \in RouteIds
      BY <2>1 DEF MgrInv, MgrType, AdminEntries, RouteIds
    <3>2. <<a.kind, a.name>> # r
      BY <1>1 DEF GoodRoute
    <3>3. <<a.kind, a.name>> \in misfiled
      BY <1>1, <2>1, <3>1, <3>2 DEF MgrInv, NoDanglingEntry, AnsweredEntries
    <3> QED
      BY <1>3, <3>2, <3>3
  <2>2. CASE a = entry(r)
    BY <2>2, <1>1 DEF GoodRoute, RouteIds
  <2> QED
    BY <2>1, <2>2, <1>3
<1>10. MisfiledForeign'
  BY <1>3 DEF MgrInv, MisfiledForeign, Foreign, RouteOf
<1> QED
  BY <1>4, <1>5, <1>6, <1>7, <1>8, <1>9, <1>10 DEF MgrInv

\* A route that loses a user keeps the manager consistent, provided that the
\* admin key that is removed is one of its name.
LEMMA StoreOrDropKeeps ==
  ASSUME MgrInv, NEW r \in RouteIds, NEW rt \in Route, NEW ke \in KeyExprs,
         routes[r].live, rt.live, rt.token => rt.local # {},
         key_expr_to_ros2_name(ke) = r[2],
         ke = ros2_name_to_key_expr(r[2]) \/ Foreign(r),
         StoreOrDrop(r, rt, ke),
         failures' \in 0 .. MaxFailures
  PROVE  MgrInv'
<1> DEFINE entry(x) == [kind |-> x[1], ke |-> ros2_name_to_key_expr(x[2]), name |-> x[2]]
<1>1. /\ routes' \in [RouteIds -> Route]
      /\ routes'[r] = IF is_unused(rt) THEN NoRoute ELSE rt
      /\ \A x \in RouteIds \ {r} : routes'[x] = routes[x]
  BY NoRouteType DEF StoreOrDrop, MgrInv, MgrType
<1>2. /\ admin' \subseteq admin
      /\ \A a \in admin : ~(a.kind = r[1] /\ a.ke = ke) => a \in admin'
      /\ ~is_unused(rt) => admin' = admin
      /\ misfiled \subseteq misfiled'
      /\ \A x \in misfiled' : x \in misfiled \/ (x = r /\ ke # ros2_name_to_key_expr(r[2]))
      /\ is_unused(rt) => r \in misfiled' \/ ke = ros2_name_to_key_expr(r[2])
      /\ is_unused(rt) => \A a \in admin' : ~(a.kind = r[1] /\ a.ke = ke)
  BY DEF StoreOrDrop, admin_remove
<1>3. MgrType'
  BY <1>1, <1>2 DEF MgrInv, MgrType
<1>4. DeadIsEmpty'
  BY <1>1 DEF MgrInv, DeadIsEmpty
<1>5. AdminKeyed'
  BY <1>2 DEF MgrInv, AdminKeyed
<1>6. RoutesListed'
  <2> SUFFICES ASSUME NEW x \in RouteIds, routes'[x].live
               PROVE  entry(x) \in admin'
    BY DEF RoutesListed
  <2>1. CASE x = r
    <3>1. ~is_unused(rt)
      BY <2>1, <1>1 DEF NoRoute
    <3> QED
      BY <2>1, <3>1, <1>2 DEF MgrInv, RoutesListed
  <2>2. CASE x # r
    <3>1. entry(x) \in admin
      BY <2>2, <1>1 DEF MgrInv, RoutesListed
    <3>2. ~(x[1] = r[1] /\ ros2_name_to_key_expr(x[2]) = ke)
      BY <2>2, NameOfKey DEF RouteIds
    <3> QED
      BY <3>1, <3>2, <1>2
  <2> QED
    BY <2>1, <2>2
<1>7. TokenWhileServed' /\ OnlySubscribersLinger'
  BY <1>1 DEF MgrInv, TokenWhileServed, OnlySubscribersLinger, NoRoute
<1>8. NoDanglingEntry'
  <2> SUFFICES ASSUME NEW a \in admin', ~routes'[<<a.kind, a.name>>].live
               PROVE  <<a.kind, a.name>> \in misfiled'
    BY DEF NoDanglingEntry, AnsweredEntries
  <2>1. /\ <<a.kind, a.name>> \in RouteIds
        /\ a.ke = ros2_name_to_key_expr(a.name)
        /\ routes[<<a.kind, a.name>>].live \/ <<a.kind, a.name>> \in misfiled
    BY <1>2 DEF MgrInv, MgrType, NoDanglingEntry, AnsweredEntries, AdminEntries, RouteIds,
                AdminKeyed
  <2>2. CASE <<a.kind, a.name>> = r
    <3>1. is_unused(rt)
      BY <1>1, <2>2
    <3>2. ke # ros2_name_to_key_expr(r[2])
      BY <1>2, <2>1, <2>2, <3>1
    <3> QED
      BY <1>2, <2>2, <3>1, <3>2
  <2>3. CASE <<a.kind, a.name>> # r
    BY <1>1, <1>2, <2>1, <2>3
  <2> QED
    BY <2>2, <2>3
<1>9. MisfiledForeign'
  BY <1>2 DEF MgrInv, MisfiledForeign, Foreign, RouteOf
<1> QED
  BY <1>3, <1>4, <1>5, <1>6, <1>7, <1>8, <1>9 DEF MgrInv

-----------------------------------------------------------------------------
(* The handlers: each keeps the manager's invariant, and gives the routes no *)
(* other user than the one its event is about.                               *)

\* Route r may gain the local nodes ns and the remote routes ks, no other route
\* gains any user.
Gains(r, ns, ks) ==
  \A x \in RouteIds :
    /\ routes'[x].live => routes[x].live \/ x = r
    /\ routes'[x].local \subseteq routes[x].local \cup (IF x = r THEN ns ELSE {})
    /\ routes'[x].remote \subseteq routes[x].remote \cup (IF x = r THEN ks ELSE {})

GainsNothing ==
  \A x \in RouteIds :
    /\ routes'[x].live => routes[x].live
    /\ routes'[x].local \subseteq routes[x].local
    /\ routes'[x].remote \subseteq routes[x].remote

\* The route that a handler finds or creates is a well-formed one in the map and
\* has the users of the map's.
LEMMA OccupiedType ==
  ASSUME MgrInv, NEW r \in RouteIds
  PROVE  /\ Occupied(r) \in Route
         /\ Occupied(r).live
         /\ Occupied(r).local = routes[r].local
         /\ Occupied(r).remote = routes[r].remote
         /\ Occupied(r).token => Occupied(r).local # {}
<1>1. routes[r] \in Route
  BY DEF MgrInv, MgrType
<1>2. Occupied(r) = [routes[r] EXCEPT !.live = TRUE]
  BY DEF Occupied
<1>3. routes[r].token => routes[r].local # {}
  BY DEF MgrInv, TokenWhileServed
<1> QED
  BY <1>1, <1>2, <1>3 DEF Route

\* remove_local_node retires the route with its last node: what remains has a
\* token only while it serves one.
LEMMA RemoveLocalNode ==
  ASSUME NEW rt \in Route, NEW node
  PROVE  LET new == remove_local_node(rt, node)
         IN  /\ new \in Route
             /\ new.live = rt.live
             /\ new.local = rt.local \ {node}
             /\ new.remote = rt.remote
             /\ new.token => new.local # {}
BY DEF remove_local_node, Route

\* A discovered interface keeps the manager consistent and gives a user, that
\* node, to its own route only.
LEMMA OnDiscoveredKeeps ==
  ASSUME MgrInv, NEW e, NEW ok \in BOOLEAN,
         e.kind \in Kinds, e.name \in Names, e.node \in Nodes,
         OnDiscovered(e, ok)
  PROVE  MgrInv' /\ Gains(<<e.kind, e.name>>, {e.node}, {})
<1> DEFINE r == <<e.kind, e.name>>
<1>0. r \in RouteIds
  BY DEF RouteIds
<1>1. CASE UNCHANGED mapVars /\ Fails(TRUE)
  <2>1. MgrInv'
    BY <1>1, FailsType, MgrStutters DEF MgrInv, MgrType
  <2> QED
    BY <1>1, <2>1 DEF Gains, mapVars
<1>2. ASSUME NEW announced \in BOOLEAN,
             GetOrCreate(r, add_local_node(e.kind, Occupied(r), e.node, announced)),
             Fails(~ok \/ ~announced)
      PROVE  MgrInv' /\ Gains(r, {e.node}, {})
  <2> DEFINE rt == add_local_node(e.kind, Occupied(r), e.node, announced)
  <2>1. /\ rt \in Route
        /\ rt.live
        /\ rt.local = routes[r].local \cup {e.node}
        /\ rt.remote = routes[r].remote
    <3>1. /\ Occupied(r) \in Route
          /\ Occupied(r).live
          /\ Occupied(r).local = routes[r].local
          /\ Occupied(r).remote = routes[r].remote
      BY <1>0, OccupiedType
    <3>2. (Occupied(r).token \/ (announced /\ Announces(e.kind, Occupied(r), e.node)))
            \in BOOLEAN
      OBVIOUS
    <3> QED
      BY <3>1, <3>2 DEF add_local_node, Route
  <2>2. GoodRoute(r, rt)
    BY <2>1 DEF GoodRoute, is_unused
  <2>3. failures' \in 0 .. MaxFailures
    BY <1>2, FailsType DEF MgrInv, MgrType
  <2>4. MgrInv'
    BY <1>0, <1>2, <2>2, <2>3, GetOrCreateKeeps
  <2>5. Gains(r, {e.node}, {})
    BY <1>0, <1>2, <2>1 DEF Gains, GetOrCreate, MgrInv, MgrType
  <2> QED
    BY <2>4, <2>5
<1> QED
  BY <1>1, <1>2 DEF OnDiscovered

\* An undiscovered interface keeps the manager consistent, gives a user to no
\* route, and its node is no user any more.
LEMMA OnUndiscoveredKeeps ==
  ASSUME MgrInv, NEW e, NEW ok \in BOOLEAN,
         e.kind \in Kinds, e.name \in Names, e.node \in Nodes,
         OnUndiscovered(e, ok)
  PROVE  /\ MgrInv'
         /\ GainsNothing
         /\ e.node \notin routes'[<<e.kind, e.name>>].local
<1> DEFINE r  == <<e.kind, e.name>>
           rt == remove_local_node(routes[r], e.node)
<1>0. r \in RouteIds /\ routes[r] \in Route
  BY DEF RouteIds, MgrInv, MgrType
<1>1. CASE ~routes[r].live
  <2>1. UNCHANGED mgrVars
    BY <1>1 DEF OnUndiscovered
  <2>2. MgrInv' /\ GainsNothing
    BY <2>1, MgrStutters DEF mgrVars, mapVars, GainsNothing, MgrInv, MgrType
  <2>3. routes'[r].local = {}
    BY <1>0, <1>1, <2>1 DEF mgrVars, mapVars, MgrInv, DeadIsEmpty, NoRoute
  <2> QED
    BY <2>2, <2>3
<1>2. CASE routes[r].live
  <2>1. /\ StoreOrDrop(r, rt, ros2_name_to_key_expr(e.name))
        /\ Fails(~ok)
    BY <1>2 DEF OnUndiscovered
  <2>2. /\ rt \in Route
        /\ rt.live
        /\ rt.local = routes[r].local \ {e.node}
        /\ rt.remote = routes[r].remote
        /\ rt.token => rt.local # {}
    BY <1>0, <1>2, RemoveLocalNode
  <2>3. MgrInv'
    <3>1. failures' \in 0 .. MaxFailures
      BY <2>1, FailsType DEF MgrInv, MgrType
    <3>2. /\ ros2_name_to_key_expr(e.name) \in KeyExprs
          /\ key_expr_to_ros2_name(ros2_name_to_key_expr(e.name)) = r[2]
      BY NameOfKey, ConversionAssumption
    <3> QED
      BY <1>0, <1>2, <2>1, <2>2, <3>1, <3>2, StoreOrDropKeeps
  <2>4. GainsNothing /\ e.node \notin routes'[r].local
    <3>1. routes' = [routes EXCEPT ![r] = IF is_unused(rt) THEN NoRoute ELSE rt]
      BY <2>1 DEF StoreOrDrop
    <3>2. /\ routes'[r] = IF is_unused(rt) THEN NoRoute ELSE rt
          /\ \A x \in RouteIds \ {r} : routes'[x] = routes[x]
      BY <1>0, <3>1 DEF MgrInv, MgrType
    <3> QED
      BY <1>0, <1>2, <2>2, <3>2 DEF GainsNothing, NoRoute
  <2> QED
    BY <2>3, <2>4
<1> QED
  BY <1>1, <1>2

\* The kind of route that serves a token is one of the six.
LEMMA MatchingKindType ==
  ASSUME NEW kind \in Kinds
  PROVE  MatchingKind(kind) \in Kinds
BY DEF Kinds, MatchingKind

\* What the handlers need to know of a token.
LEMMA TokenType ==
  ASSUME NEW t \in Tokens
  PROVE  /\ t.kind \in Kinds
         /\ t.zid \in Zids
         /\ t.ke \in KeyExprs
         /\ RouteOf(t) \in RouteIds
         /\ RouteOf(t)[2] = key_expr_to_ros2_name(t.ke)
         /\ remote_key(t) \in RemoteIds
         /\ remote_key(t).zid = t.zid
<1>1. /\ t.kind \in Kinds /\ t.zid \in Zids /\ t.ke \in KeyExprs
      /\ t.qos \in Qoses \cup {NoQos}
  BY LoopAssumption DEF AnnouncementTokens, Kinds
<1>2. RouteOf(t) \in RouteIds
  BY <1>1, MatchingKindType, ConversionAssumption DEF RouteOf, RouteIds
<1> QED
  BY <1>1, <1>2 DEF RouteOf, remote_key, RemoteIds

\* An announced token keeps the manager consistent and gives a user, the
\* remote route, to the route of the opposite kind only.
LEMMA OnAnnouncedKeeps ==
  ASSUME MgrInv, NEW t \in Tokens, NEW ok \in BOOLEAN, OnAnnounced(t, ok)
  PROVE  MgrInv' /\ Gains(RouteOf(t), {}, {remote_key(t)})
<1> DEFINE r  == RouteOf(t)
           rt == add_remote_route(Occupied(r), t)
<1>0. r \in RouteIds /\ remote_key(t) \in RemoteIds
  BY TokenType
<1>1. CASE UNCHANGED mapVars /\ Fails(TRUE)
  <2>1. MgrInv'
    BY <1>1, FailsType, MgrStutters DEF MgrInv, MgrType
  <2> QED
    BY <1>1, <2>1 DEF Gains, mapVars
<1>2. CASE GetOrCreate(r, rt) /\ Fails(~ok)
  <2>1. /\ rt \in Route
        /\ rt.live
        /\ rt.local = routes[r].local
        /\ rt.remote = routes[r].remote \cup {remote_key(t)}
        /\ rt.token => rt.local # {}
    BY <1>0, OccupiedType DEF add_remote_route, Route
  <2>2. GoodRoute(r, rt)
    BY <2>1 DEF GoodRoute, is_unused
  <2>3. failures' \in 0 .. MaxFailures
    BY <1>2, FailsType DEF MgrInv, MgrType
  <2>4. MgrInv'
    BY <1>0, <1>2, <2>2, <2>3, GetOrCreateKeeps
  <2>5. Gains(r, {}, {remote_key(t)})
    BY <1>0, <1>2, <2>1 DEF Gains, GetOrCreate, MgrInv, MgrType
  <2> QED
    BY <2>4, <2>5
<1> QED
  BY <1>1, <1>2 DEF OnAnnounced

\* A retired token keeps the manager consistent, gives a user to no route, and
\* its remote route is no user any more.
LEMMA OnRetiredKeeps ==
  ASSUME MgrInv, NEW t \in Tokens, NEW ok \in BOOLEAN, OnRetired(t, ok)
  PROVE  /\ MgrInv'
         /\ GainsNothing
         /\ remote_key(t) \notin routes'[RouteOf(t)].remote
<1> DEFINE r  == RouteOf(t)
           rt == remove_remote_route(routes[r], t)
<1>0. r \in RouteIds /\ routes[r] \in Route
  BY TokenType DEF MgrInv, MgrType
<1>1. CASE ~routes[r].live
  <2>1. UNCHANGED mgrVars
    BY <1>1 DEF OnRetired
  <2>2. MgrInv' /\ GainsNothing
    BY <2>1, MgrStutters DEF mgrVars, mapVars, GainsNothing, MgrInv, MgrType
  <2>3. routes'[r].remote = {}
    BY <1>0, <1>1, <2>1 DEF mgrVars, mapVars, MgrInv, DeadIsEmpty, NoRoute
  <2> QED
    BY <2>2, <2>3
<1>2. CASE routes[r].live
  <2>1. /\ StoreOrDrop(r, rt, t.ke)
        /\ Fails(~ok)
    BY <1>2 DEF OnRetired
  <2>2. /\ rt \in Route
        /\ rt.live
        /\ rt.local = routes[r].local
        /\ rt.remote = routes[r].remote \ {remote_key(t)}
        /\ rt.token = routes[r].token
    BY <1>0, <1>2 DEF remove_remote_route, Route
  <2>3. rt.token => rt.local # {}
    BY <1>0, <2>2 DEF MgrInv, TokenWhileServed
  <2>4. MgrInv'
    <3>1. failures' \in 0 .. MaxFailures
      BY <2>1, FailsType DEF MgrInv, MgrType
    <3>2. /\ t.ke \in KeyExprs
          /\ key_expr_to_ros2_name(t.ke) = r[2]
          /\ t.ke = ros2_name_to_key_expr(r[2]) \/ Foreign(r)
      BY TokenType DEF Foreign
    <3> QED
      BY <1>0, <1>2, <2>1, <2>2, <2>3, <3>1, <3>2, StoreOrDropKeeps
  <2>5. GainsNothing /\ remote_key(t) \notin routes'[r].remote
    <3>1. routes' = [routes EXCEPT ![r] = IF is_unused(rt) THEN NoRoute ELSE rt]
      BY <2>1 DEF StoreOrDrop
    <3>2. /\ routes'[r] = IF is_unused(rt) THEN NoRoute ELSE rt
          /\ \A x \in RouteIds \ {r} : routes'[x] = routes[x]
      BY <1>0, <3>1 DEF MgrInv, MgrType
    <3> QED
      BY <1>0, <1>2, <2>2, <3>2 DEF GainsNothing, NoRoute
  <2> QED
    BY <2>4, <2>5
<1> QED
  BY <1>1, <1>2

\* What the handlers need to know of an event of the local discovery.
LEMMA LocalEventType ==
  ASSUME NEW e \in LocalEvents
  PROVE  \/ /\ e.op \in {"discovered", "undiscovered"}
            /\ e.kind \in Kinds /\ e.name \in Names /\ e.node \in Nodes
            /\ [kind |-> e.kind, name |-> e.name, node |-> e.node] \in LocalIfaces
         \/ /\ e.op = "writers_changed"
            /\ e.name \in Names
BY LoopAssumption DEF LocalEvents, Ifaces

\* The handler of an event of the local discovery: only a discovery gives a
\* route a user, and after an undiscovery the node is not one.
LEMMA OnRosDiscoveryKeeps ==
  ASSUME MgrInv, NEW e \in LocalEvents, NEW ok \in BOOLEAN,
         on_ros_discovery_event(e, ok)
  PROVE  /\ MgrInv'
         /\ e.op = "discovered" => Gains(<<e.kind, e.name>>, {e.node}, {})
         /\ e.op = "undiscovered" =>
              GainsNothing /\ e.node \notin routes'[<<e.kind, e.name>>].local
         /\ e.op = "writers_changed" => GainsNothing
<1>1. CASE e.op = "discovered"
  BY <1>1, LocalEventType, OnDiscoveredKeeps DEF on_ros_discovery_event
<1>2. CASE e.op = "undiscovered"
  BY <1>2, LocalEventType, OnUndiscoveredKeeps DEF on_ros_discovery_event
<1>3. CASE e.op = "writers_changed"
  <2>1. UNCHANGED mapVars /\ Fails(~ok)
    BY <1>3 DEF on_ros_discovery_event, OnLocalWritersChanged
  <2> QED
    BY <1>3, <2>1, FailsType, MgrStutters DEF GainsNothing, mapVars, MgrInv, MgrType
<1> QED
  BY <1>1, <1>2, <1>3, LocalEventType

\* The handler of an announcement event: only an announcement gives a route a
\* user, and after a retirement the remote route is not one.
LEMMA OnRosAnnouncementKeeps ==
  ASSUME MgrInv, NEW e \in AnnouncementEvents, NEW ok \in BOOLEAN,
         on_ros_announcement_event(e, ok)
  PROVE  /\ MgrInv'
         /\ e.op = "announced" => Gains(RouteOf(e.token), {}, {remote_key(e.token)})
         /\ e.op = "retired" =>
              GainsNothing /\ remote_key(e.token) \notin routes'[RouteOf(e.token)].remote
<1>1. e.op \in {"announced", "retired"} /\ e.token \in Tokens
  BY DEF AnnouncementEvents
<1>2. CASE e.op = "announced"
  BY <1>1, <1>2, OnAnnouncedKeeps DEF on_ros_announcement_event
<1>3. CASE e.op = "retired"
  BY <1>1, <1>3, OnRetiredKeeps DEF on_ros_announcement_event
<1> QED
  BY <1>1, <1>2, <1>3

\* A DDS reader's match changes only the synthetic local node of a route that is
\* in the map.
LEMMA OnMatchedReaderKeeps ==
  ASSUME MgrInv, NEW name \in Names, NEW matched \in BOOLEAN,
         on_matched_reader_event(name, matched)
  PROVE  /\ MgrInv'
         /\ Gains(<<"MsgSub", name>>, {MATCHED_READERS_KEY}, {})
         /\ \A x \in RouteIds : routes'[x].live => routes[x].live
<1> DEFINE r == <<"MsgSub", name>>
<1>0. r \in RouteIds /\ routes[r] \in Route
  BY DEF RouteIds, Kinds, MgrInv, MgrType
<1>1. CASE UNCHANGED mgrVars
  BY <1>1, MgrStutters DEF mgrVars, mapVars, Gains, MgrInv, MgrType
<1>2. ASSUME NEW rt \in Route, routes[r].live, rt.live,
             rt.local \subseteq routes[r].local \cup {MATCHED_READERS_KEY},
             rt.remote = routes[r].remote,
             rt.token => rt.local # {},
             routes' = [routes EXCEPT ![r] = rt],
             UNCHANGED <<admin, misfiled>>,
             failures' \in 0 .. MaxFailures
      PROVE  /\ MgrInv'
             /\ Gains(r, {MATCHED_READERS_KEY}, {})
             /\ \A x \in RouteIds : routes'[x].live => routes[x].live
  <2>1. GoodRoute(r, rt)
    BY <1>2 DEF GoodRoute
  <2>2. GetOrCreate(r, rt)
    BY <1>2 DEF GetOrCreate
  <2>3. MgrInv'
    BY <1>0, <1>2, <2>1, <2>2, GetOrCreateKeeps
  <2>4. /\ routes'[r] = rt
        /\ \A x \in RouteIds \ {r} : routes'[x] = routes[x]
    BY <1>0, <1>2 DEF MgrInv, MgrType
  <2> QED
    BY <1>2, <2>3, <2>4 DEF Gains
<1>3. ASSUME routes[r].live, NEW announced \in BOOLEAN,
             routes' = [routes EXCEPT ![r] =
               add_local_node("MsgSub", @, MATCHED_READERS_KEY, announced)],
             UNCHANGED <<admin, misfiled>>, Fails(~announced)
      PROVE  /\ MgrInv'
             /\ Gains(r, {MATCHED_READERS_KEY}, {})
             /\ \A x \in RouteIds : routes'[x].live => routes[x].live
  <2> DEFINE rt == add_local_node("MsgSub", routes[r], MATCHED_READERS_KEY, announced)
  <2>1. (routes[r].token \/ (announced /\ Announces("MsgSub", routes[r], MATCHED_READERS_KEY)))
          \in BOOLEAN
    <3>1. routes[r].token \in BOOLEAN
      BY <1>0 DEF Route
    <3> QED
      BY <3>1
  <2>2. /\ rt \in Route
        /\ rt.live
        /\ rt.local = routes[r].local \cup {MATCHED_READERS_KEY}
        /\ rt.remote = routes[r].remote
    BY <1>0, <1>3, <2>1 DEF add_local_node, Route
  <2>3. failures' \in 0 .. MaxFailures
    BY <1>3, FailsType DEF MgrInv, MgrType
  <2>4. routes' = [routes EXCEPT ![r] = rt]
    BY <1>3
  <2> HIDE DEF rt
  <2> QED
    BY <1>2, <1>3, <2>2, <2>3, <2>4
<1>4. ASSUME routes[r].live,
             routes' = [routes EXCEPT ![r] = remove_local_node(@, MATCHED_READERS_KEY)],
             UNCHANGED <<admin, misfiled, failures>>
      PROVE  /\ MgrInv'
             /\ Gains(r, {MATCHED_READERS_KEY}, {})
             /\ \A x \in RouteIds : routes'[x].live => routes[x].live
  <2> DEFINE rt == remove_local_node(routes[r], MATCHED_READERS_KEY)
  <2>1. /\ rt \in Route
        /\ rt.live
        /\ rt.local = routes[r].local \ {MATCHED_READERS_KEY}
        /\ rt.remote = routes[r].remote
        /\ rt.token => rt.local # {}
    BY <1>0, <1>4, RemoveLocalNode
  <2>2. failures' \in 0 .. MaxFailures
    BY <1>4 DEF MgrInv, MgrType
  <2>3. routes' = [routes EXCEPT ![r] = rt]
    BY <1>4
  <2> HIDE DEF rt
  <2> QED
    BY <1>2, <1>4, <2>1, <2>2, <2>3
<1>5. CASE routes[r].live
  <2>1. CASE matched /\ MATCHED_READERS_KEY \in routes[r].local
    BY <1>1, <1>5, <2>1 DEF on_matched_reader_event, mgrVars, mapVars
  <2>2. CASE matched /\ MATCHED_READERS_KEY \notin routes[r].local
    BY <1>3, <1>5, <2>2 DEF on_matched_reader_event
  <2>3. CASE ~matched
    BY <1>4, <1>5, <2>3 DEF on_matched_reader_event
  <2> QED
    BY <2>1, <2>2, <2>3
<1>6. CASE ~routes[r].live
  BY <1>1, <1>6 DEF on_matched_reader_event
<1> QED
  BY <1>5, <1>6

\* The prune of a departed bridge leaves no route that serves it.
LEMMA OnRemoteBridgeLeftKeeps ==
  ASSUME MgrInv, NEW z \in Zids, on_remote_bridge_left(z)
  PROVE  /\ MgrInv'
         /\ GainsNothing
         /\ \A x \in RouteIds : \A k \in routes'[x].remote : k.zid # z
<1> DEFINE pruned(x) == prune_remote_routes_with_prefix(routes[x], z)
           dropped == {x \in RouteIds : /\ routes[x].live
                                        /\ pruned(x).remote # routes[x].remote
                                        /\ is_unused(pruned(x))}
<1>1. /\ routes' = [x \in RouteIds |-> IF x \in dropped THEN NoRoute ELSE pruned(x)]
      /\ admin' = {a \in admin : ~ \E x \in dropped :
                                     /\ a.kind = x[1]
                                     /\ a.ke = ros2_name_to_key_expr(x[2])}
      /\ misfiled' = misfiled
      /\ failures' = failures
  BY DEF on_remote_bridge_left
<1>2. ASSUME NEW x \in RouteIds
      PROVE  /\ pruned(x) \in Route
             /\ pruned(x).live = routes[x].live
             /\ pruned(x).local = routes[x].local
             /\ pruned(x).remote = {k \in routes[x].remote : k.zid # z}
             /\ pruned(x).token = routes[x].token
  <2>1. routes[x] \in Route
    BY DEF MgrInv, MgrType
  <2> QED
    BY <2>1 DEF prune_remote_routes_with_prefix, Route
<1>3. ASSUME NEW x \in RouteIds, ~routes[x].live
      PROVE  pruned(x) = NoRoute
  <2>1. routes[x] = NoRoute
    BY <1>3 DEF MgrInv, DeadIsEmpty
  <2> QED
    BY <2>1 DEF prune_remote_routes_with_prefix, NoRoute
<1>4. \A x \in RouteIds : x \in dropped =>
        is_unused(pruned(x)) /\ pruned(x).remote # routes[x].remote /\ routes[x].live
  OBVIOUS
<1>5. \A x \in RouteIds : x \notin dropped =>
        \/ ~routes[x].live
        \/ pruned(x).remote = routes[x].remote
        \/ ~is_unused(pruned(x))
  OBVIOUS
<1>6. dropped \subseteq RouteIds
  OBVIOUS
<1> HIDE DEF dropped, pruned
<1>7. \A x \in RouteIds : routes'[x] = IF x \in dropped THEN NoRoute ELSE pruned(x)
  BY <1>1
<1>8. MgrType'
  BY <1>1, <1>2, NoRouteType DEF MgrInv, MgrType
<1>9. DeadIsEmpty'
  BY <1>2, <1>3, <1>7 DEF DeadIsEmpty
<1>10. AdminKeyed'
  BY <1>1 DEF MgrInv, AdminKeyed
<1>11. RoutesListed'
  <2> SUFFICES ASSUME NEW x \in RouteIds, routes'[x].live
               PROVE  [kind |-> x[1], ke |-> ros2_name_to_key_expr(x[2]), name |-> x[2]]
                        \in admin'
    BY DEF RoutesListed
  <2>1. x \notin dropped /\ routes[x].live
    BY <1>2, <1>7 DEF NoRoute
  <2>2. [kind |-> x[1], ke |-> ros2_name_to_key_expr(x[2]), name |-> x[2]] \in admin
    BY <2>1 DEF MgrInv, RoutesListed
  <2>3. ASSUME NEW y \in dropped, x[1] = y[1],
               ros2_name_to_key_expr(x[2]) = ros2_name_to_key_expr(y[2])
        PROVE  FALSE
    <3>1. x[2] = y[2]
      BY <1>6, <2>3, KeyOfName DEF RouteIds
    <3>2. x = y
      BY <1>6, <2>3, <3>1 DEF RouteIds
    <3> QED
      BY <2>1, <3>2
  <2> QED
    BY <1>1, <2>2, <2>3
<1>12. TokenWhileServed'
  BY <1>2, <1>7 DEF MgrInv, TokenWhileServed, NoRoute
<1>13. OnlySubscribersLinger'
  BY <1>2, <1>5, <1>7 DEF MgrInv, OnlySubscribersLinger, NoRoute, is_unused
<1>14. NoDanglingEntry' /\ MisfiledForeign'
  <2> SUFFICES ASSUME NEW a \in admin', ~routes'[<<a.kind, a.name>>].live
               PROVE  <<a.kind, a.name>> \in misfiled
    BY <1>1 DEF NoDanglingEntry, AnsweredEntries, MgrInv, MisfiledForeign, Foreign, RouteOf
  <2> DEFINE x == <<a.kind, a.name>>
  <2>1. a \in admin
    BY <1>1
  <2>2. /\ routes[x].live \/ x \in misfiled
        /\ x \in RouteIds
        /\ a.ke = ros2_name_to_key_expr(a.name)
    BY <2>1 DEF MgrInv, MgrType, NoDanglingEntry, AnsweredEntries, AdminEntries, RouteIds,
                AdminKeyed
  <2>3. x \notin dropped
    BY <1>1, <2>2
  <2> QED
    BY <1>2, <1>7, <2>2, <2>3
<1>15. MgrInv'
  BY <1>8, <1>9, <1>10, <1>11, <1>12, <1>13, <1>14 DEF MgrInv
<1>16. GainsNothing /\ \A x \in RouteIds : \A k \in routes'[x].remote : k.zid # z
  BY <1>2, <1>7 DEF GainsNothing, NoRoute
<1> QED
  BY <1>15, <1>16

-----------------------------------------------------------------------------
(* The inductive invariant of the loop. *)

\* The loop's part of TypeOK.
LoopType ==
  /\ retry_queue \subseteq Retries(LocalEvents)
  /\ announcement_retry_queue \subseteq Retries(AnnouncementEvents)
  /\ pending_prunes \subseteq Zids
  /\ phase \in {"select", "prune", "reannounce", "rediscover"}
  /\ phase = "select" => todo = {}
  /\ phase = "prune" => todo \subseteq Zids
  /\ phase = "reannounce" => todo \subseteq Retries(AnnouncementEvents)
  /\ phase = "rediscover" => todo \subseteq Retries(LocalEvents)

NetType ==
  /\ link \in [Zids -> {"up", "dying", "down"}]
  /\ transport_events \subseteq Zids
  /\ alive \subseteq Tokens
  /\ undelivered \subseteq Tokens
  /\ liveliness \in Seq(AnnouncementEvents)
  /\ losses \in 0 .. MaxLosses

HistType ==
  /\ known \subseteq LocalIfaces
  /\ heard \subseteq Tokens
  /\ delivered \subseteq Tokens
  /\ untimely \subseteq Zids

\* A queued discovery is one whose interface is still there, and an allowed one.
QueuedDiscoveriesValid ==
  \A q \in QueuedDiscoveries :
    /\ is_allowed(q.evt)
    /\ q.evt.op = "discovered" =>
         [kind |-> q.evt.kind, name |-> q.evt.name, node |-> q.evt.node] \in known

\* A queued announcement is one of a topic whose token is still heard of, and an
\* allowed one.
QueuedAnnouncementsValid ==
  \A q \in QueuedAnnouncements :
    /\ is_announcement_allowed(q.evt)
    /\ msg_route_id(q.evt) # {}
    /\ q.evt.op = "announced" => q.evt.token \in heard

\* The users of the routes: the last event about each was its arrival, and the
\* route is an allowed one.
UsersValid ==
  /\ NoGhostLocalNode
  /\ NoGhostRemoteRoute
  /\ AllowedRoutesOnly

IInv ==
  /\ MgrInv
  /\ LoopType
  /\ NetType
  /\ HistType
  /\ UsersValid
  /\ QueuedDiscoveriesValid
  /\ QueuedAnnouncementsValid

\* The users stay valid when a route gains a valid one.
LEMMA GainKeepsUsers ==
  ASSUME UsersValid, NEW r \in RouteIds, NEW ns, NEW ks, Gains(r, ns, ks),
         r \in Allowed,
         \A n \in ns \ {MATCHED_READERS_KEY} :
            [kind |-> r[1], name |-> r[2], node |-> n] \in known',
         \A k \in ks : \E t \in heard' : RouteOf(t) = r /\ remote_key(t) = k,
         known \subseteq known', heard \subseteq heard'
  PROVE  UsersValid'
<1>1. NoGhostLocalNode'
  BY DEF UsersValid, NoGhostLocalNode, Gains
<1>2. NoGhostRemoteRoute'
  <2> SUFFICES ASSUME NEW x \in RouteIds, NEW k \in routes'[x].remote
               PROVE  \E t \in heard' : RouteOf(t) = x /\ remote_key(t) = k
    BY DEF NoGhostRemoteRoute, RouteOf, remote_key
  <2>1. k \in routes[x].remote \/ (x = r /\ k \in ks)
    BY DEF Gains
  <2> QED
    BY <2>1 DEF UsersValid, NoGhostRemoteRoute
<1>3. AllowedRoutesOnly'
  BY DEF UsersValid, AllowedRoutesOnly, Gains
<1> QED
  BY <1>1, <1>2, <1>3 DEF UsersValid

\* The discovery events keep the users valid, when the loop treats them and when
\* it retries them.
LEMMA DiscoveryKeepsUsers ==
  ASSUME MgrInv, UsersValid, NEW e \in LocalEvents, NEW ok \in BOOLEAN,
         on_ros_discovery_event(e, ok), is_allowed(e), UNCHANGED heard,
         e.op = "discovered" =>
           /\ [kind |-> e.kind, name |-> e.name, node |-> e.node] \in known'
           /\ known \subseteq known',
         e.op = "undiscovered" =>
           known \ {[kind |-> e.kind, name |-> e.name, node |-> e.node]} \subseteq known',
         e.op = "writers_changed" => UNCHANGED known
  PROVE  UsersValid'
<1>1. CASE e.op = "discovered"
  <2>1. Gains(<<e.kind, e.name>>, {e.node}, {})
    BY <1>1, OnRosDiscoveryKeeps
  <2>2. <<e.kind, e.name>> \in Allowed /\ <<e.kind, e.name>> \in RouteIds
    BY <1>1, LocalEventType DEF is_allowed, RouteIds
  <2> QED
    BY <1>1, <2>1, <2>2, GainKeepsUsers
<1>2. CASE e.op = "undiscovered"
  <2>1. GainsNothing /\ e.node \notin routes'[<<e.kind, e.name>>].local
    BY <1>2, OnRosDiscoveryKeeps
  <2>2. NoGhostLocalNode'
    <3> SUFFICES ASSUME NEW x \in RouteIds,
                        NEW n \in routes'[x].local \ {MATCHED_READERS_KEY}
                 PROVE  [kind |-> x[1], name |-> x[2], node |-> n] \in known'
      BY DEF NoGhostLocalNode
    <3>1. [kind |-> x[1], name |-> x[2], node |-> n] \in known
      BY <2>1 DEF GainsNothing, UsersValid, NoGhostLocalNode
    <3>2. [kind |-> x[1], name |-> x[2], node |-> n]
            # [kind |-> e.kind, name |-> e.name, node |-> e.node]
      BY <2>1 DEF RouteIds
    <3> QED
      BY <1>2, <3>1, <3>2
  <2>3. NoGhostRemoteRoute' /\ AllowedRoutesOnly'
    BY <2>1 DEF UsersValid, NoGhostRemoteRoute, AllowedRoutesOnly, GainsNothing, RouteOf,
                remote_key
  <2> QED
    BY <2>2, <2>3 DEF UsersValid
<1>3. CASE e.op = "writers_changed"
  <2>1. GainsNothing
    BY <1>3, OnRosDiscoveryKeeps
  <2> QED
    BY <1>3, <2>1 DEF UsersValid, NoGhostLocalNode, NoGhostRemoteRoute, AllowedRoutesOnly,
                      GainsNothing, RouteOf, remote_key
<1> QED
  BY <1>1, <1>2, <1>3, LocalEventType

\* The same for the announcement events.
LEMMA AnnouncementKeepsUsers ==
  ASSUME MgrInv, UsersValid, NEW e \in AnnouncementEvents, NEW ok \in BOOLEAN,
         on_ros_announcement_event(e, ok), is_announcement_allowed(e), UNCHANGED known,
         e.op = "announced" => e.token \in heard' /\ heard \subseteq heard',
         e.op = "retired" => heard \ {e.token} \subseteq heard'
  PROVE  UsersValid'
<1>0. e.op \in {"announced", "retired"} /\ e.token \in Tokens
  BY DEF AnnouncementEvents
<1>1. CASE e.op = "announced"
  <2>1. Gains(RouteOf(e.token), {}, {remote_key(e.token)})
    BY <1>1, OnRosAnnouncementKeeps
  <2>2. RouteOf(e.token) \in Allowed /\ RouteOf(e.token) \in RouteIds
    BY <1>0, TokenType DEF is_announcement_allowed
  <2> QED
    BY <1>1, <2>1, <2>2, GainKeepsUsers
<1>2. CASE e.op = "retired"
  <2>1. GainsNothing /\ remote_key(e.token) \notin routes'[RouteOf(e.token)].remote
    BY <1>2, OnRosAnnouncementKeeps
  <2>2. NoGhostRemoteRoute'
    <3> SUFFICES ASSUME NEW x \in RouteIds, NEW k \in routes'[x].remote
                 PROVE  \E t \in heard' : RouteOf(t) = x /\ remote_key(t) = k
      BY DEF NoGhostRemoteRoute, RouteOf, remote_key
    <3>1. PICK t \in heard : RouteOf(t) = x /\ remote_key(t) = k
      BY <2>1 DEF GainsNothing, UsersValid, NoGhostRemoteRoute
    <3>2. t # e.token
      BY <2>1, <3>1
    <3> QED
      BY <1>2, <3>1, <3>2
  <2>3. NoGhostLocalNode' /\ AllowedRoutesOnly'
    BY <2>1 DEF UsersValid, NoGhostLocalNode, AllowedRoutesOnly, GainsNothing
  <2> QED
    BY <2>2, <2>3 DEF UsersValid
<1> QED
  BY <1>0, <1>1, <1>2

-----------------------------------------------------------------------------
(* Each step of the loop keeps the invariant. *)

\* What the steps outside of the manager leave alone.
LEMMA OthersKept ==
  ASSUME IInv, UNCHANGED mgrVars, UNCHANGED <<known, heard>>
  PROVE  MgrInv' /\ UsersValid'
<1>1. MgrInv'
  BY MgrStutters DEF IInv, mgrVars, mapVars, MgrInv, MgrType
<1>2. UsersValid'
  BY DEF IInv, mgrVars, mapVars, UsersValid, NoGhostLocalNode, NoGhostRemoteRoute,
         AllowedRoutesOnly, RouteOf, remote_key
<1> QED
  BY <1>1, <1>2

\* The queues of the loop stay well formed and valid in a step that changes
\* neither them nor what they are about.
LEMMA QueuesKept ==
  ASSUME IInv, UNCHANGED queueVars, known \subseteq known', heard \subseteq heard'
  PROVE  LoopType' /\ QueuedDiscoveriesValid' /\ QueuedAnnouncementsValid'
<1>1. LoopType'
  BY DEF IInv, queueVars, LoopType
<1>2. QueuedDiscoveries' = QueuedDiscoveries /\ QueuedAnnouncements' = QueuedAnnouncements
  BY DEF queueVars, QueuedDiscoveries, QueuedAnnouncements
<1> QED
  BY <1>1, <1>2 DEF IInv, QueuedDiscoveriesValid, QueuedAnnouncementsValid

\* The events of the network add well-formed events to the backlog.
LEMMA EnvironmentKeeps ==
  ASSUME IInv, Environment
  PROVE  IInv'
<1>1. /\ UNCHANGED mgrVars
      /\ UNCHANGED queueVars
      /\ UNCHANGED <<known, heard>>
  BY DEF Environment, Announce, Retire, RetireUnheard, Redeclare, TransportLost,
         TransportRemoved, Reconnect, histVars
<1>2. NetType' /\ HistType'
  <2> USE DEF IInv, NetType, HistType
  <2>1. ASSUME NEW t \in Tokens
        PROVE  /\ [op |-> "announced", token |-> t] \in AnnouncementEvents
               /\ [op |-> "retired", token |-> t] \in AnnouncementEvents
    BY DEF AnnouncementEvents
  <2>a. ASSUME NEW e \in AnnouncementEvents
        PROVE  Append(liveliness, e) \in Seq(AnnouncementEvents)
    OBVIOUS
  <2>2. ASSUME NEW t \in Tokens, Announce(t)
        PROVE  NetType' /\ HistType'
    BY <2>1, <2>a, <2>2 DEF Announce, histVars
  <2>3. ASSUME NEW t \in Tokens, Retire(t)
        PROVE  NetType' /\ HistType'
    BY <2>1, <2>a, <2>3 DEF Retire, histVars
  <2>4. ASSUME NEW t \in Tokens, RetireUnheard(t)
        PROVE  NetType' /\ HistType'
    BY <2>4 DEF RetireUnheard, histVars
  <2>5. ASSUME NEW t \in Tokens, Redeclare(t)
        PROVE  NetType' /\ HistType'
    BY <2>1, <2>a, <2>5 DEF Redeclare, histVars
  <2>6. ASSUME NEW z \in Zids, TransportLost(z)
        PROVE  NetType' /\ HistType'
    BY <2>6, LoopAssumption DEF TransportLost
  <2>7. ASSUME NEW z \in Zids, TransportRemoved(z)
        PROVE  NetType' /\ HistType'
    BY <2>7 DEF TransportRemoved, histVars
  <2>8. ASSUME NEW z \in Zids, Reconnect(z)
        PROVE  NetType' /\ HistType'
    BY <2>8 DEF Reconnect, histVars
  <2> QED
    BY <2>2, <2>3, <2>4, <2>5, <2>6, <2>7, <2>8 DEF Environment
<1> QED
  BY <1>1, <1>2, OthersKept, QueuesKept DEF IInv

\* The discovery arm of the loop: the event supersedes the retries of its
\* interface, then it is handled, queued for a retry or denied.
LEMMA DiscoveryEventKeeps ==
  ASSUME IInv, NEW e \in LocalEvents, DiscoveryEvent(e)
  PROVE  IInv'
<1> DEFINE i == [kind |-> e.kind, name |-> e.name, node |-> e.node]
<1>1. PICK ok \in BOOLEAN :
        /\ on_ros_discovery_event(e, ok)
        /\ retry_queue' = superseded(retry_queue, e) \cup (IF ok THEN {} ELSE Failed(e, 1))
  BY DEF DiscoveryEvent
<1>2. /\ phase = "select"
      /\ is_allowed(e)
      /\ UNCHANGED <<netVars, announcement_retry_queue, pending_prunes, phase, todo,
                     heard, delivered, untimely>>
  BY DEF DiscoveryEvent
<1>3. /\ e.op = "discovered" => known' = known \cup {i}
      /\ e.op = "undiscovered" => known' = known \ {i}
      /\ e.op = "writers_changed" => known' = known
  BY LocalEventType DEF DiscoveryEvent
<1>4. MgrInv'
  BY <1>1, OnRosDiscoveryKeeps DEF IInv
<1>5. UsersValid'
  BY <1>1, <1>2, <1>3, DiscoveryKeepsUsers DEF IInv
<1>6. NetType' /\ HistType'
  <2>1. known' \subseteq LocalIfaces
    BY <1>3, LocalEventType DEF IInv, HistType
  <2> QED
    BY <1>2, <2>1 DEF IInv, netVars, NetType, HistType
<1>7. retry_queue' \subseteq {q \in retry_queue : interface_key(q.evt) # interface_key(e)}
                              \cup {[evt |-> e, attempts |-> 1]}
  BY <1>1 DEF superseded, Failed
<1>8. LoopType'
  <2>1. [evt |-> e, attempts |-> 1] \in Retries(LocalEvents)
    BY LoopAssumption DEF Retries
  <2> QED
    BY <1>2, <1>7, <2>1 DEF IInv, LoopType
<1>9. QueuedAnnouncementsValid'
  BY <1>2 DEF IInv, QueuedAnnouncementsValid, QueuedAnnouncements
<1>10. QueuedDiscoveriesValid'
  <2> SUFFICES ASSUME NEW q \in retry_queue'
               PROVE  /\ is_allowed(q.evt)
                      /\ q.evt.op = "discovered" =>
                           [kind |-> q.evt.kind, name |-> q.evt.name, node |-> q.evt.node]
                             \in known'
    BY <1>2 DEF QueuedDiscoveriesValid, QueuedDiscoveries, is_allowed
  <2>1. CASE q = [evt |-> e, attempts |-> 1]
    BY <2>1, <1>2, <1>3
  <2>2. CASE q \in retry_queue /\ interface_key(q.evt) # interface_key(e)
    <3>1. /\ is_allowed(q.evt)
          /\ q.evt.op = "discovered" =>
               [kind |-> q.evt.kind, name |-> q.evt.name, node |-> q.evt.node] \in known
      BY <2>2 DEF IInv, QueuedDiscoveriesValid, QueuedDiscoveries
    <3>2. q.evt.op = "discovered" /\ e.op = "undiscovered" =>
            [kind |-> q.evt.kind, name |-> q.evt.name, node |-> q.evt.node] # i
      BY <2>2 DEF interface_key
    <3> QED
      BY <1>3, <3>1, <3>2, LocalEventType
  <2> QED
    BY <1>7, <2>1, <2>2
<1> QED
  BY <1>4, <1>5, <1>6, <1>8, <1>9, <1>10 DEF IInv

\* The arm of the undeclared DDS readers touches no discovered user.
LEMMA MatchedReaderKeeps ==
  ASSUME IInv, NEW name \in MatchedNames, NEW matched \in BOOLEAN,
         MatchedReader(name, matched)
  PROVE  IInv'
<1>1. /\ on_matched_reader_event(name, matched)
      /\ UNCHANGED <<queueVars, netVars, histVars>>
  BY DEF MatchedReader
<1>2. name \in Names
  BY LoopAssumption
<1>3. /\ MgrInv'
      /\ Gains(<<"MsgSub", name>>, {MATCHED_READERS_KEY}, {})
      /\ \A x \in RouteIds : routes'[x].live => routes[x].live
  BY <1>1, <1>2, OnMatchedReaderKeeps DEF IInv
<1>4. UsersValid'
  BY <1>1, <1>3 DEF IInv, histVars, UsersValid, Gains, NoGhostLocalNode,
                    NoGhostRemoteRoute, AllowedRoutesOnly, RouteOf, remote_key
<1>5. NetType' /\ HistType'
  BY <1>1 DEF IInv, NetType, HistType, netVars, histVars
<1> QED
  BY <1>1, <1>3, <1>4, <1>5, QueuesKept DEF IInv, histVars

\* The liveliness arm of the loop: the event supersedes the retries of its
\* token, then it is handled, queued for a retry or denied.
LEMMA LivelinessEventKeeps ==
  ASSUME IInv, LivelinessEvent
  PROVE  IInv'
<1> DEFINE e == Head(liveliness)
<1>1. /\ phase = "select"
      /\ liveliness # <<>>
      /\ liveliness' = Tail(liveliness)
      /\ UNCHANGED <<retry_queue, pending_prunes, phase, todo, link, transport_events,
                     alive, undelivered, losses, known, untimely>>
  BY DEF LivelinessEvent
<1>2. e \in AnnouncementEvents /\ e.token \in Tokens /\ liveliness' \in Seq(AnnouncementEvents)
  <2>1. e \in AnnouncementEvents /\ liveliness' \in Seq(AnnouncementEvents)
    BY <1>1 DEF IInv, NetType
  <2> QED
    BY <2>1 DEF AnnouncementEvents
<1>3. NetType'
  BY <1>1, <1>2 DEF IInv, NetType
<1>4. CASE ~is_announcement_allowed(e)
  <2>1. UNCHANGED <<mgrVars, announcement_retry_queue, heard, delivered>>
    BY <1>4 DEF LivelinessEvent
  <2> QED
    BY <1>1, <1>3, <2>1, OthersKept, QueuesKept DEF IInv, HistType, queueVars
<1>5. CASE is_announcement_allowed(e)
  <2>1. PICK ok \in BOOLEAN :
          /\ on_ros_announcement_event(e, ok)
          /\ announcement_retry_queue' =
               announcement_superseded(announcement_retry_queue, e)
                 \cup (IF ok \/ msg_route_id(e) = {} THEN {} ELSE Failed(e, 1))
    BY <1>5 DEF LivelinessEvent
  <2>2. /\ heard' = IF e.op = "announced" THEN heard \cup {e.token} ELSE heard \ {e.token}
        /\ delivered' \subseteq delivered \cup {e.token}
    BY <1>5 DEF LivelinessEvent
  <2>3. MgrInv'
    BY <1>2, <2>1, OnRosAnnouncementKeeps DEF IInv
  <2>4. UsersValid'
    BY <1>1, <1>2, <1>5, <2>1, <2>2, AnnouncementKeepsUsers DEF IInv
  <2>5. HistType'
    BY <1>1, <1>2, <2>2 DEF IInv, HistType
  <2>6. /\ \A q \in announcement_retry_queue' :
              \/ q \in announcement_retry_queue
                 /\ (msg_route_id(q.evt) = {} \/ msg_route_id(q.evt) # msg_route_id(e))
              \/ q = [evt |-> e, attempts |-> 1] /\ msg_route_id(e) # {}
    BY <2>1 DEF announcement_superseded, Failed
  <2>7. LoopType'
    <3>1. [evt |-> e, attempts |-> 1] \in Retries(AnnouncementEvents)
      BY <1>2, LoopAssumption DEF Retries
    <3> QED
      BY <1>1, <2>6, <3>1 DEF IInv, LoopType
  <2>8. QueuedDiscoveriesValid'
    BY <1>1 DEF IInv, QueuedDiscoveriesValid, QueuedDiscoveries
  <2>9. QueuedAnnouncementsValid'
    <3> SUFFICES ASSUME NEW q \in announcement_retry_queue'
                 PROVE  /\ is_announcement_allowed(q.evt)
                        /\ msg_route_id(q.evt) # {}
                        /\ q.evt.op = "announced" => q.evt.token \in heard'
      BY <1>1 DEF QueuedAnnouncementsValid, QueuedAnnouncements, is_announcement_allowed,
                  msg_route_id, RouteOf
    <3>1. CASE q = [evt |-> e, attempts |-> 1] /\ msg_route_id(e) # {}
      BY <3>1, <1>5, <2>2
    <3>2. CASE q \in announcement_retry_queue
               /\ (msg_route_id(q.evt) = {} \/ msg_route_id(q.evt) # msg_route_id(e))
      <4>1. /\ is_announcement_allowed(q.evt)
            /\ msg_route_id(q.evt) # {}
            /\ q.evt.op = "announced" => q.evt.token \in heard
        BY <3>2 DEF IInv, QueuedAnnouncementsValid, QueuedAnnouncements
      <4>2. q.evt.token # e.token
        BY <3>2, <4>1 DEF msg_route_id
      <4> QED
        BY <2>2, <4>1, <4>2
    <3> QED
      BY <2>6, <3>1, <3>2
  <2> QED
    BY <1>3, <2>3, <2>4, <2>5, <2>7, <2>8, <2>9 DEF IInv
<1> QED
  BY <1>4, <1>5

\* The arm of the transport events only remembers the bridges to prune.
LEMMA TransportEventKeeps ==
  ASSUME IInv, NEW z \in Zids, TransportEvent(z)
  PROVE  IInv'
<1>1. MgrInv' /\ UsersValid'
  BY OthersKept DEF TransportEvent, histVars
<1>2. LoopType' /\ NetType' /\ HistType'
  BY DEF IInv, TransportEvent, LoopType, NetType, HistType, histVars
<1>3. QueuedDiscoveriesValid' /\ QueuedAnnouncementsValid'
  BY DEF IInv, TransportEvent, QueuedDiscoveriesValid, QueuedAnnouncementsValid,
         QueuedDiscoveries, QueuedAnnouncements, histVars
<1> QED
  BY <1>1, <1>2, <1>3 DEF IInv

\* The steps of a tick that only pass from one part to the next.
LEMMA PhasesKeep ==
  ASSUME IInv, Tick \/ PrunesDone \/ ReannouncesDone \/ TickDone
  PROVE  IInv'
<1>1. UNCHANGED <<mgrVars, netVars, histVars>>
  BY DEF Tick, PrunesDone, ReannouncesDone, TickDone
<1>2. MgrInv' /\ UsersValid' /\ NetType' /\ HistType'
  BY <1>1, OthersKept DEF IInv, netVars, histVars, NetType, HistType
<1>3. LoopType'
  BY DEF IInv, LoopType, Tick, PrunesDone, ReannouncesDone, TickDone
<1>4. QueuedDiscoveries' \subseteq QueuedDiscoveries
  BY DEF QueuedDiscoveries, Tick, PrunesDone, ReannouncesDone, TickDone
<1>5. QueuedAnnouncements' \subseteq QueuedAnnouncements
  BY DEF QueuedAnnouncements, Tick, PrunesDone, ReannouncesDone, TickDone
<1>6. QueuedDiscoveriesValid' /\ QueuedAnnouncementsValid'
  BY <1>1, <1>4, <1>5 DEF IInv, histVars, QueuedDiscoveriesValid, QueuedAnnouncementsValid
<1> QED
  BY <1>2, <1>3, <1>6 DEF IInv

\* The prune of a departed bridge takes its remote routes and its queued
\* retries together.
LEMMA PruneKeeps ==
  ASSUME IInv, NEW z \in Zids, Prune(z)
  PROVE  IInv'
<1>1. /\ phase = "prune"
      /\ todo' = todo \ {z}
      /\ UNCHANGED <<netVars, retry_queue, pending_prunes, phase, known, delivered>>
  BY DEF Prune
<1>2. NetType'
  BY <1>1 DEF IInv, NetType, netVars
<1>3. CASE Reconnected(z)
  <2>1. UNCHANGED <<mgrVars, announcement_retry_queue, heard>>
    BY <1>3 DEF Prune
  <2>2. MgrInv' /\ UsersValid'
    BY <1>1, <2>1, OthersKept
  <2>3. HistType'
    BY <1>1, <2>1 DEF IInv, HistType, Prune
  <2> QED
    BY <1>1, <1>2, <2>1, <2>2, <2>3 DEF IInv, LoopType, HistType, QueuedDiscoveriesValid,
         QueuedAnnouncementsValid, QueuedDiscoveries, QueuedAnnouncements
<1>4. CASE ~Reconnected(z)
  <2>1. /\ on_remote_bridge_left(z)
        /\ announcement_retry_queue' =
              {q \in announcement_retry_queue :
                 msg_route_id(q.evt) = {} \/ q.evt.token.zid # z}
        /\ heard' = {t \in heard : t.zid # z}
    BY <1>4 DEF Prune, without_retries
  <2>2. /\ MgrInv'
        /\ GainsNothing
        /\ \A x \in RouteIds : \A k \in routes'[x].remote : k.zid # z
    BY <2>1, OnRemoteBridgeLeftKeeps DEF IInv
  <2>3. UsersValid'
    <3>1. NoGhostRemoteRoute'
      <4> SUFFICES ASSUME NEW x \in RouteIds, NEW k \in routes'[x].remote
                   PROVE  \E t \in heard' : RouteOf(t) = x /\ remote_key(t) = k
        BY DEF NoGhostRemoteRoute, RouteOf, remote_key
      <4>1. PICK t \in heard : RouteOf(t) = x /\ remote_key(t) = k
        BY <2>2 DEF GainsNothing, IInv, UsersValid, NoGhostRemoteRoute
      <4>2. t.zid # z
        BY <2>2, <4>1 DEF remote_key
      <4> QED
        BY <2>1, <4>1, <4>2
    <3>2. NoGhostLocalNode' /\ AllowedRoutesOnly'
      BY <1>1, <2>2 DEF IInv, UsersValid, NoGhostLocalNode, AllowedRoutesOnly, GainsNothing
    <3> QED
      BY <3>1, <3>2 DEF UsersValid
  <2>4. LoopType' /\ HistType'
    BY <1>1, <2>1 DEF IInv, LoopType, HistType, Prune
  <2>5. QueuedDiscoveriesValid'
    BY <1>1 DEF IInv, QueuedDiscoveriesValid, QueuedDiscoveries
  <2>6. QueuedAnnouncementsValid'
    BY <1>1, <2>1 DEF IInv, QueuedAnnouncementsValid, QueuedAnnouncements
  <2> QED
    BY <1>2, <2>2, <2>3, <2>4, <2>5, <2>6 DEF IInv
<1> QED
  BY <1>3, <1>4

\* A retry that fails again is the same event with one attempt more.
LEMMA RequeuedType ==
  ASSUME NEW events, NEW q \in Retries(events)
  PROVE  \A p \in requeued(q) : p.evt = q.evt /\ p \in Retries(events)
BY LoopAssumption DEF requeued, Failed, Retries

\* A retried announcement is still valid: its token was not retired and its
\* bridge not pruned since.
LEMMA RetryAnnouncementKeeps ==
  ASSUME IInv, NEW q \in todo, RetryAnnouncement(q)
  PROVE  IInv'
<1>1. PICK ok \in BOOLEAN :
        /\ on_ros_announcement_event(q.evt, ok)
        /\ announcement_retry_queue' =
              announcement_retry_queue \cup (IF ok THEN {} ELSE requeued(q))
  BY DEF RetryAnnouncement
<1>2. /\ phase = "reannounce"
      /\ todo' = todo \ {q}
      /\ UNCHANGED <<netVars, histVars, retry_queue, pending_prunes, phase>>
  BY DEF RetryAnnouncement
<1>3. q \in Retries(AnnouncementEvents) /\ q.evt \in AnnouncementEvents
  BY <1>2 DEF IInv, LoopType, Retries
<1>4. /\ is_announcement_allowed(q.evt)
      /\ msg_route_id(q.evt) # {}
      /\ q.evt.op = "announced" => q.evt.token \in heard
  BY <1>2 DEF IInv, QueuedAnnouncementsValid, QueuedAnnouncements
<1>5. MgrInv'
  BY <1>1, <1>3, OnRosAnnouncementKeeps DEF IInv
<1>6. UsersValid'
  BY <1>1, <1>2, <1>3, <1>4, AnnouncementKeepsUsers DEF IInv, histVars
<1>7. \A p \in announcement_retry_queue' :
        \/ p \in announcement_retry_queue
        \/ p.evt = q.evt /\ p \in Retries(AnnouncementEvents)
  BY <1>1, <1>3, RequeuedType
<1>8. LoopType' /\ NetType' /\ HistType'
  BY <1>2, <1>7 DEF IInv, LoopType, NetType, HistType, netVars, histVars
<1>9. QueuedDiscoveriesValid'
  BY <1>2 DEF IInv, QueuedDiscoveriesValid, QueuedDiscoveries, histVars
<1>10. QueuedAnnouncementsValid'
  BY <1>2, <1>4, <1>7 DEF IInv, QueuedAnnouncementsValid, QueuedAnnouncements, histVars,
                          is_announcement_allowed, msg_route_id, RouteOf
<1> QED
  BY <1>5, <1>6, <1>8, <1>9, <1>10 DEF IInv

\* A retried discovery event is still valid: no newer one of its interface was
\* taken from the channel since.
LEMMA RetryDiscoveryKeeps ==
  ASSUME IInv, NEW q \in todo, RetryDiscovery(q)
  PROVE  IInv'
<1>1. PICK ok \in BOOLEAN :
        /\ on_ros_discovery_event(q.evt, ok)
        /\ retry_queue' = retry_queue \cup (IF ok THEN {} ELSE requeued(q))
  BY DEF RetryDiscovery
<1>2. /\ phase = "rediscover"
      /\ todo' = todo \ {q}
      /\ UNCHANGED <<netVars, histVars, announcement_retry_queue, pending_prunes, phase>>
  BY DEF RetryDiscovery
<1>3. q \in Retries(LocalEvents) /\ q.evt \in LocalEvents
  BY <1>2 DEF IInv, LoopType, Retries
<1>4. /\ is_allowed(q.evt)
      /\ q.evt.op = "discovered" =>
           [kind |-> q.evt.kind, name |-> q.evt.name, node |-> q.evt.node] \in known
  BY <1>2 DEF IInv, QueuedDiscoveriesValid, QueuedDiscoveries
<1>5. MgrInv'
  BY <1>1, <1>3, OnRosDiscoveryKeeps DEF IInv
<1>6. UsersValid'
  BY <1>1, <1>2, <1>3, <1>4, DiscoveryKeepsUsers DEF IInv, histVars
<1>7. \A p \in retry_queue' :
        \/ p \in retry_queue
        \/ p.evt = q.evt /\ p \in Retries(LocalEvents)
  BY <1>1, <1>3, RequeuedType
<1>8. LoopType' /\ NetType' /\ HistType'
  BY <1>2, <1>7 DEF IInv, LoopType, NetType, HistType, netVars, histVars
<1>9. QueuedAnnouncementsValid'
  BY <1>2 DEF IInv, QueuedAnnouncementsValid, QueuedAnnouncements, histVars
<1>10. QueuedDiscoveriesValid'
  BY <1>2, <1>4, <1>7 DEF IInv, QueuedDiscoveriesValid, QueuedDiscoveries, histVars,
                          is_allowed
<1> QED
  BY <1>5, <1>6, <1>8, <1>9, <1>10 DEF IInv

-----------------------------------------------------------------------------
(* The theorems. *)

\* The maps and the queues are empty at the start.
LEMMA InitIInv == Init => IInv
<1> SUFFICES ASSUME Init PROVE IInv
  OBVIOUS
<1> USE DEF Init, InitMgr
<1>1. \A r \in RouteIds : routes[r] = NoRoute
  OBVIOUS
<1>2. MgrInv
  BY <1>1, NoRouteType, ConstantsAssumption
     DEF MgrInv, MgrType, DeadIsEmpty, AdminKeyed, RoutesListed, TokenWhileServed,
         OnlySubscribersLinger, NoDanglingEntry, MisfiledForeign, AnsweredEntries, NoRoute
<1>3. LoopType /\ NetType /\ HistType
  BY LoopAssumption DEF LoopType, NetType, HistType
<1>4. UsersValid
  BY <1>1 DEF UsersValid, NoGhostLocalNode, NoGhostRemoteRoute, AllowedRoutesOnly, NoRoute
<1>5. QueuedDiscoveriesValid /\ QueuedAnnouncementsValid
  BY DEF QueuedDiscoveriesValid, QueuedAnnouncementsValid, QueuedDiscoveries,
         QueuedAnnouncements
<1> QED
  BY <1>2, <1>3, <1>4, <1>5 DEF IInv

\* Every action of the loop and of its surroundings keeps the invariant.
LEMMA NextIInv == IInv /\ [Next]_vars => IInv'
<1> SUFFICES ASSUME IInv, [Next]_vars PROVE IInv'
  OBVIOUS
<1>1. ASSUME NEW e \in LocalEvents, DiscoveryEvent(e) PROVE IInv'
  BY <1>1, DiscoveryEventKeeps
<1>2. ASSUME NEW name \in MatchedNames, NEW matched \in BOOLEAN,
             MatchedReader(name, matched)
      PROVE  IInv'
  BY <1>2, MatchedReaderKeeps
<1>3. CASE LivelinessEvent
  BY <1>3, LivelinessEventKeeps
<1>4. ASSUME NEW z \in Zids, TransportEvent(z) PROVE IInv'
  BY <1>4, TransportEventKeeps
<1>5. CASE Tick
  BY <1>5, PhasesKeep
<1>6. CASE TickStep
  <2>1. ASSUME NEW z \in Zids, Prune(z) PROVE IInv'
    BY <2>1, PruneKeeps
  <2>2. CASE PrunesDone \/ ReannouncesDone \/ TickDone
    BY <2>2, PhasesKeep
  <2>3. ASSUME NEW q \in todo, RetryAnnouncement(q) PROVE IInv'
    BY <2>3, RetryAnnouncementKeeps
  <2>4. ASSUME NEW q \in todo, RetryDiscovery(q) PROVE IInv'
    BY <2>4, RetryDiscoveryKeeps
  <2> QED
    BY <1>6, <2>1, <2>2, <2>3, <2>4 DEF TickStep
<1>7. CASE Environment
  BY <1>7, EnvironmentKeeps
<1>8. CASE UNCHANGED vars
  BY <1>8, OthersKept, QueuesKept
     DEF vars, histVars, netVars, IInv, NetType, HistType
<1> QED
  BY <1>1, <1>2, <1>3, <1>4, <1>5, <1>6, <1>7, <1>8 DEF Next

\* The inductive invariant holds in every reachable state of the main loop,
\* whatever interfaces, bridges, namespace and bounds there are.
THEOREM Invariant == Spec => []IInv
BY InitIInv, NextIInv, PTL DEF Spec

\* Type correctness of the manager and of the loop.
THEOREM TypeCorrect == Spec => []TypeOK
<1>1. IInv => TypeOK
  BY DEF IInv, MgrInv, MgrType, LoopType, NetType, HistType, TypeOK
<1> QED
  BY Invariant, <1>1, PTL

\* No retry replays the discovery of an interface that is gone: the routes serve
\* local nodes that are there (the retain in the discovery arm of the loop).
THEOREM LocalNodesAreThere == Spec => []NoGhostLocalNode
<1>1. IInv => NoGhostLocalNode
  BY DEF IInv, UsersValid
<1> QED
  BY Invariant, <1>1, PTL

\* No retry replays the announcement of a token that was undeclared or pruned:
\* the routes serve remote routes that were heard of (the retain in the
\* liveliness arm of the loop and the one in the prune of the tick).
THEOREM RemoteRoutesAreHeard == Spec => []NoGhostRemoteRoute
<1>1. IInv => NoGhostRemoteRoute
  BY DEF IInv, UsersValid
<1> QED
  BY Invariant, <1>1, PTL

\* No remote bridge, and no retry, makes the bridge create a route that the
\* configuration does not allow.
THEOREM AllowanceRespected == Spec => []AllowedRoutesOnly
<1>1. IInv => AllowedRoutesOnly
  BY DEF IInv, UsersValid
<1> QED
  BY Invariant, <1>1, PTL

\* Every route of the maps is listed in the admin space, for every namespace and
\* every token the other bridges may announce.
THEOREM AdminSpaceComplete == Spec => []RoutesListed
<1>1. IInv => RoutesListed
  BY DEF IInv, MgrInv
<1> QED
  BY Invariant, <1>1, PTL

\* An admin entry without a route stands under a name that some bridge has announced with
\* a key expression outside of the namespace: the retirement of that token removes another
\* entry (RetiredMsgPub and its like).  With no such token every entry has its route.
THEOREM AdminSpaceSound ==
  Spec => [](\A a \in admin \ AnsweredEntries : Foreign(<<a.kind, a.name>>))
<1>1. IInv => \A a \in admin \ AnsweredEntries : Foreign(<<a.kind, a.name>>)
  BY DEF IInv, MgrInv, NoDanglingEntry, MisfiledForeign
<1> QED
  BY Invariant, <1>1, PTL

\* A route is announced to the other bridges only while it serves a local node.
THEOREM AnnouncedWhileServed == Spec => []TokenWhileServed
<1>1. IInv => TokenWhileServed
  BY DEF IInv, MgrInv
<1> QED
  BY Invariant, <1>1, PTL

\* The maps of every kind but the subscribers' hold no route without a user.
THEOREM UnusedRoutesAreSubscribers == Spec => []OnlySubscribersLinger
<1>1. IInv => OnlySubscribersLinger
  BY DEF IInv, MgrInv
<1> QED
  BY Invariant, <1>1, PTL

\* The users of the routes are justified by what was discovered and heard last,
\* in whatever order retries, events and prunes came.
THEOREM UsersAreJustified == Spec => []UsersJustified
<1>1. IInv => UsersJustified
  BY DEF IInv, UsersValid, UsersJustified
<1> QED
  BY Invariant, <1>1, PTL

\* No route is denied by the configuration and none but a subscriber's is unused,
\* across failed creations, retries, announcements and prunes.
THEOREM RoutesAreJustified == Spec => []RoutesJustified
<1>1. IInv => RoutesJustified
  BY DEF IInv, UsersValid, MgrInv, RoutesJustified
<1> QED
  BY Invariant, <1>1, PTL

\* The admin space lists the routes of the maps, and no other one but those that were
\* dropped with the entry of another key, for any namespace and any tokens.
THEOREM AdminSpaceIsExact == Spec => []AdminSpaceExact
<1>1. IInv => AdminSpaceExact
  BY DEF IInv, MgrInv, AdminSpaceExact
<1> QED
  BY Invariant, <1>1, PTL

-----------------------------------------------------------------------------
(* What the handlers leave. *)

\* What DropsOnlyLastUser says of a step.
LastUserOnly ==
  \A r \in RouteIds : routes[r].live /\ ~routes'[r].live =>
       \/ routes[r].remote = {} /\ \A m, n \in routes[r].local : m = n
       \/ routes[r].local = {} /\ \A j, k \in routes[r].remote : j.zid = k.zid

\* No route loses a remote route, or none but key k of route r.
KeepsRemote == \A x \in RouteIds : routes[x].remote \subseteq routes'[x].remote
KeepsOthers(r, k) ==
  \A x \in RouteIds : routes[x].remote \ (IF x = r THEN {k} ELSE {}) \subseteq routes'[x].remote

\* Failures are only counted up.
LEMMA FailsGrows ==
  ASSUME failures \in 0 .. MaxFailures, NEW bad \in BOOLEAN, Fails(bad)
  PROVE  failures' = 0 => ~bad /\ failures = 0
BY ConstantsAssumption DEF Fails

\* The handlers of the local discovery: a route that is dropped had the node of the
\* event as its only user, and no remote route is lost.
LEMMA DiscoveryLeaves ==
  ASSUME MgrInv, NEW e \in LocalEvents, NEW ok \in BOOLEAN, on_ros_discovery_event(e, ok)
  PROVE  LastUserOnly /\ KeepsRemote /\ (failures' = 0 => failures = 0)
<1>0. failures \in 0 .. MaxFailures
  BY DEF MgrInv, MgrType
<1>1. CASE UNCHANGED routes /\ \E bad \in BOOLEAN : Fails(bad)
  BY <1>0, <1>1, FailsGrows DEF LastUserOnly, KeepsRemote
<1>2. CASE e.op = "discovered"
  <2> DEFINE r == <<e.kind, e.name>>
  <2>0. r \in RouteIds
    BY <1>2, LocalEventType DEF RouteIds
  <2>1. ASSUME NEW announced \in BOOLEAN,
               GetOrCreate(r, add_local_node(e.kind, Occupied(r), e.node, announced)),
               Fails(~ok \/ ~announced)
        PROVE  LastUserOnly /\ KeepsRemote /\ (failures' = 0 => failures = 0)
    <3> DEFINE rt == add_local_node(e.kind, Occupied(r), e.node, announced)
    <3>1. rt.live /\ rt.remote = routes[r].remote
      BY <2>0, OccupiedType DEF add_local_node, Route
    <3>2. /\ routes'[r] = rt
          /\ \A x \in RouteIds \ {r} : routes'[x] = routes[x]
      BY <2>0, <2>1 DEF GetOrCreate, MgrInv, MgrType
    <3> HIDE DEF rt
    <3> QED
      BY <1>0, <2>0, <2>1, <3>1, <3>2, FailsGrows DEF LastUserOnly, KeepsRemote
  <2> QED
    BY <1>1, <1>2, <2>1 DEF on_ros_discovery_event, OnDiscovered, mapVars
<1>3. CASE e.op = "undiscovered"
  <2> DEFINE r  == <<e.kind, e.name>>
             rt == remove_local_node(routes[r], e.node)
  <2>0. r \in RouteIds /\ routes[r] \in Route
    BY <1>3, LocalEventType DEF RouteIds, MgrInv, MgrType
  <2>1. CASE ~routes[r].live
    BY <1>3, <2>1 DEF on_ros_discovery_event, OnUndiscovered, mgrVars, mapVars,
                         LastUserOnly, KeepsRemote
  <2>2. CASE routes[r].live
    <3>1. rt.live /\ rt.local = routes[r].local \ {e.node} /\ rt.remote = routes[r].remote
      BY <2>0, <2>2, RemoveLocalNode
    <3>2. /\ StoreOrDrop(r, rt, ros2_name_to_key_expr(e.name))
          /\ Fails(~ok)
      BY <1>3, <2>2 DEF on_ros_discovery_event, OnUndiscovered
    <3> HIDE DEF rt
    <3>3. /\ routes'[r] = IF is_unused(rt) THEN NoRoute ELSE rt
          /\ \A x \in RouteIds \ {r} : routes'[x] = routes[x]
      BY <2>0, <3>2 DEF StoreOrDrop, MgrInv, MgrType
    <3>4. failures' = 0 => failures = 0
      BY <1>0, <3>2, FailsGrows
    <3> QED
      BY <2>0, <3>1, <3>3, <3>4 DEF LastUserOnly, KeepsRemote, is_unused, NoRoute
  <2> QED
    BY <2>1, <2>2
<1>4. CASE e.op = "writers_changed"
  BY <1>1, <1>4 DEF on_ros_discovery_event, OnLocalWritersChanged, mapVars
<1> QED
  BY <1>2, <1>3, <1>4, LocalEventType

\* An announcement that is handled without a failure is served, and takes no remote
\* route from any route.
LEMMA AnnouncedLeaves ==
  ASSUME MgrInv, NEW t \in Tokens, NEW ok \in BOOLEAN, OnAnnounced(t, ok)
  PROVE  /\ LastUserOnly
         /\ KeepsRemote
         /\ failures' = 0 =>
              ok /\ failures = 0 /\ remote_key(t) \in routes'[RouteOf(t)].remote
<1> DEFINE r == RouteOf(t)
<1>0. r \in RouteIds /\ failures \in 0 .. MaxFailures
  BY TokenType DEF MgrInv, MgrType
<1>1. CASE UNCHANGED mapVars /\ Fails(TRUE)
  <2>1. failures' # 0
    BY <1>0, <1>1, FailsGrows
  <2> QED
    BY <1>1, <2>1 DEF LastUserOnly, KeepsRemote, mapVars
<1>2. CASE GetOrCreate(r, add_remote_route(Occupied(r), t)) /\ Fails(~ok)
  <2> DEFINE rt == add_remote_route(Occupied(r), t)
  <2>1. rt.live /\ rt.remote = routes[r].remote \cup {remote_key(t)}
    BY <1>0, OccupiedType DEF add_remote_route, Route
  <2>2. /\ routes'[r] = rt
        /\ \A x \in RouteIds \ {r} : routes'[x] = routes[x]
    BY <1>0, <1>2 DEF GetOrCreate, MgrInv, MgrType
  <2>3. failures' = 0 => ok /\ failures = 0
    BY <1>0, <1>2, FailsGrows
  <2> HIDE DEF rt
  <2> QED
    BY <1>0, <2>1, <2>2, <2>3 DEF LastUserOnly, KeepsRemote
<1> QED
  BY <1>1, <1>2 DEF OnAnnounced

\* A retirement takes its own remote route only, and drops a route that served
\* nothing else.
LEMMA RetiredLeaves ==
  ASSUME MgrInv, NEW t \in Tokens, NEW ok \in BOOLEAN, OnRetired(t, ok)
  PROVE  /\ LastUserOnly
         /\ KeepsOthers(RouteOf(t), remote_key(t))
         /\ failures' = 0 => ok /\ failures = 0
<1> DEFINE r  == RouteOf(t)
           rt == remove_remote_route(routes[r], t)
<1>0. r \in RouteIds /\ routes[r] \in Route /\ failures \in 0 .. MaxFailures
  BY TokenType DEF MgrInv, MgrType
<1>1. CASE ~routes[r].live
  BY <1>1 DEF OnRetired, mgrVars, mapVars, LastUserOnly, KeepsOthers
<1>2. CASE routes[r].live
  <2>1. /\ rt.live
        /\ rt.local = routes[r].local
        /\ rt.remote = routes[r].remote \ {remote_key(t)}
    BY <1>0, <1>2 DEF remove_remote_route, Route
  <2>2. /\ StoreOrDrop(r, rt, t.ke)
        /\ Fails(~ok)
    BY <1>2 DEF OnRetired
  <2> HIDE DEF rt
  <2>3. /\ routes'[r] = IF is_unused(rt) THEN NoRoute ELSE rt
        /\ \A x \in RouteIds \ {r} : routes'[x] = routes[x]
    BY <1>0, <2>2 DEF StoreOrDrop, MgrInv, MgrType
  <2>4. failures' = 0 => ok /\ failures = 0
    BY <1>0, <2>2, FailsGrows
  <2> QED
    BY <1>0, <2>1, <2>3, <2>4 DEF LastUserOnly, KeepsOthers, is_unused, NoRoute
<1> QED
  BY <1>1, <1>2

\* A DDS Reader's match drops no route and takes no remote route.
LEMMA MatchedReaderLeaves ==
  ASSUME MgrInv, NEW name \in Names, NEW matched \in BOOLEAN,
         on_matched_reader_event(name, matched)
  PROVE  LastUserOnly /\ KeepsRemote /\ (failures' = 0 => failures = 0)
<1> DEFINE r == <<"MsgSub", name>>
<1>0. r \in RouteIds /\ routes[r] \in Route /\ failures \in 0 .. MaxFailures
  BY DEF RouteIds, Kinds, MgrInv, MgrType
<1>1. CASE UNCHANGED <<routes, failures>>
  BY <1>1 DEF LastUserOnly, KeepsRemote
<1>2. ASSUME NEW rt, rt.live = routes[r].live, rt.remote = routes[r].remote,
             routes' = [routes EXCEPT ![r] = rt],
             UNCHANGED failures \/ \E bad \in BOOLEAN : Fails(bad)
      PROVE  LastUserOnly /\ KeepsRemote /\ (failures' = 0 => failures = 0)
  <2>1. /\ routes'[r] = rt
        /\ \A x \in RouteIds \ {r} : routes'[x] = routes[x]
    BY <1>0, <1>2 DEF MgrInv, MgrType
  <2>2. failures' = 0 => failures = 0
    BY <1>0, <1>2, FailsGrows
  <2> QED
    BY <1>2, <2>1, <2>2 DEF LastUserOnly, KeepsRemote
<1>3. \A announced \in BOOLEAN :
        LET rt == add_local_node("MsgSub", routes[r], MATCHED_READERS_KEY, announced)
        IN  rt.live = routes[r].live /\ rt.remote = routes[r].remote
  BY <1>0 DEF add_local_node, Route
<1>4. LET rt == remove_local_node(routes[r], MATCHED_READERS_KEY)
      IN  rt.live = routes[r].live /\ rt.remote = routes[r].remote
  BY <1>0, RemoveLocalNode
<1>5. CASE ~matched /\ routes[r].live
  <2>1. /\ routes' = [routes EXCEPT ![r] = remove_local_node(@, MATCHED_READERS_KEY)]
        /\ UNCHANGED failures
    BY <1>5 DEF on_matched_reader_event
  <2> QED
    BY <1>2, <1>4, <2>1
<1>6. CASE matched /\ routes[r].live /\ MATCHED_READERS_KEY \notin routes[r].local
  <2>1. PICK announced \in BOOLEAN :
          /\ routes' = [routes EXCEPT ![r] =
                          add_local_node("MsgSub", @, MATCHED_READERS_KEY, announced)]
          /\ Fails(~announced)
    BY <1>6 DEF on_matched_reader_event
  <2> QED
    BY <1>2, <1>3, <2>1
<1> QED
  BY <1>1, <1>5, <1>6 DEF on_matched_reader_event, mgrVars, mapVars

\* The prune of a bridge takes its remote routes only, and drops routes that only
\* served it.
LEMMA PruneLeaves ==
  ASSUME MgrInv, NEW z \in Zids, on_remote_bridge_left(z)
  PROVE  /\ LastUserOnly
         /\ \A x \in RouteIds : {k \in routes[x].remote : k.zid # z} \subseteq routes'[x].remote
         /\ UNCHANGED failures
<1> DEFINE pruned(x) == prune_remote_routes_with_prefix(routes[x], z)
<1>1. ASSUME NEW x \in RouteIds
      PROVE  /\ pruned(x).live = routes[x].live
             /\ pruned(x).local = routes[x].local
             /\ pruned(x).remote = {k \in routes[x].remote : k.zid # z}
  <2>1. routes[x] \in Route
    BY DEF MgrInv, MgrType
  <2> QED
    BY <2>1 DEF prune_remote_routes_with_prefix, Route
<1>2. ASSUME NEW x \in RouteIds
      PROVE  \/ routes'[x] = pruned(x)
             \/ routes'[x] = NoRoute /\ is_unused(pruned(x))
  BY DEF on_remote_bridge_left
<1>3. UNCHANGED failures
  BY DEF on_remote_bridge_left
<1> HIDE DEF pruned
<1> QED
  BY <1>1, <1>2, <1>3 DEF LastUserOnly, is_unused, NoRoute

-----------------------------------------------------------------------------
(* No route is dropped before its last user. *)

\* What the loop does with one event or one part of a tick.
LEMMA StepsDropLastUser ==
  ASSUME IInv, [Next]_vars
  PROVE  LastUserOnly
<1>0. MgrInv
  BY DEF IInv
<1>1. CASE UNCHANGED routes
  BY <1>1 DEF LastUserOnly
<1>2. ASSUME NEW e \in LocalEvents, NEW ok \in BOOLEAN, on_ros_discovery_event(e, ok)
      PROVE  LastUserOnly
  BY <1>0, <1>2, DiscoveryLeaves
<1>3. ASSUME NEW e \in AnnouncementEvents, NEW ok \in BOOLEAN, on_ros_announcement_event(e, ok)
      PROVE  LastUserOnly
  BY <1>0, <1>3, AnnouncedLeaves, RetiredLeaves
     DEF AnnouncementEvents, on_ros_announcement_event
<1>4. ASSUME NEW e \in LocalEvents, DiscoveryEvent(e) PROVE LastUserOnly
  BY <1>2, <1>4 DEF DiscoveryEvent
<1>5. ASSUME NEW name \in MatchedNames, NEW matched \in BOOLEAN, MatchedReader(name, matched)
      PROVE  LastUserOnly
  BY <1>0, <1>5, LoopAssumption, MatchedReaderLeaves DEF MatchedReader
<1>6. CASE LivelinessEvent
  <2>1. Head(liveliness) \in AnnouncementEvents
    BY <1>6 DEF LivelinessEvent, IInv, NetType
  <2> QED
    BY <1>1, <1>3, <1>6, <2>1 DEF LivelinessEvent, mgrVars, mapVars
<1>7. CASE TickStep
  <2>1. ASSUME NEW z \in Zids, Prune(z) PROVE LastUserOnly
    BY <1>0, <1>1, <2>1, PruneLeaves DEF Prune, mgrVars, mapVars
  <2>2. ASSUME NEW q \in todo, RetryAnnouncement(q) PROVE LastUserOnly
    <3>1. q.evt \in AnnouncementEvents
      BY <2>2 DEF RetryAnnouncement, IInv, LoopType, Retries
    <3> QED
      BY <1>3, <2>2, <3>1 DEF RetryAnnouncement
  <2>3. ASSUME NEW q \in todo, RetryDiscovery(q) PROVE LastUserOnly
    <3>1. q.evt \in LocalEvents
      BY <2>3 DEF RetryDiscovery, IInv, LoopType, Retries
    <3> QED
      BY <1>2, <2>3, <3>1 DEF RetryDiscovery
  <2>4. CASE PrunesDone \/ ReannouncesDone \/ TickDone
    BY <1>1, <2>4 DEF PrunesDone, ReannouncesDone, TickDone, mgrVars, mapVars
  <2> QED
    BY <1>7, <2>1, <2>2, <2>3, <2>4 DEF TickStep
<1>8. CASE Tick \/ Environment \/ (\E z \in Zids : TransportEvent(z)) \/ UNCHANGED vars
  BY <1>1, <1>8 DEF Tick, Environment, Announce, Retire, RetireUnheard, Redeclare,
                    TransportLost, TransportRemoved, Reconnect, TransportEvent, mgrVars, mapVars,
                    vars
<1> QED
  BY <1>4, <1>5, <1>6, <1>7, <1>8 DEF Next

\* A route that disappears served one local node or one remote bridge at most, for
\* every set of interfaces, tokens and bounds.
THEOREM RoutesOutliveUsers == Spec => DropsOnlyLastUser
<1>1. IInv /\ [Next]_vars => [LastUserOnly]_vars
  BY StepsDropLastUser
<1> QED
  BY Invariant, <1>1, PTL DEF Spec, DropsOnlyLastUser, LastUserOnly

-----------------------------------------------------------------------------
(* One retry per key. *)

\* The two halves of OneRetryPerKey.  What a tick still has to retry is not queued
\* again: a retry would otherwise stay beside its next attempt.
OneDiscoveryRetry ==
  /\ \A p, q \in QueuedDiscoveries : interface_key(p.evt) = interface_key(q.evt) => p = q
  /\ phase = "rediscover" => todo \cap retry_queue = {}
OneAnnouncementRetry ==
  /\ \A p, q \in QueuedAnnouncements : msg_route_id(p.evt) = msg_route_id(q.evt) => p = q
  /\ phase = "reannounce" => todo \cap announcement_retry_queue = {}

\* A retry that fails again replaces itself.
LEMMA RequeuedSame ==
  ASSUME NEW q
  PROVE  \A p \in requeued(q) :
            p = [evt |-> q.evt, attempts |-> q.attempts + 1]
BY DEF requeued, Failed

\* The retry queue of the discovery events.
LEMMA OneDiscoveryRetryKept ==
  ASSUME IInv, OneDiscoveryRetry, [Next]_vars
  PROVE  OneDiscoveryRetry'
<1>1. CASE /\ QueuedDiscoveries' \subseteq QueuedDiscoveries
           /\ phase' = "rediscover" => todo' \cap retry_queue' = {}
  BY <1>1 DEF OneDiscoveryRetry, interface_key
<1>2. ASSUME NEW e \in LocalEvents, DiscoveryEvent(e) PROVE OneDiscoveryRetry'
  <2> DEFINE n == [evt |-> e, attempts |-> 1]
  <2>1. /\ phase = "select" /\ phase' = "select"
        /\ \A p \in retry_queue' :
             \/ p = n
             \/ p \in retry_queue /\ interface_key(p.evt) # interface_key(e)
    <3>1. PICK ok \in BOOLEAN :
            retry_queue' = superseded(retry_queue, e) \cup (IF ok THEN {} ELSE Failed(e, 1))
      BY <1>2 DEF DiscoveryEvent
    <3>2. phase = "select" /\ phase' = "select"
      BY <1>2 DEF DiscoveryEvent
    <3>3. Failed(e, 1) = {n}
      BY DEF Failed
    <3>4. \A p \in superseded(retry_queue, e) :
             p \in retry_queue /\ interface_key(p.evt) # interface_key(e)
      BY DEF superseded
    <3> HIDE DEF n
    <3> QED
      BY <3>1, <3>2, <3>3, <3>4
  <2>2. n.evt = e
    OBVIOUS
  <2> HIDE DEF n
  <2>3. \A p \in QueuedDiscoveries' :
           \/ p = n
           \/ p \in QueuedDiscoveries /\ interface_key(p.evt) # interface_key(e)
    BY <2>1 DEF QueuedDiscoveries
  <2>4. \A p, q \in QueuedDiscoveries' : interface_key(p.evt) = interface_key(q.evt) => p = q
    BY <2>2, <2>3 DEF OneDiscoveryRetry
  <2> QED
    BY <2>1, <2>4 DEF OneDiscoveryRetry, interface_key
<1>3. ASSUME NEW q \in todo, RetryDiscovery(q) PROVE OneDiscoveryRetry'
  <2>1. /\ phase = "rediscover" /\ phase' = "rediscover"
        /\ todo' = todo \ {q}
        /\ retry_queue' \subseteq retry_queue \cup requeued(q)
    BY <1>3 DEF RetryDiscovery
  <2> DEFINE n == [evt |-> q.evt, attempts |-> q.attempts + 1]
  <2>2. \A p \in requeued(q) : p = n
    BY RequeuedSame
  <2>3. n.evt = q.evt
    OBVIOUS
  <2> HIDE DEF n
  <2>4. q \in QueuedDiscoveries /\ q \notin retry_queue
    BY <2>1 DEF OneDiscoveryRetry, QueuedDiscoveries
  <2>5. \A p \in QueuedDiscoveries' : p = n \/ p \in QueuedDiscoveries \ {q}
    BY <2>1, <2>2, <2>4 DEF QueuedDiscoveries
  <2>6. \A p, r \in QueuedDiscoveries' : interface_key(p.evt) = interface_key(r.evt) => p = r
    BY <2>3, <2>4, <2>5 DEF OneDiscoveryRetry
  <2>7. \A p \in todo' : p \in QueuedDiscoveries \ {q} /\ p \notin retry_queue
    BY <2>1 DEF OneDiscoveryRetry, QueuedDiscoveries
  <2>8. \A p \in todo' : p # n
    BY <2>3, <2>4, <2>7 DEF OneDiscoveryRetry
  <2>9. todo' \cap retry_queue' = {}
    BY <2>1, <2>2, <2>7, <2>8
  <2> QED
    BY <2>6, <2>9 DEF OneDiscoveryRetry, interface_key
<1>4. CASE PrunesDone \/ ReannouncesDone \/ TickDone \/ Tick
  BY <1>1, <1>4 DEF PrunesDone, ReannouncesDone, TickDone, Tick, QueuedDiscoveries
<1>5. ASSUME NEW q \in todo, RetryAnnouncement(q) PROVE OneDiscoveryRetry'
  BY <1>1, <1>5 DEF RetryAnnouncement, QueuedDiscoveries
<1>6. ASSUME NEW z \in Zids, Prune(z) PROVE OneDiscoveryRetry'
  BY <1>1, <1>6 DEF Prune, QueuedDiscoveries
<1>7. CASE LivelinessEvent \/ (\E z \in Zids : TransportEvent(z))
  BY <1>1, <1>7 DEF LivelinessEvent, TransportEvent, QueuedDiscoveries
<1>8. CASE Environment \/ UNCHANGED vars
           \/ \E name \in MatchedNames, matched \in BOOLEAN : MatchedReader(name, matched)
  BY <1>1, <1>8 DEF Environment, Announce, Retire, RetireUnheard, Redeclare, TransportLost,
                    TransportRemoved, Reconnect, MatchedReader, queueVars, vars,
                    QueuedDiscoveries, OneDiscoveryRetry
<1> QED
  BY <1>2, <1>3, <1>4, <1>5, <1>6, <1>7, <1>8 DEF Next, TickStep

\* The retry queue of the announcement events.
LEMMA OneAnnouncementRetryKept ==
  ASSUME IInv, OneAnnouncementRetry, [Next]_vars
  PROVE  OneAnnouncementRetry'
<1>1. CASE /\ QueuedAnnouncements' \subseteq QueuedAnnouncements
           /\ phase' = "reannounce" => todo' \cap announcement_retry_queue' = {}
  BY <1>1 DEF OneAnnouncementRetry, msg_route_id
<1>2. CASE LivelinessEvent
  <2> DEFINE e == Head(liveliness)
  <2>1. /\ phase = "select" /\ phase' = "select"
        /\ announcement_retry_queue' \subseteq
             {q \in announcement_retry_queue :
                msg_route_id(q.evt) = {} \/ msg_route_id(q.evt) # msg_route_id(e)}
               \cup (IF msg_route_id(e) = {} THEN {} ELSE {[evt |-> e, attempts |-> 1]})
           \/ announcement_retry_queue' = announcement_retry_queue
    BY <1>2 DEF LivelinessEvent, announcement_superseded, Failed
  <2> DEFINE n == [evt |-> e, attempts |-> 1]
  <2>2. n.evt = e
    OBVIOUS
  <2> HIDE DEF e, n
  <2>3. \A p \in QueuedAnnouncements : msg_route_id(p.evt) # {}
    BY DEF IInv, QueuedAnnouncementsValid
  <2>4. CASE announcement_retry_queue' = announcement_retry_queue
    BY <1>1, <2>1, <2>4 DEF QueuedAnnouncements
  <2>5. CASE announcement_retry_queue' # announcement_retry_queue
    <3>1. \A p \in QueuedAnnouncements' :
             \/ p = n
             \/ p \in QueuedAnnouncements /\ msg_route_id(p.evt) # msg_route_id(e)
      BY <2>1, <2>3, <2>5 DEF QueuedAnnouncements, n
    <3>2. \A p, q \in QueuedAnnouncements' :
             msg_route_id(p.evt) = msg_route_id(q.evt) => p = q
      BY <2>2, <3>1 DEF OneAnnouncementRetry
    <3> QED
      BY <2>1, <3>2 DEF OneAnnouncementRetry, msg_route_id
  <2> QED
    BY <2>4, <2>5
<1>3. ASSUME NEW q \in todo, RetryAnnouncement(q) PROVE OneAnnouncementRetry'
  <2>1. /\ phase = "reannounce" /\ phase' = "reannounce"
        /\ todo' = todo \ {q}
        /\ announcement_retry_queue' \subseteq announcement_retry_queue \cup requeued(q)
    BY <1>3 DEF RetryAnnouncement
  <2> DEFINE n == [evt |-> q.evt, attempts |-> q.attempts + 1]
  <2>2. \A p \in requeued(q) : p = n
    BY RequeuedSame
  <2>3. n.evt = q.evt
    OBVIOUS
  <2> HIDE DEF n
  <2>4. q \in QueuedAnnouncements /\ q \notin announcement_retry_queue
    BY <2>1 DEF OneAnnouncementRetry, QueuedAnnouncements
  <2>5. \A p \in QueuedAnnouncements' : p = n \/ p \in QueuedAnnouncements \ {q}
    BY <2>1, <2>2, <2>4 DEF QueuedAnnouncements
  <2>6. \A p, r \in QueuedAnnouncements' : msg_route_id(p.evt) = msg_route_id(r.evt) => p = r
    BY <2>3, <2>4, <2>5 DEF OneAnnouncementRetry
  <2>7. \A p \in todo' : p \in QueuedAnnouncements \ {q} /\ p \notin announcement_retry_queue
    BY <2>1 DEF OneAnnouncementRetry, QueuedAnnouncements
  <2>8. \A p \in todo' : p # n
    BY <2>3, <2>4, <2>7 DEF OneAnnouncementRetry
  <2>9. todo' \cap announcement_retry_queue' = {}
    BY <2>1, <2>2, <2>7, <2>8
  <2> QED
    BY <2>6, <2>9 DEF OneAnnouncementRetry, msg_route_id
<1>4. CASE PrunesDone \/ ReannouncesDone \/ TickDone \/ Tick
  BY <1>1, <1>4 DEF PrunesDone, ReannouncesDone, TickDone, Tick, QueuedAnnouncements
<1>5. ASSUME NEW q \in todo, RetryDiscovery(q) PROVE OneAnnouncementRetry'
  BY <1>1, <1>5 DEF RetryDiscovery, QueuedAnnouncements
<1>6. ASSUME NEW z \in Zids, Prune(z) PROVE OneAnnouncementRetry'
  BY <1>1, <1>6 DEF Prune, without_retries, QueuedAnnouncements
<1>7. CASE \/ \E e \in LocalEvents : DiscoveryEvent(e)
           \/ \E z \in Zids : TransportEvent(z)
  BY <1>1, <1>7 DEF DiscoveryEvent, TransportEvent, QueuedAnnouncements
<1>8. CASE Environment \/ UNCHANGED vars
           \/ \E name \in MatchedNames, matched \in BOOLEAN : MatchedReader(name, matched)
  BY <1>1, <1>8 DEF Environment, Announce, Retire, RetireUnheard, Redeclare, TransportLost,
                    TransportRemoved, Reconnect, MatchedReader, queueVars, vars,
                    QueuedAnnouncements, OneAnnouncementRetry
<1> QED
  BY <1>2, <1>3, <1>4, <1>5, <1>6, <1>7, <1>8 DEF Next, TickStep

\* No interface and no remote route ever has two retries queued: no stale event is
\* replayed next to its successor, whatever fails and however often.
THEOREM OneRetry == Spec => []OneRetryPerKey
<1> DEFINE Inv == OneDiscoveryRetry /\ OneAnnouncementRetry
<1>1. Init => Inv
  BY DEF Init, OneDiscoveryRetry, OneAnnouncementRetry, QueuedDiscoveries,
         QueuedAnnouncements
<1>2. IInv /\ Inv /\ [Next]_vars => Inv'
  BY OneDiscoveryRetryKept, OneAnnouncementRetryKept
<1>3. Inv => OneRetryPerKey
  BY DEF OneDiscoveryRetry, OneAnnouncementRetry, OneRetryPerKey
<1> QED
  BY Invariant, <1>1, <1>2, <1>3, PTL DEF Spec

-----------------------------------------------------------------------------
(* The remote routes follow the transports. *)

\* No route serves bridge z and no queued announcement of its will make one do so.
Forgotten(z) ==
  /\ \A r \in RouteIds : \A k \in routes[r].remote : k.zid # z
  /\ \A q \in QueuedAnnouncements : q.evt.op = "announced" => q.evt.token.zid # z

\* No announcement of bridge z waits to be consumed.
Unannounced(z) ==
  \A i \in DOMAIN liveliness :
    liveliness[i].op = "announced" => liveliness[i].token.zid # z

\* A lost bridge is waited for by a prune, in the channel, for the next tick or in
\* this tick; or its last prune came too early; or that prune has left nothing of it
\* and nothing of it is to come.
LossesTreated ==
  \A z \in Zids : link[z] # "up" /\ z \notin transport_events \cup pending_prunes =>
    \/ phase = "prune" /\ z \in todo
    \/ z \in untimely
    \/ Forgotten(z) /\ Unannounced(z)

\* Tokens are declared again on a transport that is up.
RedeclaredOnUp == \A t \in undelivered : link[t.zid] = "up"

\* What was heard on the transport that is up is served.
DeliveredOnUp == \A t \in delivered : link[t.zid] = "up"

\* Only what has failed is retried.
NoRetryUnfailed == failures = 0 => QueuedAnnouncements = {}

TransportInv ==
  /\ LossesTreated
  /\ RedeclaredOnUp
  /\ DeliveredOnUp
  /\ NoRetryUnfailed
  /\ LiveEntriesKept

\* A token is told from every other one by its kind of route and its entry there.
LEMMA TokenOfEntry ==
  ASSUME NEW s \in Tokens, NEW t \in Tokens,
         RouteOf(s) = RouteOf(t), remote_key(s) = remote_key(t)
  PROVE  s = t
<1>1. /\ s.kind \in Kinds /\ t.kind \in Kinds
      /\ MatchingKind(s.kind) = MatchingKind(t.kind)
  BY TokenType DEF RouteOf
<1>2. s.kind = t.kind
  BY <1>1 DEF Kinds, MatchingKind
<1>3. s.zid = t.zid /\ s.ke = t.ke /\ s.qos = t.qos
  BY DEF remote_key
<1>4. s \in AnnouncementTokens /\ t \in AnnouncementTokens
  BY LoopAssumption
<1> QED
  BY <1>2, <1>3, <1>4 DEF AnnouncementTokens

\* A step that gives no route a remote route and queues no announcement forgets what
\* was forgotten.
LEMMA ForgottenKept ==
  ASSUME NEW z \in Zids, Forgotten(z),
         \A x \in RouteIds : routes'[x].remote \subseteq routes[x].remote,
         QueuedAnnouncements' \subseteq QueuedAnnouncements
  PROVE  Forgotten(z)'
BY DEF Forgotten

\* The invariant is kept by the steps that touch neither transports nor announcements
\* and take no remote route from any route.
LEMMA LocalStepKeeps ==
  ASSUME IInv, TransportInv, UNCHANGED <<netVars, delivered, untimely>>,
         KeepsRemote, \A x \in RouteIds : routes'[x].remote \subseteq routes[x].remote,
         failures' = 0 => failures = 0,
         QueuedAnnouncements' \subseteq QueuedAnnouncements,
         UNCHANGED <<pending_prunes, phase>>, phase = "prune" => UNCHANGED todo
  PROVE  TransportInv'
<1>1. LossesTreated'
  BY ForgottenKept DEF TransportInv, LossesTreated, Unannounced, netVars
<1>2. RedeclaredOnUp' /\ DeliveredOnUp'
  BY DEF TransportInv, RedeclaredOnUp, DeliveredOnUp, netVars
<1>3. LiveEntriesKept'
  <2> SUFFICES ASSUME NEW t \in delivered, failures = 0, t.zid \notin ClientZids
               PROVE  remote_key(t) \in routes'[RouteOf(t)].remote
    BY DEF LiveEntriesKept, remote_key, RouteOf
  <2>1. RouteOf(t) \in RouteIds
    BY TokenType DEF IInv, HistType
  <2> QED
    BY <2>1 DEF TransportInv, LiveEntriesKept, KeepsRemote
<1>4. NoRetryUnfailed'
  BY DEF TransportInv, NoRetryUnfailed
<1> QED
  BY <1>1, <1>2, <1>3, <1>4 DEF TransportInv

\* The handler of an announcement event, called by the loop or by a retry, is about
\* no other bridge than the one of its token, and while it succeeds it keeps what was
\* delivered; what it is about is served if it is an announcement.
LEMMA AnnouncementLeaves ==
  ASSUME IInv, NEW e \in AnnouncementEvents, NEW ok \in BOOLEAN,
         on_ros_announcement_event(e, ok)
  PROVE  /\ e.token \in Tokens
         /\ \A x \in RouteIds : \A k \in routes'[x].remote :
               k \in routes[x].remote \/ (e.op = "announced" /\ k.zid = e.token.zid)
         /\ failures' = 0 => ok /\ failures = 0
         /\ \A t \in Tokens : failures' = 0 /\ remote_key(t) \in routes[RouteOf(t)].remote =>
               \/ remote_key(t) \in routes'[RouteOf(t)].remote
               \/ e.op = "retired" /\ t = e.token
         /\ e.op = "announced" /\ failures' = 0 =>
               remote_key(e.token) \in routes'[RouteOf(e.token)].remote
<1>0. MgrInv /\ e.token \in Tokens /\ e.op \in {"announced", "retired"}
  BY DEF IInv, AnnouncementEvents
<1>1. \A x \in RouteIds : \A k \in routes'[x].remote :
         k \in routes[x].remote \/ (e.op = "announced" /\ k.zid = e.token.zid)
  <2>1. remote_key(e.token).zid = e.token.zid
    BY <1>0, TokenType
  <2> QED
    BY <1>0, <2>1, OnRosAnnouncementKeeps DEF Gains, GainsNothing
<1>2. CASE e.op = "announced"
  <2>1. OnAnnounced(e.token, ok)
    BY <1>2 DEF on_ros_announcement_event
  <2> QED
    BY <1>0, <1>1, <1>2, <2>1, AnnouncedLeaves, TokenType DEF KeepsRemote
<1>3. CASE e.op = "retired"
  <2>1. OnRetired(e.token, ok)
    BY <1>3 DEF on_ros_announcement_event
  <2>2. KeepsOthers(RouteOf(e.token), remote_key(e.token)) /\ (failures' = 0 => ok /\ failures = 0)
    BY <1>0, <2>1, RetiredLeaves
  <2>3. ASSUME NEW t \in Tokens, remote_key(t) \in routes[RouteOf(t)].remote, t # e.token
        PROVE  remote_key(t) \in routes'[RouteOf(t)].remote
    BY <1>0, <2>2, <2>3, TokenOfEntry, TokenType DEF KeepsOthers
  <2> QED
    BY <1>0, <1>1, <1>3, <2>2, <2>3
<1> QED
  BY <1>0, <1>2, <1>3

\* The liveliness arm of the loop.
LEMMA LivelinessKeepsTransports ==
  ASSUME IInv, TransportInv, LivelinessEvent
  PROVE  TransportInv'
<1> DEFINE e == Head(liveliness)
<1>1. /\ phase = "select"
      /\ liveliness # <<>>
      /\ liveliness' = Tail(liveliness)
      /\ UNCHANGED <<pending_prunes, phase, todo, link, transport_events, undelivered, untimely>>
  BY DEF LivelinessEvent
<1>2. /\ liveliness \in Seq(AnnouncementEvents)
      /\ e \in AnnouncementEvents
      /\ e = liveliness[1]
      /\ 1 \in DOMAIN liveliness
      /\ \A i \in DOMAIN liveliness' : i + 1 \in DOMAIN liveliness
                                       /\ liveliness'[i] = liveliness[i + 1]
  BY <1>1 DEF IInv, NetType
<1> HIDE DEF e
<1>3. RedeclaredOnUp'
  BY <1>1 DEF TransportInv, RedeclaredOnUp
<1>4. CASE UNCHANGED <<mgrVars, announcement_retry_queue, heard, delivered>>
  <2>1. LossesTreated'
    BY <1>1, <1>2, <1>4, ForgottenKept
       DEF TransportInv, LossesTreated, Unannounced, QueuedAnnouncements, mgrVars, mapVars
  <2>2. DeliveredOnUp' /\ LiveEntriesKept' /\ NoRetryUnfailed'
    BY <1>1, <1>4 DEF TransportInv, DeliveredOnUp, LiveEntriesKept, mgrVars, mapVars,
                      RouteOf, remote_key, NoRetryUnfailed, QueuedAnnouncements
  <2> QED
    BY <1>3, <2>1, <2>2 DEF TransportInv
<1>5. ASSUME NEW ok \in BOOLEAN, on_ros_announcement_event(e, ok),
             \A q \in announcement_retry_queue' :
                q \in announcement_retry_queue \/ (~ok /\ q.evt = e),
             delivered' = IF e.op = "announced" /\ link[e.token.zid] = "up"
                          THEN delivered \cup {e.token}
                          ELSE delivered \ {e.token}
      PROVE  TransportInv'
  <2>1. LossesTreated'
    <3> SUFFICES ASSUME NEW z \in Zids, link[z] # "up", z \notin untimely,
                        z \notin transport_events \cup pending_prunes
                 PROVE  Forgotten(z)' /\ Unannounced(z)'
      BY <1>1 DEF LossesTreated
    <3>1. Forgotten(z) /\ Unannounced(z)
      BY <1>1 DEF TransportInv, LossesTreated
    <3>2. e.op = "announced" => e.token.zid # z
      BY <1>2, <3>1 DEF Unannounced
    <3>3. \A q \in QueuedAnnouncements' : q \in QueuedAnnouncements \/ q.evt = e
      BY <1>1, <1>5 DEF QueuedAnnouncements
    <3>4. Forgotten(z)'
      BY <1>2, <1>5, <3>1, <3>2, <3>3, AnnouncementLeaves DEF Forgotten
    <3>5. Unannounced(z)'
      BY <1>2, <3>1 DEF Unannounced
    <3> QED
      BY <3>4, <3>5
  <2>2. DeliveredOnUp'
    BY <1>1, <1>5 DEF TransportInv, DeliveredOnUp
  <2>3. LiveEntriesKept'
    <3> SUFFICES ASSUME NEW t \in delivered', failures' = 0, t.zid \notin ClientZids
                 PROVE  remote_key(t) \in routes'[RouteOf(t)].remote
      BY DEF LiveEntriesKept, remote_key, RouteOf
    <3>1. CASE t = e.token /\ e.op = "announced"
      BY <1>2, <1>5, <3>1, AnnouncementLeaves
    <3>2. CASE ~(t = e.token /\ e.op = "announced")
      <4>1. t \in delivered /\ t # e.token
        BY <1>5, <3>2 DEF AnnouncementEvents
      <4>2. t \in Tokens /\ failures = 0
        BY <1>2, <1>5, <4>1, AnnouncementLeaves DEF IInv, HistType
      <4>3. remote_key(t) \in routes[RouteOf(t)].remote
        BY <4>1, <4>2 DEF TransportInv, LiveEntriesKept
      <4> QED
        BY <1>2, <1>5, <4>1, <4>2, <4>3, AnnouncementLeaves
    <3> QED
      BY <3>1, <3>2
  <2>4. NoRetryUnfailed'
    <3>1. failures' = 0 => ok /\ QueuedAnnouncements = {}
      BY <1>2, <1>5, AnnouncementLeaves DEF TransportInv, NoRetryUnfailed
    <3> QED
      BY <1>1, <1>5, <3>1 DEF NoRetryUnfailed, QueuedAnnouncements
  <2> QED
    BY <1>3, <2>1, <2>2, <2>3, <2>4 DEF TransportInv
<1>6. CASE is_announcement_allowed(e)
  <2>1. PICK ok \in BOOLEAN :
          /\ on_ros_announcement_event(e, ok)
          /\ announcement_retry_queue' =
               announcement_superseded(announcement_retry_queue, e)
                 \cup (IF ok \/ msg_route_id(e) = {} THEN {} ELSE Failed(e, 1))
    BY <1>6 DEF LivelinessEvent, e
  <2>2. \A q \in announcement_retry_queue' :
           q \in announcement_retry_queue \/ (~ok /\ q.evt = e)
    BY <2>1 DEF announcement_superseded, Failed
  <2>3. delivered' = IF e.op = "announced" /\ link[e.token.zid] = "up"
                     THEN delivered \cup {e.token}
                     ELSE delivered \ {e.token}
    BY <1>6 DEF LivelinessEvent, e
  <2> QED
    BY <1>5, <2>1, <2>2, <2>3
<1> QED
  BY <1>4, <1>6 DEF LivelinessEvent, e

\* The retry of an announcement: its bridge is not one that was lost and forgotten,
\* since a retry that makes a route would have gone with it.
LEMMA RetryKeepsTransports ==
  ASSUME IInv, TransportInv, NEW q \in todo, RetryAnnouncement(q)
  PROVE  TransportInv'
<1>1. PICK ok \in BOOLEAN :
        /\ on_ros_announcement_event(q.evt, ok)
        /\ announcement_retry_queue' =
              announcement_retry_queue \cup (IF ok THEN {} ELSE requeued(q))
  BY DEF RetryAnnouncement
<1>2. /\ phase = "reannounce"
      /\ todo' = todo \ {q}
      /\ UNCHANGED <<netVars, histVars, pending_prunes, phase>>
      /\ q.evt \in AnnouncementEvents
      /\ q \in QueuedAnnouncements
  BY DEF RetryAnnouncement, IInv, LoopType, Retries, QueuedAnnouncements
<1>3. \A p \in QueuedAnnouncements' : p \in QueuedAnnouncements \/ p.evt = q.evt
  BY <1>1, <1>2, RequeuedSame DEF QueuedAnnouncements
<1>4. LossesTreated'
  <2> SUFFICES ASSUME NEW z \in Zids, link[z] # "up", z \notin untimely,
                      z \notin transport_events \cup pending_prunes
               PROVE  Forgotten(z)' /\ Unannounced(z)'
    BY <1>2 DEF LossesTreated, netVars, histVars
  <2>1. Forgotten(z) /\ Unannounced(z)
    BY <1>2 DEF TransportInv, LossesTreated
  <2>2. q.evt.op = "announced" => q.evt.token.zid # z
    BY <1>2, <2>1 DEF Forgotten
  <2>3. Forgotten(z)'
    BY <1>1, <1>2, <1>3, <2>1, <2>2, AnnouncementLeaves DEF Forgotten
  <2> QED
    BY <1>2, <2>1, <2>3 DEF Unannounced, netVars
<1>5. RedeclaredOnUp' /\ DeliveredOnUp'
  BY <1>2 DEF TransportInv, RedeclaredOnUp, DeliveredOnUp, netVars, histVars
<1>6. failures' # 0
  <2>1. failures # 0
    BY <1>2 DEF TransportInv, NoRetryUnfailed
  <2> QED
    BY <1>1, <1>2, <2>1, AnnouncementLeaves
<1>7. NoRetryUnfailed' /\ LiveEntriesKept'
  BY <1>6 DEF NoRetryUnfailed, LiveEntriesKept
<1> QED
  BY <1>4, <1>5, <1>7 DEF TransportInv

\* The prune of a bridge: one that is up, or has events or another prune coming, is
\* spared or pruned; one that is only waited for by this tick is forgotten, unless the
\* prune comes too early.
LEMMA PruneKeepsTransports ==
  ASSUME IInv, TransportInv, NEW z \in Zids, Prune(z)
  PROVE  TransportInv'
<1>1. /\ phase = "prune"
      /\ z \in todo
      /\ todo' = todo \ {z}
      /\ UNCHANGED <<netVars, pending_prunes, phase, delivered>>
  BY DEF Prune
<1>2. RedeclaredOnUp' /\ DeliveredOnUp'
  BY <1>1 DEF TransportInv, RedeclaredOnUp, DeliveredOnUp, netVars
<1>3. /\ link[z] \in {"up", "dying", "down"}
      /\ \A y \in Zids : y # z => (y \in untimely <=> y \in untimely')
      /\ ~Unannounced(z) \/ (z \notin ClientZids /\ link[z] = "dying") => z \in untimely'
  BY DEF Prune, ComesTooEarly, Unannounced, IInv, NetType
<1>4. CASE Reconnected(z)
  <2>1. /\ z \notin ClientZids /\ link[z] # "down"
        /\ UNCHANGED <<mgrVars, announcement_retry_queue>>
    BY <1>4 DEF Prune, Reconnected
  <2>2. LossesTreated'
    <3>1. ASSUME NEW y \in Zids, Forgotten(y) /\ Unannounced(y)
          PROVE  Forgotten(y)' /\ Unannounced(y)'
      BY <1>1, <2>1, <3>1, ForgottenKept
         DEF QueuedAnnouncements, Unannounced, mgrVars, mapVars, netVars
    <3>2. link[z] # "up" => z \in untimely'
      BY <1>3, <2>1
    <3> QED
      BY <1>1, <1>3, <3>1, <3>2 DEF TransportInv, LossesTreated, netVars
  <2>3. LiveEntriesKept' /\ NoRetryUnfailed'
    BY <1>1, <2>1 DEF TransportInv, LiveEntriesKept, NoRetryUnfailed, QueuedAnnouncements,
                      mgrVars, mapVars, RouteOf, remote_key
  <2> QED
    BY <1>2, <2>2, <2>3 DEF TransportInv
<1>5. CASE ~Reconnected(z)
  <2>1. /\ on_remote_bridge_left(z)
        /\ announcement_retry_queue' = without_retries(announcement_retry_queue, z)
    BY <1>5 DEF Prune
  <2>2. /\ \A x \in RouteIds : routes'[x].remote \subseteq routes[x].remote
        /\ \A x \in RouteIds : \A k \in routes'[x].remote : k.zid # z
    BY <2>1, OnRemoteBridgeLeftKeeps DEF IInv, GainsNothing
  <2>3. QueuedAnnouncements' = {q \in QueuedAnnouncements : q.evt.token.zid # z}
    <3>1. \A q \in announcement_retry_queue : msg_route_id(q.evt) # {}
      BY DEF IInv, QueuedAnnouncementsValid, QueuedAnnouncements
    <3> QED
      BY <1>1, <2>1, <3>1 DEF QueuedAnnouncements, without_retries
  <2>4. LossesTreated'
    <3>1. Forgotten(z)'
      BY <2>2, <2>3 DEF Forgotten
    <3>2. z \in untimely' \/ Unannounced(z)'
      BY <1>1, <1>3 DEF Unannounced, netVars
    <3>3. ASSUME NEW y \in Zids, Forgotten(y) /\ Unannounced(y)
          PROVE  Forgotten(y)' /\ Unannounced(y)'
      BY <1>1, <2>2, <2>3, <3>3, ForgottenKept DEF Unannounced, netVars
    <3> QED
      BY <1>1, <1>3, <3>1, <3>2, <3>3 DEF TransportInv, LossesTreated, netVars
  <2>5. LiveEntriesKept'
    <3> SUFFICES ASSUME NEW t \in delivered, failures' = 0, t.zid \notin ClientZids
                 PROVE  remote_key(t) \in routes'[RouteOf(t)].remote
      BY <1>1 DEF LiveEntriesKept, remote_key, RouteOf
    <3>1. t \in Tokens /\ failures = 0
      BY <2>1, PruneLeaves DEF IInv, HistType
    <3>2. t.zid # z
      BY <1>5 DEF TransportInv, DeliveredOnUp, Reconnected
    <3>3. remote_key(t) \in routes[RouteOf(t)].remote
      BY <3>1 DEF TransportInv, LiveEntriesKept
    <3> QED
      BY <2>1, <3>1, <3>2, <3>3, PruneLeaves, TokenType DEF IInv
  <2>6. NoRetryUnfailed'
    <3>1. UNCHANGED failures
      BY <2>1 DEF on_remote_bridge_left
    <3> QED
      BY <2>3, <3>1 DEF TransportInv, NoRetryUnfailed
  <2> QED
    BY <1>2, <2>4, <2>5, <2>6 DEF TransportInv
<1> QED
  BY <1>4, <1>5

\* The steps of a tick that pass from one part to the next.
LEMMA PhasesKeepTransports ==
  ASSUME IInv, TransportInv, Tick \/ PrunesDone \/ ReannouncesDone \/ TickDone
  PROVE  TransportInv'
<1>1. UNCHANGED <<mgrVars, netVars, histVars>>
  BY DEF Tick, PrunesDone, ReannouncesDone, TickDone
<1>2. QueuedAnnouncements' \subseteq QueuedAnnouncements
  BY DEF QueuedAnnouncements, Tick, PrunesDone, ReannouncesDone, TickDone
<1>3. RedeclaredOnUp' /\ DeliveredOnUp' /\ NoRetryUnfailed' /\ LiveEntriesKept'
  BY <1>1, <1>2 DEF TransportInv, RedeclaredOnUp, DeliveredOnUp, NoRetryUnfailed, LiveEntriesKept,
                    mgrVars, mapVars, netVars, histVars, RouteOf, remote_key
<1>4. LossesTreated'
  <2> SUFFICES ASSUME NEW z \in Zids, link[z] # "up", z \notin untimely,
                      z \notin transport_events \cup pending_prunes'
               PROVE  \/ phase' = "prune" /\ z \in todo'
                      \/ Forgotten(z)' /\ Unannounced(z)'
    BY <1>1 DEF LossesTreated, netVars, histVars
  <2>1. Forgotten(z) /\ Unannounced(z) => Forgotten(z)' /\ Unannounced(z)'
    BY <1>1, <1>2, ForgottenKept DEF mgrVars, mapVars, netVars, Unannounced
  <2>2. CASE z \in pending_prunes
    BY <2>2 DEF Tick, PrunesDone, ReannouncesDone, TickDone
  <2>3. CASE z \notin pending_prunes
    <3>1. (phase = "prune" /\ z \in todo) \/ (Forgotten(z) /\ Unannounced(z))
      BY <2>3 DEF TransportInv, LossesTreated
    <3>2. phase = "prune" => todo = {}
      BY DEF Tick, PrunesDone, ReannouncesDone, TickDone
    <3> QED
      BY <2>1, <3>1, <3>2
  <2> QED
    BY <2>2, <2>3
<1> QED
  BY <1>3, <1>4 DEF TransportInv

\* The events of the network.
LEMMA EnvironmentKeepsTransports ==
  ASSUME IInv, TransportInv, Environment \/ \E z \in Zids : TransportEvent(z)
  PROVE  TransportInv'
<1>1. UNCHANGED <<mgrVars, announcement_retry_queue, phase, todo, known, heard, untimely>>
  BY DEF Environment, Announce, Retire, RetireUnheard, Redeclare, TransportLost,
         TransportRemoved, Reconnect, TransportEvent, queueVars, histVars
<1>2. ASSUME NEW z \in Zids PROVE Forgotten(z) <=> Forgotten(z)'
  BY <1>1 DEF Forgotten, QueuedAnnouncements, mgrVars, mapVars
<1>3. NoRetryUnfailed' /\ (delivered' \subseteq delivered => LiveEntriesKept')
  BY <1>1 DEF TransportInv, NoRetryUnfailed, LiveEntriesKept, QueuedAnnouncements, mgrVars,
              mapVars, RouteOf, remote_key
<1>4. liveliness \in Seq(AnnouncementEvents) /\ link \in [Zids -> {"up", "dying", "down"}]
  BY DEF IInv, NetType
<1>5. ASSUME NEW t \in Tokens, NEW o, link[t.zid] = "up", UNCHANGED link,
             UNCHANGED <<transport_events, pending_prunes, delivered>>,
             undelivered' \subseteq undelivered,
             liveliness' = Append(liveliness, [op |-> o, token |-> t])
      PROVE  TransportInv'
  <2>1. \A i \in DOMAIN liveliness' :
           \/ i \in DOMAIN liveliness /\ liveliness'[i] = liveliness[i]
           \/ liveliness'[i] = [op |-> o, token |-> t]
    BY <1>4, <1>5
  <2>2. \A z \in Zids : link[z] # "up" => z # t.zid
    BY <1>5
  <2>3. LossesTreated'
    BY <1>1, <1>2, <1>5, <2>1, <2>2 DEF TransportInv, LossesTreated, Unannounced
  <2> QED
    BY <1>3, <1>5, <2>3 DEF TransportInv, RedeclaredOnUp, DeliveredOnUp
<1>6. ASSUME NEW t \in Tokens, Announce(t) \/ Retire(t) \/ RetireUnheard(t) \/ Redeclare(t)
      PROVE  TransportInv'
  <2>1. CASE Announce(t) \/ Retire(t)
    BY <1>5, <2>1 DEF Announce, Retire, queueVars, histVars
  <2>2. CASE Redeclare(t)
    BY <1>5, <2>2 DEF Redeclare, queueVars, histVars, TransportInv, RedeclaredOnUp
  <2>3. CASE RetireUnheard(t)
    BY <1>1, <1>2, <1>3, <2>3 DEF RetireUnheard, queueVars, histVars, TransportInv,
                                  LossesTreated, Unannounced, RedeclaredOnUp,
                                  DeliveredOnUp
  <2> QED
    BY <1>6, <2>1, <2>2, <2>3
<1>7. ASSUME NEW z \in Zids, TransportLost(z) \/ TransportRemoved(z) \/ Reconnect(z)
      PROVE  TransportInv'
  <2>1. CASE TransportLost(z)
    <3>1. /\ link' = [link EXCEPT ![z] = "dying"]
          /\ transport_events' = transport_events \cup {z}
          /\ undelivered' = {t \in undelivered : t.zid # z}
          /\ delivered' = {t \in delivered : t.zid # z}
          /\ UNCHANGED <<liveliness, pending_prunes>>
      BY <2>1 DEF TransportLost, queueVars
    <3>2. \A y \in Zids \ {z} : link'[y] = link[y]
      BY <1>4, <3>1
    <3>3. LossesTreated'
      BY <1>1, <1>2, <3>1, <3>2 DEF TransportInv, LossesTreated, Unannounced
    <3>4. RedeclaredOnUp' /\ DeliveredOnUp'
      <4>1. \A t \in undelivered' \cup delivered' : t.zid \in Zids \ {z}
        BY <3>1, TokenType DEF IInv, NetType, HistType
      <4> QED
        BY <3>1, <3>2, <4>1 DEF TransportInv, RedeclaredOnUp, DeliveredOnUp
    <3> QED
      BY <1>3, <3>1, <3>3, <3>4 DEF TransportInv
  <2>2. CASE TransportRemoved(z)
    <3>1. /\ link[z] = "dying"
          /\ link' = [link EXCEPT ![z] = "down"]
          /\ UNCHANGED <<liveliness, pending_prunes, transport_events, undelivered, delivered>>
      BY <2>2 DEF TransportRemoved, queueVars, histVars
    <3>2. \A y \in Zids \ {z} : link'[y] = link[y]
      BY <1>4, <3>1
    <3>3. LossesTreated'
      BY <1>1, <1>2, <3>1, <3>2 DEF TransportInv, LossesTreated, Unannounced
    <3>4. RedeclaredOnUp' /\ DeliveredOnUp'
      <4>1. \A t \in undelivered \cup delivered : t.zid \in Zids \ {z}
        BY <3>1, TokenType DEF IInv, NetType, HistType, TransportInv, RedeclaredOnUp,
                               DeliveredOnUp
      <4> QED
        BY <3>1, <3>2, <4>1 DEF TransportInv, RedeclaredOnUp, DeliveredOnUp
    <3> QED
      BY <1>3, <3>1, <3>3, <3>4 DEF TransportInv
  <2>3. CASE Reconnect(z)
    <3>1. /\ link' = [link EXCEPT ![z] = "up"]
          /\ undelivered' = undelivered \cup {t \in alive : t.zid = z}
          /\ UNCHANGED <<liveliness, pending_prunes, transport_events, delivered>>
      BY <2>3 DEF Reconnect, queueVars, histVars
    <3>2. link'[z] = "up" /\ \A y \in Zids \ {z} : link'[y] = link[y]
      BY <1>4, <3>1
    <3>3. LossesTreated'
      BY <1>1, <1>2, <3>1, <3>2 DEF TransportInv, LossesTreated, Unannounced
    <3>4. RedeclaredOnUp' /\ DeliveredOnUp'
      <4>1. \A t \in undelivered' \cup delivered' : t.zid \in Zids
        BY <3>1, TokenType DEF IInv, NetType, HistType
      <4> QED
        BY <3>1, <3>2, <4>1 DEF TransportInv, RedeclaredOnUp, DeliveredOnUp
    <3> QED
      BY <1>3, <3>1, <3>3, <3>4 DEF TransportInv
  <2> QED
    BY <1>7, <2>1, <2>2, <2>3
<1>8. ASSUME NEW z \in Zids, TransportEvent(z) PROVE TransportInv'
  <2>1. /\ z \in transport_events
        /\ transport_events' = transport_events \ {z}
        /\ pending_prunes' = pending_prunes \cup {z}
        /\ UNCHANGED <<link, undelivered, liveliness, delivered>>
    BY <1>8 DEF TransportEvent, histVars
  <2> QED
    BY <1>1, <1>2, <1>3, <2>1 DEF TransportInv, LossesTreated, Unannounced, RedeclaredOnUp,
                                         DeliveredOnUp
<1> QED
  BY <1>6, <1>7, <1>8 DEF Environment

\* Every step keeps the invariant.
LEMMA TransportInvKept ==
  ASSUME IInv, TransportInv, [Next]_vars
  PROVE  TransportInv'
<1>0. MgrInv
  BY DEF IInv
<1>1. ASSUME NEW e \in LocalEvents, NEW ok \in BOOLEAN, on_ros_discovery_event(e, ok)
      PROVE  /\ KeepsRemote
             /\ \A x \in RouteIds : routes'[x].remote \subseteq routes[x].remote
             /\ failures' = 0 => failures = 0
  BY <1>0, <1>1, DiscoveryLeaves, OnRosDiscoveryKeeps, LocalEventType DEF Gains, GainsNothing
<1>2. ASSUME NEW e \in LocalEvents, DiscoveryEvent(e) PROVE TransportInv'
  <2>1. PICK ok \in BOOLEAN : on_ros_discovery_event(e, ok)
    BY <1>2 DEF DiscoveryEvent
  <2>2. /\ UNCHANGED <<netVars, delivered, untimely, pending_prunes, phase, todo>>
        /\ QueuedAnnouncements' \subseteq QueuedAnnouncements
    BY <1>2 DEF DiscoveryEvent, QueuedAnnouncements
  <2> QED
    BY <1>1, <2>1, <2>2, LocalStepKeeps
<1>3. ASSUME NEW name \in MatchedNames, NEW matched \in BOOLEAN, MatchedReader(name, matched)
      PROVE  TransportInv'
  <2>1. name \in Names /\ on_matched_reader_event(name, matched)
    BY <1>3, LoopAssumption DEF MatchedReader
  <2>2. /\ KeepsRemote
        /\ \A x \in RouteIds : routes'[x].remote \subseteq routes[x].remote
        /\ failures' = 0 => failures = 0
    BY <1>0, <2>1, MatchedReaderLeaves, OnMatchedReaderKeeps DEF Gains
  <2>3. /\ UNCHANGED <<netVars, delivered, untimely, pending_prunes, phase, todo>>
        /\ QueuedAnnouncements' \subseteq QueuedAnnouncements
    BY <1>3 DEF MatchedReader, queueVars, histVars, QueuedAnnouncements
  <2> QED
    BY <2>2, <2>3, LocalStepKeeps
<1>4. ASSUME NEW q \in todo, RetryDiscovery(q) PROVE TransportInv'
  <2>1. PICK ok \in BOOLEAN : on_ros_discovery_event(q.evt, ok)
    BY <1>4 DEF RetryDiscovery
  <2>2. /\ phase = "rediscover"
        /\ q.evt \in LocalEvents
        /\ UNCHANGED <<netVars, delivered, untimely, pending_prunes, phase>>
        /\ QueuedAnnouncements' \subseteq QueuedAnnouncements
    BY <1>4 DEF RetryDiscovery, IInv, LoopType, Retries, histVars, QueuedAnnouncements
  <2> QED
    BY <1>1, <2>1, <2>2, LocalStepKeeps
<1>5. CASE UNCHANGED vars
  <2>1. /\ UNCHANGED <<netVars, delivered, untimely, pending_prunes, phase, todo>>
        /\ UNCHANGED <<routes, failures>>
        /\ QueuedAnnouncements' \subseteq QueuedAnnouncements
    BY <1>5 DEF vars, mgrVars, mapVars, queueVars, netVars, histVars, QueuedAnnouncements
  <2> QED
    BY <2>1, LocalStepKeeps DEF KeepsRemote
<1> QED
  BY <1>2, <1>3, <1>4, <1>5, LivelinessKeepsTransports, RetryKeepsTransports,
     PruneKeepsTransports, PhasesKeepTransports, EnvironmentKeepsTransports
     DEF Next, TickStep

\* The remote routes of a bridge that is gone go with it, unless its prune came too
\* early, and those of one that came back are spared, for any number of bridges, losses
\* and failures and however the ticks fall among the events.
THEOREM RemoteRoutesFollow == Spec => []RemoteFollowsTransport
<1>1. Init => TransportInv
  BY DEF Init, InitMgr, TransportInv, LossesTreated, RedeclaredOnUp, DeliveredOnUp,
         NoRetryUnfailed, LiveEntriesKept, QueuedAnnouncements
<1>2. IInv /\ TransportInv /\ [Next]_vars => TransportInv'
  BY TransportInvKept
<1>3. IInv /\ TransportInv => RemoteFollowsTransport
  <2> SUFFICES ASSUME IInv, TransportInv PROVE DeadBridgePruned
    BY DEF RemoteFollowsTransport, TransportInv
  <2> SUFFICES ASSUME NEW z \in Zids, link[z] = "down", Quiet(z), z \notin untimely
               PROVE  RemoteOf(z) = {}
    BY DEF DeadBridgePruned
  <2>1. Forgotten(z)
    BY DEF Quiet, TransportInv, LossesTreated
  <2> QED
    BY <2>1 DEF Forgotten, RemoteOf
<1> QED
  BY Invariant, <1>1, <1>2, <1>3, PTL DEF Spec

=============================================================================
