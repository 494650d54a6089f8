----------------------------- MODULE BridgeLoop -----------------------------
(***************************************************************************)
(* The main loop of the plugin (ROS2PluginRuntime::run in lib.rs): one     *)
(* task that selects among the events of local discovery, of the DDS       *)
(* matching status, of the liveliness tokens and transports of the remote  *)
(* bridges, and a periodic tick.  It drives the routes manager and keeps   *)
(* what failed for a retry at the next ticks.                              *)
(*                                                                         *)
(* The loop handles one event at a time.  A tick handles several: it is    *)
(* split in one step per prune and per retried event, during which the     *)
(* transports may still change.  The retry queues are sets: the code's     *)
(* vectors never hold two events with the same key (OneRetryPerKey), and a *)
(* tick may treat them here in any order.                                  *)
(***************************************************************************)
EXTENDS RoutesMgr

CONSTANTS
  LocalIfaces,        \* interfaces that local nodes declare: [kind, name, node]
  Tokens,             \* announcements that remote bridges make
  MatchedNames,       \* topics on which DDS readers may match without a ROS node
  Allowed,            \* <<kind, name>> that config.allowance permits
  ClientZids,         \* remote bridges in client mode
  MAX_EVENT_RETRIES,
  MaxBacklog,         \* bound on the liveliness events not consumed yet
  MaxLosses           \* bound on the losses of a transport

Ifaces == [kind : Kinds, name : Names, node : Nodes]

ASSUME LoopAssumption ==
  /\ LocalIfaces \subseteq Ifaces
  /\ Tokens \subseteq AnnouncementTokens
  /\ MatchedNames \subseteq Names
  /\ Allowed \subseteq RouteIds
  /\ ClientZids \subseteq Zids
  /\ MAX_EVENT_RETRIES \in Nat \ {0}
  /\ MaxBacklog \in Nat \ {0}
  /\ MaxLosses \in Nat

VARIABLES
  retry_queue,               \* discovery events to retry, with their attempts
  announcement_retry_queue,  \* announcement events to retry, with their attempts
  pending_prunes,            \* lost bridges to prune at the next tick
  phase,                     \* "select", or the part of the tick being executed
  todo,                      \* the vector taken by that part of the tick
  link,                      \* state of the transport of each remote bridge
  transport_events,          \* transport Delete events not consumed yet
  alive,                     \* tokens declared by the remote bridges
  undelivered,               \* declared tokens whose Put was not sent on this transport
  liveliness,                \* liveliness events not consumed yet, in order
  losses,
  known,                     \* history: interfaces whose last event is Discovered
  heard,                     \* history: tokens whose last event is Put, not pruned since
  delivered,                 \* history: tokens whose Put was consumed on the current transport
  untimely                   \* history: bridges whose last prune came too early

queueVars == <<retry_queue, announcement_retry_queue, pending_prunes, phase, todo>>
netVars == <<link, transport_events, alive, undelivered, liveliness, losses>>
histVars == <<known, heard, delivered, untimely>>
vars == <<mgrVars, queueVars, netVars, histVars>>

AnnouncementEvents == [op : {"announced", "retired"}, token : Tokens]

LocalEvents ==
  {[op |-> o, kind |-> i.kind, name |-> i.name, node |-> i.node] :
      o \in {"discovered", "undiscovered"}, i \in LocalIfaces}
    \cup {[op |-> "writers_changed", name |-> i.name] :
            i \in {j \in LocalIfaces : j.kind = "MsgPub"}}

Init ==
  /\ InitMgr
  /\ retry_queue = {}
  /\ announcement_retry_queue = {}
  /\ pending_prunes = {}
  /\ phase = "select"
  /\ todo = {}
  /\ link = [z \in Zids |-> "up"]
  /\ transport_events = {}
  /\ alive = {}
  /\ undelivered = {}
  /\ liveliness = <<>>
  /\ losses = 0
  /\ known = {}
  /\ heard = {}
  /\ delivered = {}
  /\ untimely = {}

-----------------------------------------------------------------------------
(* The remote bridges and the session's transports (external). *)

\* A bridge declares or undeclares a token while its transport is up.
Announce(t) ==
  /\ t \notin alive
  /\ link[t.zid] = "up"
  /\ Len(liveliness) < MaxBacklog
  /\ alive' = alive \cup {t}
  /\ liveliness' = Append(liveliness, [op |-> "announced", token |-> t])
  /\ UNCHANGED <<mgrVars, queueVars, histVars, link, transport_events, undelivered, losses>>

Retire(t) ==
  /\ t \in alive \ undelivered
  /\ link[t.zid] = "up"
  /\ Len(liveliness) < MaxBacklog
  /\ alive' = alive \ {t}
  /\ liveliness' = Append(liveliness, [op |-> "retired", token |-> t])
  /\ UNCHANGED <<mgrVars, queueVars, histVars, link, transport_events, undelivered, losses>>

\* A token undeclared while there is no transport: nobody hears of it.
RetireUnheard(t) ==
  /\ t \in alive
  /\ link[t.zid] # "up"
  /\ alive' = alive \ {t}
  /\ UNCHANGED <<mgrVars, queueVars, histVars, link, transport_events, undelivered,
                 liveliness, losses>>

\* The session broadcasts the Delete of a transport and then removes it from
\* its map.  The liveliness tokens of the lost bridge are not undeclared.
TransportLost(z) ==
  /\ link[z] = "up"
  /\ losses < MaxLosses
  /\ losses' = losses + 1
  /\ link' = [link EXCEPT ![z] = "dying"]
  /\ transport_events' = transport_events \cup {z}
  /\ undelivered' = {t \in undelivered : t.zid # z}
  /\ delivered' = {t \in delivered : t.zid # z}
  /\ UNCHANGED <<mgrVars, queueVars, alive, liveliness, known, heard, untimely>>

TransportRemoved(z) ==
  /\ link[z] = "dying"
  /\ link' = [link EXCEPT ![z] = "down"]
  /\ UNCHANGED <<mgrVars, queueVars, histVars, transport_events, alive, undelivered,
                 liveliness, losses>>

\* On the new transport the bridge's tokens are declared again.
Reconnect(z) ==
  /\ link[z] = "down"
  /\ link' = [link EXCEPT ![z] = "up"]
  /\ undelivered' = undelivered \cup {t \in alive : t.zid = z}
  /\ UNCHANGED <<mgrVars, queueVars, histVars, transport_events, alive, liveliness, losses>>

Redeclare(t) ==
  /\ t \in undelivered
  /\ Len(liveliness) < MaxBacklog
  /\ undelivered' = undelivered \ {t}
  /\ liveliness' = Append(liveliness, [op |-> "announced", token |-> t])
  /\ UNCHANGED <<mgrVars, queueVars, histVars, link, transport_events, alive, losses>>

-----------------------------------------------------------------------------
(* The arms of the select. *)

Failed(e, attempts) == {[evt |-> e, attempts |-> attempts]}

\* The events about the same interface have the same key.
interface_key(e) ==
  IF e.op = "writers_changed"
  THEN [kind |-> "LocalWriters", name |-> e.name]
  ELSE [kind |-> e.kind, name |-> e.name, node |-> e.node]

is_allowed(e) ==
  IF e.op = "writers_changed"
  THEN <<"MsgPub", e.name>> \in Allowed
  ELSE <<e.kind, e.name>> \in Allowed

\* Mutant: the allowance of the remote interface itself is checked.
is_announcement_allowed_OwnKind(e) ==
  <<e.token.kind, key_expr_to_ros2_name(e.token.ke)>> \in Allowed

\* A remote interface is allowed if the matching local one is.
is_announcement_allowed(e) == RouteOf(e.token) \in Allowed

\* Mutant: a new event does not supersede a queued retry.
superseded_Kept(queue, e) == queue

superseded(queue, e) ==
  {q \in queue : interface_key(q.evt) # interface_key(e)}

\* A new event supersedes the queued retry about the same interface, and is
\* queued itself if its handler fails.  Events that are not allowed are ignored.
DiscoveryEvent(e) ==
  /\ phase = "select"
  /\ is_allowed(e)
  /\ \E ok \in BOOLEAN :
       /\ on_ros_discovery_event(e, ok)
       /\ retry_queue' = superseded(retry_queue, e)
                           \cup (IF ok THEN {} ELSE Failed(e, 1))
  /\ known' = LET i == [kind |-> e.kind, name |-> e.name, node |-> e.node]
              IN  CASE e.op = "discovered" -> known \cup {i}
                    [] e.op = "undiscovered" -> known \ {i}
                    [] OTHER -> known
  /\ UNCHANGED <<netVars, announcement_retry_queue, pending_prunes, phase, todo,
                 heard, delivered, untimely>>

MatchedReader(name, matched) ==
  /\ phase = "select"
  /\ on_matched_reader_event(name, matched)
  /\ UNCHANGED <<queueVars, netVars, histVars>>

\* Only the announcements of topics are retried; the id of a publisher's one
\* includes the QoS.
msg_route_id(e) ==
  IF e.token.kind \in {"MsgPub", "MsgSub"} THEN {e.token} ELSE {}

announcement_superseded(queue, e) ==
  {q \in queue : msg_route_id(q.evt) = {} \/ msg_route_id(q.evt) # msg_route_id(e)}

LivelinessEvent ==
  /\ phase = "select"
  /\ liveliness # <<>>
  /\ liveliness' = Tail(liveliness)
  /\ LET e == Head(liveliness)
     IN  IF is_announcement_allowed(e)
         THEN /\ \E ok \in BOOLEAN :
                   /\ on_ros_announcement_event(e, ok)
                   /\ announcement_retry_queue' =
                        announcement_superseded(announcement_retry_queue, e)
                          \cup (IF ok \/ msg_route_id(e) = {} THEN {} ELSE Failed(e, 1))
              /\ heard' = IF e.op = "announced" THEN heard \cup {e.token}
                                                ELSE heard \ {e.token}
              /\ delivered' = IF e.op = "announced" /\ link[e.token.zid] = "up"
                              THEN delivered \cup {e.token}
                              ELSE delivered \ {e.token}
         ELSE UNCHANGED <<mgrVars, announcement_retry_queue, heard, delivered>>
  /\ UNCHANGED <<retry_queue, pending_prunes, phase, todo, link, transport_events,
                 alive, undelivered, losses, known, untimely>>

\* The prune is left to the next tick.
TransportEvent(z) ==
  /\ phase = "select"
  /\ z \in transport_events
  /\ transport_events' = transport_events \ {z}
  /\ pending_prunes' = pending_prunes \cup {z}
  /\ UNCHANGED <<mgrVars, histVars, retry_queue, announcement_retry_queue, phase, todo,
                 link, alive, undelivered, liveliness, losses>>

-----------------------------------------------------------------------------
(* The tick of the retry timer: prunes, then announcements, then discovery. *)

\* A tick with nothing to do changes nothing and is not a step.
Tick ==
  /\ phase = "select"
  /\ pending_prunes # {} \/ announcement_retry_queue # {} \/ retry_queue # {}
  /\ phase' = "prune"
  /\ todo' = pending_prunes
  /\ pending_prunes' = {}
  /\ UNCHANGED <<mgrVars, netVars, histVars, retry_queue, announcement_retry_queue>>

\* Mutant: a bridge that has reconnected is pruned too.
Reconnected_Ignored(z) == FALSE

\* peers_zid() and routers_zid() list the transports of the session's map, the
\* ones to clients excepted.
Reconnected(z) == z \notin ClientZids /\ link[z] # "down"

without_retries(queue, z) ==
  {q \in queue : msg_route_id(q.evt) = {} \/ q.evt.token.zid # z}

\* The comment above pending_prunes expects that "one tick later the map reflects
\* reality", but the tick may come at once: the lost transport is still listed, or its
\* bridge's announcements are still to be consumed.
ComesTooEarly(z) ==
  \/ z \notin ClientZids /\ link[z] = "dying"
  \/ \E i \in DOMAIN liveliness :
       liveliness[i].op = "announced" /\ liveliness[i].token.zid = z

\* update_subscriber_writers, which follows, only changes the DDS Writers.
Prune(z) ==
  /\ phase = "prune"
  /\ z \in todo
  /\ todo' = todo \ {z}
  /\ IF Reconnected(z)
     THEN UNCHANGED <<mgrVars, announcement_retry_queue, heard>>
     ELSE /\ on_remote_bridge_left(z)
          /\ announcement_retry_queue' = without_retries(announcement_retry_queue, z)
          /\ heard' = {t \in heard : t.zid # z}
  /\ untimely' = IF ComesTooEarly(z) THEN untimely \cup {z} ELSE untimely \ {z}
  /\ UNCHANGED <<netVars, retry_queue, pending_prunes, phase, known, delivered>>

PrunesDone ==
  /\ phase = "prune"
  /\ todo = {}
  /\ phase' = "reannounce"
  /\ todo' = announcement_retry_queue
  /\ announcement_retry_queue' = {}
  /\ UNCHANGED <<mgrVars, netVars, histVars, retry_queue, pending_prunes>>

\* Mutant: the last allowed attempt is not made.
requeued_OffByOne(q) ==
  IF q.attempts + 1 < MAX_EVENT_RETRIES THEN Failed(q.evt, q.attempts + 1) ELSE {}

\* Given up after MAX_EVENT_RETRIES failed retries.
requeued(q) ==
  IF q.attempts < MAX_EVENT_RETRIES THEN Failed(q.evt, q.attempts + 1) ELSE {}

RetryAnnouncement(q) ==
  /\ phase = "reannounce"
  /\ q \in todo
  /\ todo' = todo \ {q}
  /\ \E ok \in BOOLEAN :
       /\ on_ros_announcement_event(q.evt, ok)
       /\ announcement_retry_queue' =
            announcement_retry_queue \cup (IF ok THEN {} ELSE requeued(q))
  /\ UNCHANGED <<netVars, histVars, retry_queue, pending_prunes, phase>>

ReannouncesDone ==
  /\ phase = "reannounce"
  /\ todo = {}
  /\ phase' = "rediscover"
  /\ todo' = retry_queue
  /\ retry_queue' = {}
  /\ UNCHANGED <<mgrVars, netVars, histVars, announcement_retry_queue, pending_prunes>>

RetryDiscovery(q) ==
  /\ phase = "rediscover"
  /\ q \in todo
  /\ todo' = todo \ {q}
  /\ \E ok \in BOOLEAN :
       /\ on_ros_discovery_event(q.evt, ok)
       /\ retry_queue' = retry_queue \cup (IF ok THEN {} ELSE requeued(q))
  /\ UNCHANGED <<netVars, histVars, announcement_retry_queue, pending_prunes, phase>>

TickDone ==
  /\ phase = "rediscover"
  /\ todo = {}
  /\ phase' = "select"
  /\ UNCHANGED <<mgrVars, netVars, histVars, retry_queue, announcement_retry_queue,
                 pending_prunes, todo>>

TickStep ==
  \/ \E z \in Zids : Prune(z)
  \/ PrunesDone
  \/ \E q \in todo : RetryAnnouncement(q)
  \/ ReannouncesDone
  \/ \E q \in todo : RetryDiscovery(q)
  \/ TickDone

Environment ==
  \/ \E t \in Tokens : Announce(t) \/ Retire(t) \/ RetireUnheard(t) \/ Redeclare(t)
  \/ \E z \in Zids : TransportLost(z) \/ TransportRemoved(z) \/ Reconnect(z)

Next ==
  \/ \E e \in LocalEvents : DiscoveryEvent(e)
  \/ \E name \in MatchedNames, matched \in BOOLEAN : MatchedReader(name, matched)
  \/ LivelinessEvent
  \/ \E z \in Zids : TransportEvent(z)
  \/ Tick
  \/ TickStep
  \/ Environment

Spec == Init /\ [][Next]_vars

\* The timer is periodic and the select serves it however many events come; a
\* tick that has begun goes on to its end.
Fairness == WF_vars(Tick) /\ WF_vars(TickStep)

FairSpec == Spec /\ Fairness

-----------------------------------------------------------------------------
(* Properties *)

Retries(events) == [evt : events, attempts : 1 .. MAX_EVENT_RETRIES]

\* An admin entry stands at the key expression made from the name of its route, whatever
\* key expression the handler that inserted it was given.
AdminKeyed == \A a \in admin : a.ke = ros2_name_to_key_expr(a.name)

\* The state of the loop and of the manager is what the code declares, and the
\* vector a part of the tick works on is the one that part has taken.
TypeOK ==
  /\ routes \in [RouteIds -> Route]
  /\ admin \subseteq AdminEntries /\ AdminKeyed
  /\ misfiled \subseteq RouteIds
  /\ failures \in 0 .. MaxFailures
  /\ retry_queue \subseteq Retries(LocalEvents)
  /\ announcement_retry_queue \subseteq Retries(AnnouncementEvents)
  /\ pending_prunes \subseteq Zids
  /\ phase \in {"select", "prune", "reannounce", "rediscover"}
  /\ phase = "select" => todo = {}
  /\ phase = "prune" => todo \subseteq Zids
  /\ phase = "reannounce" => todo \subseteq Retries(AnnouncementEvents)
  /\ phase = "rediscover" => todo \subseteq Retries(LocalEvents)
  /\ link \in [Zids -> {"up", "dying", "down"}]
  /\ transport_events \subseteq Zids
  /\ alive \subseteq Tokens
  /\ undelivered \subseteq Tokens
  /\ liveliness \in Seq(AnnouncementEvents)
  /\ losses \in 0 .. MaxLosses
  /\ known \subseteq LocalIfaces
  /\ heard \subseteq Tokens
  /\ delivered \subseteq Tokens
  /\ untimely \subseteq Zids

\* The events of each queue, the part taken by the tick included.
QueuedDiscoveries == retry_queue \cup (IF phase = "rediscover" THEN todo ELSE {})
QueuedAnnouncements ==
  announcement_retry_queue \cup (IF phase = "reannounce" THEN todo ELSE {})

\* At most one retry is queued for an interface or for a remote route: the retain
\* that precedes every push (lib.rs) keeps a stale event and its successor from
\* being replayed one after the other.
OneRetryPerKey ==
  /\ \A p, q \in QueuedDiscoveries :
       interface_key(p.evt) = interface_key(q.evt) => p = q
  /\ \A p, q \in QueuedAnnouncements :
       msg_route_id(p.evt) = msg_route_id(q.evt) => p = q

\* A route serves a local node only if the last event about that interface was
\* its discovery: "replaying a stale Discovered after an Undiscovered would
\* create a ghost route that nothing ever retires" (main loop, discovery arm).
NoGhostLocalNode ==
  \A r \in RouteIds : \A n \in routes[r].local \ {MATCHED_READERS_KEY} :
    [kind |-> r[1], name |-> r[2], node |-> n] \in known

\* A route serves a remote route only if the last event of its token was a Put
\* and its bridge was not pruned since: "a queued retry must not resurrect the
\* departed bridge's routes" (main loop, tick).
NoGhostRemoteRoute ==
  \A r \in RouteIds : \A k \in routes[r].remote :
    \E t \in heard : RouteOf(t) = r /\ remote_key(t) = k

\* The users of the routes are justified by what was discovered and heard last, in
\* whatever order retries, events and prunes came.
UsersJustified == NoGhostLocalNode /\ NoGhostRemoteRoute

\* Every route is listed in the admin space under the key it was created with,
\* whichever handler has created it and whatever was removed since.
RoutesListed ==
  \A r \in RouteIds :
    routes[r].live =>
      [kind |-> r[1], ke |-> ros2_name_to_key_expr(r[2]), name |-> r[2]] \in admin

\* Every admin entry has its route: send_admin_reply logs "INTERNAL ERROR: Dangling" for
\* one that has not.  Excepted are the routes that were dropped with the retirement of a
\* token outside of the namespace, which removes the entry at the token's own key
\* expression (RetiredMsgPub and its like), until they are created again.
NoDanglingEntry ==
  \A a \in admin \ AnsweredEntries : <<a.kind, a.name>> \in misfiled

\* The admin space lists the routes that there are, whichever handlers created and
\* dropped them, and no other one but those that a foreign token has left behind.
AdminSpaceExact == RoutesListed /\ NoDanglingEntry

\* The maps of all kinds but the subscribers' keep no route that nobody uses,
\* across failed creations, retries and prunes.
OnlySubscribersLinger ==
  \A r \in RouteIds : routes[r].live /\ is_unused(routes[r]) => r[1] = "MsgSub"

\* A route is announced to the other bridges only while a local node is served,
\* and the routes that are not in a map are not announced.
TokenWhileServed ==
  \A r \in RouteIds : routes[r].token => routes[r].live /\ routes[r].local # {}

\* The allowance of the configuration holds for the routes that remote bridges
\* ask for as for the local ones, retries included.
AllowedRoutesOnly ==
  \A r \in RouteIds : routes[r].live => r \in Allowed

\* No failed creation, retry, announcement or prune leaves a route that is denied, or
\* that nobody uses, a subscriber's excepted.
RoutesJustified == AllowedRoutesOnly /\ OnlySubscribersLinger

\* The remote routes of bridge z that some route still serves.
RemoteOf(z) == {k \in UNION {routes[r].remote : r \in RouteIds} : k.zid = z}

\* The loop has nothing left to do about bridge z.
Quiet(z) ==
  /\ z \notin transport_events \cup pending_prunes
  /\ phase = "prune" => z \notin todo
  /\ \A i \in DOMAIN liveliness : liveliness[i].token.zid # z
  /\ \A t \in undelivered : t.zid # z

\* When a bridge is gone and the loop has nothing left to do about it, no route
\* serves it: its routes do not stay "listed but dead" (on_remote_bridge_left).
\* Excepted is a bridge whose last prune came too early, until its next prune.
DeadBridgePruned ==
  \A z \in Zids : link[z] = "down" /\ Quiet(z) => z \in untimely \/ RemoteOf(z) = {}

\* A token heard on the transport that is up now is served, unless a call has
\* failed: "genuine fast reconnects are correctly detected and spared" by the
\* prune of the previous transport (comment of pending_prunes).  Bridges in client
\* mode are excepted: they "are always pruned" (tick).
LiveEntriesKept ==
  \A t \in delivered : failures = 0 /\ t.zid \notin ClientZids =>
    remote_key(t) \in routes[RouteOf(t)].remote

\* The remote routes follow the transports: those of a lost one go, those of one that
\* came back meanwhile stay.
RemoteFollowsTransport == DeadBridgePruned /\ LiveEntriesKept

\* A route that still has another user is never dropped: what disappears in one
\* step was used by one local node or by one remote bridge at most.
DropsOnlyLastUser ==
  [][\A r \in RouteIds : routes[r].live /\ ~routes'[r].live =>
       \/ routes[r].remote = {} /\ \A m, n \in routes[r].local : m = n
       \/ routes[r].local = {} /\ \A j, k \in routes[r].remote : j.zid = k.zid]_vars

\* With at most MAX_EVENT_RETRIES failed calls, an interface that stays
\* discovered gets its route: a transient failure does not drop the event.
LocalEventuallyRouted ==
  \A i \in LocalIfaces :
    i \in known ~> (i \notin known \/ i.node \in routes[<<i.kind, i.name>>].local)

\* The same for the announcement of a remote topic, which is a one-shot event.
TopicEventuallyRouted ==
  \A t \in {u \in Tokens : u.kind \in {"MsgPub", "MsgSub"}} :
    t \in heard ~> (t \notin heard \/ remote_key(t) \in routes[RouteOf(t)].remote)

\* No transient failure loses what was discovered or announced.
EventuallyRouted == LocalEventuallyRouted /\ TopicEventuallyRouted

=============================================================================
