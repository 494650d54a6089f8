# A verification of the Zenoh bridge for ROS 2 over DDS

TLA+ models of `zenoh-plugin-ros2dds`, the TLC configurations that check them on
small instances, and TLAPS proofs. Paths below are relative to
`zenoh-plugin-ros2dds/src/` in the repository; `PROJECT.json` maps every definition to
the lines it models.

## 1. The system

A bridge makes the ROS 2 graph of one DDS domain visible to other bridges through
Zenoh. It discovers the local nodes, announces their interfaces as Zenoh *liveliness
tokens*, hears the tokens of the other bridges, and keeps a *route* per interface.

| Component | State | Operations | What makes it correct | Module |
|---|---|---|---|---|
| Local discovery (`dds_discovery.rs`, `discovery_mgr.rs`, `discovered_entities.rs`, `node_info.rs`) | DDS participants and endpoints, what each participant declares of its nodes, Writers that no node declares | endpoint found or lost, sample of a participant, poll | the events tell exactly what the nodes have; each Writer has one owner | `DiscoveredEntities`, `NodeInfo` |
| Main loop (`lib.rs`) | two retry queues, pending prunes | one `select!` over discovery events, matched DDS Readers, liveliness events, transport events, the retry timer, admin queries | no event is lost by one failure, none is replayed after its successor; departed bridges are pruned, reconnected ones are not | `BridgeLoop` |
| Routes manager (`routes_mgr.rs`, `events.rs`) | six maps of routes, the admin space | one handler per event of six kinds of interface, prune | routes are kept as long as somebody uses them and no longer; the admin space lists them; the allowance holds | `RoutesMgr` |
| Publisher route (`route_publisher.rs`) | users, token, Readers, matching listener, publishers | announce, retire, rebuild, activate, Drop | Readers exist when they are needed, have the right QoS, and never outlive the route | `RoutePublisher` |
| Forward queue and its thread (`FwdQueue`, ibid., `dds_utils.rs`) | bounded channel, byte and drop counts | push (Reader callbacks), pop and put (thread), stop | never blocks DDS, bounded, in order, exact counts, the thread ends | `FwdQueue` |
| Subscriber route (`route_subscriber.rs`) | users, token, two Writers, Zenoh subscriber, matched Readers | announce, update of the Writers, matched Readers, Drop | Writers and subscriber are what the remote publishers need; Readers that no node declares are served | `RouteSubscriber` |
| QoS derivation (`qos_helpers.rs`) | none | from the QoS of Writers or announcements to the ones of Readers, announcements, Writers | bridging loses no reader and no history | `QosHelpers`, `TopicQos` |
| Service routes (`route_service_srv.rs`, `route_service_cli.rs`) | DDS Reader and Writer, queryable, queries in progress | request, reply, activate, Drop | a call gets one reply at most, its own; the client route is active while it is needed | `ServiceRoutes` |
| `ros_discovery_info` of the bridge (`ros_discovery.rs`) | gids of the routes' Readers and Writers | add, remove, periodic write | what is written becomes what there is | `RosDiscoveryInfo` |
| Action routes (`route_action_*.rs`) | three service and two topic routes each | as theirs | as theirs | in part: `RoutesMgr`, `NodeInfo` |
| Liveliness key expressions, types, identifiers (`liveliness_mgt.rs`, `dds_types.rs`, `gid.rs`, `ros2_utils.rs`) | none | conversions | | in part: `TopicQos`, `NodeInfo`, `ServiceRoutes` |
| Configuration, executable, tests | | | | not modelled |

How they interact. DDS reports participants and endpoints to the discovery task, which
reads what the participants publish on `ros_discovery_info` and sends events to the
main loop through a channel. The main loop calls the routes manager, one handler at a
time; handlers declare tokens, publishers, queryables and DDS entities, and any of
these calls may fail. Tokens become liveliness events of the other bridges. Three kinds
of threads run beside the loop: the callbacks of DDS Readers (one delivery thread, or a
task per Reader with a read period), the callbacks of Zenoh (matching listeners,
subscribers, queryables), and one forwarder thread per publisher route. They share the
route's state through `activation_lock`, atomics and the forward channel. The gids of the
routes' own Readers and Writers go to `ros_discovery_info`, so that ROS sees them as a node's.

The hard parts are listed as *hazards* in `PROJECT.json`, each at the line where it
bites, with the properties that cover it: retries that race newer events; the loss and
return of a transport, which undeclares no token; declarations and endpoints in any order;
the order of the announcements and of the Readers they announce; the concurrency of
callbacks, rebuilds and Drop; failures in the middle of a sequence of calls; requests that
share an id; QoS and history arithmetic.

## 2. The modules

    NodeInfo, Subsequences <- DiscoveredEntities <- MCDiscoveredEntities, DiscoveredEntitiesProofs
                                                                WriterClaims (instance of)
    RoutesMgr <- BridgeLoop <- MCBridgeLoop
                            <- BridgeLoopProofs
    Subsequences <- QosHelpers <- TopicQos       <- MCTopicQos, TopicQosProofs
                               <- RoutePublisher <- MCRoutePublisher, RoutePublisherProofs
    FwdQueue        <- MCFwdQueue, FwdQueueProofs
    RouteSubscriber <- MCRouteSubscriber, RouteSubscriberProofs
    RosDiscoveryInfo <- ServiceRoutes <- MCServiceRoutes, ServiceRoutesProofs
                                                                ServiceCall (instance of)
    Subsequences <- FoldTheorems <- FwdQueueProofs, TopicQosProofs, DiscoveredEntitiesProofs

An arrow is an EXTENDS. An MC module adds the values for TLC, each `MC*_<run>.cfg` is
one run. A definition called *Mutant* is a variant of the one that follows it and is
used by no specification: with it in place of the original TLC finds the property
violated that `PROJECT.json` names, so the property depends on that piece of code.
Actions marked *external* are what DDS, Zenoh, ROS nodes and other bridges do.

**RoutesMgr** is `RoutesMgr` with the six `routes_*` maps as one function `routes` from
kind and name to a route or `NoRoute`. A route is what the manager sees of it: its local
nodes, its remote routes (`"<zid>:<key expr>"`, with the QoS for publishers), and
whether its token is declared. A handler is an action with a parameter `ok`, its
result: a failed creation leaves the maps alone, a failed update after
`add_local_node` leaves the node in the route, a failed announcement is only logged.
`admin` holds the entries of the admin space; an entry is inserted at the key expression
made from the name and removed, as in the code, sometimes at that one and sometimes at
the key expression that was heard; `misfiled` records the routes that were dropped with a
key expression which is not theirs. Names and key expressions are sequences of segments,
and the configured namespace is a prefix of segments, as `ros2_name_to_key_expr` and
`key_expr_to_ros2_name` treat it. The code strips it as text (`ros2_utils.rs:122`), so that
`bot10/a` under `/bot1` becomes `0/a`: a prefix that ends within a segment is left out.

**BridgeLoop** is `ROS2PluginRuntime::run`: one action per arm of the `select!`. The tick
of the retry timer is cut into the steps it consists of (each prune, each retried
announcement, each retried discovery); the loop serves no other arm meanwhile, but the
surroundings go on, since the handlers await. The retry queues are sets, which makes
the order of the retries arbitrary. The surroundings are the remote
bridges, which declare and undeclare tokens, and the transports: a lost transport is
first reported (`transport_events`), then removed from the session's map (`dying`,
`down`), and may come back, upon which the tokens are declared again in any order.
Local discovery events arrive in any order, which includes the ones that the discovery
never produces: `DiscoveredEntities` shows which it does. `known`, `heard` and
`delivered` are history variables: which interfaces and tokens the last event was an
arrival of. `untimely` is another one: the bridges whose last prune came too early, because
the tick still found the lost transport in the session's map, or an announcement of the
bridge still to be consumed (`ComesTooEarly`).

**NodeInfo** holds what `node_info.rs` knows of a node, as operators with the names of the
methods: a method yields the node it leaves and the events it returns. The name of a DDS
topic is given as its parts (prefix, ROS name, suffix); from them an endpoint is one of a
publisher or subscriber, or one of the ends of a service or action, which is discovered
when the last of its ends is there and undiscovered with the first one that goes.
**DiscoveredEntities** is the task around it: the participants, Writers and Readers that DDS
announces and withdraws when it likes, the endpoints that a node declares before they are
announced, the sample of each participant (only the last one is read), the poll that reads
the samples, resolves what is pending and sweeps the Writers that no node has declared for
`ORPHAN_GRACE_PERIOD` to the synthetic node, and the transfer of a Writer from there
to the node that declares it. A step's events are `evts`, in order, and
`local_nodes` is what a consumer makes of them: the last event about an interface decides.
A poll meets the endpoints and the names in any order that the system has (`world.orders`,
`world.nodeOrders`), as the maps of the code do. **WriterClaims** is the abstract
specification: a Writer has one owner, the synthetic node only while no node declares it, and
does not stay without one.

**RoutePublisher** is the life of one publisher route of a topic: the task of the manager
that changes it, one step per call that another thread can observe or that can fail, and
the callback of its matching listener, which creates and deletes the DDS Readers under
`activation_lock`. `undeclare().wait_callbacks()` waits for the callback; the callback
reports the changes of the matching status since the listener was declared. Every call
to Zenoh and to Cyclone DDS may fail, up to `MaxFailures`. The local Writers and the
remote subscribers change at any time.

**FwdQueue** is the data path of that route: `push`, the forwarder's loop, the Drop of
the owner, one step per access to the channel, the byte count, the limit or the flag.
Readers with a listener (`Periodic = FALSE`) are deleted only when their callback has
returned; the task of a Reader with a read period may push one sample late. `put` is
assumed to return.

**RouteSubscriber** is the life of one subscriber route under its manager. The update of the
Writers (`update_writer`) is a sequence of stages, each of which may fail: declare the
subscriber that an earlier failure has lost, create or delete the VOLATILE Writer, create
the new first Writer beside the old one, attach its listener, report the Readers that have
matched it already, replace the old one by it, declare the subscriber again. An activation (`announce_route`) shares the stages. A failed
event of a publisher is queued for a retry, a failed update after a prune is not. DDS
matches Readers with the Writer and reports it through a channel without the Writer's name,
and a task checks a rebuilt Writer again after `MATCH_RECHECK_DELAY`. `outdated`,
`late` and `unretried` record which of the races that the code leaves open has happened, so
that the properties can except them and nothing else.

**ServiceRoutes** puts the client route of one bridge and the server route of another together,
with requests and replies between them as sets (in any order, any delay). The client route
is activated and deactivated by the main loop and by the matching callback, in the steps in
which they take `activation_lock`; the server route keeps its queries in progress under the
request id, which another query may have too. **ServiceCall** is what a client sees: a call
gets one reply at most, that of a server that was asked under its id, and none after it was
given up. `RosDiscoveryInfo` is what both kinds of entities are published with: the gids, the
flag, the periodic write, and a write that fails after the flag was reset.

**QosHelpers** translates `qos_helpers.rs` to operators. A QoS is reduced to the policies
that `same_route_qos` compares. The loops of the code are said by what they compute: the
strongest history is the first KEEP_ALL or the greatest depth, the summed depth is a sum over
a set of positions, and a filter is the operator of **Subsequences**: the elements at some
positions, in their order. **TopicQos** composes them to one topic across bridges:
each announcing bridge follows its Writers (`update_local_writers`), its tokens travel in
order to a receiving bridge, which follows the announcements (`update_writer`). Calls do
not fail there; failures are RoutePublisher's and RouteSubscriber's subject, which abstract
the QoS to what decides between their branches.

## 3. The runs

| Run | Module | States | What it shows |
|---|---|---|---|
| `discovery` | DiscoveredEntities | 123 k | Seven small DDS systems (publishers with and without a declaring node, two participants, two clients of a service in one node, refused names, excluded topics, both ends of an action), one loss, every order of announcements, samples, polls and withdrawals: the events match the nodes, the admin space is exact, `WriterClaims` is implemented, a transfer does not empty a route, and discovery converges |
| `loop` | BridgeLoop | 726 k | With a namespace, a local subscriber, undeclared DDS Readers, the publishers of two remote bridges (one in client mode, which announces a key expression outside of the namespace), one loss of a transport and one failure: the users of each route are exactly justified, tokens only while served, routes dropped with their last user only, departed bridges pruned, reconnected ones kept, the admin space exact |
| `retries` | BridgeLoop | 35 k | With two failures and `MAX_EVENT_RETRIES = 2`: at most one retry per key, no route that is denied or unused, and under fairness every interface and topic that stays is routed |
| `publisher` | RoutePublisher | 1.1 M | No Reader outlives the route or has a stale QoS; QoS and announcements follow the Writers after failures; a route that serves a matching bridge is not "listed but dead" |
| `pushes` | FwdQueue | 1.0 M | Two callbacks, forwarder, rebuilds and Drop: counts exact, queue bounded by limit and budget up to what is in flight, order kept, nothing retained |
| `stop` | FwdQueue | 20 k | The thread of a dropped route ends and every sample settles, with Readers that push late and may evict `Stop` |
| `topic` | TopicQos | 841 k | Four Writers of different QoS on one bridge, or Writers of both durabilities on two: each is read exactly once, the receiver has exactly the announcements, no reader near it loses the topic to an incompatible QoS, marked samples have their Writer, the history of all TRANSIENT_LOCAL Writers fits, a VOLATILE Reader never precedes its announcement |
| `subscriber` | RouteSubscriber | 650 k | A node, publishers of every durability on two bridges and two failures, or undeclared Readers and rebuilds: Writers and Zenoh subscriber follow the remote publishers whatever step has failed, and the synthetic node stands for the Readers that match |
| `services` | ServiceRoutes | 778 k | Activations from both sides with failures, a reactivation between request and reply, a request that two bridges route, an application's queries: the client route settles, its published gids are its entities, `ServiceCall` is implemented, and no query is given up for another one |

Three runs show where the code differs from what its comments say. Each checks
one property and TLC finds it violated (`findings` in `PROJECT.json`):

- `plain`: the Readers are deleted with the last remote bridge although another Zenoh
  subscriber matches, and nothing brings them back (`route_publisher.rs:846`).
- `departed`: the Writers of a participant that ends before them leave their topics
  without `LocalWritersChanged` (`discovered_entities.rs:128`).
- `unfed`: the last publisher of a history goes, the new Zenoh subscriber cannot be
  declared, and the retry takes the route for up to date (`route_subscriber.rs:361`).
  `AnnouncedReceives` speaks of states in which everything that failed was repeated; with
  the repair also made for a route without publishers, TLC finds it to hold.

Other disagreements that came up while modelling; the properties are stated so that they
except them:

- The route of undeclared DDS Readers stays in its map when they leave
  (`on_matched_reader_event` does not drop it): `RoutesJustified` excepts subscriber routes.
- With a namespace, the admin entry of a route made for a token outside of it dangles
  after the token is retired, since the entry is removed at the token's key expression and
  not at the one that it was inserted at (`routes_mgr.rs:411`). The `loop` run has such a
  token; `AdminSpaceExact` excepts the routes in `misfiled`, until they are created again.
- A prune may come too early: the timer is periodic, so that the tick after a loss may come at
  once, where the comment on `pending_prunes` (`lib.rs:516-521`) expects one interval. It
  then finds the lost transport still listed and spares its routes for good, or prunes
  before the last announcements of the bridge are consumed, which create them again. Both
  happen in the runs; `RemoteFollowsTransport` excepts the bridges in `untimely`, until
  their next prune.
- A rebuild that fails to declare its matching listener is not retried if the Writers have
  changed back meanwhile; the route has no listener (`broken` in RoutePublisher).
- VOLATILE Writers of one bridge and TRANSIENT_LOCAL ones of another share the receiver's
  history: `HistoryHeld` counts the latter only.
- A service client route is deactivated with the last remote bridge although an application's
  queryable may match, as `plain` shows of publishers.
- An invalid or error reply to a routed request counts as the call's reply.
- A write of `ros_discovery_info` that fails has reset `has_changed`: it is not repeated.
- An update of the Writers that fails after a prune is only logged (`unretried`).
- `update_participant_info` stops at the first node whose name is refused (`break`, line
  422) and never looks at the ones after it.
- `ros_participant_info` and the lists of undiscovered endpoints are never cleared. If DDS
  announces an endpoint that its node has given up meanwhile, the node gets it all the same,
  until DDS withdraws it: with `Late = TRUE` TLC finds `ClaimsKept` violated so.
- Of two Writers on a topic, in one node but of different types, `update_msg_pub` ignores the
  second (`node_info.rs:638`). The sweep, which asks the nodes and not what they declare, takes
  it for one "NOT declared by any ROS node" (`DEFAULT_CONFIG.json5:128`) and attaches it to the
  synthetic node. The systems that are checked have one type for each topic: with another
  one TLC finds `ClaimsKept` violated.
- Two clients of one service in one node share one entry, which goes with the first one:
  `DiscoveryConverges` is about nodes without such twins (`world.sane`).

Bounds, and why they are enough. Routes of different names share nothing but the retry
queues, the failures and the admin space, so one or two names and two nodes show the
interactions; a second bridge matters for prunes only. Two announcements of one bridge
on a topic (two QoS) are the re-announcement case. `MaxBacklog = 2` lets a retirement
overtake a retry; `MaxLosses = 1` covers loss, return before the tick and return after
it; two failures exhaust `MAX_EVENT_RETRIES = 2`. In FwdQueue two callbacks, a channel of
three and payloads above and below the budget give every order of checks and sends, and
the channel can be full, over the limit and over the budget. In RoutePublisher two
changes of the Writers and one failure reach a rebuild, a replacement of the VOLATILE
Reader, a failed step of either and its retry. In RouteSubscriber two bridges with both
durabilities make the Writers mix, change and stop mixing within five changes, and two
failures let a retry fail. In DiscoveredEntities a system has two to four endpoints, or
the eight ends of an action; nodes of different participants meet in `local_nodes` only; one
tick is the grace period, so that a sweep can find a Writer too young and old enough;
`Late = FALSE` leaves out announcements of what has gone already (see above). In
ServiceRoutes three activations let a reply meet the next Reader but one. In TopicQos
the QoS are chosen so that reliability, durability and history differ in each combination
that the code separates.

Deadlock is checked except where the system stops because a thread ends (`stop`) or because
the changes are bounded (`subscriber`, `unfed`, `services`).

Fairness. BridgeLoop: weak fairness of the tick and of its steps; the timer is periodic,
the `select!` serves it whatever else is ready, and a tick that has begun goes on. FwdQueue:
weak fairness of each callback's push once begun, of the forwarder and of the owner's
Drop, which are threads that the operating system schedules, and of the freeing of
the channel with its last user; samples and the decision to drop the route are not fair.
DiscoveredEntities: DDS announces at last what exists and withdraws what it announced (its
discovery protocols repeat themselves), the poll timer goes on and time passes; this is
stated of the states that must recur, as the actions have many parameters. ServiceRoutes:
Zenoh ends each query, with its timeout if nothing else does.

Nothing is assumed of the time between a loss and the tick that treats it. Bridges in
client mode are always pruned, as the code says.

## 4. The proofs

Each theorem holds for every value of the constants under the named ASSUMEs of the
modules, which TLC evaluates in the runs, and any further hypothesis the table names.

| Module | Theorem | Property |
|---|---|---|
| BridgeLoopProofs | `TypeCorrect` | `TypeOK` |
| | `UsersAreJustified` (`LocalNodesAreThere`, `RemoteRoutesAreHeard`) | `UsersJustified` |
| | `RoutesAreJustified` (`AllowanceRespected`, `UnusedRoutesAreSubscribers`) | `RoutesJustified` |
| | `AnnouncedWhileServed` | `TokenWhileServed` |
| | `AdminSpaceIsExact` (`AdminSpaceComplete`, `AdminSpaceSound`) | `AdminSpaceExact`; `AdminSpaceSound`: besides, an entry without a route stands under a name of a token outside of the namespace (`Foreign`) |
| | `RoutesOutliveUsers` | `DropsOnlyLastUser` |
| | `OneRetry` | `OneRetryPerKey` |
| | `RemoteRoutesFollow` | `RemoteFollowsTransport` |
| RoutePublisherProofs | `TypeCorrect` | `TypeOK` |
| | `ReadersAreOwned` (`ReadersAreCurrent`, `NothingAfterDrop`) | `ReadersOwned` |
| | `ServedRoutesRead` | `NotListedButDead` |
| | `QosFollowsWriters` | `FollowsWriters` |
| FwdQueueProofs | `SamplesInOrder` | `InOrder` |
| | `PayloadsFreed` | `NothingRetained`, if `~Periodic` |
| | `CountsAreExact` (`BytesInvariant`, `DroppedInvariant`) | `CountsExact` |
| | `QueueIsBounded` (`LimitKept`, `PayloadBounded`) | `QueueBounded`, if `~Periodic` |
| | `TypeCorrect` | `TypeOK` |
| ServiceRoutesProofs | `ImplementsCall` | `Call!Safety`: the refinement of `ServiceCall` (the safety part of `CallsKept`) |
| | `QueriesAreKept` | `QueryKept` |
| | `TypeCorrect`, `RoutesSettle` | `TypeOK`, `RouteSettles` |
| RouteSubscriberProofs | `TypeCorrect` | `TypeOK` |
| | `FollowsRemotes` | `RouteFollowsRemotes` |
| | `MatchedAreServed` | `MatchedReadersServed` |
| TopicQosProofs | `TypeCorrect` | `TypeOK` |
| | `WritersReadOnce` | `EachWriterReadOnce` |
| | `MarkedAnnounced` | `VolatileAnnouncedFirst` |
| | `AnnouncedAreServed` | `RemoteIsAnnounced` |
| | `MarkedAreWritten` | `MarkedSamplesWritten` |
| | `ReadersMatch` | `TransparentToReaders` |
| | `HistoriesAreHeld` | `HistoryHeld` |
| DiscoveredEntitiesProofs | `TypeCorrect` | `TypeOK` |
| | `AdminSpaceIsExact` | `AdminSpaceExact` |
| | `EventsMatch` | `EventsMatchNodes`, if `UniqueNodeNames`: no two participants have nodes of one name |
| | `TransfersKeepRoute` | `TransferKeepsRoute`, if `UniqueNodeNames` |

The arguments, each an inductive invariant and one lemma per handler or stage:

- *BridgeLoop.* `NoGhostLocalNode` is not inductive: a retry in the queue may add a node.
  `IInv` therefore says of the queues that a queued discovery is one of an interface that
  is still known, and a queued announcement one of a token still heard of, and that both
  are allowed (`QueuedDiscoveriesValid`, `QueuedAnnouncementsValid`). These hold because a
  new event, and a prune, remove the retries they supersede. The manager's part
  (`MgrInv`) is kept by each handler alone; `AdminKeyed` relates the entries to the names
  and `KeyOfName` (the namespace prefix is injective) keeps the entries of different names
  apart; `MisfiledForeign` says that only a token outside of the namespace misfiles. `OneRetry` needs in addition that what the tick is about to retry and what is
  queued have no key in common. `RemoteRoutesFollow` rests on `LossesTreated`: a lost bridge
  is waited for by a prune, or its last prune came too early, or it is forgotten by the routes,
  by the queues and by the events still to be consumed.
- *RoutePublisher.* `IInv` says who may create Readers when: a callback needs a declared
  listener; while the listener is declared, the publishers are those of the Readers' QoS;
  a route without listener has no Readers and `is_matching` is FALSE where the manager may
  read it. `ServedInv` adds that the flag is the status reported last, and that a match of
  a served bridge is treated or about to be. `FollowInv` (`AdaptedSoFar`) says which of
  token and Readers each stage of an event has adapted to the Writers; what breaks it sets
  `changed` or queues a retry.
- *FwdQueue.* `OrderInv`: while a callback pushes, its sample is younger than all of its
  Reader's in the queue and in the forwarder's hands. `ListenInv`: no callback runs for
  a deleted Reader, and Drop deletes the Readers before it tells the forwarder to end.
  `Bounded` counts the callbacks that have found room in the queue. `PlaceInv` says in which
  one place each sample is, so that the byte count is the sum of what is queued and of what
  a callback or the forwarder has still to book, and the drop count the number of samples that
  were evicted or refused. `Within` is the budget with the callbacks that have found it kept;
  it breaks the sum of the payloads into what a callback has seen and what the other ones add.
- *ServiceRoutes.* `CallInv` follows a request: what waits on the server's side for a
  client's reply waits under the id of its request (`OwnId`), so what comes back was answered
  under that id (`RepliesAnswered`); the client's side lets one reply through (`OneReply`).
  With it every step is one of `ServiceCall` or leaves its variables alone (`StepsKeepCalls`).
  `RouteInv` says which entities, gids and reported changes each step under
  `activation_lock` leaves.
- *RouteSubscriber.* `FollowInv` says of each stage what the stages before have done: which
  of the two Writers has been seen to (`WritersInv`), that an update heals first
  (`FedInv`), that the subscriber fits its Writer unless it is to be declared again
  (`SubscriberInv`). A stage that fails queues its event or, after a prune, is on record;
  an activation leaves the Writers as the last update has left them. `MatchInv` says of the
  Readers that DDS matches: the last event that a Writer has sent tells what matches it now
  (`LastTells`), also of the Writer that is about to replace the one in use (`NewTells`), and a
  Writer that has replaced one with Readers is to be checked again.
- *TopicQos.* The lemmas `ReadersCalledFor`, `AnnouncementsCalledFor` and `WritersCalledFor`
  say what the functions of `qos_helpers.rs` yield for any sequence of QoS: when they split,
  and which reliability, durability and history each part has. `Follows` relates tokens and
  Readers of a bridge to the Writers that its last update has read, stage by stage. `Tells`
  is the protocol between the bridges: the last event on its way about a QoS says whether it
  is declared, and without one the receiver serves it exactly if it is declared; that a
  re-announcement declares before it retires does not matter then. `WriterFollows` relates the
  receiver's Writers to what it serves. When all has settled the three compose.
  `HistoriesAreHeld` is arithmetic: the sum over all Writers is the sum over the bridges of
  their sums (`SumOfClasses`), each announcement holds its bridge's sum or the cap, and the
  receiver adds the announcements up to the cap again (`SumDominates`). Two bridges' equal
  announcements are told apart by the bridge, which is why the key has it.

- *DiscoveredEntities.* `NodeOk` says of a node that each of its endpoints is in its place: a
  method of `NodeInfo` that is given an endpoint (`UpdatedWith`), or told that it is gone
  (`RemovedFrom`), keeps that, and returns the events that tell what it has changed of the
  interfaces that are complete (`TellsFound`, `TellsLost`). `Follows` says so of any sequence of
  events, whatever was known before, and composes (`FollowsJoined`), which carries the claim
  through a fold of methods: the endpoints of a sample (`InfoUpdated`), the nodes of a
  participant (`ParticipantUpdated`), the participants of a poll (`InformedGood`), the Writers
  that are swept (`OrphansGood`). Of each of these `Good` says that the nodes are in order, the
  admin space lists them and the events so far have told of them. `PendingGood` shows that
  `resolve_pending_endpoints` finds nothing to do: an announcement has always resolved the
  node that waits for it, and a declared endpoint that is known is never remembered as
  missing. `Tells` is the same of the state, and inductive together with what DDS has told
  (`IInv`). That an endpoint belongs to one node, whose name no other participant uses, is needed
  for `EventsMatch` only: events name a node without its participant, so that otherwise the node
  that goes would take the other one's interfaces with it.

  `TransfersKeepRoute` is about one Writer and one poll. Before the poll the synthetic node of
  its participant has it and its own node does not (`Ready`). Each stage of
  `check_ros_discovery_info_updates` keeps `Safe`: either that still holds, or the Writer's own
  node has got a publisher on its topic, and at each position of the events so far one of the
  two nodes has one discovered (`Covered`). The samples of other participants are about other
  nodes (`OtherSample`); of its own, `RetainedKeeps`, `ListedKeeps` and `TransferKeeps` go
  through the nodes that are left, those that are listed and the Writers that move, and
  `OwnSample` puts them together; `ClaimedKeeps` is the sweep of the unclaimed Writers. The
  argument rests on `CoverKept`: the events of one method are all `Discovered` or all
  `Undiscovered`, so that an interface that is complete before and after them is known all the
  time. A step that is no poll moves no Writer (`NotMoved`). That no participant has a node of
  the same name is needed here too: its end would undiscover the route.

Induction over data. `FoldTheorems` proves induction over the numbers and over the subsets of
a finite set for properties that are given as sets, from the well-foundedness of `<` on the
naturals (`WFMin`); the library's induction theorems, which take an operator, cannot be
instantiated here. With it the module shows that the recursive functions behind the sums of
the community modules and behind `Subsequence` exist and are unique, and from that the laws
of sums (of a set with one element more, of two functions, of classes), of subsequences
(which elements they have, and where) and of folds, over sets and over the positions of a
sequence (what each step keeps, a fold does). Constants that are summed over are assumed finite:
`Bridges` of TopicQos and the payload sizes `Lens` of FwdQueue; the QoS of the Writers of a
bridge are a finite sequence (`WriterQoses \in Seq(EntityQoses)`), and those of RoutePublisher
likewise (`Profiles \subseteq Seq(EntityQoses)`). A DDS system has finitely many endpoints, each
with a gid of its own, and no ROS node has the name of a synthetic one (`WorldsAssumption`): its
prefix is the bridge's own (`discovered_entities.rs:645`).

Only model-checked: everything under fairness (`EventuallyRouted`, `ForwarderEnds`,
`SamplesSettle`, `DiscoveryConverges`, the liveness parts of `CallsKept` and `ClaimsKept`),
which is out of the prover's reach; and the safety part of `ClaimsKept`, which needs in addition
what each node has declared but DDS has not announced yet, after each step of a poll.

## 5. Not modelled

- Formats: key expressions, CDR, gids, JSON, type hashes, and the QoS policies outside of
  `same_route_qos`. What a conversion keeps apart is modelled where a property needs it: the
  parts of a topic name, the QoS in a token, the ids of requests.
- `config.rs`: parsing and defaults, read once; the values that matter are CONSTANTs. The
  executable in `zenoh-bridge-ros2dds` (command line, no state) and the tests.
- The FFI to Cyclone DDS and the reuse of its entity handles (`dds_utils.rs:463`): the modules
  number entities and never use a number twice.
- What the sample callback of a subscriber route does with a payload; which Writer takes a
  sample is `route_writer_for` in QosHelpers.
- Action routes beyond their users, token and discovery: three service and two topic routes
  of the modelled kinds, whose composition in one route is not modelled.
- The composition of all modules in one. They meet at narrow interfaces, and the one that is
  called for is assumed to do anything: BridgeLoop takes local events in any order, the
  routes take users, remote routes and failures in any order.
