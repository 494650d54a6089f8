-------------------------- MODULE DiscoveredEntities --------------------------
(***************************************************************************)
(* The discovery of the local ROS system (discovered_entities.rs and       *)
(* discovery_mgr.rs): the task that is told of DDS participants, Writers   *)
(* and Readers, that reads periodically what each participant publishes of *)
(* its nodes on ros_discovery_info, and that turns both into the events of *)
(* the main loop.                                                          *)
(*                                                                         *)
(* DDS announces each entity, and its end, when it likes; a participant's  *)
(* samples on ros_discovery_info replace each other until the task reads   *)
(* them.                                                                   *)
(***************************************************************************)
EXTENDS NodeInfo, Subsequences

CONSTANTS
  Worlds,                  \* the DDS systems to be discovered
  Nobody,                  \* the node of an endpoint that no node ever declares
  BadNodes,                \* node names that are no key expressions
  ORPHAN_EXCLUDED_TOPICS,
  ORPHAN_GRACE_PERIOD,     \* in ticks
  ForwardUnclaimed,        \* the option forward_unclaimed_publishers
  Late,                    \* DDS may announce what is gone by then
  MaxLosses                \* bound on the endpoints and participants that go, of the mortal ones

ASSUME DiscoveredEntitiesAssumption ==
  /\ ORPHAN_GRACE_PERIOD \in Nat
  /\ ForwardUnclaimed \in BOOLEAN
  /\ Late \in BOOLEAN
  /\ MaxLosses \in Nat

\* The synthetic node of a participant.
OrphanNode(p) == "/_zenoh_orphan_endpoints_" \o p

\* A system has finitely many endpoints, each with a gid of its own, and the synthetic
\* nodes have names of their own.
ASSUME WorldsAssumption ==
  \A w \in Worlds :
    LET gids == DOMAIN w.ends
        owners == {w.ends[g].participant : g \in gids}
    IN  /\ IsFiniteSet(gids)
        /\ \A g \in gids : w.ends[g].key = g
        /\ gids \cap (owners \cup {NOT_DISCOVERED}) = {}
        /\ w.orders \subseteq Seq(gids)
        /\ w.nodeOrders \subseteq Seq(STRING)
        /\ \A p, q \in owners : OrphanNode(p) = OrphanNode(q) => p = q
        /\ \A g \in gids, p \in owners : w.ends[g].node # OrphanNode(p)

VARIABLES
  world,     \* the one that is there
  alive,     \* its participants and endpoints that exist
  declared,  \* the endpoints that the participants' last samples list
  inbox,     \* the participants with a sample to be read
  sedp,      \* what DDS has told of each entity: nothing, "seen", "gone"
  losses,
  participants, writers, readers, ros_participant_info, nodes_info, admin_space,
  orphan_first_seen,
  polls,       \* how often the poll timer has fired, modulo 2
  evts,        \* the events of the last step, in order
  local_nodes  \* history: the interfaces that the events have left discovered

ddsVars == <<world, alive, declared, inbox, sedp, losses>>
mapVars == <<participants, writers, readers>>
nodeVars == <<ros_participant_info, nodes_info, admin_space, orphan_first_seen>>
vars == <<ddsVars, mapVars, nodeVars, polls, evts, local_nodes>>

Gids == DOMAIN world.ends
EntityOf(g) == world.ends[g]
EndsOf(p) == {g \in Gids : EntityOf(g).participant = p}
Participants == {EntityOf(g).participant : g \in Gids}
IsWriter(g) == EntityOf(g).dir = "Writer"
IsMessage(g) == EntityOf(g).topic.prefix = "rt" /\ EntityOf(g).topic.suffix = "msg"
TopicName(g) == EntityOf(g).topic.name

is_orphan_node_name(n) == n \in {OrphanNode(p) : p \in Participants}

\* The interface and the end of it that an endpoint is.
Provided(entity) ==
  LET fresh == create(entity.node)
      node == IF entity.dir = "Writer" THEN update_with_writer(fresh, entity).node
              ELSE update_with_reader(fresh, entity).node
      name == entity.topic.name
  IN  {<<kind, name, "">> : kind \in {k \in MsgKinds : DOMAIN node[k] # {}}}
        \cup UNION {UNION {{<<kind, n, end>> : end \in
                             {e \in Entities(kind) : node[kind][n].ends[e] = entity.key}} :
                             n \in DOMAIN node[kind]} : kind \in Range(CallKinds)}

\* A system, with what its endpoints provide, and its sane nodes: those of participants
\* whose nodes all have names that the bridge accepts, and that have one endpoint for each
\* end of a service or an action.
Described(w) ==
  LET ends == w.ends
      provided == [g \in DOMAIN ends |-> Provided(ends[g])]
      Mates(g) == {x \in DOMAIN ends : ends[x].participant = ends[g].participant}
      Twins(g) == {x \in DOMAIN ends \ {g} :
                     /\ ends[x].node = ends[g].node
                     /\ \E e \in provided[x] \cap provided[g] : e[3] # ""}
  IN  [ends |-> ends, orders |-> w.orders, nodeOrders |-> w.nodeOrders, mortal |-> w.mortal,
       provided |-> provided,
       sane |-> {n \in {ends[g].node : g \in DOMAIN ends} \ {Nobody} :
                  \A g \in {x \in DOMAIN ends : ends[x].node = n} :
                    Twins(g) = {} /\ \A x \in Mates(g) : ends[x].node \notin BadNodes}]

NodeIds == UNION {{p} \X DOMAIN nodes_info[p] : p \in DOMAIN nodes_info}
NodeAt(id) == nodes_info[id[1]][id[2]]

Init ==
  /\ world \in {Described(w) : w \in Worlds}
  /\ alive = Gids \cup Participants
  /\ declared = {}
  /\ inbox = {}
  /\ sedp = [x \in Gids \cup Participants |-> "new"]
  /\ losses = 0
  /\ participants = {} /\ writers = {} /\ readers = {}
  /\ ros_participant_info = <<>>
  /\ nodes_info = <<>>
  /\ admin_space = {}
  /\ orphan_first_seen = <<>>
  /\ polls = 0
  /\ evts = <<>>
  /\ local_nodes = {}

-----------------------------------------------------------------------------
(* The events and their history. *)

Interface(e) == <<e.node, e.kind, e.name>>

\* What the first k events of the step leave discovered: of each interface the last one
\* about it decides.
After(k, known, events) ==
  LET of == {i \in 1 .. k : events[i].ev \in {"Discovered", "Undiscovered"}}
      About(x) == {i \in of : Interface(events[i]) = x}
  IN  {x \in known : About(x) = {}}
        \cup {x \in {Interface(events[i]) : i \in of} :
                events[Max(About(x))].ev = "Discovered"}

Send(events) ==
  /\ evts' = events
  /\ local_nodes' = After(Len(events), local_nodes, events)

\* A Writer has come or gone on a message topic.
local_writers_changed(g) ==
  IF IsMessage(g)
  THEN <<[ev |-> "LocalWritersChanged", name |-> TopicName(g)]>> ELSE <<>>

-----------------------------------------------------------------------------
(* DDS (external). *)

\* A node publishes its endpoints; a sample that was not read yet is replaced.
DeclareNode(n) ==
  LET ends == {g \in Gids \cap alive : EntityOf(g).node = n}
  IN  /\ n # Nobody
      /\ ~(ends \subseteq declared)
      /\ declared' = declared \cup ends
      /\ inbox' = inbox \cup {EntityOf(g).participant : g \in ends}
      /\ UNCHANGED <<world, alive, sedp, losses, mapVars, nodeVars, polls, local_nodes>>
      /\ evts' = <<>>

\* A node deletes an endpoint, and publishes that; it goes with its last one.
Destroy(g) ==
  /\ g \in Gids \cap alive \cap world.mortal
  /\ losses < MaxLosses
  /\ losses' = losses + 1
  /\ alive' = alive \ {g}
  /\ declared' = declared \ {g}
  /\ inbox' = inbox \cup {EntityOf(x).participant : x \in {g} \cap declared}
  /\ UNCHANGED <<world, sedp, mapVars, nodeVars, polls, local_nodes>>
  /\ evts' = <<>>

\* A participant ends with all it has; the sample that is not read yet remains.
Leave(p) ==
  /\ p \in Participants \cap alive \cap world.mortal
  /\ losses < MaxLosses
  /\ losses' = losses + 1
  /\ alive' = alive \ ({p} \cup EndsOf(p))
  /\ UNCHANGED <<world, declared, inbox, sedp, mapVars, nodeVars, polls, local_nodes>>
  /\ evts' = <<>>

\* An entity is announced, before the end of its participant is.
Announced(x) ==
  /\ sedp[x] = "new"
  /\ x \in alive \/ Late
  /\ x \in Gids => sedp[EntityOf(x).participant] # "gone"
  /\ sedp' = [sedp EXCEPT ![x] = "seen"]
  /\ UNCHANGED <<world, alive, declared, inbox, losses>>

Withdrawn(x) ==
  /\ sedp[x] = "seen"
  /\ x \notin alive
  /\ sedp' = [sedp EXCEPT ![x] = "gone"]
  /\ UNCHANGED <<world, alive, declared, inbox, losses>>

-----------------------------------------------------------------------------
(* What the discovery task does when DDS announces or withdraws an entity. *)

add_participant(p) ==
  /\ p \in Participants
  /\ Announced(p)
  /\ participants' = participants \cup {p}
  /\ admin_space' = admin_space \cup {<<"participant", p>>}
  /\ UNCHANGED <<writers, readers, ros_participant_info, nodes_info, orphan_first_seen, polls>>
  /\ Send(<<>>)

\* A participant goes with its nodes and its endpoints.  What it last published is kept.
remove_participant(p) ==
  LET nodes == IF p \in DOMAIN nodes_info THEN nodes_info[p] ELSE <<>>
  IN  /\ p \in Participants
      /\ Withdrawn(p)
      /\ participants' = participants \ {p}
      /\ nodes_info' = Restrict(nodes_info, DOMAIN nodes_info \ {p})
      /\ writers' = writers \ EndsOf(p)
      /\ readers' = readers \ EndsOf(p)
      /\ orphan_first_seen' =
           Restrict(orphan_first_seen, DOMAIN orphan_first_seen \ (writers \cap EndsOf(p)))
      /\ admin_space' = admin_space
           \ ({<<"participant", p>>}
                \cup {<<"node", p, n>> : n \in DOMAIN nodes}
                \cup {<<"writer", g>> : g \in writers \cap EndsOf(p)}
                \cup {<<"reader", g>> : g \in readers \cap EndsOf(p)})
      /\ UNCHANGED <<ros_participant_info, polls>>
      /\ Send(SetToSeq(UNION {remove_all_entities(nodes[n]) : n \in DOMAIN nodes}))

\* A node that declares g gets it, or remembers it in one of its lists.
undiscovered(g) == IF IsWriter(g) THEN "undiscovered_writer" ELSE "undiscovered_reader"
update_with(node, g) ==
  IF IsWriter(g) THEN update_with_writer(node, EntityOf(g))
  ELSE update_with_reader(node, EntityOf(g))
remove_from(node, g) == IF IsWriter(g) THEN remove_writer(node, g) ELSE remove_reader(node, g)

\* The node that has declared g before DDS announced it, if there is one, is updated.
Resolve(g, changed) ==
  LET list == undiscovered(g)
      waiting == {id \in NodeIds : g \in NodeAt(id)[list]}
  IN  \/ /\ waiting = {}
         /\ UNCHANGED nodes_info
         /\ Send(changed)
      \/ \E id \in waiting :
           LET u == update_with([NodeAt(id) EXCEPT ![list] = NodeAt(id)[list] \ {g}], g)
               nodes == Inserted(nodes_info[id[1]], id[2], u.node)
           IN  /\ nodes_info' = [nodes_info EXCEPT ![id[1]] = nodes]
               /\ Send(u.evts \o changed)

add_writer(w) ==
  /\ w \in Gids /\ IsWriter(w)
  /\ Announced(w)
  /\ writers' = writers \cup {w}
  /\ admin_space' = admin_space \cup {<<"writer", w>>}
  /\ Resolve(w, local_writers_changed(w))
  /\ UNCHANGED <<participants, readers, ros_participant_info, orphan_first_seen, polls>>

\* Mutant: a node that waits for the Reader is not looked for.
add_reader_NoResolve(r) ==
  /\ r \in Gids /\ ~IsWriter(r)
  /\ Announced(r)
  /\ readers' = readers \cup {r}
  /\ admin_space' = admin_space \cup {<<"reader", r>>}
  /\ UNCHANGED <<nodes_info, participants, writers, ros_participant_info, orphan_first_seen,
                  polls>>
  /\ Send(<<>>)

add_reader(r) ==
  /\ r \in Gids /\ ~IsWriter(r)
  /\ Announced(r)
  /\ readers' = readers \cup {r}
  /\ admin_space' = admin_space \cup {<<"reader", r>>}
  /\ Resolve(r, <<>>)
  /\ UNCHANGED <<participants, writers, ros_participant_info, orphan_first_seen, polls>>

\* The nodes are asked in any order, until one of them has an event to tell.
RemoveFromNodes(g, changed) ==
  LET hit == {id \in NodeIds : remove_from(NodeAt(id), g).evts # <<>>}
      AskNodes(visited, events) ==
        /\ nodes_info' =
             [p \in DOMAIN nodes_info |->
               [n \in DOMAIN nodes_info[p] |->
                 IF <<p, n>> \in visited THEN remove_from(nodes_info[p][n], g).node
                 ELSE nodes_info[p][n]]]
        /\ Send(events \o changed)
  IN  \/ hit = {} /\ AskNodes(NodeIds, <<>>)
      \/ \E id \in hit, before \in SUBSET (NodeIds \ hit) :
           AskNodes({id} \cup before, remove_from(NodeAt(id), g).evts)

\* Nothing is left to remove if the participant went first.
RemoveWriter(w) ==
  /\ w \in Gids /\ IsWriter(w)
  /\ Withdrawn(w)
  /\ IF w \in writers
     THEN /\ writers' = writers \ {w}
          /\ admin_space' = admin_space \ {<<"writer", w>>}
          /\ RemoveFromNodes(w, local_writers_changed(w))
     ELSE UNCHANGED <<writers, admin_space, nodes_info>> /\ Send(<<>>)
  /\ UNCHANGED <<participants, readers, ros_participant_info, orphan_first_seen, polls>>

RemoveReader(r) ==
  /\ r \in Gids /\ ~IsWriter(r)
  /\ Withdrawn(r)
  /\ IF r \in readers
     THEN /\ readers' = readers \ {r}
          /\ admin_space' = admin_space \ {<<"reader", r>>}
          /\ RemoveFromNodes(r, <<>>)
     ELSE UNCHANGED <<readers, admin_space, nodes_info>> /\ Send(<<>>)
  /\ UNCHANGED <<participants, writers, ros_participant_info, orphan_first_seen, polls>>

-----------------------------------------------------------------------------
(* The periodic poll of ros_discovery_info.  It works on a record of the nodes, the *)
(* admin space and the events; order is the one in which it meets the endpoints.    *)

Chosen(order, set) == Subsequence(order, {i \in DOMAIN order : order[i] \in set})

\* Mutant: what DDS has not announced yet is skipped.
update_node_info_Skips(node, ends, order) ==
  LET Declared(acc, g) ==
        LET u == update_with(acc.node, g)
        IN  [node |-> u.node, evts |-> acc.evts \o u.evts]
  IN  FoldLeft(Declared, Ignored(node), Chosen(order, ends \cap (readers \cup writers)))

\* A node's declared endpoints: those that DDS has announced update the node, the
\* others are remembered.
update_node_info(node, ends, order) ==
  LET Declared(acc, g) ==
        LET found == g \in (IF IsWriter(g) THEN writers ELSE readers)
            u == update_with(acc.node, g)
        IN  IF found THEN [node |-> u.node, evts |-> acc.evts \o u.evts]
            ELSE LET list == undiscovered(g)
                 IN  [node |-> [acc.node EXCEPT ![list] = acc.node[list] \cup {g}],
                      evts |-> acc.evts]
      rs == Chosen(order, {g \in ends : ~IsWriter(g)})
      ws == Chosen(order, {g \in ends : IsWriter(g)})
  IN  FoldLeft(Declared, Ignored(node), rs \o ws)

WithNode(s, p, n, u) ==
  [nodes |-> [s.nodes EXCEPT ![p] = Inserted(s.nodes[p], n, u.node)],
   admin |-> s.admin \cup {<<"node", p, n>>},
   evts |-> s.evts \o u.evts]

WithoutNode(s, p, n) ==
  [nodes |-> [s.nodes EXCEPT ![p] = Restrict(s.nodes[p], DOMAIN s.nodes[p] \ {n})],
   admin |-> s.admin \ {<<"node", p, n>>},
   evts |-> s.evts]

OrphanOwned(nodes, p) ==
  IF OrphanNode(p) \in DOMAIN nodes[p]
  THEN LET pubs == nodes[p][OrphanNode(p)].msg_pub
       IN  UNION {pubs[t].gids : t \in DOMAIN pubs}
  ELSE {}

\* Mutant: the synthetic node keeps the Writer.
Transfer_Keeps(s, p, w) == s

\* Mutant: the admin space keeps the synthetic node that is dropped.
Transfer_Lists(s, p, w) ==
  LET u == remove_writer(s.nodes[p][OrphanNode(p)], w)
      left == [WithNode(s, p, OrphanNode(p), u) EXCEPT !.admin = s.admin]
  IN  IF OrphanNode(p) \notin DOMAIN s.nodes[p] THEN s
      ELSE IF DOMAIN u.node.msg_pub # {} THEN left
      ELSE [WithoutNode(left, p, OrphanNode(p)) EXCEPT !.admin = s.admin]

\* The synthetic node loses a Writer to the node that declares it.
Transfer(s, p, w) ==
  LET u == remove_writer(s.nodes[p][OrphanNode(p)], w)
      left == [WithNode(s, p, OrphanNode(p), u) EXCEPT !.admin = s.admin]
  IN  IF OrphanNode(p) \notin DOMAIN s.nodes[p] THEN s
      ELSE IF DOMAIN u.node.msg_pub = {} THEN WithoutNode(left, p, OrphanNode(p)) ELSE left

\* Mutant: the synthetic node releases the Writers before the nodes get them.
update_participant_info_ReleasesFirst(s, p, order, nodeOrder) ==
  LET info == declared \cap EndsOf(p)
      listed == {EntityOf(g).node : g \in info}
      nodes == IF p \in DOMAIN s.nodes THEN s.nodes[p] ELSE <<>>
      lost == {n \in DOMAIN nodes : ~is_orphan_node_name(n) /\ n \notin listed}
      retained ==
        [nodes |-> Inserted(s.nodes, p, Restrict(nodes, DOMAIN nodes \ lost)),
         admin |-> s.admin \ {<<"node", p, n>> : n \in lost},
         evts |-> s.evts \o SetToSeq(UNION {remove_all_entities(nodes[n]) : n \in lost})]
      orphan_owned == OrphanOwned(retained.nodes, p)
      queue == Chosen(nodeOrder, listed)
      accepted == {i \in DOMAIN queue : \A j \in 1 .. i : queue[j] \notin BadNodes}
      Update(acc, n) ==
        LET node == IF n \in DOMAIN acc.nodes[p] THEN acc.nodes[p][n] ELSE create(n)
            ends == {g \in info : EntityOf(g).node = n}
        IN  WithNode(acc, p, n, update_node_info(node, ends, order))
      transferred == {w \in orphan_owned \cap info :
                        \E i \in accepted : queue[i] = EntityOf(w).node}
      released == FoldLeft(LAMBDA acc, w : Transfer(acc, p, w), retained,
                           Chosen(order, transferred))
  IN  FoldLeft(Update, released, Subsequence(queue, accepted))

\* The nodes that the sample does not list are gone, but not the synthetic one; the
\* others are updated, up to the first one whose name is refused; and then the
\* Writers that they share with the synthetic node are released by it.
update_participant_info(s, p, order, nodeOrder) ==
  LET info == declared \cap EndsOf(p)
      listed == {EntityOf(g).node : g \in info}
      nodes == IF p \in DOMAIN s.nodes THEN s.nodes[p] ELSE <<>>
      lost == {n \in DOMAIN nodes : ~is_orphan_node_name(n) /\ n \notin listed}
      retained ==
        [nodes |-> Inserted(s.nodes, p, Restrict(nodes, DOMAIN nodes \ lost)),
         admin |-> s.admin \ {<<"node", p, n>> : n \in lost},
         evts |-> s.evts \o SetToSeq(UNION {remove_all_entities(nodes[n]) : n \in lost})]
      orphan_owned == OrphanOwned(retained.nodes, p)
      queue == Chosen(nodeOrder, listed)
      accepted == {i \in DOMAIN queue : \A j \in 1 .. i : queue[j] \notin BadNodes}
      Update(acc, n) ==
        LET node == IF n \in DOMAIN acc.nodes[p] THEN acc.nodes[p][n] ELSE create(n)
            ends == {g \in info : EntityOf(g).node = n}
        IN  WithNode(acc, p, n, update_node_info(node, ends, order))
      updated == FoldLeft(Update, retained, Subsequence(queue, accepted))
      transferred == {w \in orphan_owned \cap info :
                        \E i \in accepted : queue[i] = EntityOf(w).node}
  IN  FoldLeft(LAMBDA acc, w : Transfer(acc, p, w), updated, Chosen(order, transferred))

\* What waits for an announcement that was missed.
resolve_pending_endpoints(s, order) ==
  LET OfNode(acc, id) ==
        LET node == acc.nodes[id[1]][id[2]]
            rs == Chosen(order, node.undiscovered_reader \cap readers)
            ws == Chosen(order, node.undiscovered_writer \cap writers)
            Pending(t, g) ==
              LET old == t.nodes[id[1]][id[2]]
                  list == undiscovered(g)
              IN  WithNode(t, id[1], id[2],
                           update_with([old EXCEPT ![list] = old[list] \ {g}], g))
        IN  FoldLeft(Pending, acc, rs \o ws)
  IN  FoldSet(LAMBDA id, acc : OfNode(acc, id), s,
              UNION {{p} \X DOMAIN s.nodes[p] : p \in DOMAIN s.nodes})

\* The message Writers that no node has or waits for.
orphan_candidates(s) ==
  LET Of(node) == node.undiscovered_writer
                    \cup UNION {node.msg_pub[t].gids : t \in DOMAIN node.msg_pub}
      claimed == UNION {UNION {Of(s.nodes[p][n]) : n \in DOMAIN s.nodes[p]} :
                          p \in DOMAIN s.nodes}
  IN  {w \in writers \ claimed : IsMessage(w) /\ TopicName(w) \notin ORPHAN_EXCLUDED_TOPICS}

FirstSeen(w) == IF w \in DOMAIN orphan_first_seen THEN orphan_first_seen[w] ELSE 0

\* They are attached to the synthetic node of their participant, once they have been
\* unclaimed for the grace period.
forward_orphan_writers(s, order) ==
  LET due == {w \in orphan_candidates(s) : FirstSeen(w) >= ORPHAN_GRACE_PERIOD}
      ClaimFor(acc, w) ==
        LET p == EntityOf(w).participant
            n == OrphanNode(p)
            known == p \in DOMAIN acc.nodes
            node == IF known /\ n \in DOMAIN acc.nodes[p] THEN acc.nodes[p][n] ELSE create(n)
        IN  WithNode(IF known THEN acc ELSE [acc EXCEPT !.nodes = Inserted(acc.nodes, p, <<>>)],
                     p, n, update_with_writer(node, EntityOf(w)))
  IN  FoldLeft(ClaimFor, s, Chosen(order, due))

still_unclaimed(s) ==
  LET seen == {w \in orphan_candidates(s) : FirstSeen(w) < ORPHAN_GRACE_PERIOD}
  IN  [w \in seen |-> FirstSeen(w)]

\* Of each participant only the last sample is read (malformed ones are left out).
read == [p \in inbox |-> declared \cap EndsOf(p)]

\* One tick of the poll timer: the samples, what is pending, the unclaimed Writers.
Poll ==
  \E order \in world.orders, nodeOrder \in world.nodeOrders :
  \E informed \in
      {FoldSet(LAMBDA p, s : update_participant_info(s, p, order, nodeOrder),
               [nodes |-> nodes_info, admin |-> admin_space, evts |-> <<>>], inbox)} :
  \E resolved \in {resolve_pending_endpoints(informed, order)} :
  \E swept \in {IF ForwardUnclaimed THEN forward_orphan_writers(resolved, order)
                ELSE resolved} :
    /\ inbox' = {}
    /\ ros_participant_info' = read @@ ros_participant_info
    /\ nodes_info' = swept.nodes
    /\ admin_space' = swept.admin
    /\ orphan_first_seen' =
         IF ForwardUnclaimed THEN still_unclaimed(resolved) ELSE orphan_first_seen
    /\ Send(swept.evts)
    /\ polls' = 1 - polls
    /\ UNCHANGED <<world, alive, declared, sedp, losses, mapVars>>

\* Time passes for the Writers that the sweep has seen.
Tick ==
  /\ \E w \in DOMAIN orphan_first_seen : orphan_first_seen[w] < ORPHAN_GRACE_PERIOD
  /\ orphan_first_seen' =
       [w \in DOMAIN orphan_first_seen |->
         IF orphan_first_seen[w] < ORPHAN_GRACE_PERIOD THEN orphan_first_seen[w] + 1
         ELSE orphan_first_seen[w]]
  /\ evts' = <<>>
  /\ UNCHANGED <<ddsVars, mapVars, ros_participant_info, nodes_info, admin_space, polls,
                  local_nodes>>

\* The discovery task is told of x.
Told(x) ==
  \/ add_participant(x) \/ remove_participant(x)
  \/ add_writer(x) \/ RemoveWriter(x)
  \/ add_reader(x) \/ RemoveReader(x)

Next ==
  \/ \E g \in Gids : DeclareNode(EntityOf(g).node) \/ Destroy(g)
  \/ \E p \in Participants : Leave(p)
  \/ \E x \in Gids \cup Participants : Told(x)
  \/ Poll
  \/ Tick

Spec == Init /\ [][Next]_vars

\* DDS tells at last of each entity that exists, and of the end of those it told of; the
\* poll timer goes on, and time passes for the Writers that the sweep waits for.  (Stated
\* of the states, as all of these can happen whenever they are due.)
Untold(x) == (sedp[x] = "new" /\ x \in alive) \/ (sedp[x] = "seen" /\ x \notin alive)
FairSpec ==
  /\ Spec
  /\ []<>(\A x \in Gids \cup Participants : ~Untold(x))
  /\ []<>(polls = 0) /\ []<>(polls = 1)
  /\ []<>(\A w \in DOMAIN orphan_first_seen : orphan_first_seen[w] = ORPHAN_GRACE_PERIOD)

-----------------------------------------------------------------------------
(* Properties *)

NodeType(node) ==
  /\ \A kind \in MsgKinds : \A n \in DOMAIN node[kind] :
       node[kind][n].gids # {} /\ node[kind][n].gids \subseteq Gids
  /\ \A k \in DOMAIN CallKinds : LET kind == CallKinds[k] IN
       \A n \in DOMAIN node[kind] :
         node[kind][n].ends \in [Entities(kind) -> Gids \cup {NOT_DISCOVERED}]
  /\ node.undiscovered_reader \cap readers = {}
  /\ node.undiscovered_writer \cap writers = {}

\* The maps hold what DDS has told of, a node waits for no endpoint that was announced,
\* and a publisher or subscriber has an endpoint.
TypeOK ==
  /\ participants \subseteq Participants
  /\ writers \subseteq {g \in Gids : IsWriter(g) /\ sedp[g] = "seen"}
  /\ readers \subseteq {g \in Gids : ~IsWriter(g) /\ sedp[g] = "seen"}
  /\ DOMAIN nodes_info \subseteq Participants
  /\ \A id \in NodeIds : NodeAt(id).fullname = id[2] /\ NodeType(NodeAt(id))
  /\ DOMAIN orphan_first_seen \subseteq Gids
  /\ \A w \in DOMAIN orphan_first_seen : orphan_first_seen[w] \in 0 .. ORPHAN_GRACE_PERIOD

\* Two nodes of one name belong to one participant: the events of the discovery, and the
\* routes, know a node by its name.
UniqueNodeNames ==
  \A w \in Worlds : \A g, h \in DOMAIN w.ends :
    w.ends[g].node = w.ends[h].node /\ w.ends[g].node # Nobody =>
      w.ends[g].participant = w.ends[h].participant

\* The interfaces of a node that are complete, as a message topic always is.
InterfacesAt(id) ==
  LET Has(kind, n) == kind \in MsgKinds \/ is_complete(NodeAt(id)[kind][n])
  IN  UNION {{<<id[2], kind, n>> : n \in {m \in DOMAIN NodeAt(id)[kind] : Has(kind, m)}} :
               kind \in MsgKinds \cup Range(CallKinds)}

\* The events tell the main loop exactly the interfaces of the nodes: every one that is
\* complete has been discovered, no other one is left discovered, whatever the order
\* of declarations, announcements and losses.
EventsMatchNodes == local_nodes = UNION {InterfacesAt(id) : id \in NodeIds}

\* The admin space lists what is discovered and nothing else: an admin query finds every
\* entity and meets no dangling reference.
AdminSpaceExact ==
  admin_space =
    {<<"participant", p>> : p \in participants}
      \cup {<<"writer", g>> : g \in writers}
      \cup {<<"reader", g>> : g \in readers}
      \cup {<<"node", id[1], id[2]>> : id \in NodeIds}

Owners(w) ==
  {id \in NodeIds : \E t \in DOMAIN NodeAt(id).msg_pub : w \in NodeAt(id).msg_pub[t].gids}

Owner(w) ==
  CASE Owners(w) = {} -> "none"
    [] \E id \in Owners(w) : Owners(w) = {id} /\ is_orphan_node_name(id[2]) -> "orphan"
    [] \E id \in Owners(w) : Owners(w) = {id} /\ ~is_orphan_node_name(id[2]) -> "node"
    [] OTHER -> "several"

\* The Writers that the bridge is to route: those of message topics that are not a
\* node's own.
Routable(g) ==
  /\ IsWriter(g) /\ IsMessage(g)
  /\ TopicName(g) \notin ORPHAN_EXCLUDED_TOPICS \cup BadNames
AllGids == UNION {DOMAIN w.ends : w \in Worlds}
KnownWriters == {w \in writers : Routable(w)}
DeclaredWriters ==
  UNION {{w \in ros_participant_info[p] :
             Routable(w) /\ EntityOf(w).node \in DOMAIN nodes_info[p]} :
           p \in DOMAIN ros_participant_info \cap DOMAIN nodes_info}

Claims == INSTANCE WriterClaims WITH
  Writers <- AllGids,
  known <- KnownWriters,
  declared <- DeclaredWriters,
  owner <- [w \in AllGids |-> IF w \in Gids /\ Routable(w) THEN Owner(w) ELSE "none"]

\* Every known message Writer has one owner and keeps it: it goes to the synthetic node
\* only while no node declares it, from there to the node that does, and does not stay
\* without one.
ClaimsKept == Claims!Spec

\* A route never loses its last local node in the middle of a transfer: the node that
\* takes over is discovered before the synthetic one is undiscovered.
TransferKeepsRoute ==
  [][\A w \in Gids : Owner(w) = "orphan" /\ Owner(w)' = "node" =>
       \A k \in 0 .. Len(evts') :
         \E user \in After(k, local_nodes, evts') :
           user[2] = "msg_pub" /\ user[3] = TopicName(w)]_vars

\* What those nodes have: an endpoint of a topic, every end of a service or action.
RealInterfaces ==
  LET Has(n) == UNION {world.provided[g] :
                         g \in {x \in alive \cap declared : EntityOf(x).node = n}}
      Complete(has, x) == x[3] = "" \/ \A end \in Entities(x[1]) : <<x[1], x[2], end>> \in has
      Of(n, has) == {<<n, x[1], x[2]>> : x \in {y \in has : Complete(has, y)}}
  IN  UNION {Of(n, Has(n)) : n \in world.sane}

\* At last the events have told exactly what the nodes have, whatever was announced late
\* or declared early ("Self-healing reconciliation").
DiscoveryConverges ==
  <>[]({x \in local_nodes : x[1] \in world.sane} = RealInterfaces)

\* "A DDS Writer appeared on or left a ROS topic, whichever node it belongs to" (events.rs)
\* is told of in every step that changes the Writers on a topic; the QoS of the route is
\* derived from them.
WritersOn(t) == {w \in writers : IsMessage(w) /\ TopicName(w) = t}
WritersChangeTold ==
  [][\A t \in {TopicName(g) : g \in Gids} :
       WritersOn(t) # WritersOn(t)' =>
         \E i \in DOMAIN evts' : evts'[i] = [ev |-> "LocalWritersChanged", name |-> t]]_vars

=============================================================================
