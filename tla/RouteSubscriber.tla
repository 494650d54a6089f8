---------------------------- MODULE RouteSubscriber ----------------------------
(***************************************************************************)
(* A subscriber route of a topic (route_subscriber.rs) under its manager:  *)
(* the main loop adds and removes local nodes and remote publishers, and   *)
(* each of its calls may fail half way; DDS matches Readers with the       *)
(* route's Writer and tells the loop through a channel, also of Readers    *)
(* that no node declares.                                                  *)
(*                                                                         *)
(* The QoS of a Writer is one of three: "volatile", a "deep" VOLATILE one, *)
(* and "history", a TRANSIENT_LOCAL one; module TopicQos derives it in     *)
(* full.  The gids of the Writers are published as in RosDiscoveryInfo.    *)
(***************************************************************************)
EXTENDS Naturals, Sequences, FiniteSets

CONSTANTS
  Nodes,                \* the ROS nodes that subscribe to the topic
  MATCHED_READERS_KEY,  \* the synthetic one of matched Readers
  Remotes,              \* the announcements of remote publishers: bridge and qos
  Scenarios             \* small systems: the nodes, the announcements, the DDS Readers
                        \* and those that request TRANSIENT_LOCAL, and the bounds on
                        \* changes and on calls that fail

DDS_ENTITY_NULL == 0

ASSUME RouteSubscriberAssumption ==
  /\ MATCHED_READERS_KEY \notin Nodes
  /\ \A s \in Scenarios : /\ s.nodes \subseteq Nodes
                          /\ s.remotes \subseteq Remotes
                          /\ s.latched \subseteq s.readers
                          /\ {s.changes, s.failures} \subseteq Nat

VARIABLES
  \* the route
  exists, local_nodes, remote_writer_qos, liveliness_token,
  zenoh_subscriber,      \* "none", "plain" or "history"
  dds_writer, writer_qos, dds_volatile_writer,
  \* the main loop: the stage of its handler, its event, the events to be retried
  pc, task, retries,
  \* DDS
  readers,          \* the Readers near the bridge
  matched,          \* those that match the route's first Writer
  attached,         \* that Writer has its listener
  new_writer,       \* the Writer that is to replace it, as yet beside it,
  new_matched, new_attached, \* its Readers and its listener,
  status,           \* and what the loop has read of it before it reports it
  matched_events,   \* the channel: who matched, and whether any Reader does
  rechecks,         \* the Writers that a task will check again,
  rechecked,        \* and those it has found without Readers
  gids,             \* the Writers published in ros_discovery_info
  created,          \* the Writers created so far, by number
  \* history
  outdated,         \* the event handled last was of a Writer that had been replaced
  late,             \* the Writers of which an event was outdated when it was sent
  unretried,        \* the update after a prune has failed: nothing retries it
  scenario, changes, failures

localVars == <<exists, local_nodes, remote_writer_qos>>
zenohVars == <<liveliness_token, zenoh_subscriber, unretried>>
writerVars == <<dds_writer, writer_qos, dds_volatile_writer, gids, created>>
loopVars == <<pc, task, retries>>
newVars == <<new_writer, new_matched, new_attached, status>>
matchVars == <<readers, matched, attached, newVars>>
eventVars == <<matched_events, rechecks, rechecked, outdated, late>>
boundVars == <<scenario, changes, failures>>
vars == <<localVars, zenohVars, writerVars, loopVars, matchVars, eventVars, boundVars>>

NoTask == [op |-> "none"]

Init ==
  /\ exists = FALSE /\ local_nodes = {} /\ remote_writer_qos = {}
  /\ liveliness_token = FALSE /\ zenoh_subscriber = "none"
  /\ dds_writer = DDS_ENTITY_NULL /\ writer_qos = "none"
  /\ dds_volatile_writer = DDS_ENTITY_NULL
  /\ pc = "idle" /\ task = NoTask /\ retries = {}
  /\ readers = {} /\ matched = {} /\ attached = FALSE
  /\ new_writer = DDS_ENTITY_NULL /\ new_matched = {} /\ new_attached = FALSE /\ status = FALSE
  /\ matched_events = <<>> /\ rechecks = {} /\ rechecked = {}
  /\ gids = {} /\ created = 0
  /\ outdated = FALSE /\ late = {} /\ unretried = FALSE
  /\ scenario \in Scenarios /\ changes = 0 /\ failures = 0

Changes ==
  /\ changes < scenario.changes
  /\ changes' = changes + 1
  /\ UNCHANGED scenario
Fails ==
  /\ failures < scenario.failures
  /\ failures' = failures + 1
  /\ UNCHANGED <<scenario, changes>>

transient_local == writer_qos = "history"
is_unused == local_nodes = {} /\ remote_writer_qos = {}

\* writers_qos_for_remote_writers: the first Writer, and whether there is a second one.
Desired(remotes) ==
  CASE \E a \in remotes : a.qos = "history" -> "history"
    [] \A a \in remotes : a.qos = "volatile" -> "volatile"
    [] OTHER -> "deep"
Mixed(remotes) ==
  \E a, b \in remotes : a.bridge = b.bridge /\ a.qos = "history" /\ b.qos # "history"
fallback_writer_qos == "volatile"

-----------------------------------------------------------------------------
(* How a handler of the loop ends. *)

\* The failed announcement of a topic is queued for a retry; an activation that fails, and
\* the failure to update the routes after a prune, are logged.
Return(ok) ==
  /\ pc' = "idle"
  /\ task' = NoTask
  /\ retries' = IF ok \/ task.op \notin {"announced", "retired"}
                THEN retries ELSE retries \cup {task}

\* A failed update that nothing repeats leaves the route as it is until the next one.
Leave == unretried' = (unretried \/ task.op = "pruned")

-----------------------------------------------------------------------------
(* update_writer, in its order. *)

\* Mutant: an announced route without Zenoh subscriber is left so.
update_writer_NoHeal(remotes) == "volatile"

\* Where it begins: with the Zenoh subscriber that a failed declaration has lost.
update_writer(remotes) ==
  IF remotes # {} /\ local_nodes # {} /\ liveliness_token /\ zenoh_subscriber = "none"
  THEN "heal" ELSE "volatile"

\* A TRANSIENT_LOCAL Writer fetches the history of the remote ones.
Subscribed == IF transient_local THEN "history" ELSE "plain"

Heal ==
  /\ pc = "heal"
  /\ \/ /\ zenoh_subscriber' = Subscribed
        /\ pc' = "volatile"
        /\ UNCHANGED <<task, retries, unretried, boundVars>>
     \/ /\ Fails
        /\ Return(FALSE)
        /\ Leave
        /\ UNCHANGED zenoh_subscriber
  /\ UNCHANGED <<localVars, liveliness_token, writerVars, matchVars, eventVars>>

\* Mutant: a Writer that goes remains published.
without_gids_Kept(told) == gids

\* delete_route_writer: a Writer remains published if its gid cannot be told.
without_gids(told) == gids \ told

\* create_writer, which publishes the new one.
CreateWriter ==
  /\ created' = created + 1
  /\ gids' = gids \cup {created'}

\* The Writer of the marked samples appears or goes.
set_volatile_writer ==
  /\ pc = "volatile"
  /\ LET none == dds_volatile_writer = DDS_ENTITY_NULL
     IN  \/ /\ none # Mixed(remote_writer_qos)
            /\ pc' = "install"
            /\ UNCHANGED <<task, retries, dds_volatile_writer, gids, created, unretried,
                           boundVars>>
         \/ /\ none /\ Mixed(remote_writer_qos)
            /\ CreateWriter
            /\ dds_volatile_writer' = created'
            /\ pc' = "install"
            /\ UNCHANGED <<task, retries, unretried, boundVars>>
         \/ /\ none /\ Mixed(remote_writer_qos)
            /\ Fails
            /\ Return(FALSE)
            /\ Leave
            /\ UNCHANGED <<dds_volatile_writer, gids, created>>
         \/ /\ ~none /\ ~Mixed(remote_writer_qos)
            /\ \/ gids' = without_gids({dds_volatile_writer}) /\ UNCHANGED boundVars
               \/ Fails /\ UNCHANGED gids
            /\ dds_volatile_writer' = DDS_ENTITY_NULL
            /\ pc' = "install"
            /\ UNCHANGED <<task, retries, created, unretried>>
  /\ UNCHANGED <<localVars, liveliness_token, zenoh_subscriber, dds_writer, writer_qos,
                 matchVars, eventVars>>

NewQos ==
  IF remote_writer_qos = {} THEN fallback_writer_qos ELSE Desired(remote_writer_qos)

\* An activation only lacks a Writer, and without publishers only a history must go.
UpToDate ==
  /\ task.op # "activated"
  /\ IF remote_writer_qos = {} THEN ~transient_local ELSE writer_qos = NewQos

KeepWriter ==
  /\ pc = "install"
  /\ UpToDate
  /\ Return(TRUE)
  /\ unretried' = FALSE
  /\ UNCHANGED <<localVars, liveliness_token, zenoh_subscriber, writerVars, matchVars,
                 eventVars, boundVars>>

-----------------------------------------------------------------------------
(* install_writer, in its order: the old Writer serves until the new one is ready. *)

CreateNewWriter ==
  /\ pc = "install"
  /\ ~UpToDate
  /\ CreateWriter
  /\ new_writer' = created'
  /\ pc' = "attach"
  /\ UNCHANGED <<localVars, zenohVars, dds_writer, writer_qos, dds_volatile_writer, task, retries,
                 readers, matched, attached, new_matched, new_attached, status, eventVars,
                 boundVars>>

CreateNewWriterFails ==
  /\ pc = "install"
  /\ ~UpToDate
  /\ Fails
  /\ Return(FALSE)
  /\ Leave
  /\ UNCHANGED <<localVars, liveliness_token, zenoh_subscriber, writerVars, matchVars, eventVars>>

\* A Writer without listener is warned of, and used.
attach_publication_matched_listener ==
  /\ pc = "attach"
  /\ \/ new_attached' = TRUE /\ pc' = "status" /\ UNCHANGED boundVars
     \/ Fails /\ pc' = "swap" /\ UNCHANGED new_attached
  /\ UNCHANGED <<localVars, zenohVars, writerVars, task, retries, readers, matched, attached,
                 new_writer, new_matched, status, eventVars>>

Sent(writer, any) ==
  matched_events' = Append(matched_events, [writer |-> writer, matched |-> any])

\* The Readers that had matched before are reported, in two steps, for others come and go
\* meanwhile.
ReadStatus ==
  /\ pc = "status"
  /\ status' = (new_matched # {})
  /\ pc' = "deliver"
  /\ UNCHANGED <<localVars, zenohVars, writerVars, task, retries, readers, matched, attached,
                 new_writer, new_matched, new_attached, eventVars, boundVars>>

DeliverStatus ==
  /\ pc = "deliver"
  /\ IF status THEN Sent(new_writer, TRUE) ELSE UNCHANGED matched_events
  /\ late' = IF status /\ new_matched = {} THEN late \cup {new_writer} ELSE late
  /\ status' = FALSE
  /\ pc' = "swap"
  /\ UNCHANGED <<localVars, zenohVars, writerVars, task, retries, readers, matched, attached,
                 new_writer, new_matched, new_attached, rechecks, rechecked, outdated, boundVars>>

\* Mutant: the Readers of a rebuilt Writer are not checked again.
Rechecked_Not(writer) == {}

\* The deleted Writer no longer reports that its Readers leave.
Rechecked(writer) ==
  IF dds_writer # DDS_ENTITY_NULL /\ MATCHED_READERS_KEY \in local_nodes
  THEN {writer} ELSE {}

\* The new Writer replaces the old one, if any, which is deleted.
install_writer ==
  /\ pc = "swap"
  /\ \/ gids' = without_gids({dds_writer}) /\ UNCHANGED boundVars
     \/ dds_writer # DDS_ENTITY_NULL /\ Fails /\ UNCHANGED gids
  /\ dds_writer' = new_writer
  /\ writer_qos' = NewQos
  /\ matched' = new_matched
  /\ attached' = new_attached
  /\ new_writer' = DDS_ENTITY_NULL
  /\ new_matched' = {}
  /\ new_attached' = FALSE
  /\ rechecks' = rechecks \cup Rechecked(new_writer)
  /\ pc' = "redeclare"
  /\ task' = [task EXCEPT !.again = zenoh_subscriber # "none"
                                      /\ (transient_local \/ NewQos = "history")]
  /\ outdated' = (outdated /\ dds_writer = DDS_ENTITY_NULL)
  /\ UNCHANGED <<localVars, zenohVars, retries, dds_volatile_writer, created, readers, status,
                 matched_events, rechecked, late>>

\* An active route fetches the remote history into its new Writer.
Redeclare ==
  /\ pc = "redeclare"
  /\ task.op # "activated"
  /\ \/ /\ zenoh_subscriber' = IF task.again THEN Subscribed ELSE zenoh_subscriber
        /\ Return(TRUE)
        /\ unretried' = FALSE
        /\ UNCHANGED boundVars
     \/ /\ task.again
        /\ Fails
        /\ zenoh_subscriber' = "none"
        /\ Return(FALSE)
        /\ Leave
  /\ UNCHANGED <<localVars, liveliness_token, writerVars, matchVars, eventVars>>

-----------------------------------------------------------------------------
(* The first local node announces the route, the last one retires it. *)

Task(op, of) == [op |-> op, of |-> of, again |-> FALSE]

announce_route ==
  /\ task' = Task("activated", {})
  /\ pc' = IF dds_writer = DDS_ENTITY_NULL THEN "install" ELSE "subscribe"

Subscribe ==
  /\ pc = "subscribe" \/ (pc = "redeclare" /\ task.op = "activated")
  /\ \/ /\ zenoh_subscriber' = Subscribed
        /\ pc' = "token"
        /\ UNCHANGED <<task, retries, boundVars>>
     \/ /\ Fails
        /\ Return(FALSE)
        /\ UNCHANGED zenoh_subscriber
  /\ UNCHANGED <<localVars, liveliness_token, unretried, writerVars, matchVars, eventVars>>

DeclareToken ==
  /\ pc = "token"
  /\ \/ liveliness_token' = TRUE /\ UNCHANGED boundVars
     \/ Fails /\ UNCHANGED liveliness_token
  /\ Return(TRUE)
  /\ UNCHANGED <<localVars, zenoh_subscriber, unretried, writerVars, matchVars, eventVars>>

retire_route ==
  /\ zenoh_subscriber' = "none"
  /\ liveliness_token' = FALSE

\* The route is removed from its map and dropped, with its Writers.
Dropped ==
  /\ exists' = FALSE
  /\ retire_route
  /\ unretried' = FALSE
  /\ LET olds == {dds_writer, dds_volatile_writer} \ {DDS_ENTITY_NULL}
     IN  \E told \in SUBSET olds :
           /\ gids' = without_gids(told)
           /\ IF told = olds THEN UNCHANGED failures
              ELSE failures < scenario.failures /\ failures' = failures + 1
  /\ dds_writer' = DDS_ENTITY_NULL
  /\ writer_qos' = "none"
  /\ dds_volatile_writer' = DDS_ENTITY_NULL
  /\ matched' = {}
  /\ attached' = FALSE
  /\ UNCHANGED <<created, readers, newVars, pc, task>>

-----------------------------------------------------------------------------
(* The events of the loop. *)

add_local_node(n) ==
  /\ pc = "idle"
  /\ n \in scenario.nodes \ local_nodes
  /\ Changes
  /\ exists' = TRUE
  /\ local_nodes' = local_nodes \cup {n}
  /\ IF local_nodes = {} THEN announce_route ELSE UNCHANGED <<pc, task>>
  /\ UNCHANGED <<remote_writer_qos, zenohVars, writerVars, retries, matchVars, eventVars, failures>>

remove_local_node(n) ==
  /\ pc = "idle"
  /\ n \in local_nodes \ {MATCHED_READERS_KEY}
  /\ Changes
  /\ local_nodes' = local_nodes \ {n}
  /\ IF local_nodes' # {}
     THEN UNCHANGED <<exists, zenohVars, writerVars, matchVars, pc, task, failures>>
     ELSE IF remote_writer_qos # {}
     THEN /\ retire_route
          /\ UNCHANGED <<exists, unretried, writerVars, matchVars, pc, task, failures>>
     ELSE Dropped
  /\ UNCHANGED <<remote_writer_qos, retries, eventVars>>

\* A newer event about the same announcement supersedes its retry.
Superseded(a) == {t \in retries : t.of # a}

add_remote_publisher(a) ==
  /\ exists' = TRUE
  /\ remote_writer_qos' = remote_writer_qos \cup {a}
  /\ pc' = update_writer(remote_writer_qos')
  /\ task' = Task("announced", a)
  /\ UNCHANGED <<local_nodes, zenohVars, writerVars, matchVars, failures>>

\* What stays when remote publishers have gone.
Without(as, t) ==
  /\ remote_writer_qos' = remote_writer_qos \ as
  /\ IF exists /\ remote_writer_qos' = {} /\ local_nodes = {}
     THEN Dropped
     ELSE /\ IF exists
             THEN pc' = update_writer(remote_writer_qos') /\ task' = t
             ELSE UNCHANGED <<pc, task>>
          /\ UNCHANGED <<exists, zenohVars, writerVars, matchVars, failures>>
  /\ UNCHANGED local_nodes

AnnouncedMsgPub(a) ==
  /\ pc = "idle"
  /\ a \notin remote_writer_qos
  /\ Changes
  /\ retries' = Superseded(a)
  /\ add_remote_publisher(a)
  /\ UNCHANGED eventVars

RetiredMsgPub(a) ==
  /\ pc = "idle"
  /\ a \in remote_writer_qos
  /\ Changes
  /\ retries' = Superseded(a)
  /\ Without({a}, Task("retired", a))
  /\ UNCHANGED eventVars

\* A tick repeats a failed event (MAX_EVENT_RETRIES exceeds the failures).
Retry(t) ==
  /\ pc = "idle"
  /\ t \in retries
  /\ retries' = retries \ {t}
  /\ IF t.op = "announced" THEN add_remote_publisher(t.of)
     ELSE Without({t.of}, Task("retired", t.of))
  /\ UNCHANGED <<eventVars, scenario, changes>>

\* A tick prunes a bridge that was lost, and then updates the Writers.
prune_remote_routes(bridge) ==
  /\ pc = "idle"
  /\ \E a \in remote_writer_qos : a.bridge = bridge
  /\ Changes
  /\ retries' = {t \in retries : t.of.bridge # bridge}
  /\ Without({a \in remote_writer_qos : a.bridge = bridge}, Task("pruned", {}))
  /\ UNCHANGED eventVars

\* update_matched_readers.  A route whose last node was the synthetic one is not dropped.
update_matched_readers ==
  /\ pc = "idle"
  /\ matched_events # <<>>
  /\ matched_events' = Tail(matched_events)
  /\ LET e == Head(matched_events)
     IN  /\ outdated' = (e.writer # dds_writer)
         /\ local_nodes' = IF ~exists THEN local_nodes
                           ELSE IF e.matched THEN local_nodes \cup {MATCHED_READERS_KEY}
                           ELSE local_nodes \ {MATCHED_READERS_KEY}
  /\ IF local_nodes = {} /\ local_nodes' # {}
     THEN announce_route ELSE UNCHANGED <<pc, task>>
  /\ IF local_nodes # {} /\ local_nodes' = {}
     THEN retire_route ELSE UNCHANGED <<zenoh_subscriber, liveliness_token>>
  /\ UNCHANGED <<exists, remote_writer_qos, unretried, writerVars, retries, matchVars, rechecks,
                 rechecked, late, boundVars>>

-----------------------------------------------------------------------------
(* The task that checks a rebuilt Writer again after MATCH_RECHECK_DELAY. *)

RecheckReads(writer) ==
  /\ writer \in rechecks
  /\ rechecks' = rechecks \ {writer}
  /\ rechecked' = IF dds_writer = writer /\ matched = {}
                  THEN rechecked \cup {writer} ELSE rechecked
  /\ UNCHANGED <<localVars, zenohVars, writerVars, loopVars, matchVars, matched_events, outdated,
                 late, boundVars>>

RecheckSends(writer) ==
  /\ writer \in rechecked
  /\ rechecked' = rechecked \ {writer}
  /\ Sent(writer, FALSE)
  /\ late' = IF dds_writer # writer \/ matched # {} THEN late \cup {writer} ELSE late
  /\ UNCHANGED <<localVars, zenohVars, writerVars, loopVars, matchVars, rechecks, outdated,
                 boundVars>>

-----------------------------------------------------------------------------
(* DDS (external). *)

ReaderComes(r) ==
  /\ r \in scenario.readers \ readers
  /\ Changes
  /\ readers' = readers \cup {r}
  /\ UNCHANGED <<localVars, zenohVars, writerVars, loopVars, matched, attached, newVars, eventVars,
                 failures>>

ReaderGoes(r) ==
  /\ r \in readers
  /\ Changes
  /\ readers' = readers \ {r}
  /\ UNCHANGED <<localVars, zenohVars, writerVars, loopVars, matched, attached, newVars, eventVars,
                 failures>>

\* A Reader that requests TRANSIENT_LOCAL only matches a Writer that offers it.
Matching(qos) == {r \in readers : r \in scenario.latched => qos = "history"}

publication_matched(now) ==
  /\ matched' = now
  /\ IF attached THEN Sent(dds_writer, now # {}) ELSE UNCHANGED matched_events
  /\ UNCHANGED <<localVars, zenohVars, writerVars, loopVars, readers, attached, newVars, rechecks,
                 rechecked, outdated, late, boundVars>>

new_publication_matched(now) ==
  /\ new_matched' = now
  /\ IF new_attached THEN Sent(new_writer, now # {}) ELSE UNCHANGED matched_events
  /\ UNCHANGED <<localVars, zenohVars, writerVars, loopVars, readers, matched, attached,
                 new_writer, new_attached, status, rechecks, rechecked, outdated, late, boundVars>>

Match(r) ==
  \/ /\ dds_writer # DDS_ENTITY_NULL
     /\ r \in Matching(writer_qos) \ matched
     /\ publication_matched(matched \cup {r})
  \/ /\ new_writer # DDS_ENTITY_NULL
     /\ r \in Matching(NewQos) \ new_matched
     /\ new_publication_matched(new_matched \cup {r})

Unmatch(r) ==
  \/ /\ r \in matched \ readers
     /\ publication_matched(matched \ {r})
  \/ /\ r \in new_matched \ readers
     /\ new_publication_matched(new_matched \ {r})

-----------------------------------------------------------------------------

Next ==
  \/ \E n \in Nodes : add_local_node(n) \/ remove_local_node(n)
  \/ \E a \in scenario.remotes : AnnouncedMsgPub(a) \/ RetiredMsgPub(a)
  \/ \E a \in scenario.remotes : prune_remote_routes(a.bridge)
  \/ \E t \in retries : Retry(t)
  \/ update_matched_readers
  \/ Heal
  \/ set_volatile_writer
  \/ KeepWriter
  \/ CreateNewWriter
  \/ CreateNewWriterFails
  \/ attach_publication_matched_listener
  \/ ReadStatus
  \/ DeliverStatus
  \/ install_writer
  \/ Redeclare
  \/ Subscribe
  \/ DeclareToken
  \/ \E w \in 1..created : RecheckReads(w) \/ RecheckSends(w)
  \/ \E r \in scenario.readers : ReaderComes(r) \/ ReaderGoes(r) \/ Match(r) \/ Unmatch(r)

Spec == Init /\ [][Next]_vars

-----------------------------------------------------------------------------
(* Properties. *)

Writers == {dds_writer, dds_volatile_writer, new_writer} \ {DDS_ENTITY_NULL}

\* The stages of install_writer in which there are two Writers.
Installing == {"attach", "status", "deliver", "swap"}

\* What ros_discovery_info lists of the route is its Writers; the gid of a deleted one stays
\* only if it could not be told (create_writer, delete_route_writer and Drop).
TypeOK ==
  /\ exists \in BOOLEAN
  /\ local_nodes \subseteq Nodes \cup {MATCHED_READERS_KEY}
  /\ remote_writer_qos \subseteq Remotes
  /\ liveliness_token \in BOOLEAN
  /\ zenoh_subscriber \in {"none", "plain", "history"}
  /\ writer_qos \in {"none", "volatile", "deep", "history"}
  /\ (writer_qos = "none") = (dds_writer = DDS_ENTITY_NULL)
  /\ Writers \subseteq gids /\ gids \subseteq 1..created
  /\ failures = 0 => gids = Writers
  /\ ~exists => Writers = {} /\ local_nodes = {} /\ remote_writer_qos = {}
  /\ (pc = "idle") = (task = NoTask)
  /\ matched # {} => dds_writer # DDS_ENTITY_NULL
  /\ (new_writer # DDS_ENTITY_NULL) = (pc \in Installing)
  /\ new_matched # {} => pc \in Installing
  /\ new_attached => pc \in Installing \ {"attach"}

Repaired == retries = {} /\ ~unretried

\* While there are remote publishers, an announced route without Zenoh subscriber waits for
\* a repeated event that declares it.
Fed ==
  remote_writer_qos # {} /\ liveliness_token /\ Repaired => zenoh_subscriber # "none"

\* An active route fetches the history if and only if its Writer keeps one.
SubscriberFits == zenoh_subscriber # "none" => zenoh_subscriber = Subscribed

\* With no failure to repair, the Writers are those of the announced publishers: a history
\* has left with its publishers and samples are written apart only if durabilities mix.
WritersFit ==
  exists /\ Repaired =>
    /\ IF remote_writer_qos = {} THEN ~transient_local
       ELSE writer_qos = Desired(remote_writer_qos)
    /\ (dds_volatile_writer # DDS_ENTITY_NULL) = Mixed(remote_writer_qos)

\* Between two events the Writers and the Zenoh subscriber of the route follow the remote
\* publishers, whatever step of an earlier update has failed (update_writer, announce_route
\* and the retries of the loop).
RouteFollowsRemotes == pc = "idle" => Fed /\ SubscriberFits /\ WritersFit

Told == pc = "idle" /\ matched_events = <<>> /\ rechecks = {} /\ rechecked = {}

\* Once every event has been handled, the synthetic node stands for the Readers that match
\* the Writer, also when rebuilds have replaced it: Readers that no node declares are
\* served, and the route is not kept for Readers that have gone.  Excepted are a Writer
\* without listener or of which an event was sent too late, and a last event that was
\* outdated when it was handled (install_writer, update_matched_readers).
MatchedReadersServed ==
  Told /\ attached /\ dds_writer \notin late /\ ~outdated =>
    (MATCHED_READERS_KEY \in local_nodes) = (matched # {})

\* An announced route has its Zenoh subscriber once every event that has failed was repeated
\* (the comment in update_writer on a failed re-declaration).  An update that follows a prune
\* is not repeated and excepted.
AnnouncedReceives ==
  pc = "idle" /\ Repaired /\ liveliness_token => zenoh_subscriber # "none"

=============================================================================
