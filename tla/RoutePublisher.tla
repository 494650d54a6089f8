---------------------------- MODULE RoutePublisher ----------------------------
(***************************************************************************)
(* A publisher route (route_publisher.rs) and its two threads: the task of *)
(* the routes manager, which adapts the route to its local Writers, nodes  *)
(* and remote bridges and at last drops it, and the callback of the Zenoh  *)
(* matching listener, which creates and deletes the DDS Readers.           *)
(*                                                                         *)
(* The task is cut into one step per call that another thread can observe  *)
(* or that can fail; a section under activation_lock is one step.  The     *)
(* route is a topic's: fixed_qos is false.  Its data path is FwdQueue.     *)
(***************************************************************************)
EXTENDS QosHelpers

CONSTANTS
  Profiles,      \* what writers_qos_on_topic may return: sequences of QoS
  Zids,          \* remote bridges
  Plain,         \* remote Zenoh subscribers without a bridge
  MaxChanges,    \* bound on the changes of the local Writers
  MaxFailures    \* bound on the calls to Zenoh or Cyclone DDS that fail

ASSUME RoutePublisherAssumption ==
  /\ Profiles \subseteq Seq(EntityQoses)
  /\ <<>> \in Profiles
  /\ Zids \cap (Plain \cup {"discovered", "undiscovered", "writers"}) = {}
  /\ MaxChanges \in Nat
  /\ MaxFailures \in Nat

VARIABLES
  local,        \* the QoS of the local Writers that are discovered now
  changed,      \* a LocalWritersChanged event is not handled yet
  changes,      \* how many times the local Writers have changed
  subscribers,  \* the remote Zenoh subscribers that match the publisher
  task,         \* the event that the manager handles
  pc,           \* where the manager is
  creating,     \* the event creates the route
  writers,      \* the local Writers as read when the event began
  old_qos,      \* the QoS that a rebuild replaces
  retry,        \* the events that the main loop has queued for a retry
  node,         \* local_nodes is not empty
  remote,       \* remote_routes, by bridge
  token,        \* the announced QoS, and the one for the VOLATILE Writers, or NoQos
  reader_qos,   \* reader_qos and volatile_reader_qos
  publisher,    \* the QoS that the Zenoh publishers were declared for
  readers,      \* the QoS of the existing DDS Readers, or NoQos
  listener,     \* the matching listener is declared
  is_matching,
  callback,     \* "idle", or the status that the callback is about to treat
  reported,     \* the last status given to the callback of this listener
  failures,
  broken        \* history: a Reader or the listener could not be created

envVars == <<local, changed, changes, subscribers>>
taskVars == <<task, pc, creating, writers, old_qos, retry>>
routeVars == <<node, remote, token, reader_qos, publisher>>
matchVars == <<readers, listener, is_matching, callback, reported>>
failVars == <<failures, broken>>
vars == <<envVars, taskVars, routeVars, matchVars, failVars>>

None == [main |-> NoQos, volatile |-> NoQos]

\* readers_qos_for_local_writers; the fallback QoS is the QoS without Writers.
Desired(p) == readers_qos_for_local_writers(p)
Announced(p) == announced_qoses_for_local_writers(p)

Fails(bad) ==
  /\ bad => failures < MaxFailures
  /\ failures' = IF bad THEN failures + 1 ELSE failures

\* create_for_topic for a discovered node or an announced subscriber, once new has
\* returned: the VOLATILE Reader is still to be set up.
Init ==
  /\ local \in Profiles
  /\ task \in {"discovered"} \cup Zids
  /\ task = "discovered" => local # <<>>
  /\ changed = FALSE
  /\ changes = 0
  /\ subscribers = {}
  /\ pc = IF Desired(local).volatile = NoQos THEN "add" ELSE "volatile"
  /\ creating = TRUE
  /\ writers = local
  /\ old_qos = None
  /\ retry = {}
  /\ node = FALSE
  /\ remote = {}
  /\ token = None
  /\ reader_qos = [None EXCEPT !.main = Desired(local).main]
  /\ publisher = reader_qos
  /\ readers = None
  /\ listener = TRUE
  /\ is_matching = FALSE
  /\ callback = "idle"
  /\ reported = FALSE
  /\ failures = 0
  /\ broken = FALSE

-----------------------------------------------------------------------------
(* The surroundings (external): DDS discovery and the remote subscribers. *)

ChangeWriters(p) ==
  /\ p # local
  /\ changes < MaxChanges
  /\ changes' = changes + 1
  /\ local' = p
  /\ changed' = TRUE
  /\ UNCHANGED <<subscribers, taskVars, routeVars, matchVars, failVars>>

ChangeSubscribers(s) ==
  /\ subscribers' = IF s \in subscribers THEN subscribers \ {s} ELSE subscribers \cup {s}
  /\ UNCHANGED <<local, changed, changes, taskVars, routeVars, matchVars, failVars>>

\* Zenoh (external) calls the listener when the status differs from the last one it
\* has reported, or from FALSE on declaration; one call at a time.
Matching == subscribers # {}

CallbackBegin ==
  /\ listener
  /\ callback = "idle"
  /\ reported # Matching
  /\ reported' = Matching
  /\ callback' = IF Matching THEN "matching" ELSE "not_matching"
  /\ UNCHANGED <<envVars, taskVars, routeVars, readers, listener, is_matching, failVars>>

-----------------------------------------------------------------------------
(* The DDS Readers; all callers hold activation_lock. *)

\* activate_dds_readers: each missing Reader is created, unless that fails, which is
\* logged only.
activate_dds_readers ==
  LET missing == {i \in {"main", "volatile"} : readers[i] = NoQos /\ reader_qos[i] # NoQos}
  IN  \E created \in SUBSET missing :
        /\ readers' = [i \in {"main", "volatile"} |->
                         IF i \in created THEN reader_qos[i] ELSE readers[i]]
        /\ broken' = (broken \/ created # missing)
        /\ Fails(created # missing)

CallbackBody ==
  /\ callback # "idle"
  /\ callback' = "idle"
  /\ is_matching' = (callback = "matching")
  /\ IF callback = "matching"
     THEN activate_dds_readers
     ELSE readers' = None /\ UNCHANGED failVars
  /\ UNCHANGED <<envVars, taskVars, routeVars, listener, reported>>

-----------------------------------------------------------------------------
(* update_local_writers, with the Writers that the event has read. *)

Goto(where) == pc' = where

\* The handler returns, or goes on after the creation of the route.
Done == Goto(IF creating THEN "add" ELSE "idle")

\* Mutant: the retries are keyed by the event.
RetryKey_ByEvent == task

\* retry_key: both events of a node's publisher share a key.
RetryKey == IF task = "writers" THEN "writers" ELSE "node"

\* Mutant: only the retries of nodes are queued.
Error_NodesOnly ==
  IF creating
  THEN Goto("drop") /\ UNCHANGED retry
  ELSE Goto("idle") /\ retry' = retry \cup ({RetryKey} \ {"writers"})

\* The handler returns an error: the main loop queues the event, a route that is
\* being created is dropped.
Error ==
  IF creating
  THEN Goto("drop") /\ UNCHANGED retry
  ELSE Goto("idle") /\ retry' = retry \cup {RetryKey}

same_qos(a, b, reader) == same_route_qos(a, b, reader)

\* The announcement is replaced when the announced QoS changes.
Announce ==
  LET desired == Announced(writers).main
      change  == /\ writers # <<>>
                 /\ token.main # NoQos
                 /\ ~same_qos(token.main, desired, FALSE)
  IN  /\ pc = "announce"
      /\ \/ /\ Goto(IF writers # <<>> /\ token.main # NoQos THEN "announce_volatile"
                    ELSE "compare")
            /\ token' = IF change THEN [token EXCEPT !.main = desired] ELSE token
            /\ UNCHANGED <<retry, failures>>
         \/ /\ change
            /\ Fails(TRUE)
            /\ Error
            /\ UNCHANGED token
      /\ UNCHANGED <<task, creating, writers, old_qos, node, remote, reader_qos, publisher,
                     envVars, matchVars, broken>>

\* The VOLATILE announcement is taken, then kept, replaced or dropped: a failure to
\* declare the new one loses it.
AnnounceVolatile ==
  LET desired == Announced(writers).volatile
      change  == desired # NoQos /\ ~same_qos(token.volatile, desired, FALSE)
  IN  /\ pc = "announce_volatile"
      /\ \/ /\ Goto("compare")
            /\ token' = [token EXCEPT !.volatile =
                           IF change \/ desired = NoQos THEN desired ELSE @]
            /\ UNCHANGED <<retry, failures>>
         \/ /\ change
            /\ Fails(TRUE)
            /\ Error
            /\ token' = [token EXCEPT !.volatile = NoQos]
      /\ UNCHANGED <<task, creating, writers, old_qos, node, remote, reader_qos, publisher,
                     envVars, matchVars, broken>>

Compare ==
  LET desired == Desired(writers)
  IN  /\ pc = "compare"
      /\ IF ~same_qos(reader_qos.main, desired.main, TRUE)
         THEN Goto("rebuild")
         ELSE IF ~same_qos(reader_qos.volatile, desired.volatile, TRUE)
              THEN Goto("volatile")
              ELSE Done
      /\ UNCHANGED <<task, creating, writers, old_qos, retry, envVars, routeVars,
                     matchVars, failVars>>

\* set_volatile_reader: the publisher is declared, then, under activation_lock, the
\* Reader is deleted and its QoS and publisher are replaced.
SetVolatileReader ==
  LET desired == Desired(writers).volatile
  IN  /\ pc = "volatile"
      /\ \/ /\ Goto("check")
            /\ readers' = [readers EXCEPT !.volatile = NoQos]
            /\ reader_qos' = [reader_qos EXCEPT !.volatile = desired]
            /\ publisher' = [publisher EXCEPT !.volatile = desired]
            /\ UNCHANGED <<retry, failures>>
         \/ /\ desired # NoQos
            /\ Fails(TRUE)
            /\ Error
            /\ UNCHANGED <<readers, reader_qos, publisher>>
      /\ UNCHANGED <<task, creating, writers, old_qos, node, remote, token, envVars,
                     listener, is_matching, callback, reported, broken>>

\* rebuild: the new publishers are declared first.
Rebuild ==
  /\ pc = "rebuild"
  /\ \/ Goto("unlisten") /\ UNCHANGED <<retry, failures>>
     \/ Fails(TRUE) /\ Error
  /\ UNCHANGED <<task, creating, writers, old_qos, routeVars, envVars, matchVars, broken>>

\* Mutant: the listener is undeclared without waiting for its callback.
Undeclared_NoWait(where, next) ==
  /\ pc = where
  /\ listener' = FALSE
  /\ Goto(next)

\* undeclare_matching_listener waits for a running callback.
Undeclared(where, next) ==
  /\ pc = where
  /\ callback = "idle"
  /\ listener' = FALSE
  /\ Goto(next)

Unlisten ==
  /\ Undeclared("unlisten", "deactivate")
  /\ UNCHANGED <<task, creating, writers, old_qos, retry, envVars, routeVars, readers,
                 is_matching, callback, reported, failVars>>

\* deactivate_dds_reader, under activation_lock.
Deactivate ==
  /\ pc = "deactivate"
  /\ Goto("swap")
  /\ readers' = None
  /\ UNCHANGED <<task, creating, writers, old_qos, retry, envVars, routeVars, listener,
                 is_matching, callback, reported, failVars>>

\* The QoS and the publishers are replaced, is_matching is reset.
Swap ==
  /\ pc = "swap"
  /\ Goto("listen")
  /\ old_qos' = reader_qos
  /\ reader_qos' = Desired(writers)
  /\ publisher' = Desired(writers)
  /\ is_matching' = FALSE
  /\ UNCHANGED <<task, creating, writers, retry, envVars, node, remote, token, readers,
                 listener, callback, reported, failVars>>

\* declare_matching_listener on the new publisher; without it the old QoS is kept so
\* that the next update retries the rebuild.
Listen ==
  /\ pc = "listen"
  /\ \/ /\ Goto("check")
        /\ listener' = TRUE
        /\ reported' = FALSE
        /\ UNCHANGED <<reader_qos, retry, failVars>>
     \/ /\ Fails(TRUE)
        /\ Error
        /\ broken' = TRUE
        /\ reader_qos' = old_qos
        /\ UNCHANGED <<listener, reported>>
  /\ UNCHANGED <<task, creating, writers, old_qos, envVars, node, remote, token, publisher,
                 readers, is_matching, callback>>

\* activate_if_matching: the flag is read before activation_lock is taken.
Check ==
  /\ pc = "check"
  /\ IF is_matching THEN Goto("activate") ELSE Done
  /\ UNCHANGED <<task, creating, writers, old_qos, retry, envVars, routeVars, matchVars,
                 failVars>>

Activate ==
  /\ pc = "activate"
  /\ Done
  /\ activate_dds_readers
  /\ UNCHANGED <<task, creating, writers, old_qos, retry, envVars, routeVars, listener,
                 is_matching, callback, reported>>

Update ==
  \/ Announce \/ AnnounceVolatile \/ Compare
  \/ SetVolatileReader
  \/ Rebuild \/ Unlisten \/ Deactivate \/ Swap \/ Listen
  \/ Check \/ Activate

-----------------------------------------------------------------------------
(* The events of the routes manager. *)

Begin(t, where) ==
  /\ pc = "idle"
  /\ task' = t
  /\ writers' = local
  /\ Goto(where)
  /\ UNCHANGED <<creating, old_qos, envVars, routeVars, matchVars, failVars>>

\* A discovered node (its event needs the DDS info of a Writer) or an announced
\* subscriber.
NodeDiscovered == local # <<>> /\ Begin("discovered", "add") /\ retry' = retry \ {"node"}
SubscriberAnnounced(z) == Begin(z, "add") /\ UNCHANGED retry

\* Mutant: only the matching listener creates the Readers.
Add_NoFallback ==
  /\ pc = "add"
  /\ creating' = FALSE
  /\ IF task \in Zids
     THEN /\ remote' = remote \cup {task}
          /\ Goto("idle")
          /\ UNCHANGED <<node, token, failures>>
     ELSE /\ node' = TRUE
          /\ Goto("announce")
          /\ IF node
             THEN UNCHANGED <<token, failures>>
             ELSE \E announced \in BOOLEAN :
                    /\ token' = IF announced
                                THEN [token EXCEPT !.main = Announced(writers).main]
                                ELSE token
                    /\ Fails(~announced)
          /\ UNCHANGED remote
  /\ UNCHANGED <<task, writers, old_qos, retry, reader_qos, publisher, envVars, matchVars,
                 broken>>

\* add_local_node announces the route for the first node, a failure is logged only;
\* then the route adapts to its Writers.  add_remote_route creates the Readers again
\* if a subscriber matches.
Add ==
  /\ pc = "add"
  /\ creating' = FALSE
  /\ IF task \in Zids
     THEN /\ remote' = remote \cup {task}
          /\ Goto("check")
          /\ UNCHANGED <<node, token, failures>>
     ELSE /\ node' = TRUE
          /\ Goto("announce")
          /\ IF node
             THEN UNCHANGED <<token, failures>>
             ELSE \E announced \in BOOLEAN :
                    /\ token' = IF announced
                                THEN [token EXCEPT !.main = Announced(writers).main]
                                ELSE token
                    /\ Fails(~announced)
          /\ UNCHANGED remote
  /\ UNCHANGED <<task, writers, old_qos, retry, reader_qos, publisher, envVars, matchVars,
                 broken>>

\* The last node goes: the route is retired, and dropped or adapted.
NodeUndiscovered ==
  /\ pc = "idle"
  /\ node
  /\ task' = "undiscovered"
  /\ writers' = local
  /\ retry' = retry \ {"node"}
  /\ node' = FALSE
  /\ token' = None
  /\ Goto(IF remote = {} THEN "drop" ELSE "announce")
  /\ UNCHANGED <<creating, old_qos, envVars, remote, reader_qos, publisher, matchVars,
                 failVars>>

\* LocalWritersChanged supersedes its own retry; without Writers nothing is done.
WritersChanged ==
  /\ pc = "idle"
  /\ changed
  /\ changed' = FALSE
  /\ retry' = retry \ {"writers"}
  /\ task' = "writers"
  /\ writers' = local
  /\ Goto(IF local = <<>> THEN "idle" ELSE "announce")
  /\ UNCHANGED <<creating, old_qos, local, changes, subscribers, routeVars, matchVars,
                 failVars>>

\* The tick of the main loop handles a queued event again.  The one of a node adds or
\* removes it again, which changes nothing, before the route adapts.
Retry(k) ==
  /\ k \in retry
  /\ k = "node" /\ node => local # <<>>
  /\ Begin(IF k = "writers" THEN "writers" ELSE IF node THEN "discovered" ELSE "undiscovered",
           IF k = "writers" /\ local = <<>> THEN "idle" ELSE "announce")
  /\ retry' = retry \ {k}

\* remove_remote_route, also of a bridge that the route does not serve, or
\* prune_remote_routes_with_prefix: the last bridge takes the Readers with it, whatever
\* the matching status is.
RemoteLeaves(z) ==
  /\ pc = "idle"
  /\ remote' = remote \ {z}
  /\ readers' = IF remote' = {} THEN None ELSE readers
  /\ Goto(IF remote' = {} /\ ~node THEN "drop" ELSE "idle")
  /\ UNCHANGED <<task, creating, writers, old_qos, retry, envVars, node, token, reader_qos,
                 publisher, listener, is_matching, callback, reported, failVars>>

\* Drop: the listener first, then the Readers.
DropListener ==
  /\ Undeclared("drop", "dropping")
  /\ UNCHANGED <<task, creating, writers, old_qos, retry, envVars, routeVars, readers,
                 is_matching, callback, reported, failVars>>

DropReaders ==
  /\ pc = "dropping"
  /\ Goto("dropped")
  /\ readers' = None
  /\ UNCHANGED <<task, creating, writers, old_qos, retry, envVars, routeVars, listener,
                 is_matching, callback, reported, failVars>>

\* The route no longer exists, whatever its surroundings do.
Dropped == pc = "dropped" /\ UNCHANGED vars

Manager ==
  \/ NodeDiscovered \/ NodeUndiscovered \/ WritersChanged
  \/ \E z \in Zids : SubscriberAnnounced(z) \/ RemoteLeaves(z)
  \/ \E k \in retry : Retry(k)
  \/ Add \/ Update
  \/ DropListener \/ DropReaders

Environment ==
  /\ pc # "dropped"
  /\ \/ \E p \in Profiles : ChangeWriters(p)
     \/ \E s \in Zids \cup Plain : ChangeSubscribers(s)

Next == Manager \/ CallbackBegin \/ CallbackBody \/ Environment \/ Dropped

Spec == Init /\ [][Next]_vars

-----------------------------------------------------------------------------
(* Properties *)

\* The state of the route is what the code declares.
TypeOK ==
  /\ local \in Profiles
  /\ writers \in Profiles
  /\ changed \in BOOLEAN
  /\ changes \in 0 .. MaxChanges
  /\ subscribers \subseteq Zids \cup Plain
  /\ task \in {"discovered", "undiscovered", "writers"} \cup Zids
  /\ pc \in {"idle", "add", "announce", "announce_volatile", "compare", "volatile",
             "rebuild", "unlisten", "deactivate", "swap", "listen", "check", "activate",
             "drop", "dropping", "dropped"}
  /\ creating \in BOOLEAN
  /\ retry \subseteq {"node", "writers"}
  /\ node \in BOOLEAN
  /\ remote \subseteq Zids
  /\ {token, reader_qos, publisher, readers, old_qos} \subseteq Pairs
  /\ listener \in BOOLEAN
  /\ is_matching \in BOOLEAN
  /\ callback \in {"idle", "matching", "not_matching"}
  /\ reported \in BOOLEAN
  /\ failures \in 0 .. MaxFailures
  /\ broken \in BOOLEAN

\* A dropped route leaves no DDS Reader and no callback that could create one: "so it
\* can't re-create a DDS Reader after we've torn it down" (Drop).
NoReaderAfterDrop == pc = "dropped" => readers = None /\ callback = "idle"

\* A DDS Reader has the QoS that its route has now and feeds a publisher declared for
\* that QoS: a TRANSIENT_LOCAL Reader its cache, a VOLATILE one its own publisher.
ReadersFit ==
  \A i \in {"main", "volatile"} :
    readers[i] # NoQos => readers[i] = reader_qos[i] /\ readers[i] = publisher[i]

\* Whatever the matching callback does during rebuilds and the Drop, the DDS Readers are
\* the route's own.
ReadersOwned == NoReaderAfterDrop /\ ReadersFit

\* Nothing is left to do about the route for the manager, the main loop and Zenoh.
Settled ==
  /\ pc = "idle"
  /\ ~changed
  /\ retry = {}
  /\ callback = "idle"
  /\ listener => reported = Matching

\* Whatever failed and was retried meanwhile, the DDS Readers' QoS and the announcements
\* are the ones of the Writers that are there now: "keep the old QoS so that the next
\* update retries the rebuild".
FollowsWriters ==
  Settled /\ local # <<>> =>
    /\ \A i \in {"main", "volatile"} :
         /\ same_qos(reader_qos[i], Desired(local)[i], TRUE)
         /\ token.main # NoQos => same_qos(token[i], Announced(local)[i], FALSE)

Active == \A i \in {"main", "volatile"} : readers[i] = reader_qos[i]

\* A route that serves a remote bridge and has a matching subscriber reads the topic,
\* in whatever order bridges, matching statuses and rebuilds came: it does not stay
\* "listed but dead".  A Reader or a listener that could not be created is excepted.
NotListedButDead == Settled /\ Matching /\ remote # {} /\ ~broken => Active

\* "activate/deactivate DDS Reader on detection/undetection of matching Subscribers"
\* (declare_matching_listener): the topic is read while a remote subscriber matches.
ActiveWhileMatching == Settled /\ Matching /\ ~broken => Active

=============================================================================
