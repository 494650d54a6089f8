------------------------- MODULE RouteSubscriberProofs -------------------------
(***************************************************************************)
(* Theorems about a subscriber route, for any nodes, announcements and     *)
(* bounds: whatever step of an update or an activation fails, between two  *)
(* events the route is what its remote publishers need, or an event is     *)
(* queued that makes it so.                                                *)
(*                                                                         *)
(* The argument says of each stage what the stages before have done; a     *)
(* stage that fails queues its event or, after a prune, is on record.  An  *)
(* activation leaves the Writers as the last update has left them, so it   *)
(* may be interrupted between two updates.                                 *)
(*                                                                         *)
(* Of the undeclared Readers: the last event that a Writer has sent tells  *)
(* what matches it now, and a Writer that replaces one with Readers is to  *)
(* be checked, so what the loop handles last is true.                      *)
(***************************************************************************)
EXTENDS RouteSubscriber, TLAPS

Updates == {"announced", "retired", "pruned"}

\* A task is one of an announcement, if it can be queued.
IsTask(t) ==
  /\ t = [op |-> t.op, of |-> t.of, again |-> t.again]
  /\ t.op \in Updates \cup {"activated"}
  /\ t.again \in BOOLEAN
  /\ t.op \in {"announced", "retired"} => t.of \in Remotes

\* The handlers and their tasks.
Handlers ==
  /\ pc \in {"idle", "heal", "volatile", "install", "subscribe", "token", "redeclare"}
            \cup Installing
  /\ pc = "idle" => task = NoTask
  /\ pc # "idle" => IsTask(task) /\ exists
  /\ pc \in {"heal", "volatile"} => task.op \in Updates
  /\ pc \in {"subscribe", "token"} => task.op = "activated"
  /\ \A t \in retries : IsTask(t) /\ t.op \in {"announced", "retired"}

\* The bounds, and the numbers of the Writers.
Numbered ==
  /\ scenario \in Scenarios
  /\ failures \in Nat
  /\ created \in Nat
  /\ dds_writer # DDS_ENTITY_NULL => dds_writer # dds_volatile_writer
  /\ new_writer # DDS_ENTITY_NULL => new_writer \notin {dds_writer, dds_volatile_writer}
  /\ {dds_writer, dds_volatile_writer, new_writer} \subseteq 0 .. created

ShapeInv == TypeOK /\ Handlers /\ Numbered

\* Without nodes a route is not announced, and no stage is about to declare anything.
Unannounced ==
  local_nodes = {} =>
    /\ zenoh_subscriber = "none" /\ ~liveliness_token
    /\ pc # "heal"
    /\ pc # "idle" => task.op # "activated"
    /\ pc = "redeclare" => ~task.again

\* An activation declares the Zenoh subscriber, and then announces the route.
Activation ==
  /\ pc # "idle" /\ task.op = "activated" =>
       ~liveliness_token /\ (pc # "token" => zenoh_subscriber = "none")
  /\ pc = "token" => zenoh_subscriber # "none"

\* The Zenoh subscriber of a replaced Writer is declared again after it.
SubscriberInv == ~(pc = "redeclare" /\ task.again) => SubscriberFits

\* An update heals first.
FedInv ==
  /\ pc = "idle" => Fed
  /\ pc \notin {"idle", "heal"} /\ remote_writer_qos # {} /\ liveliness_token =>
       zenoh_subscriber # "none"

MainFits ==
  IF remote_writer_qos = {} THEN ~transient_local ELSE writer_qos = Desired(remote_writer_qos)
VolatileFits == (dds_volatile_writer # DDS_ENTITY_NULL) = Mixed(remote_writer_qos)

\* Then it sees to the volatile Writer, and to the first one.
WritersInv ==
  /\ (pc = "idle" \/ task.op = "activated") => WritersFit
  /\ pc # "idle" /\ task.op \in Updates =>
       /\ pc \in Installing \cup {"install", "redeclare"} => VolatileFits
       /\ pc = "redeclare" => MainFits

FollowInv == Unannounced /\ Activation /\ SubscriberInv /\ FedInv /\ WritersInv

\* The two kinds of tasks.
LEMMA TaskFacts ==
  ASSUME NEW op \in Updates \cup {"activated"}, NEW of,
         op \in {"announced", "retired"} => of \in Remotes
  PROVE  /\ IsTask(Task(op, of))
         /\ Task(op, of).op = op /\ Task(op, of).of = of /\ Task(op, of).again = FALSE
BY DEF Task, IsTask

\* A task is not no task.
LEMMA TaskIsSome ==
  ASSUME NEW t, IsTask(t)
  PROVE  t # NoTask
BY DEF IsTask, NoTask, Updates

\* A QoS that is derived is one.
LEMMA DesiredQos ==
  ASSUME NEW remotes
  PROVE  Desired(remotes) \in {"volatile", "deep", "history"}
BY DEF Desired

-----------------------------------------------------------------------------
(* The steps of the surroundings. *)

\* DDS and the task that checks Readers again leave the route alone.
LEMMA SurroundingsKeep ==
  ASSUME ShapeInv, FollowInv,
         \/ \E w \in 1 .. created : RecheckReads(w) \/ RecheckSends(w)
         \/ \E r \in scenario.readers : ReaderComes(r) \/ ReaderGoes(r) \/ Match(r) \/ Unmatch(r)
         \/ UNCHANGED vars
  PROVE  ShapeInv' /\ FollowInv'
<1>1. /\ UNCHANGED <<localVars, zenohVars, writerVars, loopVars, scenario, failures>>
      /\ matched' # {} => dds_writer # DDS_ENTITY_NULL
      /\ UNCHANGED <<new_writer, new_attached>>
      /\ new_matched' # {} => pc \in Installing
  BY DEF RecheckReads, RecheckSends, ReaderComes, ReaderGoes, Match, Unmatch,
         publication_matched, new_publication_matched, Changes, boundVars, matchVars, newVars,
         vars, ShapeInv, TypeOK, Installing
<1>2. UNCHANGED <<exists, local_nodes, remote_writer_qos, liveliness_token, zenoh_subscriber,
                  unretried, dds_writer, writer_qos, dds_volatile_writer, gids, created,
                  pc, task, retries, scenario, failures>>
  BY <1>1 DEF localVars, zenohVars, writerVars, loopVars
<1>3. ShapeInv'
  BY <1>1, <1>2 DEF ShapeInv, TypeOK, Writers, Handlers, Numbered, Installing
<1>4. FollowInv'
  BY <1>2 DEF FollowInv, Unannounced, Activation, SubscriberInv, SubscriberFits, Subscribed,
              transient_local, FedInv, Fed, Repaired, WritersInv, WritersFit, MainFits,
              VolatileFits
<1> QED
  BY <1>3, <1>4

-----------------------------------------------------------------------------
(* The stages of an update. *)

\* A stage that fails leaves an update to be repeated, and an activation undone.
LEMMA FailureKeeps ==
  ASSUME ShapeInv, FollowInv, pc \notin {"idle", "subscribe", "token"}, Fails,
         Return(FALSE), Leave,
         UNCHANGED <<localVars, liveliness_token, writerVars, matchVars, eventVars>>,
         pc \notin Installing,
         \/ zenoh_subscriber' = "none"
         \/ zenoh_subscriber' = zenoh_subscriber /\ pc # "redeclare"
  PROVE  ShapeInv' /\ FollowInv'
<1>1. /\ UNCHANGED <<exists, local_nodes, remote_writer_qos, liveliness_token, dds_writer,
                     writer_qos, dds_volatile_writer, gids, created, matched, scenario,
                     new_writer, new_matched, new_attached>>
      /\ failures' = failures + 1
      /\ pc' = "idle" /\ task' = NoTask
  BY DEF localVars, writerVars, matchVars, newVars, Fails, Return
<1>2. IsTask(task) /\ exists
  BY DEF ShapeInv, Handlers, Installing
<1>3. /\ retries' = IF task.op \notin {"announced", "retired"}
                    THEN retries ELSE retries \cup {task}
      /\ unretried' = (unretried \/ task.op = "pruned")
  BY DEF Return, Leave
<1>4. ShapeInv'
  <2>1. TypeOK'
    BY <1>1 DEF ShapeInv, TypeOK, Writers, Numbered, Installing
  <2>2. Handlers'
    BY <1>1, <1>2, <1>3 DEF ShapeInv, Handlers, Installing
  <2>3. Numbered'
    BY <1>1 DEF ShapeInv, Numbered
  <2> QED
    BY <2>1, <2>2, <2>3 DEF ShapeInv
<1>5. SubscriberFits'
  BY <1>1 DEF FollowInv, SubscriberInv, SubscriberFits, Subscribed, transient_local
<1>6. Fed' /\ WritersFit'
  <2>1. CASE task.op = "activated"
    <3>1. ~liveliness_token
      BY <2>1 DEF FollowInv, Activation
    <3>2. Repaired' => Repaired
      BY <1>3 DEF Repaired
    <3>3. WritersFit
      BY <2>1 DEF FollowInv, WritersInv
    <3> QED
      BY <1>1, <3>1, <3>2, <3>3 DEF Fed, WritersFit, transient_local
  <2>2. CASE task.op \in Updates
    <3>1. ~Repaired'
      BY <1>3, <2>2 DEF Repaired, Updates
    <3> QED
      BY <3>1 DEF Fed, WritersFit
  <2> QED
    BY <1>2, <2>1, <2>2 DEF IsTask
<1>7. Unannounced' /\ Activation'
  BY <1>1 DEF FollowInv, Unannounced, Activation, Installing
<1> QED
  BY <1>1, <1>4, <1>5, <1>6, <1>7 DEF FollowInv, SubscriberInv, FedInv, WritersInv

\* An update declares the Zenoh subscriber that a failure has lost.
LEMMA HealKeeps ==
  ASSUME ShapeInv, FollowInv, Heal
  PROVE  ShapeInv' /\ FollowInv'
<1>1. CASE Fails /\ Return(FALSE) /\ Leave /\ UNCHANGED zenoh_subscriber
  BY <1>1, FailureKeeps DEF Heal, Installing
<1>2. CASE /\ zenoh_subscriber' = Subscribed
           /\ pc' = "volatile"
           /\ UNCHANGED <<task, retries, unretried, boundVars>>
  <2>1. /\ UNCHANGED <<exists, local_nodes, remote_writer_qos, liveliness_token, dds_writer,
                       writer_qos, dds_volatile_writer, gids, created, matched, scenario,
                       failures, task, retries, unretried,
                       new_writer, new_matched, new_attached>>
        /\ pc = "heal"
    BY <1>2 DEF Heal, localVars, writerVars, matchVars, newVars, boundVars
  <2>2. /\ IsTask(task) /\ exists /\ task # NoTask
        /\ task.op \in Updates
    BY <2>1, TaskIsSome DEF ShapeInv, Handlers, Installing
  <2>3. ShapeInv'
    BY <1>2, <2>1, <2>2 DEF ShapeInv, TypeOK, Writers, Handlers, Numbered, Subscribed, Installing
  <2>4. FollowInv'
    BY <1>2, <2>1, <2>2 DEF FollowInv, Unannounced, Activation, SubscriberInv, SubscriberFits,
       Subscribed, transient_local, FedInv, WritersInv, Installing, Updates
  <2> QED
    BY <2>3, <2>4
<1> QED
  BY <1>1, <1>2 DEF Heal

\* Then it sees that there is a volatile Writer if and only if durabilities mix.
LEMMA VolatileKeeps ==
  ASSUME ShapeInv, FollowInv, set_volatile_writer
  PROVE  ShapeInv' /\ FollowInv'
<1> DEFINE none == dds_volatile_writer = DDS_ENTITY_NULL
<1>1. /\ pc = "volatile"
      /\ UNCHANGED <<exists, local_nodes, remote_writer_qos, liveliness_token,
                     zenoh_subscriber, dds_writer, writer_qos, matched, new_writer,
                     new_matched, new_attached>>
  BY DEF set_volatile_writer, localVars, matchVars, newVars
<1>2. /\ IsTask(task) /\ exists /\ task # NoTask
      /\ task.op \in Updates
  BY <1>1, TaskIsSome DEF ShapeInv, Handlers, Installing
<1>3. CASE Fails /\ Return(FALSE) /\ Leave
           /\ UNCHANGED <<dds_volatile_writer, gids, created>>
  BY <1>1, <1>3, FailureKeeps DEF set_volatile_writer, Installing, writerVars
<1>4. ASSUME pc' = "install", UNCHANGED <<task, retries, unretried, scenario>>,
             VolatileFits'
      PROVE  /\ Handlers'
             /\ FollowInv'
  <2>1. Handlers'
    BY <1>1, <1>2, <1>4 DEF ShapeInv, Handlers, Installing
  <2>2. FollowInv'
    BY <1>1, <1>2, <1>4 DEF FollowInv, Unannounced, Activation, SubscriberInv, SubscriberFits,
       Subscribed, transient_local, FedInv, WritersInv, Installing, Updates
  <2> QED
    BY <2>1, <2>2
<1>5. CASE /\ none # Mixed(remote_writer_qos)
           /\ pc' = "install"
           /\ UNCHANGED <<task, retries, dds_volatile_writer, gids, created, unretried,
                          boundVars>>
  <2>1. UNCHANGED <<scenario, failures>>
    BY <1>5 DEF boundVars
  <2>2. VolatileFits'
    BY <1>1, <1>5 DEF VolatileFits, Mixed
  <2>3. TypeOK' /\ Numbered'
    BY <1>1, <1>2, <1>5, <2>1 DEF ShapeInv, TypeOK, Writers, Numbered, Installing
  <2> QED
    BY <1>4, <1>5, <2>1, <2>2, <2>3 DEF ShapeInv
<1>6. CASE /\ none /\ Mixed(remote_writer_qos)
           /\ CreateWriter
           /\ dds_volatile_writer' = created'
           /\ pc' = "install"
           /\ UNCHANGED <<task, retries, unretried, boundVars>>
  <2>1. /\ UNCHANGED <<scenario, failures>>
        /\ created' = created + 1 /\ gids' = gids \cup {created'}
    BY <1>6 DEF boundVars, CreateWriter
  <2>2. created' # DDS_ENTITY_NULL
    BY <2>1 DEF ShapeInv, Numbered, DDS_ENTITY_NULL
  <2>3. VolatileFits'
    BY <1>1, <1>6, <2>2 DEF VolatileFits, Mixed, DDS_ENTITY_NULL
  <2>4. Writers' = Writers \cup {created'}
    BY <1>1, <1>6, <2>2 DEF Writers, DDS_ENTITY_NULL
  <2>5. Numbered'
    BY <1>1, <1>6, <2>1, <2>2 DEF ShapeInv, Numbered, DDS_ENTITY_NULL
  <2>6. /\ Writers' \subseteq gids' /\ gids' \subseteq 1 .. created'
        /\ failures' = 0 => gids' = Writers'
    BY <2>1, <2>4 DEF ShapeInv, TypeOK, Numbered, Installing
  <2>7. TypeOK'
    BY <1>1, <1>2, <1>6, <2>6 DEF ShapeInv, TypeOK, Installing
  <2> QED
    BY <1>4, <1>6, <2>1, <2>3, <2>5, <2>7 DEF ShapeInv
<1>7. CASE /\ ~none /\ ~Mixed(remote_writer_qos)
           /\ \/ gids' = without_gids({dds_volatile_writer}) /\ UNCHANGED boundVars
              \/ Fails /\ UNCHANGED gids
           /\ dds_volatile_writer' = DDS_ENTITY_NULL
           /\ pc' = "install"
           /\ UNCHANGED <<task, retries, created, unretried>>
  <2>1. /\ scenario' = scenario
        /\ \/ gids' = gids \ {dds_volatile_writer} /\ failures' = failures
           \/ gids' = gids /\ failures' = failures + 1
    BY <1>7 DEF boundVars, Fails, without_gids
  <2>2. VolatileFits'
    BY <1>1, <1>7 DEF VolatileFits, Mixed
  <2>3. Writers' = Writers \ {dds_volatile_writer}
    BY <1>1, <1>7 DEF Writers, ShapeInv, Numbered, DDS_ENTITY_NULL
  <2>4. Numbered'
    BY <1>1, <1>7, <2>1 DEF ShapeInv, Numbered, DDS_ENTITY_NULL
  <2>5. /\ Writers' \subseteq gids' /\ gids' \subseteq 1 .. created'
        /\ failures' = 0 => gids' = Writers'
    <3>1. /\ Writers \subseteq gids /\ gids \subseteq 1 .. created /\ failures \in Nat
          /\ failures = 0 => gids = Writers
          /\ created' = created
      BY <1>7 DEF ShapeInv, TypeOK, Numbered, Installing
    <3>2. CASE gids' = gids \ {dds_volatile_writer} /\ failures' = failures
      BY <2>3, <3>1, <3>2
    <3>3. CASE gids' = gids /\ failures' = failures + 1
      <4>1. failures' # 0
        BY <3>1, <3>3
      <4> QED
        BY <2>3, <3>1, <3>3, <4>1
    <3> QED
      BY <2>1, <3>2, <3>3
  <2>6. TypeOK'
    BY <1>1, <1>2, <1>7, <2>5 DEF ShapeInv, TypeOK, Installing
  <2> QED
    BY <1>4, <1>7, <2>1, <2>2, <2>4, <2>6 DEF ShapeInv
<1> QED
  BY <1>3, <1>5, <1>6, <1>7 DEF set_volatile_writer

\* The first Writer is kept if it has the QoS that is wanted.
LEMMA KeepWriterKeeps ==
  ASSUME ShapeInv, FollowInv, KeepWriter
  PROVE  ShapeInv' /\ FollowInv'
<1>1. /\ UNCHANGED <<exists, local_nodes, remote_writer_qos, liveliness_token,
                     zenoh_subscriber, dds_writer, writer_qos, dds_volatile_writer, gids,
                     created, matched, scenario, failures,
                     new_writer, new_matched, new_attached>>
      /\ retries' = retries
      /\ pc = "install" /\ pc' = "idle" /\ task' = NoTask
  BY DEF KeepWriter, Return, localVars, writerVars, matchVars, newVars, boundVars
<1>2. IsTask(task) /\ exists
  BY <1>1 DEF ShapeInv, Handlers, Installing
<1>3. task.op \in Updates
  BY <1>2 DEF KeepWriter, UpToDate, IsTask
<1>4. ShapeInv'
  BY <1>1, <1>2 DEF ShapeInv, TypeOK, Writers, Handlers, Numbered, Installing
<1>5. MainFits /\ VolatileFits
  BY <1>1, <1>3 DEF KeepWriter, UpToDate, NewQos, MainFits, FollowInv, WritersInv
<1>6. Unannounced' /\ Activation' /\ SubscriberInv'
  BY <1>1 DEF FollowInv, Unannounced, Activation, SubscriberInv, SubscriberFits, Subscribed,
     transient_local, Installing
<1>7. FedInv' /\ WritersInv'
  BY <1>1, <1>5 DEF FollowInv, FedInv, Fed, WritersInv, WritersFit, MainFits, VolatileFits,
     transient_local
<1> QED
  BY <1>4, <1>6, <1>7 DEF FollowInv

\* Else a new one is created, gets its listener and reports its Readers; the old one is used.
LEMMA NewWriterKeeps ==
  ASSUME ShapeInv, FollowInv,
         \/ CreateNewWriter \/ attach_publication_matched_listener
         \/ ReadStatus \/ DeliverStatus
  PROVE  ShapeInv' /\ FollowInv'
<1>1. /\ UNCHANGED <<exists, local_nodes, remote_writer_qos, liveliness_token,
                     zenoh_subscriber, unretried, task, retries, dds_writer, writer_qos,
                     dds_volatile_writer, matched, scenario>>
      /\ pc \in {"install"} \cup Installing /\ pc' \in Installing
  BY DEF CreateNewWriter, attach_publication_matched_listener, ReadStatus, DeliverStatus,
         localVars, zenohVars, writerVars, boundVars, Fails, Installing
<1>2. IsTask(task) /\ exists /\ task # NoTask
  BY <1>1, TaskIsSome DEF ShapeInv, Handlers, Installing
<1>3. ShapeInv'
  <2>1. CASE CreateNewWriter
    <3>1. /\ created' = created + 1 /\ gids' = gids \cup {created'} /\ new_writer' = created'
          /\ UNCHANGED <<new_matched, new_attached, failures>>
          /\ new_writer = DDS_ENTITY_NULL
      BY <2>1 DEF CreateNewWriter, CreateWriter, boundVars, ShapeInv, TypeOK, Installing
    <3>2. created' # DDS_ENTITY_NULL /\ created' > created
      BY <3>1 DEF ShapeInv, Numbered, DDS_ENTITY_NULL
    <3>3. Writers' = Writers \cup {created'}
      BY <1>1, <3>1, <3>2 DEF Writers, DDS_ENTITY_NULL
    <3>4. /\ Writers' \subseteq gids' /\ gids' \subseteq 1 .. created'
          /\ failures' = 0 => gids' = Writers'
      <4>1. /\ Writers \subseteq gids /\ gids \subseteq 1 .. created /\ created \in Nat
            /\ failures = 0 => gids = Writers
        BY DEF ShapeInv, TypeOK, Numbered
      <4> QED
        BY <3>1, <3>3, <4>1
    <3>5. TypeOK'
      BY <1>1, <1>2, <3>1, <3>2, <3>4 DEF ShapeInv, TypeOK, Installing
    <3>6. Handlers' /\ Numbered'
      BY <1>1, <1>2, <3>1, <3>2 DEF ShapeInv, Handlers, Numbered, Installing, DDS_ENTITY_NULL
    <3> QED
      BY <3>5, <3>6 DEF ShapeInv
  <2>2. CASE attach_publication_matched_listener \/ ReadStatus \/ DeliverStatus
    <3>1. /\ UNCHANGED <<created, gids, new_writer, new_matched>>
          /\ failures' = failures \/ failures' = failures + 1
          /\ pc \in Installing
          /\ new_attached' => pc' \in Installing \ {"attach"}
      BY <2>2 DEF attach_publication_matched_listener, ReadStatus, DeliverStatus, writerVars,
         boundVars, Fails, Installing, ShapeInv, TypeOK
    <3>2. failures \in Nat /\ failures' \in Nat /\ (failures' = 0 => failures = 0)
      BY <3>1 DEF ShapeInv, Numbered
    <3>3. TypeOK'
      BY <1>1, <1>2, <3>1, <3>2 DEF ShapeInv, TypeOK, Writers, Installing
    <3>4. Handlers' /\ Numbered'
      BY <1>1, <1>2, <3>1, <3>2 DEF ShapeInv, Handlers, Numbered, Installing
    <3> QED
      BY <3>3, <3>4 DEF ShapeInv
  <2> QED
    BY <2>1, <2>2
<1>4. FollowInv'
  BY <1>1, <1>2 DEF FollowInv, Unannounced, Activation, SubscriberInv, SubscriberFits,
     Subscribed, transient_local, FedInv, WritersInv, WritersFit, Repaired, MainFits,
     VolatileFits, Installing, IsTask
<1> QED
  BY <1>3, <1>4

\* Then it replaces the old one.
LEMMA InstallKeeps ==
  ASSUME ShapeInv, FollowInv, install_writer
  PROVE  ShapeInv' /\ FollowInv'
<1>1. /\ UNCHANGED <<exists, local_nodes, remote_writer_qos, liveliness_token,
                     zenoh_subscriber, unretried, retries, dds_volatile_writer, created,
                     scenario>>
      /\ pc = "swap" /\ pc' = "redeclare"
      /\ dds_writer' = new_writer /\ writer_qos' = NewQos
      /\ new_writer' = DDS_ENTITY_NULL /\ new_matched' = {} /\ new_attached' = FALSE
      /\ task' = [task EXCEPT !.again = zenoh_subscriber # "none"
                                          /\ (transient_local \/ NewQos = "history")]
  BY DEF install_writer, localVars, zenohVars, boundVars, Fails
<1>2. \/ gids' = gids \ {dds_writer} /\ failures' = failures
      \/ gids' = gids /\ failures' = failures + 1
  BY DEF install_writer, without_gids, boundVars, Fails
<1>3. /\ IsTask(task) /\ exists
      /\ new_writer # DDS_ENTITY_NULL
  BY <1>1 DEF ShapeInv, Handlers, TypeOK, Installing
<1>4. /\ IsTask(task') /\ task'.op = task.op
      /\ task'.again = (zenoh_subscriber # "none"
                           /\ (transient_local \/ NewQos = "history"))
  BY <1>1, <1>3 DEF IsTask
<1>5. NewQos \in {"volatile", "deep", "history"}
  BY DesiredQos DEF NewQos, fallback_writer_qos
<1>6. ShapeInv'
  <2>1. Writers' = Writers \ {dds_writer}
    BY <1>1, <1>3 DEF Writers, ShapeInv, Numbered, DDS_ENTITY_NULL
  <2>2. /\ Writers' \subseteq gids' /\ gids' \subseteq 1 .. created'
        /\ failures' = 0 => gids' = Writers'
    <3>1. /\ Writers \subseteq gids /\ gids \subseteq 1 .. created /\ failures \in Nat
          /\ failures = 0 => gids = Writers
          /\ created' = created
      BY <1>1 DEF ShapeInv, TypeOK, Numbered, Installing
    <3>2. CASE gids' = gids \ {dds_writer} /\ failures' = failures
      BY <2>1, <3>1, <3>2
    <3>3. CASE gids' = gids /\ failures' = failures + 1
      <4>1. failures' # 0
        BY <3>1, <3>3
      <4> QED
        BY <2>1, <3>1, <3>3, <4>1
    <3> QED
      BY <1>2, <3>2, <3>3
  <2>3. TypeOK'
    <3>1. task' # NoTask
      BY <1>4, TaskIsSome
    <3> QED
      BY <1>1, <1>3, <1>5, <2>2, <3>1 DEF ShapeInv, TypeOK, Installing
  <2>4. Handlers'
    BY <1>1, <1>3, <1>4 DEF ShapeInv, Handlers, Installing
  <2>5. Numbered'
    BY <1>1, <1>2, <1>3 DEF ShapeInv, Numbered, DDS_ENTITY_NULL
  <2> QED
    BY <2>3, <2>4, <2>5 DEF ShapeInv
<1>7. MainFits'
  <2>1. Desired(remote_writer_qos)' = Desired(remote_writer_qos)
    BY <1>1 DEF Desired
  <2> QED
    BY <1>1, <2>1 DEF MainFits, NewQos, fallback_writer_qos, transient_local
<1>8. VolatileFits' = VolatileFits
  BY <1>1 DEF VolatileFits, Mixed
<1>9. SubscriberInv'
  <2>1. SubscriberFits
    BY <1>1 DEF FollowInv, SubscriberInv
  <2> SUFFICES ASSUME ~task'.again
               PROVE  SubscriberFits'
    BY <1>1 DEF SubscriberInv
  <2> QED
    BY <1>1, <1>4, <2>1 DEF SubscriberFits, Subscribed, transient_local
<1>10. Unannounced' /\ Activation' /\ FedInv'
  BY <1>1, <1>4 DEF FollowInv, Unannounced, Activation, FedInv
<1>11. WritersInv'
  <2>1. CASE task.op = "activated"
    <3>1. WritersFit
      BY <2>1 DEF FollowInv, WritersInv
    <3>2. exists' /\ Repaired' => VolatileFits'
      BY <1>1, <1>8, <3>1 DEF WritersFit, VolatileFits, Repaired
    <3>3. WritersFit'
      BY <1>7, <3>2 DEF WritersFit, MainFits, VolatileFits
    <3> QED
      BY <1>4, <2>1, <3>3 DEF WritersInv, Updates
  <2>2. CASE task.op \in Updates
    <3>1. VolatileFits
      BY <1>1, <2>2 DEF FollowInv, WritersInv, Installing
    <3> QED
      BY <1>1, <1>4, <1>7, <1>8, <2>2, <3>1 DEF WritersInv, Updates
  <2> QED
    BY <1>3, <2>1, <2>2 DEF IsTask
<1> QED
  BY <1>6, <1>9, <1>10, <1>11 DEF FollowInv

\* The last stage declares the Zenoh subscriber of a history again.
LEMMA RedeclareKeeps ==
  ASSUME ShapeInv, FollowInv, Redeclare
  PROVE  ShapeInv' /\ FollowInv'
<1>1. CASE task.again /\ Fails /\ zenoh_subscriber' = "none" /\ Return(FALSE) /\ Leave
  BY <1>1, FailureKeeps DEF Redeclare, Installing
<1>2. CASE /\ zenoh_subscriber' = IF task.again THEN Subscribed ELSE zenoh_subscriber
           /\ Return(TRUE)
           /\ unretried' = FALSE
           /\ UNCHANGED boundVars
  <2>1. /\ UNCHANGED <<exists, local_nodes, remote_writer_qos, liveliness_token, dds_writer,
                       writer_qos, dds_volatile_writer, gids, created, matched, scenario,
                       failures,
                       new_writer, new_matched, new_attached>>
        /\ retries' = retries
        /\ pc = "redeclare" /\ pc' = "idle" /\ task' = NoTask
    BY <1>2 DEF Redeclare, Return, localVars, writerVars, matchVars, newVars, boundVars
  <2>2. IsTask(task) /\ exists
    BY <2>1 DEF ShapeInv, Handlers, Installing
  <2>3. task.op \in Updates
    BY <2>2 DEF Redeclare, IsTask
  <2>4. Subscribed \in {"history", "plain"}
    BY DEF Subscribed
  <2>5. ShapeInv'
    BY <1>2, <2>1, <2>2, <2>4 DEF ShapeInv, TypeOK, Writers, Handlers, Numbered, Installing
  <2>6. MainFits /\ VolatileFits
    BY <2>1, <2>3 DEF FollowInv, WritersInv, Installing
  <2>7. SubscriberInv'
    BY <1>2, <2>1 DEF FollowInv, SubscriberInv, SubscriberFits, Subscribed, transient_local
  <2>8. Unannounced' /\ Activation'
    BY <1>2, <2>1 DEF FollowInv, Unannounced, Activation, Installing
  <2>9. FedInv' /\ WritersInv'
    BY <1>2, <2>1, <2>4, <2>6 DEF FollowInv, FedInv, Fed, WritersInv, WritersFit, MainFits,
       VolatileFits, transient_local
  <2> QED
    BY <2>5, <2>7, <2>8, <2>9 DEF FollowInv
<1> QED
  BY <1>1, <1>2 DEF Redeclare

\* A Writer that cannot be created ends the update or the activation.
LEMMA InstallFailureKeeps ==
  ASSUME ShapeInv, FollowInv, CreateNewWriterFails
  PROVE  ShapeInv' /\ FollowInv'
BY FailureKeeps DEF CreateNewWriterFails, Installing

-----------------------------------------------------------------------------
(* The stages of an activation. *)

\* An activation declares the Zenoh subscriber that fits the Writer.
LEMMA SubscribeKeeps ==
  ASSUME ShapeInv, FollowInv, Subscribe
  PROVE  ShapeInv' /\ FollowInv'
<1>1. /\ UNCHANGED <<exists, local_nodes, remote_writer_qos, liveliness_token, unretried,
                     dds_writer, writer_qos, dds_volatile_writer, gids, created, matched,
                     scenario,
                     new_writer, new_matched, new_attached>>
      /\ retries' = retries
      /\ pc \in {"subscribe", "redeclare"}
      /\ \/ /\ zenoh_subscriber' = Subscribed
            /\ pc' = "token" /\ task' = task /\ failures' = failures
         \/ /\ zenoh_subscriber' = zenoh_subscriber
            /\ pc' = "idle" /\ task' = NoTask /\ failures' = failures + 1
  BY DEF Subscribe, Return, Fails, localVars, writerVars, matchVars, newVars, boundVars,
         ShapeInv, Handlers, Installing
<1>2. IsTask(task) /\ exists /\ task # NoTask /\ task.op = "activated"
  BY <1>1, TaskIsSome DEF Subscribe, ShapeInv, Handlers, Installing
<1>3. Subscribed \in {"history", "plain"}
  BY DEF Subscribed
<1>4. ShapeInv'
  <2>1. TypeOK'
    BY <1>1, <1>2, <1>3 DEF ShapeInv, TypeOK, Writers, Numbered, Installing
  <2>2. Handlers' /\ Numbered'
    BY <1>1, <1>2 DEF ShapeInv, Handlers, Numbered, Installing
  <2> QED
    BY <2>1, <2>2 DEF ShapeInv
<1>5. ~liveliness_token /\ zenoh_subscriber = "none" /\ WritersFit /\ local_nodes # {}
  BY <1>1, <1>2 DEF FollowInv, Activation, WritersInv, Unannounced
<1>6. SubscriberFits' /\ WritersFit' /\ Fed'
  BY <1>1, <1>5 DEF SubscriberFits, Subscribed, WritersFit, Repaired, Fed, transient_local
<1>7. Unannounced' /\ Activation'
  BY <1>1, <1>2, <1>3, <1>5 DEF Unannounced, Activation
<1> QED
  BY <1>1, <1>2, <1>4, <1>5, <1>6, <1>7
     DEF FollowInv, SubscriberInv, FedInv, WritersInv, Updates

\* Last it announces the route.
LEMMA TokenKeeps ==
  ASSUME ShapeInv, FollowInv, DeclareToken
  PROVE  ShapeInv' /\ FollowInv'
<1>1. /\ UNCHANGED <<exists, local_nodes, remote_writer_qos, zenoh_subscriber, unretried,
                     dds_writer, writer_qos, dds_volatile_writer, gids, created, matched,
                     scenario,
                     new_writer, new_matched, new_attached>>
      /\ retries' = retries
      /\ pc = "token" /\ pc' = "idle" /\ task' = NoTask
      /\ \/ liveliness_token' = TRUE /\ failures' = failures
         \/ liveliness_token' = liveliness_token /\ failures' = failures + 1
  BY DEF DeclareToken, Return, Fails, localVars, writerVars, matchVars, newVars, boundVars
<1>2. IsTask(task) /\ exists /\ task.op = "activated"
  BY <1>1 DEF ShapeInv, Handlers, Installing
<1>3. ShapeInv'
  <2>1. liveliness_token' \in BOOLEAN /\ (failures' = 0 => failures = 0)
    <3>1. liveliness_token \in BOOLEAN /\ failures \in Nat
      BY DEF ShapeInv, TypeOK, Numbered, Installing
    <3>2. failures + 1 # 0
      BY <3>1
    <3> QED
      BY <1>1, <3>1, <3>2
  <2>2. TypeOK'
    BY <1>1, <1>2, <2>1 DEF ShapeInv, TypeOK, Writers, Installing
  <2>3. Handlers' /\ Numbered'
    BY <1>1, <1>2 DEF ShapeInv, Handlers, Numbered, Installing
  <2> QED
    BY <2>2, <2>3 DEF ShapeInv
<1>4. zenoh_subscriber # "none" /\ SubscriberFits /\ WritersFit /\ local_nodes # {}
  BY <1>1, <1>2
     DEF FollowInv, Activation, SubscriberInv, WritersInv, Unannounced, Installing
<1>5. SubscriberFits' /\ WritersFit' /\ Fed'
  BY <1>1, <1>4 DEF SubscriberFits, Subscribed, WritersFit, Repaired, Fed, transient_local
<1> QED
  BY <1>1, <1>3, <1>4, <1>5
     DEF FollowInv, Unannounced, Activation, SubscriberInv, FedInv, WritersInv

-----------------------------------------------------------------------------
(* The events of the loop, each taken between two handlers. *)

\* Between two handlers every part of the route is in order.
LEMMA IdleFacts ==
  ASSUME ShapeInv, FollowInv, pc = "idle"
  PROVE  /\ SubscriberFits /\ Fed /\ WritersFit
         /\ local_nodes = {} => zenoh_subscriber = "none" /\ ~liveliness_token
BY DEF FollowInv, SubscriberInv, FedInv, WritersInv, Unannounced, Installing

\* A route that is dropped leaves nothing behind.
LEMMA DropKeeps ==
  ASSUME ShapeInv, FollowInv, pc = "idle", Dropped, remote_writer_qos' = {},
         local_nodes' = {}, retries' \subseteq retries, UNCHANGED scenario
  PROVE  ShapeInv' /\ FollowInv'
<1> DEFINE olds == {dds_writer, dds_volatile_writer} \ {DDS_ENTITY_NULL}
<1>1. PICK told \in SUBSET olds :
        /\ gids' = gids \ told
        /\ IF told = olds THEN failures' = failures
           ELSE failures' = failures + 1
  BY DEF Dropped, without_gids
<1>2. /\ ~exists' /\ zenoh_subscriber' = "none" /\ ~liveliness_token' /\ ~unretried'
      /\ exists' \in BOOLEAN /\ liveliness_token' \in BOOLEAN
      /\ dds_writer' = DDS_ENTITY_NULL /\ writer_qos' = "none"
      /\ dds_volatile_writer' = DDS_ENTITY_NULL /\ matched' = {}
      /\ UNCHANGED <<created, pc, task, new_writer, new_matched, new_attached>>
  BY DEF Dropped, retire_route, newVars
<1>3. new_writer = DDS_ENTITY_NULL /\ Writers' = {}
  BY <1>2 DEF Writers, ShapeInv, TypeOK, Installing
<1>4. failures \in Nat /\ failures' \in Nat /\ (failures' = 0 => gids' = {})
  <2>1. /\ failures \in Nat
        /\ failures = 0 => gids = olds
    BY DEF ShapeInv, TypeOK, Numbered, Writers, Installing
  <2>2. CASE told = olds
    BY <1>1, <2>1, <2>2
  <2>3. CASE told # olds
    <3>1. failures' # 0 /\ failures' \in Nat
      BY <1>1, <2>1, <2>3
    <3> QED
      BY <2>1, <3>1
  <2> QED
    BY <2>2, <2>3
<1>5. ShapeInv'
  <2>1. TypeOK'
    BY <1>1, <1>2, <1>3, <1>4 DEF ShapeInv, TypeOK, Installing
  <2>2. Handlers'
    BY <1>2 DEF ShapeInv, Handlers, Installing
  <2>3. Numbered'
    BY <1>2, <1>4 DEF ShapeInv, Numbered, DDS_ENTITY_NULL
  <2> QED
    BY <2>1, <2>2, <2>3 DEF ShapeInv
<1> QED
  BY <1>2, <1>5 DEF FollowInv, Unannounced, Activation, SubscriberInv, SubscriberFits,
     FedInv, Fed, WritersInv, WritersFit, Installing, NoTask

\* A change of the remote publishers starts an update.
LEMMA StartKeeps ==
  ASSUME ShapeInv, FollowInv, pc = "idle", NEW op \in Updates, NEW of,
         op \in {"announced", "retired"} => of \in Remotes,
         exists', exists' \in BOOLEAN,
         remote_writer_qos' \subseteq Remotes,
         pc' = update_writer(remote_writer_qos'), task' = Task(op, of),
         retries' \subseteq retries,
         UNCHANGED <<local_nodes, zenohVars, writerVars, matchVars, failures, scenario>>
  PROVE  ShapeInv' /\ FollowInv'
<1>1. /\ UNCHANGED <<zenoh_subscriber, liveliness_token, dds_writer, writer_qos,
                     dds_volatile_writer, gids, created, matched, new_writer, new_matched,
                     new_attached>>
      /\ pc' \in {"heal", "volatile"}
      /\ pc' = "heal" => local_nodes # {}
      /\ pc' = "volatile" /\ remote_writer_qos' # {} /\ liveliness_token =>
           local_nodes = {} \/ zenoh_subscriber # "none"
  BY DEF zenohVars, writerVars, matchVars, newVars, update_writer
<1>2. /\ IsTask(task') /\ task' # NoTask /\ task'.op = op
      /\ task'.again = FALSE
  BY TaskFacts, TaskIsSome
<1>3. ShapeInv'
  <2>1. TypeOK'
    BY <1>1, <1>2 DEF ShapeInv, TypeOK, Writers, Installing
  <2>2. Handlers' /\ Numbered'
    BY <1>1, <1>2 DEF ShapeInv, Handlers, Numbered, Installing
  <2> QED
    BY <2>1, <2>2 DEF ShapeInv
<1>4. /\ SubscriberFits
      /\ local_nodes = {} => zenoh_subscriber = "none" /\ ~liveliness_token
  BY IdleFacts
<1>5. Unannounced' /\ Activation' /\ SubscriberInv' /\ FedInv' /\ WritersInv'
  BY <1>1, <1>2, <1>4 DEF Unannounced, Activation, SubscriberInv, SubscriberFits, Subscribed,
     transient_local, FedInv, WritersInv, Installing, Updates
<1> QED
  BY <1>3, <1>5 DEF FollowInv

\* A new publisher updates the route, which is created if need be.
LEMMA AddKeeps ==
  ASSUME ShapeInv, FollowInv, pc = "idle", NEW a \in Remotes, add_remote_publisher(a),
         retries' \subseteq retries, UNCHANGED scenario
  PROVE  ShapeInv' /\ FollowInv'
<1>1. remote_writer_qos' \subseteq Remotes
  BY DEF add_remote_publisher, ShapeInv, TypeOK, Installing
<1> QED
  BY <1>1, StartKeeps DEF add_remote_publisher, matchVars, newVars, Updates

\* Publishers that go update the route, or drop it.
LEMMA WithoutKeeps ==
  ASSUME ShapeInv, FollowInv, pc = "idle", NEW as, NEW op \in Updates, NEW of,
         op \in {"announced", "retired"} => of \in Remotes,
         Without(as, Task(op, of)), retries' \subseteq retries, UNCHANGED scenario
  PROVE  ShapeInv' /\ FollowInv'
<1>1. /\ remote_writer_qos' = remote_writer_qos \ as
      /\ remote_writer_qos' \subseteq Remotes
      /\ local_nodes' = local_nodes
  BY DEF Without, ShapeInv, TypeOK, Installing
<1>2. CASE exists /\ remote_writer_qos' = {} /\ local_nodes = {}
  BY <1>1, <1>2, DropKeeps DEF Without
<1>3. CASE exists /\ ~(remote_writer_qos' = {} /\ local_nodes = {})
  <2>1. /\ pc' = update_writer(remote_writer_qos') /\ task' = Task(op, of)
        /\ UNCHANGED <<exists, zenohVars, writerVars, matchVars, failures>>
    BY <1>3 DEF Without, matchVars, newVars
  <2> QED
    BY <1>1, <1>3, <2>1, StartKeeps DEF ShapeInv, TypeOK, Installing
<1>4. CASE ~exists
  <2>1. /\ UNCHANGED <<exists, pc, task, zenoh_subscriber, liveliness_token, dds_writer,
                       writer_qos, dds_volatile_writer, gids, created, matched, failures,
                       new_writer, new_matched, new_attached>>
        /\ remote_writer_qos' = {}
    BY <1>1, <1>4
       DEF Without, zenohVars, writerVars, matchVars, newVars, ShapeInv, TypeOK, Installing
  <2>2. ShapeInv'
    BY <1>1, <2>1 DEF ShapeInv, TypeOK, Writers, Handlers, Numbered, Installing
  <2>3. /\ SubscriberFits
        /\ local_nodes = {} => zenoh_subscriber = "none" /\ ~liveliness_token
    BY IdleFacts
  <2>4. FollowInv'
    BY <1>1, <1>4, <2>1, <2>3 DEF FollowInv, Unannounced, Activation, SubscriberInv,
       SubscriberFits, Subscribed, transient_local, FedInv, Fed, WritersInv, WritersFit,
       Installing, NoTask, ShapeInv, Handlers
  <2> QED
    BY <2>2, <2>4
<1> QED
  BY <1>2, <1>3, <1>4 DEF ShapeInv, TypeOK, Installing

\* The first node starts an activation; another one changes nothing else.
LEMMA AddNodeKeeps ==
  ASSUME ShapeInv, FollowInv, NEW n \in Nodes, add_local_node(n)
  PROVE  ShapeInv' /\ FollowInv'
<1>1. /\ pc = "idle" /\ exists' = TRUE
      /\ local_nodes' = local_nodes \cup {n}
      /\ UNCHANGED <<remote_writer_qos, zenoh_subscriber, liveliness_token, unretried,
                     dds_writer, writer_qos, dds_volatile_writer, gids, created, retries,
                     matched, scenario, failures,
                     new_writer, new_matched, new_attached>>
      /\ IF local_nodes = {} THEN announce_route ELSE UNCHANGED <<pc, task>>
  BY DEF add_local_node, zenohVars, writerVars, matchVars, newVars, Changes
<1>2. /\ SubscriberFits /\ Fed /\ WritersFit
      /\ local_nodes = {} => zenoh_subscriber = "none" /\ ~liveliness_token
  BY <1>1, IdleFacts
<1>3. SubscriberFits' /\ Fed'
  BY <1>1, <1>2 DEF SubscriberFits, Subscribed, transient_local, Fed, Repaired
<1>4. WritersFit'
  <2>1. CASE exists
    BY <1>1, <1>2, <2>1 DEF WritersFit, Repaired, transient_local
  <2>2. CASE ~exists
    <3>1. /\ remote_writer_qos = {} /\ dds_writer = DDS_ENTITY_NULL
          /\ dds_volatile_writer = DDS_ENTITY_NULL /\ writer_qos = "none"
      BY <2>2 DEF ShapeInv, TypeOK, Writers, Installing
    <3> QED
      BY <1>1, <3>1 DEF WritersFit, transient_local, Mixed
  <2> QED
    BY <2>1, <2>2 DEF ShapeInv, TypeOK, Installing
<1>5. CASE local_nodes = {}
  <2>1. /\ task' = Task("activated", {})
        /\ pc' \in {"install", "subscribe"}
    BY <1>1, <1>5 DEF announce_route
  <2>2. /\ IsTask(task') /\ task' # NoTask /\ task'.op = "activated"
    BY <2>1, TaskFacts, TaskIsSome
  <2>3. ShapeInv'
    BY <1>1, <2>1, <2>2 DEF ShapeInv, TypeOK, Writers, Handlers, Numbered, Installing
  <2>4. FollowInv'
    BY <1>1, <1>2, <1>3, <1>4, <1>5, <2>1, <2>2 DEF FollowInv, Unannounced, Activation,
       SubscriberInv, FedInv, WritersInv, Installing, Updates
  <2> QED
    BY <2>3, <2>4
<1>6. CASE local_nodes # {}
  <2>1. UNCHANGED <<pc, task>>
    BY <1>1, <1>6
  <2>2. ShapeInv'
    BY <1>1, <2>1 DEF ShapeInv, TypeOK, Writers, Handlers, Numbered, Installing
  <2>3. FollowInv'
    BY <1>1, <1>2, <1>3, <1>4, <1>6, <2>1 DEF FollowInv, Unannounced, Activation,
       SubscriberInv, FedInv, WritersInv, Installing, Updates
  <2> QED
    BY <2>2, <2>3
<1> QED
  BY <1>5, <1>6

\* The last node retires the route, or drops it.
LEMMA RemoveNodeKeeps ==
  ASSUME ShapeInv, FollowInv, NEW n \in Nodes, remove_local_node(n)
  PROVE  ShapeInv' /\ FollowInv'
<1>1. /\ pc = "idle" /\ exists
      /\ local_nodes' = local_nodes \ {n}
      /\ UNCHANGED <<remote_writer_qos, retries, scenario>>
      /\ local_nodes # {}
  BY DEF remove_local_node, Changes, ShapeInv, TypeOK, Installing
<1>2. SubscriberFits /\ Fed /\ WritersFit
  BY <1>1, IdleFacts
<1>3. CASE local_nodes' = {} /\ remote_writer_qos = {}
  BY <1>1, <1>3, DropKeeps DEF remove_local_node
<1>4. CASE ~(local_nodes' = {} /\ remote_writer_qos = {})
  <2>1. /\ UNCHANGED <<exists, unretried, dds_writer, writer_qos, dds_volatile_writer, gids,
                       created, matched, pc, task, failures,
                       new_writer, new_matched, new_attached>>
        /\ \/ local_nodes' # {} /\ UNCHANGED <<zenoh_subscriber, liveliness_token>>
           \/ zenoh_subscriber' = "none" /\ liveliness_token' = FALSE
    BY <1>4 DEF remove_local_node, zenohVars, writerVars, matchVars, newVars, retire_route
  <2>2. ShapeInv'
    BY <1>1, <2>1 DEF ShapeInv, TypeOK, Writers, Handlers, Numbered, Installing
  <2>3. SubscriberFits' /\ Fed' /\ WritersFit'
    BY <1>1, <1>2, <2>1 DEF SubscriberFits, Subscribed, transient_local, Fed, WritersFit,
       Repaired
  <2>4. FollowInv'
    BY <1>1, <2>1, <2>3 DEF FollowInv, Unannounced, Activation, SubscriberInv, FedInv,
       WritersInv, Installing
  <2> QED
    BY <2>2, <2>4
<1> QED
  BY <1>3, <1>4

\* The synthetic node activates or deactivates the route as another one would.
LEMMA MatchedKeeps ==
  ASSUME ShapeInv, FollowInv, update_matched_readers
  PROVE  ShapeInv' /\ FollowInv'
<1>1. /\ pc = "idle"
      /\ UNCHANGED <<exists, remote_writer_qos, unretried, dds_writer, writer_qos,
                     dds_volatile_writer, gids, created, retries, matched, scenario, failures,
                     new_writer, new_matched, new_attached>>
      /\ local_nodes' \subseteq Nodes \cup {MATCHED_READERS_KEY}
      /\ local_nodes' # local_nodes => exists
      /\ IF local_nodes = {} /\ local_nodes' # {}
         THEN announce_route ELSE UNCHANGED <<pc, task>>
      /\ IF local_nodes # {} /\ local_nodes' = {}
         THEN retire_route ELSE UNCHANGED <<zenoh_subscriber, liveliness_token>>
  BY DEF update_matched_readers, writerVars, matchVars, newVars, boundVars, ShapeInv, TypeOK,
         Installing
<1>2. /\ SubscriberFits /\ Fed /\ WritersFit
      /\ local_nodes = {} => zenoh_subscriber = "none" /\ ~liveliness_token
  BY <1>1, IdleFacts
<1>3. \/ UNCHANGED <<zenoh_subscriber, liveliness_token>>
      \/ zenoh_subscriber' = "none" /\ liveliness_token' = FALSE
  BY <1>1 DEF retire_route
<1>4. SubscriberFits' /\ Fed' /\ WritersFit'
  BY <1>1, <1>2, <1>3 DEF SubscriberFits, Subscribed, transient_local, Fed, WritersFit, Repaired
<1>5. CASE local_nodes = {} /\ local_nodes' # {}
  <2>1. /\ task' = Task("activated", {}) /\ exists
        /\ pc' \in {"install", "subscribe"}
    BY <1>1, <1>5 DEF announce_route
  <2>2. /\ IsTask(task') /\ task' # NoTask /\ task'.op = "activated"
    BY <2>1, TaskFacts, TaskIsSome
  <2>3. ShapeInv'
    BY <1>1, <1>3, <2>1, <2>2 DEF ShapeInv, TypeOK, Writers, Handlers, Numbered, Installing
  <2>4. FollowInv'
    BY <1>1, <1>2, <1>4, <1>5, <2>1, <2>2 DEF FollowInv, Unannounced, Activation,
       SubscriberInv, FedInv, WritersInv, Installing, Updates
  <2> QED
    BY <2>3, <2>4
<1>6. CASE ~(local_nodes = {} /\ local_nodes' # {})
  <2>1. UNCHANGED <<pc, task>>
    BY <1>1, <1>6
  <2>2. ShapeInv'
    BY <1>1, <1>3, <2>1 DEF ShapeInv, TypeOK, Writers, Handlers, Numbered, Installing
  <2>3. local_nodes' = {} => zenoh_subscriber' = "none" /\ ~liveliness_token'
    BY <1>1, <1>2, <1>3, <1>6 DEF retire_route
  <2>4. FollowInv'
    BY <1>1, <1>4, <2>1, <2>3 DEF FollowInv, Unannounced, Activation,
       SubscriberInv, FedInv, WritersInv, Installing, Updates
  <2> QED
    BY <2>2, <2>4
<1> QED
  BY <1>5, <1>6

\* The events of remote publishers and the ticks add publishers or take some away.
LEMMA RemotesKeep ==
  ASSUME ShapeInv, FollowInv,
         \/ \E a \in scenario.remotes : AnnouncedMsgPub(a) \/ RetiredMsgPub(a)
         \/ \E a \in scenario.remotes : prune_remote_routes(a.bridge)
         \/ \E t \in retries : Retry(t)
  PROVE  ShapeInv' /\ FollowInv'
<1>1. scenario.remotes \subseteq Remotes
  BY RouteSubscriberAssumption DEF ShapeInv, Numbered
<1>2. ASSUME NEW a \in scenario.remotes, AnnouncedMsgPub(a)
      PROVE  ShapeInv' /\ FollowInv'
  BY <1>1, <1>2, AddKeeps DEF AnnouncedMsgPub, Superseded, Changes
<1>3. ASSUME NEW a \in scenario.remotes, RetiredMsgPub(a)
      PROVE  ShapeInv' /\ FollowInv'
  BY <1>1, <1>3, WithoutKeeps DEF RetiredMsgPub, Superseded, Changes, Updates
<1>4. ASSUME NEW a \in scenario.remotes, prune_remote_routes(a.bridge)
      PROVE  ShapeInv' /\ FollowInv'
  <2>1. /\ pc = "idle" /\ retries' \subseteq retries /\ UNCHANGED scenario
        /\ Without({b \in remote_writer_qos : b.bridge = a.bridge}, Task("pruned", {}))
    BY <1>4 DEF prune_remote_routes, Changes
  <2> QED
    BY <2>1, WithoutKeeps DEF Updates
<1>5. ASSUME NEW t \in retries, Retry(t)
      PROVE  ShapeInv' /\ FollowInv'
  <2>1. /\ pc = "idle" /\ retries' \subseteq retries /\ UNCHANGED scenario
        /\ t.of \in Remotes
    BY <1>5 DEF Retry, ShapeInv, Handlers, IsTask, Installing
  <2>2. CASE t.op = "announced"
    BY <1>5, <2>1, <2>2, AddKeeps DEF Retry
  <2>3. CASE t.op # "announced"
    BY <1>5, <2>1, <2>3, WithoutKeeps DEF Retry, Updates
  <2> QED
    BY <2>2, <2>3
<1> QED
  BY <1>2, <1>3, <1>4, <1>5

-----------------------------------------------------------------------------
(* The invariant, and what it shows. *)

\* At every stage, the stages before it have done their part.
THEOREM Invariant == Spec => [](ShapeInv /\ FollowInv)
<1>1. Init => ShapeInv /\ FollowInv
  <2> SUFFICES ASSUME Init
               PROVE  ShapeInv /\ FollowInv
    OBVIOUS
  <2>1. TypeOK
    <3>1. Writers = {} /\ pc \notin Installing
      BY DEF Init, Writers, Installing, DDS_ENTITY_NULL
    <3>2. /\ (new_writer # DDS_ENTITY_NULL) = (pc \in Installing)
          /\ (pc = "idle") = (task = NoTask)
          /\ (writer_qos = "none") = (dds_writer = DDS_ENTITY_NULL)
      BY <3>1 DEF Init
    <3>3. ~new_attached /\ new_matched = {} /\ matched = {} /\ gids = {}
      BY DEF Init
    <3> QED
      BY <3>1, <3>2, <3>3 DEF Init, TypeOK
  <2>2. Handlers /\ Numbered
    BY DEF Init, Handlers, Numbered, DDS_ENTITY_NULL
  <2>3. FollowInv
    BY DEF Init, FollowInv, Unannounced, Activation, SubscriberInv, SubscriberFits, FedInv, Fed,
       WritersInv, WritersFit, Installing, NoTask
  <2> QED
    BY <2>1, <2>2, <2>3 DEF ShapeInv
<1>2. ShapeInv /\ FollowInv /\ [Next]_vars => (ShapeInv /\ FollowInv)'
  <2> SUFFICES ASSUME ShapeInv, FollowInv, [Next]_vars
               PROVE  ShapeInv' /\ FollowInv'
    OBVIOUS
  <2>1. CASE \E n \in Nodes : add_local_node(n) \/ remove_local_node(n)
    BY <2>1, AddNodeKeeps, RemoveNodeKeeps
  <2>2. CASE \/ \E a \in scenario.remotes : AnnouncedMsgPub(a) \/ RetiredMsgPub(a)
             \/ \E a \in scenario.remotes : prune_remote_routes(a.bridge)
             \/ \E t \in retries : Retry(t)
    BY <2>2, RemotesKeep
  <2>3. CASE Heal \/ set_volatile_writer \/ KeepWriter
    BY <2>3, HealKeeps, VolatileKeeps, KeepWriterKeeps
  <2>4. CASE \/ CreateNewWriter \/ attach_publication_matched_listener
             \/ ReadStatus \/ DeliverStatus
    BY <2>4, NewWriterKeeps
  <2>5. CASE CreateNewWriterFails \/ install_writer \/ Redeclare
    BY <2>5, InstallFailureKeeps, InstallKeeps, RedeclareKeeps
  <2>6. CASE Subscribe \/ DeclareToken \/ update_matched_readers
    BY <2>6, SubscribeKeeps, TokenKeeps, MatchedKeeps
  <2>7. CASE \/ \E w \in 1 .. created : RecheckReads(w) \/ RecheckSends(w)
             \/ \E r \in scenario.readers :
                  ReaderComes(r) \/ ReaderGoes(r) \/ Match(r) \/ Unmatch(r)
             \/ UNCHANGED vars
    BY <2>7, SurroundingsKeep
  <2> QED
    BY <2>1, <2>2, <2>3, <2>4, <2>5, <2>6, <2>7 DEF Next
<1> QED
  BY <1>1, <1>2, PTL DEF Spec

\* What ros_discovery_info lists of the route is its Writers, and those it was not told have
\* gone (create_writer, delete_route_writer and Drop).
THEOREM TypeCorrect == Spec => []TypeOK
<1>1. ShapeInv => TypeOK
  BY DEF ShapeInv
<1> QED
  BY <1>1, Invariant, PTL

\* Between two events the Writers and the Zenoh subscriber of the route are what the remote
\* publishers need, whatever step of an earlier update has failed, unless an event is queued
\* that repeats it (update_writer, announce_route and the retries of the loop).
THEOREM FollowsRemotes == Spec => []RouteFollowsRemotes
<1>1. ShapeInv /\ FollowInv => RouteFollowsRemotes
  BY IdleFacts DEF RouteFollowsRemotes
<1> QED
  BY <1>1, Invariant, PTL

-----------------------------------------------------------------------------
(* The Readers that match. *)

Event == [writer : 1 .. created, matched : BOOLEAN]
LastEvent == matched_events[Len(matched_events)]
Synthetic == MATCHED_READERS_KEY \in local_nodes

\* The channel has events of Writers that were created.
EventsType == matched_events \in Seq(Event)

\* Only a Writer has a listener, and the stages that report its Readers are its own.
Listens ==
  /\ attached => dds_writer # DDS_ENTITY_NULL
  /\ pc \in {"status", "deliver"} => new_attached

\* Without a Writer the synthetic node is there only by an outdated event.
Unwritten == dds_writer = DDS_ENTITY_NULL /\ ~outdated => ~Synthetic

\* Of a Writer with a listener, and whose events were sent in time, the last event tells
\* what matches it; once it has been handled, the synthetic node does, or a check is due.
LastTells ==
  attached /\ dds_writer \notin late =>
    /\ matched_events # <<>> /\ LastEvent.writer = dds_writer =>
         (LastEvent.matched <=> matched # {})
    /\ matched_events = <<>> /\ ~outdated =>
         \/ Synthetic <=> matched # {}
         \/ matched = {} /\ dds_writer \in rechecks \cup rechecked

\* Of a new Writer too, from when its Readers were reported: no event is handled before it
\* has replaced the old one.
NewTells ==
  new_writer # DDS_ENTITY_NULL /\ new_writer \notin late =>
    /\ matched_events # <<>> /\ LastEvent.writer = new_writer =>
         new_attached /\ (LastEvent.matched <=> new_matched # {})
    /\ matched_events = <<>> /\ new_attached /\ (pc = "swap" \/ (pc = "deliver" /\ ~status)) =>
         new_matched = {}

MatchInv == EventsType /\ Listens /\ Unwritten /\ LastTells /\ NewTells

\* The channel after an event was sent.
LEMMA SentLast ==
  ASSUME EventsType, created \in Nat, UNCHANGED created,
         NEW writer \in 1 .. created, NEW any \in BOOLEAN, Sent(writer, any)
  PROVE  /\ EventsType' /\ matched_events' # <<>>
         /\ LastEvent'.writer = writer /\ LastEvent'.matched = any
<1> DEFINE e == [writer |-> writer, matched |-> any]
<1>1. e \in Event /\ e.writer = writer /\ e.matched = any
  BY DEF Event
<1>2. matched_events' = Append(matched_events, e)
  BY DEF Sent
<1> HIDE DEF e
<1>3. /\ matched_events' \in Seq(Event)
      /\ Len(matched_events') = Len(matched_events) + 1 /\ Len(matched_events) \in Nat
      /\ matched_events'[Len(matched_events) + 1] = e
  BY <1>1, <1>2 DEF EventsType
<1>4. matched_events' # <<>>
  BY <1>3
<1> QED
  BY <1>1, <1>3, <1>4 DEF EventsType, LastEvent, Event

\* The steps that neither send nor handle an event, nor replace the Writer.
LEMMA MatchIdle ==
  ASSUME MatchInv, created \in Nat, created' \in Nat, created' >= created,
         UNCHANGED <<dds_writer, matched, attached, newVars, eventVars, Synthetic>>,
         pc' \in {"status", "deliver", "swap"} => pc' = pc
  PROVE  MatchInv'
<1>1. UNCHANGED <<matched_events, rechecks, rechecked, outdated, late, new_writer, new_matched,
                  new_attached, status>>
  BY DEF eventVars, newVars
<1>2. EventsType'
  <2>1. Event \subseteq Event'
    BY DEF Event
  <2> QED
    BY <1>1, <2>1 DEF MatchInv, EventsType
<1> QED
  BY <1>1, <1>2 DEF MatchInv, Listens, Unwritten, LastTells, NewTells, LastEvent

\* The route is dropped with its Writer.
LEMMA DropMatches ==
  ASSUME MatchInv, pc = "idle", Dropped, local_nodes' = {}, UNCHANGED eventVars
  PROVE  MatchInv'
<1>1. /\ UNCHANGED <<matched_events, late, created, pc, new_writer, new_matched, new_attached,
                     status>>
      /\ attached' = FALSE /\ Synthetic' = FALSE
      /\ pc \notin {"status", "deliver"}
  BY DEF Dropped, eventVars, newVars, Synthetic
<1>2. EventsType'
  BY <1>1 DEF MatchInv, EventsType, Event
<1> QED
  BY <1>1, <1>2 DEF MatchInv, Listens, Unwritten, LastTells, NewTells, LastEvent

\* The matching Readers change, and a listener tells the loop.
LEMMA MatchingMatches ==
  ASSUME ShapeInv, MatchInv, NEW now, publication_matched(now),
         dds_writer # DDS_ENTITY_NULL
  PROVE  MatchInv'
<1>1. /\ matched' = now
      /\ UNCHANGED <<dds_writer, created, local_nodes, attached, pc, rechecks, rechecked,
                     outdated, late, new_writer, new_matched, new_attached, status>>
      /\ IF attached THEN Sent(dds_writer, now # {}) ELSE UNCHANGED matched_events
  BY DEF publication_matched, writerVars, localVars, loopVars, newVars
<1>2. /\ created \in Nat /\ dds_writer \in 1 .. created
      /\ new_writer # DDS_ENTITY_NULL => new_writer # dds_writer
  BY DEF ShapeInv, Numbered, DDS_ENTITY_NULL
<1>3. CASE attached
  <2>1. (now # {}) \in BOOLEAN
    OBVIOUS
  <2>2. /\ EventsType' /\ matched_events' # <<>>
        /\ LastEvent'.writer = dds_writer /\ LastEvent'.matched = (now # {})
    BY <1>1, <1>2, <1>3, <2>1, SentLast DEF MatchInv
  <2> QED
    BY <1>1, <1>2, <1>3, <2>2 DEF MatchInv, Listens, Unwritten, LastTells, NewTells, Synthetic
<1>4. CASE ~attached
  BY <1>1, <1>4 DEF MatchInv, EventsType, Event, Listens, Unwritten, LastTells, NewTells,
     LastEvent, Synthetic
<1> QED
  BY <1>3, <1>4

\* So do those of a new Writer.
LEMMA NewMatchingMatches ==
  ASSUME ShapeInv, MatchInv, NEW now, new_publication_matched(now),
         new_writer # DDS_ENTITY_NULL
  PROVE  MatchInv'
<1>1. /\ new_matched' = now
      /\ UNCHANGED <<dds_writer, created, local_nodes, matched, attached, pc, rechecks, rechecked,
                     outdated, late, new_writer, new_attached, status>>
      /\ IF new_attached THEN Sent(new_writer, now # {}) ELSE UNCHANGED matched_events
  BY DEF new_publication_matched, writerVars, localVars, loopVars
<1>2. /\ created \in Nat /\ new_writer \in 1 .. created
      /\ new_writer # dds_writer
  BY DEF ShapeInv, Numbered, DDS_ENTITY_NULL
<1>3. CASE new_attached
  <2>1. (now # {}) \in BOOLEAN
    OBVIOUS
  <2>2. /\ EventsType' /\ matched_events' # <<>>
        /\ LastEvent'.writer = new_writer /\ LastEvent'.matched = (now # {})
    BY <1>1, <1>2, <1>3, <2>1, SentLast DEF MatchInv
  <2> QED
    BY <1>1, <1>2, <1>3, <2>2 DEF MatchInv, Listens, Unwritten, LastTells, NewTells, Synthetic
<1>4. CASE ~new_attached
  BY <1>1, <1>4 DEF MatchInv, EventsType, Event, Listens, Unwritten, LastTells, NewTells,
     LastEvent, Synthetic
<1> QED
  BY <1>3, <1>4

\* A new Writer is created, and gets its listener; the loop sees whether Readers match it.
LEMMA NewWriterMatches ==
  ASSUME ShapeInv, MatchInv,
         CreateNewWriter \/ attach_publication_matched_listener \/ ReadStatus
  PROVE  MatchInv'
<1>1. /\ UNCHANGED <<dds_writer, local_nodes, matched, attached, matched_events, rechecks,
                     rechecked, outdated, late, new_matched>>
      /\ created \in Nat
  BY DEF CreateNewWriter, attach_publication_matched_listener, ReadStatus, writerVars, localVars,
         eventVars, ShapeInv, Numbered
<1>2. created' = created \/ created' = created + 1
  BY DEF CreateNewWriter, CreateWriter, attach_publication_matched_listener, ReadStatus,
         writerVars
<1>3. EventsType'
  <2>1. Event \subseteq Event'
    BY <1>1, <1>2 DEF Event
  <2> QED
    BY <1>1, <2>1 DEF MatchInv, EventsType
<1>4. LastEvent' = LastEvent
  BY <1>1 DEF LastEvent
<1>5. Unwritten' /\ LastTells'
  BY <1>1, <1>4 DEF MatchInv, Unwritten, LastTells, Synthetic
<1>6. Listens' /\ NewTells'
  <2>1. CASE CreateNewWriter
    <3>1. /\ new_writer' = created + 1 /\ pc' = "attach"
          /\ UNCHANGED new_attached
      BY <2>1 DEF CreateNewWriter, CreateWriter
    <3>2. matched_events # <<>> => LastEvent.writer # created + 1
      <4>1. matched_events # <<>> => LastEvent \in Event
        BY DEF LastEvent, MatchInv, EventsType
      <4> QED
        BY <1>1, <4>1 DEF Event
    <3> QED
      BY <1>1, <1>4, <3>1, <3>2 DEF MatchInv, Listens, NewTells
  <2>2. CASE attach_publication_matched_listener
    <3>1. /\ UNCHANGED new_writer
          /\ (pc' = "status" /\ new_attached') \/ (pc' = "swap" /\ ~new_attached')
          /\ ~new_attached
      BY <2>2 DEF attach_publication_matched_listener, ShapeInv, TypeOK
    <3> QED
      BY <1>1, <1>4, <3>1 DEF MatchInv, Listens, NewTells
  <2>3. CASE ReadStatus
    <3>1. /\ UNCHANGED <<new_writer, new_attached>>
          /\ pc' = "deliver" /\ pc = "status"
          /\ ~status' => new_matched = {}
      BY <2>3 DEF ReadStatus
    <3> QED
      BY <1>1, <1>4, <3>1 DEF MatchInv, Listens, NewTells
  <2> QED
    BY <2>1, <2>2, <2>3
<1> QED
  BY <1>3, <1>5, <1>6 DEF MatchInv

\* The Readers of a new Writer are reported to the loop.
LEMMA DeliverMatches ==
  ASSUME ShapeInv, MatchInv, DeliverStatus
  PROVE  MatchInv'
<1>1. /\ UNCHANGED <<dds_writer, created, local_nodes, attached, matched, rechecks, rechecked,
                     outdated, new_writer, new_matched, new_attached>>
      /\ pc = "deliver" /\ pc' = "swap"
      /\ late' = IF status /\ new_matched = {} THEN late \cup {new_writer} ELSE late
      /\ IF status THEN Sent(new_writer, TRUE) ELSE UNCHANGED matched_events
  BY DEF DeliverStatus, writerVars, localVars
<1>2. /\ new_attached /\ created \in Nat /\ new_writer \in 1 .. created
      /\ new_writer # dds_writer
  BY <1>1 DEF ShapeInv, TypeOK, Installing, Numbered, MatchInv, Listens, DDS_ENTITY_NULL
<1>3. CASE status
  <2>1. /\ EventsType' /\ matched_events' # <<>>
        /\ LastEvent'.writer = new_writer /\ LastEvent'.matched = TRUE
    BY <1>1, <1>2, <1>3, SentLast DEF MatchInv
  <2> QED
    BY <1>1, <1>2, <1>3, <2>1
       DEF MatchInv, Listens, Unwritten, LastTells, NewTells, Synthetic
<1>4. CASE ~status
  BY <1>1, <1>2, <1>4 DEF MatchInv, EventsType, Event, Listens, Unwritten, LastTells, NewTells,
     Synthetic, LastEvent
<1> QED
  BY <1>3, <1>4

\* A Writer is checked again: it has Readers, or an event is due that says it has none.
LEMMA RecheckReadsMatches ==
  ASSUME MatchInv, NEW w, RecheckReads(w)
  PROVE  MatchInv'
<1>1. /\ UNCHANGED <<dds_writer, created, local_nodes, attached, matched, pc, matched_events,
                     outdated, late, new_writer, new_matched, new_attached, status>>
      /\ rechecks' = rechecks \ {w}
      /\ rechecked' = IF dds_writer = w /\ matched = {} THEN rechecked \cup {w} ELSE rechecked
  BY DEF RecheckReads, writerVars, localVars, matchVars, newVars, loopVars
<1> QED
  BY <1>1 DEF MatchInv, EventsType, Event, Listens, Unwritten, LastTells, NewTells, Synthetic,
     LastEvent

\* That event is of the Writer that was checked, which may have been replaced.
LEMMA RecheckSendsMatches ==
  ASSUME ShapeInv, MatchInv, NEW w \in 1 .. created, RecheckSends(w)
  PROVE  MatchInv'
<1>1. /\ UNCHANGED <<dds_writer, created, local_nodes, attached, matched, pc, rechecks, outdated,
                     new_writer, new_matched, new_attached, status>>
      /\ late' = IF dds_writer # w \/ matched # {} THEN late \cup {w} ELSE late
      /\ Sent(w, FALSE)
  BY DEF RecheckSends, writerVars, localVars, matchVars, newVars, loopVars
<1>2. created \in Nat /\ (new_writer # DDS_ENTITY_NULL => new_writer # dds_writer)
  BY DEF ShapeInv, Numbered
<1>3. /\ EventsType' /\ matched_events' # <<>>
      /\ LastEvent'.writer = w /\ LastEvent'.matched = FALSE
  BY <1>1, <1>2, SentLast DEF MatchInv
<1> QED
  BY <1>1, <1>2, <1>3 DEF MatchInv, Listens, Unwritten, LastTells, NewTells, Synthetic

\* The loop handles an event: the last one decides about the synthetic node.
LEMMA HandledMatches ==
  ASSUME ShapeInv, MatchInv, update_matched_readers
  PROVE  MatchInv'
<1> DEFINE e == Head(matched_events)
<1>1. /\ UNCHANGED <<dds_writer, created, exists, attached, matched, rechecks, rechecked, late>>
      /\ matched_events # <<>> /\ matched_events' = Tail(matched_events)
      /\ outdated' = (e.writer # dds_writer)
      /\ local_nodes' = IF ~exists THEN local_nodes
                        ELSE IF e.matched THEN local_nodes \cup {MATCHED_READERS_KEY}
                        ELSE local_nodes \ {MATCHED_READERS_KEY}
      /\ pc = "idle" /\ pc' \in {"idle", "install", "subscribe"}
  BY DEF update_matched_readers, writerVars, matchVars, announce_route
<1>2. /\ e \in Event /\ matched_events' \in Seq(Event)
      /\ Len(matched_events) \in Nat \ {0}
      /\ Len(matched_events') = Len(matched_events) - 1
      /\ \A i \in 1 .. Len(matched_events) - 1 : matched_events'[i] = matched_events[i + 1]
      /\ e = matched_events[1]
  BY <1>1 DEF MatchInv, EventsType
<1>3. e.writer # DDS_ENTITY_NULL
  BY <1>2 DEF Event, DDS_ENTITY_NULL
<1> HIDE DEF e
<1>4. EventsType' /\ Listens' /\ Unwritten' /\ NewTells'
  <2>1. new_writer' = DDS_ENTITY_NULL
    BY <1>1 DEF update_matched_readers, matchVars, newVars, ShapeInv, TypeOK, Installing
  <2> QED
    BY <1>1, <1>2, <1>3, <2>1 DEF MatchInv, EventsType, Event, Listens, Unwritten, NewTells
<1>5. CASE Len(matched_events) = 1
  <2>1. matched_events' = <<>> /\ e = LastEvent
    BY <1>2, <1>5 DEF LastEvent
  <2>2. dds_writer # DDS_ENTITY_NULL => exists
    BY DEF ShapeInv, TypeOK, Writers
  <2>3. ASSUME attached, dds_writer \notin late, e.writer = dds_writer
        PROVE  Synthetic' <=> matched # {}
    <3>1. e.matched <=> matched # {}
      BY <1>1, <2>1, <2>3 DEF MatchInv, LastTells
    <3>2. exists
      BY <1>3, <2>2, <2>3
    <3> QED
      BY <1>1, <3>1, <3>2 DEF Synthetic
  <2> QED
    BY <1>1, <1>4, <2>1, <2>3 DEF MatchInv, LastTells
<1>6. CASE Len(matched_events) # 1
  <2>1. /\ Len(matched_events') \in 1 .. Len(matched_events) - 1
        /\ Len(matched_events') + 1 = Len(matched_events)
    BY <1>2, <1>6
  <2>2. matched_events' # <<>> /\ LastEvent' = LastEvent
    BY <1>2, <2>1 DEF LastEvent
  <2> QED
    BY <1>1, <1>4, <2>2 DEF MatchInv, LastTells
<1> QED
  BY <1>5, <1>6

\* The new Writer becomes the route's: its Readers have been reported, and if the old one had
\* some, it will be checked again.
LEMMA InstallMatches ==
  ASSUME ShapeInv, MatchInv, install_writer
  PROVE  MatchInv'
<1>1. /\ dds_writer' = new_writer /\ matched' = new_matched /\ attached' = new_attached
      /\ new_writer' = DDS_ENTITY_NULL
      /\ rechecks' = rechecks \cup Rechecked(new_writer)
      /\ UNCHANGED <<created, local_nodes, matched_events, rechecked, late>>
      /\ outdated' = (outdated /\ dds_writer = DDS_ENTITY_NULL)
      /\ pc = "swap" /\ pc' = "redeclare"
  BY DEF install_writer, localVars
<1>2. new_writer # DDS_ENTITY_NULL
  BY <1>1 DEF ShapeInv, TypeOK, Installing
<1>3. EventsType' /\ LastEvent' = LastEvent
  BY <1>1 DEF MatchInv, EventsType, Event, LastEvent
<1>4. ~outdated' => \/ ~Synthetic
                    \/ new_writer \in rechecks'
  BY <1>1 DEF Rechecked, Synthetic, MatchInv, Unwritten
<1>5. Listens' /\ Unwritten' /\ NewTells'
  BY <1>1, <1>2 DEF Listens, Unwritten, NewTells
<1>6. LastTells'
  BY <1>1, <1>2, <1>3, <1>4 DEF MatchInv, NewTells, LastTells, Synthetic
<1> QED
  BY <1>3, <1>5, <1>6 DEF MatchInv

\* The events of nodes and remote publishers leave the Writer and its Readers alone, or drop
\* the route; the synthetic node is no ROS node.
LEMMA EventsMatch ==
  ASSUME ShapeInv, MatchInv,
         \/ \E n \in Nodes : add_local_node(n) \/ remove_local_node(n)
         \/ \E a \in scenario.remotes : AnnouncedMsgPub(a) \/ RetiredMsgPub(a)
         \/ \E a \in scenario.remotes : prune_remote_routes(a.bridge)
         \/ \E t \in retries : Retry(t)
  PROVE  MatchInv'
<1>1. created \in Nat
  BY DEF ShapeInv, Numbered
<1>2. CASE \E n \in Nodes : add_local_node(n)
  <2>1. /\ UNCHANGED <<dds_writer, matched, attached, newVars, eventVars, created, Synthetic>>
        /\ pc' \in {"status", "deliver", "swap"} => pc' = pc
    BY <1>2, RouteSubscriberAssumption
       DEF add_local_node, writerVars, matchVars, announce_route, Synthetic
  <2> QED
    BY <1>1, <2>1, MatchIdle
<1>3. ASSUME NEW n \in Nodes, remove_local_node(n) PROVE MatchInv'
  <2>1. UNCHANGED eventVars /\ local_nodes' = local_nodes \ {n} /\ n # MATCHED_READERS_KEY
        /\ pc = "idle"
    BY <1>3 DEF remove_local_node
  <2>2. CASE local_nodes' = {} /\ Dropped
    BY <2>1, <2>2, DropMatches
  <2>3. CASE UNCHANGED <<writerVars, matchVars, pc>>
    BY <1>1, <2>1, <2>3, MatchIdle DEF writerVars, matchVars, Synthetic
  <2> QED
    BY <1>3, <2>2, <2>3 DEF remove_local_node
<1>4. ASSUME NEW as, NEW t, pc = "idle", Without(as, t), UNCHANGED eventVars PROVE MatchInv'
  <2>1. CASE local_nodes' = {} /\ Dropped
    BY <1>4, <2>1, DropMatches
  <2>2. CASE /\ UNCHANGED <<writerVars, matchVars, local_nodes>>
             /\ pc' \in {"idle", "heal", "volatile"}
    BY <1>1, <1>4, <2>2, MatchIdle DEF writerVars, matchVars, Synthetic
  <2> QED
    BY <1>4, <2>1, <2>2 DEF Without, update_writer
<1>5. ASSUME NEW a, add_remote_publisher(a), UNCHANGED eventVars PROVE MatchInv'
  <2>1. /\ UNCHANGED <<writerVars, matchVars, local_nodes>>
        /\ pc' \in {"idle", "heal", "volatile"}
    BY <1>5 DEF add_remote_publisher, update_writer
  <2> QED
    BY <1>1, <1>5, <2>1, MatchIdle DEF writerVars, matchVars, Synthetic
<1> QED
  BY <1>2, <1>3, <1>4, <1>5
     DEF AnnouncedMsgPub, RetiredMsgPub, prune_remote_routes, Retry

\* Every step keeps the invariant of the matching Readers.
LEMMA MatchKept ==
  ASSUME ShapeInv, ShapeInv', MatchInv, [Next]_vars
  PROVE  MatchInv'
<1>1. created \in Nat /\ created' \in Nat
  BY DEF ShapeInv, Numbered
<1>2. CASE \/ Heal \/ set_volatile_writer \/ KeepWriter \/ CreateNewWriterFails
           \/ Redeclare \/ Subscribe \/ DeclareToken \/ UNCHANGED vars
           \/ \E r \in scenario.readers : ReaderComes(r) \/ ReaderGoes(r)
  <2>1. /\ UNCHANGED <<dds_writer, matched, attached, newVars, eventVars, local_nodes>>
        /\ created' = created \/ created' = created + 1
        /\ pc' \in {"status", "deliver", "swap"} => pc' = pc
    BY <1>2 DEF Heal, set_volatile_writer, KeepWriter, CreateNewWriterFails, Redeclare,
       Subscribe, DeclareToken, ReaderComes, ReaderGoes, CreateWriter, Return, writerVars,
       matchVars, localVars, loopVars, vars
  <2> QED
    BY <1>1, <2>1, MatchIdle DEF Synthetic
<1>3. CASE \E r \in scenario.readers : Match(r) \/ Unmatch(r)
  <2>1. PICK now : \/ publication_matched(now) /\ dds_writer # DDS_ENTITY_NULL
                   \/ new_publication_matched(now) /\ new_writer # DDS_ENTITY_NULL
    BY <1>3 DEF Match, Unmatch, ShapeInv, TypeOK
  <2> QED
    BY <2>1, MatchingMatches, NewMatchingMatches
<1>4. CASE \/ CreateNewWriter \/ attach_publication_matched_listener
           \/ ReadStatus \/ DeliverStatus \/ install_writer \/ update_matched_readers
  BY <1>4, NewWriterMatches, DeliverMatches, InstallMatches, HandledMatches
<1>5. CASE \E w \in 1 .. created : RecheckReads(w) \/ RecheckSends(w)
  BY <1>5, RecheckReadsMatches, RecheckSendsMatches
<1>6. CASE \/ \E n \in Nodes : add_local_node(n) \/ remove_local_node(n)
           \/ \E a \in scenario.remotes : AnnouncedMsgPub(a) \/ RetiredMsgPub(a)
           \/ \E a \in scenario.remotes : prune_remote_routes(a.bridge)
           \/ \E t \in retries : Retry(t)
  BY <1>6, EventsMatch
<1> QED
  BY <1>2, <1>3, <1>4, <1>5, <1>6 DEF Next

\* The last event of a Writer is true, and what it says is what the loop comes to.
THEOREM MatchInvariant == Spec => [](ShapeInv /\ MatchInv)
<1>1. Init => MatchInv
  BY DEF Init, MatchInv, EventsType, Listens, Unwritten, Synthetic, LastTells, NewTells,
         DDS_ENTITY_NULL
<1>2. ShapeInv /\ ShapeInv' /\ MatchInv /\ [Next]_vars => MatchInv'
  BY MatchKept
<1> QED
  BY <1>1, <1>2, Invariant, PTL DEF Spec

\* Once every event has been handled, the synthetic node stands for the Readers that match
\* the Writer, whatever rebuilds have replaced it and however the checks, the callbacks of DDS
\* and the loop interleave (install_writer, update_matched_readers, MATCH_RECHECK_DELAY).
THEOREM MatchedAreServed == Spec => []MatchedReadersServed
<1>1. MatchInv => MatchedReadersServed
  BY DEF MatchInv, LastTells, MatchedReadersServed, Told, Synthetic
<1> QED
  BY <1>1, MatchInvariant, PTL

=============================================================================
