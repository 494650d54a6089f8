------------------------------- MODULE TopicQos -------------------------------
(***************************************************************************)
(* The QoS of one topic across bridges.  Each sending bridge reads its     *)
(* local Writers with one or two DDS Readers and announces one or two      *)
(* QoS, the receiving bridge derives the QoS of its one or two DDS Writers *)
(* from what it has heard of all of them (update_local_writers in          *)
(* route_publisher.rs, update_writer in route_subscriber.rs).              *)
(*                                                                         *)
(* Nothing fails here, and the sending bridges have a node that declares   *)
(* the Writers: failures are in module RoutePublisher.                     *)
(***************************************************************************)
EXTENDS QosHelpers

CONSTANTS
  Bridges,       \* the sending bridges
  WriterQoses,   \* the QoS of the DDS Writers that a bridge may have, by GID
  Systems,       \* small systems: the Writers that appear near each bridge
  ReaderQoses,   \* the QoS of the DDS Readers near the receiving bridge
  MaxBacklog     \* bound on the announcements not heard yet

Writers == DOMAIN WriterQoses

ASSUME TopicQosAssumption ==
  /\ IsFiniteSet(Bridges)
  /\ WriterQoses \in Seq(EntityQoses)
  /\ Systems \subseteq [Bridges -> SUBSET Writers]
  /\ MaxBacklog \in Nat

VARIABLES
  near,      \* the system that is there
  local,     \* the local Writers of each bridge
  stale,     \* the bridges that have an event about their Writers to handle
  pc,        \* of each bridge: where it is in update_local_writers
  writers,   \* of each bridge: the local Writers that the update has read
  token,     \* of each bridge: the QoS announced, and the one announced for the
             \* VOLATILE Writers, or NoQos
  readers,   \* of each bridge: the QoS of its DDS Readers, or NoQos
  channel,   \* of each bridge: its liveliness events that are not heard yet
  remote,    \* the announcements that the receiving bridge serves
  writer     \* the QoS of its DDS Writers, or NoQos

senderVars == <<near, local, stale, pc, writers, token, readers>>
receiverVars == <<remote, writer>>
vars == <<senderVars, channel, receiverVars>>

\* writers_qos_on_topic: sorted by GID.
writers_qos_on_topic(ids) == Subsequence(WriterQoses, ids)

None == [main |-> NoQos, volatile |-> NoQos]

Init ==
  /\ near \in Systems
  /\ local = [b \in Bridges |-> {}]
  /\ stale = {}
  /\ pc = [b \in Bridges |-> "idle"]
  /\ writers = [b \in Bridges |-> <<>>]
  /\ token = [b \in Bridges |-> None]
  /\ readers = [b \in Bridges |-> None]
  /\ channel = [b \in Bridges |-> <<>>]
  /\ remote = <<>>
  /\ writer = None

-----------------------------------------------------------------------------
(* A sending bridge. *)

\* A DDS Writer appears or disappears.
ChangeWriters(b, w) ==
  /\ local' = [local EXCEPT ![b] = IF w \in @ THEN @ \ {w} ELSE @ \cup {w}]
  /\ stale' = stale \cup {b}
  /\ UNCHANGED <<near, pc, writers, token, readers, channel, receiverVars>>

\* What the liveliness tokens of a bridge tell of a QoS: the durability service
\* is not part of the key expression.
qos_to_key_expr(q) == [q EXCEPT !.ds = UnsetHistory]

\* Mutant: the absent announcement is announced too.
Keys_Absent(t) == {qos_to_key_expr(q) : q \in {t.main, t.volatile}}

\* The tokens that a bridge has declared.
Keys(t) == {qos_to_key_expr(q) : q \in {t.main, t.volatile} \ {NoQos}}

Events(b, op, keys) == LET s == SetToSeq(keys)
                       IN  [i \in DOMAIN s |-> [op |-> op, bridge |-> b, qos |-> s[i]]]

\* The events of a bridge whose tokens change: the new ones are declared before
\* the old ones are undeclared, equal ones count once.
Redeclare(b, new) ==
  /\ token' = [token EXCEPT ![b] = new]
  /\ channel' = [channel EXCEPT ![b] =
                   @ \o Events(b, "announced", Keys(new) \ Keys(token[b]))
                     \o Events(b, "retired", Keys(token[b]) \ Keys(new))]

\* The last Writer has gone with its node: the route is retired, and is removed
\* or goes on with the placeholder of a topic without Writers.
Retire(b) ==
  /\ pc[b] = "idle"
  /\ b \in stale
  /\ local[b] = {}
  /\ stale' = stale \ {b}
  /\ writers' = [writers EXCEPT ![b] = <<>>]
  /\ Redeclare(b, None)
  /\ \E kept \in BOOLEAN :
       readers' = [readers EXCEPT ![b] =
                     IF kept THEN readers_qos_for_local_writers(<<>>) ELSE None]
  /\ UNCHANGED <<near, local, pc, receiverVars>>

\* The update begins by reading the Writers that are discovered now.
Begin(b) ==
  /\ pc[b] = "idle"
  /\ b \in stale
  /\ local[b] # {}
  /\ Len(channel[b]) < MaxBacklog
  /\ stale' = stale \ {b}
  /\ writers' = [writers EXCEPT ![b] = writers_qos_on_topic(local[b])]
  /\ pc' = [pc EXCEPT ![b] = "announce"]
  /\ UNCHANGED <<near, local, token, readers, channel, receiverVars>>

Changed(current, desired, reader) ==
  IF same_route_qos(current, desired, reader) THEN current ELSE desired

\* announce_route, if the announced QoS has changed.
Announce(b) ==
  /\ pc[b] = "announce"
  /\ pc' = [pc EXCEPT ![b] = "announce_volatile"]
  /\ Redeclare(b, [token[b] EXCEPT !.main =
       Changed(@, announced_qoses_for_local_writers(writers[b]).main, FALSE)])
  /\ UNCHANGED <<near, local, stale, writers, readers, receiverVars>>

\* Mutant: a second announcement is updated or retired, never made.
AnnounceVolatile_NeverNew(b) ==
  /\ pc[b] = "announce_volatile"
  /\ pc' = [pc EXCEPT ![b] = "readers"]
  /\ Redeclare(b, [token[b] EXCEPT !.volatile =
       IF @ = NoQos THEN NoQos
       ELSE announced_qoses_for_local_writers(writers[b]).volatile])
  /\ UNCHANGED <<near, local, stale, writers, readers, receiverVars>>

\* The second announcement appears, changes or goes.
AnnounceVolatile(b) ==
  /\ pc[b] = "announce_volatile"
  /\ pc' = [pc EXCEPT ![b] = "readers"]
  /\ Redeclare(b, [token[b] EXCEPT !.volatile =
       Changed(@, announced_qoses_for_local_writers(writers[b]).volatile, FALSE)])
  /\ UNCHANGED <<near, local, stale, writers, readers, receiverVars>>

\* The route is rebuilt if the QoS of its first Reader changes; otherwise only the
\* VOLATILE Reader is replaced.
UpdateReaders(b) ==
  LET desired == readers_qos_for_local_writers(writers[b])
  IN  /\ pc[b] = "readers"
      /\ pc' = [pc EXCEPT ![b] = "idle"]
      /\ readers' = [readers EXCEPT ![b] =
           IF same_route_qos(readers[b].main, desired.main, TRUE)
           THEN [readers[b] EXCEPT !.volatile = Changed(@, desired.volatile, TRUE)]
           ELSE desired]
      /\ UNCHANGED <<near, local, stale, writers, token, channel, receiverVars>>

Update(b) == Begin(b) \/ Announce(b) \/ AnnounceVolatile(b) \/ UpdateReaders(b)

-----------------------------------------------------------------------------
(* The receiving bridge. *)

\* Mutant: an announcement is identified by its bridge and durability alone.
remote_publisher_key_NoHistory(a) == [bridge |-> a.bridge, tl |-> a.qos.tl]

\* The identity of an announcement: its bridge and its QoS.
remote_publisher_key(a) == [bridge |-> a.bridge, qos |-> a.qos]

\* The order of the remote announcements only decides between KEEP_ALL histories.
without(a) ==
  Subsequence(remote, {i \in DOMAIN remote :
                         remote_publisher_key(remote[i]) # remote_publisher_key(a)})

\* writer_qos_for_remote_writers of the announcing Reader's history, VOLATILE.
fallback_writer_qos == Qos("RELIABLE", FALSE, KeepLast(1), UnsetHistory)

\* Each Writer is replaced if its QoS changes.  Without announcements the VOLATILE
\* one goes, and a TRANSIENT_LOCAL one becomes the fallback.
update_writer(announced) ==
  LET desired == writers_qos_for_remote_writers(announced)
  IN  IF announced = <<>>
      THEN [main |-> IF writer.main.tl THEN fallback_writer_qos ELSE writer.main,
            volatile |-> NoQos]
      ELSE [main |-> Changed(writer.main, desired.main, FALSE),
            volatile |-> Changed(writer.volatile, desired.volatile, FALSE)]

Hear(b) ==
  /\ channel[b] # <<>>
  /\ channel' = [channel EXCEPT ![b] = Tail(@)]
  /\ LET e == Head(channel[b])
         a == [bridge |-> b, qos |-> e.qos]
     IN  remote' = IF e.op = "announced" THEN Append(without(a), a) ELSE without(a)
  /\ writer' = update_writer(remote')
  /\ UNCHANGED senderVars

Next ==
  \E b \in Bridges :
    \/ \E w \in near[b] : ChangeWriters(b, w)
    \/ Retire(b) \/ Update(b) \/ Hear(b)

Spec == Init /\ [][Next]_vars

-----------------------------------------------------------------------------
(* Properties *)

\* DDS (external): an offer satisfies a request.
Compatible(offer, request) ==
  /\ is_reliable(request) => offer.rel # "BEST_EFFORT"
  /\ is_transient_local(request) => is_transient_local(offer)

UpToDate(b) == b \notin stale /\ pc[b] = "idle"
Settled == \A b \in Bridges : UpToDate(b) /\ channel[b] = <<>>

\* The Readers of a bridge that forward what a Writer publishes: the VOLATILE one
\* skips the TRANSIENT_LOCAL Writers.
ReadBy(b, w) ==
  {i \in {"main", "volatile"} :
     /\ readers[b][i] # NoQos
     /\ Compatible(WriterQoses[w], readers[b][i])
     /\ i = "volatile" => ~is_transient_local(WriterQoses[w])}

\* The QoS of the receiving bridge's Writer of what Writer w of bridge b publishes:
\* the samples of the VOLATILE Reader are marked and go to the VOLATILE Writer.
WrittenWith(b, w) == IF ReadBy(b, w) = {"volatile"} THEN writer.volatile ELSE writer.main

Announcements == [bridge : Bridges, qos : EntityQoses]
LivelinessEvents == [op : {"announced", "retired"}, bridge : Bridges, qos : EntityQoses]

\* The model's values are QoS, and the announcements are those of the bridges.
TypeOK ==
  /\ near \in Systems
  /\ local \in [Bridges -> SUBSET Writers]
  /\ stale \subseteq Bridges
  /\ pc \in [Bridges -> {"idle", "announce", "announce_volatile", "readers"}]
  /\ writers \in [Bridges -> Seq(EntityQoses)]
  /\ token \in [Bridges -> Pairs]
  /\ readers \in [Bridges -> Pairs]
  /\ channel \in [Bridges -> Seq(LivelinessEvents)]
  /\ remote \in Seq(Announcements)
  /\ writer \in Pairs

\* Whatever Writers came and went, each local Writer is matched by one of the
\* route's Readers and its samples are forwarded once: not lost to an incompatible
\* Reader, not read twice by a pair of Readers.
EachWriterReadOnce ==
  \A b \in Bridges : UpToDate(b) =>
    \A w \in local[b] : Cardinality(ReadBy(b, w)) = 1

\* The receiving bridge serves exactly the announcements of the tokens that are
\* declared, although a re-announcement precedes the retirement of the old one.
RemoteIsAnnounced ==
  Settled =>
    {remote[i] : i \in DOMAIN remote} =
      {[bridge |-> p[1], qos |-> p[2]] : p \in UNION {{b} \X Keys(token[b]) : b \in Bridges}}

\* A Reader that matches the Writer in the same DDS domain also matches the Writer
\* of the receiving bridge that republishes its samples: bridging a topic loses no
\* reader to an incompatible QoS.
TransparentToReaders ==
  Settled =>
    \A b \in Bridges : \A w \in local[b] : \A r \in ReaderQoses :
      Compatible(WriterQoses[w], r) =>
        /\ WrittenWith(b, w) # NoQos
        /\ Compatible(WrittenWith(b, w), r)

\* Marked samples find a VOLATILE Writer: the sender splits its Writers with
\* split_mixed_durability, the receiver with the announcements of each bridge.
MarkedSamplesWritten ==
  Settled => (writer.volatile # NoQos <=> \E b \in Bridges : readers[b].volatile # NoQos)

TransientLocalWriters ==
  {p \in Bridges \X Writers : p[2] \in local[p[1]] /\ WriterQoses[p[2]].tl}
TransientLocalDepths == [p \in TransientLocalWriters |-> history_of(WriterQoses[p[2]]).depth]

\* "One route keeps every publisher's history": the durability service of the
\* receiving bridge keeps the depths of all TRANSIENT_LOCAL Writers of all bridges,
\* up to MAX_TL_DEPTH, unless one of them keeps everything.
HistoryHeld ==
  Settled /\ TransientLocalWriters # {} =>
    \/ writer.main.ds.kind = "KEEP_ALL"
    \/ writer.main.ds.depth >=
         Least(SumFunctionOnSet(TransientLocalDepths, TransientLocalWriters), MAX_TL_DEPTH)

\* "Announce first, remote bridges drop marked samples until they have a VOLATILE
\* Writer": a step that installs a VOLATILE Reader finds its announcement declared.
VolatileAnnouncedFirst ==
  [][\A b \in Bridges : readers[b].volatile = NoQos /\ readers'[b].volatile # NoQos =>
       token[b].volatile # NoQos]_vars

=============================================================================
