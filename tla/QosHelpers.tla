------------------------------ MODULE QosHelpers ------------------------------
(***************************************************************************)
(* The QoS of the DDS entities and of the announcements of a topic route   *)
(* (qos_helpers.rs), as functions of the local Writers or of the remote    *)
(* announcements.  A QoS is reduced to the policies that same_route_qos    *)
(* compares; all the other ones are set to what matches every endpoint.    *)
(***************************************************************************)
EXTENDS Integers, SequencesExt, Subsequences

CONSTANTS
  MAX_TL_DEPTH,         \* cap of a summed TRANSIENT_LOCAL depth
  tl_cache_multiplier   \* config.transient_local_cache_multiplier

ASSUME QosAssumption ==
  /\ MAX_TL_DEPTH \in Nat \ {0}
  /\ tl_cache_multiplier \in Nat

KeepLast(depth) == [kind |-> "KEEP_LAST", depth |-> depth]
KeepAll(depth) == [kind |-> "KEEP_ALL", depth |-> depth]
UnsetHistory == [kind |-> "unset", depth |-> 0]

\* rel is "unset", "BEST_EFFORT" or "RELIABLE", tl holds for TRANSIENT_LOCAL and
\* stronger durabilities, ds is the history of the durability service.
Qos(rel, tl, history, ds) == [rel |-> rel, tl |-> tl, history |-> history, ds |-> ds]

\* No Reader, Writer or announcement.
NoQos == Qos("none", FALSE, UnsetHistory, UnsetHistory)

\* The histories and the QoS.
Histories == [kind : {"KEEP_LAST", "KEEP_ALL", "unset"}, depth : Int]
Qoses == [rel : {"none", "unset", "BEST_EFFORT", "RELIABLE"}, tl : BOOLEAN,
          history : Histories, ds : Histories]

\* The QoS that a DDS entity may have: all but NoQos.
EntityQoses == {q \in Qoses : q.rel # "none"}

\* A QoS and the one of the VOLATILE Writers, or NoQos.
Pairs == [main : EntityQoses \cup {NoQos}, volatile : EntityQoses \cup {NoQos}]

Greatest(m, n) == IF m > n THEN m ELSE n
Least(m, n) == IF m < n THEN m ELSE n

is_reliable(q) == q.rel = "RELIABLE"
is_transient_local(q) == q.tl

\* The default of DDS is KEEP_LAST 1; a KEEP_LAST depth is at least 1.
history_of(q) ==
  CASE q.history.kind = "unset" -> KeepLast(1)
    [] q.history.kind = "KEEP_LAST" -> KeepLast(Greatest(q.history.depth, 1))
    [] q.history.kind = "KEEP_ALL" -> q.history

\* The strongest history: the first KEEP_ALL, else the deepest KEEP_LAST.
max_history(qoses) ==
  LET keep_all == {i \in DOMAIN qoses : history_of(qoses[i]).kind = "KEEP_ALL"}
  IN  IF qoses = <<>> THEN KeepLast(1)
      ELSE IF keep_all # {} THEN history_of(qoses[Min(keep_all)])
      ELSE KeepLast(Max({history_of(qoses[i]).depth : i \in DOMAIN qoses}))

\* Mutant: the depths of the TRANSIENT_LOCAL publishers are not added up.
route_history_Max(qoses, multiplier) == max_history(qoses)

\* The depths of several TRANSIENT_LOCAL publishers add up.
route_history(qoses, multiplier) ==
  LET strongest == max_history(qoses)
      tl        == {i \in DOMAIN qoses : is_transient_local(qoses[i])}
      sum       == SumFunctionOnSet([i \in tl |-> history_of(qoses[i]).depth], tl)
      factor    == IF Cardinality(tl) > 1 THEN Greatest(multiplier, 1) ELSE 1
  IN  IF strongest.kind = "KEEP_ALL" \/ tl = {}
      THEN strongest
      ELSE KeepLast(Least(sum * factor, MAX_TL_DEPTH))

Every(qoses, Test(_)) == \A i \in DOMAIN qoses : Test(qoses[i])
Some(qoses, Test(_)) == \E i \in DOMAIN qoses : Test(qoses[i])
Rel(reliable) == IF reliable THEN "RELIABLE" ELSE "BEST_EFFORT"

\* Mutant: the Reader requests what any local Writer offers.
reader_qos_for_local_writers_Any(writers) ==
  Qos(Rel(Some(writers, is_reliable)),
      Some(writers, is_transient_local),
      route_history(writers, tl_cache_multiplier), UnsetHistory)

\* The weakest QoS that all local Writers offer, a placeholder without any.
reader_qos_for_local_writers(writers) ==
  Qos(Rel(writers # <<>> /\ Every(writers, is_reliable)),
      writers # <<>> /\ Every(writers, is_transient_local),
      route_history(writers, tl_cache_multiplier), UnsetHistory)

\* The strongest offer of the local Writers.
announced_qos_for_local_writers(writers) ==
  Qos(Rel(Some(writers, is_reliable)),
      Some(writers, is_transient_local),
      route_history(writers, tl_cache_multiplier),
      IF writers = <<>> THEN UnsetHistory ELSE Head(writers).ds)

TransientLocal(writers) ==
  Subsequence(writers, {i \in DOMAIN writers : is_transient_local(writers[i])})
Volatile(writers) ==
  Subsequence(writers, {i \in DOMAIN writers : ~is_transient_local(writers[i])})

\* split_mixed_durability: Writers of both durabilities are bridged twice.
mixed_durability(writers) == TransientLocal(writers) # <<>> /\ Volatile(writers) # <<>>

\* The pair of the QoS that Derive gives for all Writers and NoQos, or, if their
\* durabilities mix, for the TRANSIENT_LOCAL and for the VOLATILE ones.
SplitInTwo(writers, Derive(_)) ==
  IF mixed_durability(writers)
  THEN [main |-> Derive(TransientLocal(writers)), volatile |-> Derive(Volatile(writers))]
  ELSE [main |-> Derive(writers), volatile |-> NoQos]

readers_qos_for_local_writers(writers) ==
  SplitInTwo(writers, reader_qos_for_local_writers)

announced_qoses_for_local_writers(writers) ==
  SplitInTwo(writers, announced_qos_for_local_writers)

\* Mutant: the Writer offers the durability that all announcements have.
writer_qos_for_remote_writers_Every(qoses) ==
  LET history == route_history(qoses, 1)
      all_tl  == qoses # <<>> /\ Every(qoses, is_transient_local)
  IN  Qos("RELIABLE", all_tl, history, IF all_tl THEN history ELSE UnsetHistory)

\* The Writer serves the announced Writers of other bridges.
writer_qos_for_remote_writers(qoses) ==
  LET history == route_history(qoses, 1)
      any_tl  == Some(qoses, is_transient_local)
  IN  Qos("RELIABLE", any_tl, history, IF any_tl THEN history ELSE UnsetHistory)

QosesOf(remote) == [i \in DOMAIN remote |-> remote[i].qos]

\* Mutant: the durabilities of all bridges are mixed together.
moved_AnyBridge(remote, a) ==
  /\ ~is_transient_local(a.qos)
  /\ \E i \in DOMAIN remote : is_transient_local(remote[i].qos)

\* The VOLATILE announcements of the bridges that announce both durabilities.
moved(remote, a) ==
  /\ ~is_transient_local(a.qos)
  /\ \E i \in DOMAIN remote : /\ remote[i].bridge = a.bridge
                              /\ is_transient_local(remote[i].qos)

\* remote is a sequence of announcements [bridge, qos].
writers_qos_for_remote_writers(remote) ==
  LET moves  == {i \in DOMAIN remote : moved(remote, remote[i])}
      marked == Subsequence(remote, moves)
      kept   == Subsequence(remote, DOMAIN remote \ moves)
  IN  [main |-> writer_qos_for_remote_writers(QosesOf(kept)),
       volatile |-> IF marked = <<>> THEN NoQos
                    ELSE writer_qos_for_remote_writers(QosesOf(marked))]

\* Unset policies equal their DDS default, which for the reliability depends on
\* the side.  NoQos is only the same as itself.
same_route_qos(a, b, reader) ==
  LET rel(q) == IF q.rel = "unset" THEN Rel(~reader) ELSE q.rel
  IN  \/ a = NoQos /\ b = NoQos
      \/ /\ a # NoQos /\ b # NoQos
         /\ rel(a) = rel(b)
         /\ a.tl = b.tl
         /\ history_of(a) = history_of(b)
         /\ a.ds = b.ds

=============================================================================
