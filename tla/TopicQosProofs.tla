---------------------------- MODULE TopicQosProofs ----------------------------
(***************************************************************************)
(* Theorems about the QoS of a topic across bridges.                       *)
(*                                                                         *)
(* What a bridge announces and reads follows from the Writers that its     *)
(* last update has read, once the stage of the update has passed; the last *)
(* event on its way about an announcement tells whether it is declared;    *)
(* the receiving bridge's Writers follow from the announcements it serves. *)
(* When everything has settled, these three relate the Writers of the      *)
(* sending bridges to the Writers of the receiving one.                    *)
(***************************************************************************)
EXTENDS TopicQos, FoldTheorems, TLAPS

-----------------------------------------------------------------------------
(* The QoS that are derived. *)

\* The records of the histories are told apart by their kinds.
LEMMA HistoryTypes ==
  /\ UnsetHistory \in Histories
  /\ \A d \in Int : KeepLast(d) \in Histories /\ KeepAll(d) \in Histories
  /\ \A r \in {"none", "unset", "BEST_EFFORT", "RELIABLE"}, t \in BOOLEAN, h \in Histories,
        s \in Histories : Qos(r, t, h, s) \in Qoses
  /\ NoQos \in Qoses /\ NoQos \notin EntityQoses
  /\ \A q \in EntityQoses : q \in Qoses /\ q # NoQos
BY DEF UnsetHistory, Histories, KeepLast, KeepAll, Qos, Qoses, NoQos, EntityQoses

\* The history of a QoS is set.
LEMMA HistoryOfType ==
  ASSUME NEW q \in Qoses
  PROVE  /\ history_of(q) \in Histories
         /\ history_of(q).kind \in {"KEEP_LAST", "KEEP_ALL"}
         /\ history_of(q).kind = "KEEP_LAST" =>
              history_of(q).depth \in Nat /\ history_of(q).depth >= 1
<1>1. q.history \in Histories /\ q.history.kind \in {"unset", "KEEP_LAST", "KEEP_ALL"}
      /\ q.history.depth \in Int
  BY DEF Qoses, Histories
<1>2. \A d \in Int : Greatest(d, 1) \in Nat /\ Greatest(d, 1) >= 1
  BY DEF Greatest
<1>3. CASE q.history.kind = "unset"
  <2>1. history_of(q) = KeepLast(1)
    BY <1>3 DEF history_of
  <2> QED
    BY <2>1, HistoryTypes DEF KeepLast
<1>4. CASE q.history.kind = "KEEP_LAST"
  <2>1. history_of(q) = KeepLast(Greatest(q.history.depth, 1))
    BY <1>4 DEF history_of
  <2> QED
    BY <1>1, <1>2, <2>1, HistoryTypes DEF KeepLast
<1>5. CASE q.history.kind = "KEEP_ALL"
  <2>1. history_of(q) = q.history
    BY <1>5 DEF history_of
  <2> QED
    BY <1>1, <1>5, <2>1
<1> QED
  BY <1>1, <1>3, <1>4, <1>5

\* The elements of a sequence have a finite domain.
LEMMA SequenceDomain ==
  ASSUME NEW S, NEW s \in Seq(S)
  PROVE  /\ DOMAIN s = 1 .. Len(s) /\ Len(s) \in Nat
         /\ IsFiniteSet(DOMAIN s) /\ \A set \in SUBSET DOMAIN s : IsFiniteSet(set)
         /\ \A i \in DOMAIN s : s[i] \in S
         /\ s = <<>> <=> DOMAIN s = {}
<1>1. DOMAIN s = 1 .. Len(s) /\ Len(s) \in Nat /\ \A i \in DOMAIN s : s[i] \in S
  OBVIOUS
<1>2. IsFiniteSet(DOMAIN s)
  BY <1>1, FS_Interval
<1>3. \A set \in SUBSET DOMAIN s : IsFiniteSet(set)
  BY <1>2, FS_Subset
<1>4. s = <<>> <=> DOMAIN s = {}
  OBVIOUS
<1> QED
  BY <1>1, <1>2, <1>3, <1>4

\* The strongest of the histories is one.
LEMMA MaxHistoryType ==
  ASSUME NEW qoses \in Seq(Qoses)
  PROVE  /\ max_history(qoses) \in Histories
         /\ max_history(qoses).kind \in {"KEEP_LAST", "KEEP_ALL"}
         /\ max_history(qoses).kind = "KEEP_LAST" => max_history(qoses).depth \in Nat
<1> DEFINE keep_all == {i \in DOMAIN qoses : history_of(qoses[i]).kind = "KEEP_ALL"}
           depths == {history_of(qoses[i]).depth : i \in DOMAIN qoses}
<1>1. \A i \in DOMAIN qoses : qoses[i] \in Qoses
  BY SequenceDomain
<1>2. CASE qoses = <<>>
  <2>1. max_history(qoses) = KeepLast(1)
    BY <1>2 DEF max_history
  <2> QED
    BY <2>1, HistoryTypes DEF KeepLast
<1>3. CASE qoses # <<>> /\ keep_all # {}
  <2>1. max_history(qoses) = history_of(qoses[Min(keep_all)])
    BY <1>3 DEF max_history
  <2>2. Min(keep_all) \in keep_all
    <3>1. keep_all \subseteq Nat
      BY SequenceDomain
    <3>2. \E i \in keep_all : \A j \in keep_all : i <= j
      <4> HIDE DEF keep_all
      <4> QED
        BY <1>3, <3>1, LeastNatural
    <3> QED
      BY <3>2 DEF Min
  <2> QED
    BY <1>1, <2>1, <2>2, HistoryOfType
<1>4. CASE qoses # <<>> /\ keep_all = {}
  <2>1. max_history(qoses) = KeepLast(Max(depths))
    BY <1>4 DEF max_history
  <2>2. depths \subseteq Nat
    BY <1>1, <1>4, HistoryOfType
  <2>3. IsFiniteSet(depths)
    <3> DEFINE depth == [i \in DOMAIN qoses |-> history_of(qoses[i]).depth]
    <3>1. IsFiniteSet(DOMAIN qoses)
      BY SequenceDomain
    <3>2. depth \in Surjection(DOMAIN qoses, depths)
      BY DEF Surjection, Range
    <3> QED
      BY <3>1, <3>2, FS_Surjection
  <2>4. depths # {}
    <3>1. PICK i \in DOMAIN qoses : TRUE
      BY <1>4, SequenceDomain
    <3>2. history_of(qoses[i]).depth \in depths
      OBVIOUS
    <3> QED
      BY <3>2
  <2>5. Max(depths) \in Nat
    <3> HIDE DEF depths
    <3> QED
      BY <2>2, <2>3, <2>4, MaxOfFinite
  <2> QED
    BY <2>1, <2>5, HistoryTypes DEF KeepLast
<1> QED
  BY <1>2, <1>3, <1>4

\* The history of a route is set.
LEMMA RouteHistoryType ==
  ASSUME NEW qoses \in Seq(Qoses), NEW multiplier \in Nat
  PROVE  route_history(qoses, multiplier) \in Histories
<1> DEFINE strongest == max_history(qoses)
           tl == {i \in DOMAIN qoses : is_transient_local(qoses[i])}
           depth == [i \in tl |-> history_of(qoses[i]).depth]
           sum == SumFunctionOnSet(depth, tl)
           factor == IF Cardinality(tl) > 1 THEN Greatest(multiplier, 1) ELSE 1
<1>1. route_history(qoses, multiplier) =
        IF strongest.kind = "KEEP_ALL" \/ tl = {} THEN strongest
        ELSE KeepLast(Least(sum * factor, MAX_TL_DEPTH))
  BY DEF route_history
<1>2. strongest \in Histories
  BY MaxHistoryType
<1>3. sum \in Int
  <2>1. IsFiniteSet(tl) /\ \A i \in tl : qoses[i] \in Qoses
    BY SequenceDomain
  <2>2. \A i \in tl : depth[i] \in Int
    BY <2>1, HistoryOfType DEF Histories
  <2> HIDE DEF tl, depth
  <2> QED
    BY <2>1, <2>2, SumType
<1>4. factor \in Nat
  BY DEF Greatest
<1>5. \A i, j \in Int : i * j \in Int
  OBVIOUS
<1>6. Least(sum * factor, MAX_TL_DEPTH) \in Int
  <2>1. sum * factor \in Int
    <3> HIDE DEF sum, factor
    <3> QED
      BY <1>3, <1>4, <1>5
  <2> HIDE DEF sum, factor
  <2> QED
    BY <2>1, QosAssumption DEF Least
<1> HIDE DEF strongest, tl, sum, factor
<1> QED
  BY <1>1, <1>2, <1>6, HistoryTypes

\* The QoS that are derived are QoS of DDS entities.
LEMMA DerivedTypes ==
  ASSUME NEW qoses \in Seq(EntityQoses)
  PROVE  /\ reader_qos_for_local_writers(qoses) \in EntityQoses
         /\ announced_qos_for_local_writers(qoses) \in EntityQoses
         /\ writer_qos_for_remote_writers(qoses) \in EntityQoses
<1>1. qoses \in Seq(Qoses)
  <2>1. EntityQoses \subseteq Qoses
    BY DEF EntityQoses
  <2> QED
    BY <2>1, SequenceDomain, IsASeq
<1>2. /\ route_history(qoses, tl_cache_multiplier) \in Histories
      /\ route_history(qoses, 1) \in Histories
  BY <1>1, RouteHistoryType, QosAssumption
<1>3. \A t : Rel(t) \in {"RELIABLE", "BEST_EFFORT"}
  BY DEF Rel
<1>4. \A r \in {"RELIABLE", "BEST_EFFORT"}, t \in BOOLEAN, h \in Histories, s \in Histories :
        Qos(r, t, h, s) \in EntityQoses
  BY DEF Qos, EntityQoses, Qoses
<1>5. qoses # <<>> => Head(qoses).ds \in Histories
  <2>1. qoses # <<>> => Head(qoses) \in EntityQoses
    OBVIOUS
  <2> QED
    BY <2>1 DEF EntityQoses, Qoses
<1>6. UnsetHistory \in Histories
  BY HistoryTypes
<1>7. reader_qos_for_local_writers(qoses) \in EntityQoses
  <2> DEFINE rel == Rel(qoses # <<>> /\ \A i \in DOMAIN qoses : is_reliable(qoses[i]))
             tl == qoses # <<>> /\ \A i \in DOMAIN qoses : is_transient_local(qoses[i])
             history == route_history(qoses, tl_cache_multiplier)
  <2>1. reader_qos_for_local_writers(qoses) = Qos(rel, tl, history, UnsetHistory)
    BY DEF reader_qos_for_local_writers, Every
  <2>2. tl \in BOOLEAN /\ rel \in {"RELIABLE", "BEST_EFFORT"}
    BY <1>3
  <2> HIDE DEF rel, tl
  <2> QED
    BY <1>2, <1>4, <1>6, <2>1, <2>2
<1>8. announced_qos_for_local_writers(qoses) \in EntityQoses
  <2> DEFINE rel == Rel(\E i \in DOMAIN qoses : is_reliable(qoses[i]))
             tl == \E i \in DOMAIN qoses : is_transient_local(qoses[i])
             history == route_history(qoses, tl_cache_multiplier)
             ds == IF qoses = <<>> THEN UnsetHistory ELSE Head(qoses).ds
  <2>1. announced_qos_for_local_writers(qoses) = Qos(rel, tl, history, ds)
    BY DEF announced_qos_for_local_writers, Some
  <2>2. tl \in BOOLEAN /\ rel \in {"RELIABLE", "BEST_EFFORT"} /\ ds \in Histories
    BY <1>3, <1>5, <1>6
  <2> HIDE DEF rel, tl, ds
  <2> QED
    BY <1>2, <1>4, <2>1, <2>2
<1>9. writer_qos_for_remote_writers(qoses) \in EntityQoses
  BY <1>2, <1>4, <1>6 DEF writer_qos_for_remote_writers, Some
<1> QED
  BY <1>7, <1>8, <1>9

\* The Writers are split by their durability.
LEMMA SplitByDurability ==
  ASSUME NEW ws \in Seq(EntityQoses)
  PROVE  /\ TransientLocal(ws) \in Seq(EntityQoses)
         /\ Volatile(ws) \in Seq(EntityQoses)
         /\ \A k \in DOMAIN TransientLocal(ws) : TransientLocal(ws)[k].tl
         /\ \A k \in DOMAIN Volatile(ws) : ~Volatile(ws)[k].tl
         /\ \A i \in DOMAIN ws : ws[i].tl =>
              \E k \in DOMAIN TransientLocal(ws) : TransientLocal(ws)[k] = ws[i]
         /\ \A i \in DOMAIN ws : ~ws[i].tl =>
              \E k \in DOMAIN Volatile(ws) : Volatile(ws)[k] = ws[i]
         /\ mixed_durability(ws) <=>
              (\E i \in DOMAIN ws : ws[i].tl)
                /\ (\E i \in DOMAIN ws : ~ws[i].tl)
<1> DEFINE tls == {i \in DOMAIN ws : is_transient_local(ws[i])}
           vs == {i \in DOMAIN ws : ~is_transient_local(ws[i])}
           T == TransientLocal(ws)
           V == Volatile(ws)
<1>1. T = Subsequence(ws, tls) /\ V = Subsequence(ws, vs)
  BY DEF TransientLocal, Volatile
<1>2. /\ T \in Seq(EntityQoses)
      /\ \A k \in DOMAIN T : \E i \in DOMAIN ws : i \in tls /\ ws[i] = T[k]
      /\ \A i \in DOMAIN ws : i \in tls => \E k \in DOMAIN T : T[k] = ws[i]
  <2>1. T \in Seq(EntityQoses) /\ Selected(T, ws, tls)
    BY <1>1, SubsequenceElements
  <2> QED
    BY <2>1 DEF Selected
<1>3. /\ V \in Seq(EntityQoses)
      /\ \A k \in DOMAIN V : \E i \in DOMAIN ws : i \in vs /\ ws[i] = V[k]
      /\ \A i \in DOMAIN ws : i \in vs => \E k \in DOMAIN V : V[k] = ws[i]
  <2>1. V \in Seq(EntityQoses) /\ Selected(V, ws, vs)
    BY <1>1, SubsequenceElements
  <2> QED
    BY <2>1 DEF Selected
<1>4. /\ \A i \in DOMAIN ws : i \in tls <=> ws[i].tl
      /\ \A i \in DOMAIN ws : i \in vs <=> ~ws[i].tl
  BY DEF is_transient_local
<1>5. (T # <<>> <=> DOMAIN T # {}) /\ (V # <<>> <=> DOMAIN V # {})
  <2>1. \A s \in Seq(EntityQoses) : s # <<>> <=> DOMAIN s # {}
    BY SequenceDomain
  <2>2. T \in Seq(EntityQoses) /\ V \in Seq(EntityQoses)
    BY <1>2, <1>3
  <2> HIDE DEF T, V
  <2> QED
    BY <2>1, <2>2
<1>6. mixed_durability(ws) <=> T # <<>> /\ V # <<>>
  BY DEF mixed_durability
<1> HIDE DEF tls, vs, T, V
<1>7. DOMAIN T # {} <=> \E i \in DOMAIN ws : ws[i].tl
  BY <1>2, <1>4
<1>8. DOMAIN V # {} <=> \E i \in DOMAIN ws : ~ws[i].tl
  BY <1>3, <1>4
<1>9. /\ \A k \in DOMAIN T : T[k].tl
      /\ \A k \in DOMAIN V : ~V[k].tl
      /\ \A i \in DOMAIN ws : ws[i].tl => \E k \in DOMAIN T : T[k] = ws[i]
      /\ \A i \in DOMAIN ws : ~ws[i].tl => \E k \in DOMAIN V : V[k] = ws[i]
  <2>1. \A k \in DOMAIN T : T[k].tl
    BY <1>2, <1>4
  <2>2. \A k \in DOMAIN V : ~V[k].tl
    BY <1>3, <1>4
  <2> QED
    BY <1>2, <1>3, <1>4, <2>1, <2>2
<1> QED
  BY <1>2, <1>3, <1>5, <1>6, <1>7, <1>8, <1>9 DEF T, V

\* What the Readers of a bridge request of its Writers: every Writer is matched by exactly
\* the Reader of its durability if the durabilities mix, and by the only Reader otherwise.
LEMMA ReadersCalledFor ==
  ASSUME NEW ws \in Seq(EntityQoses), ws # <<>>
  PROVE  LET desired == readers_qos_for_local_writers(ws)
         IN  /\ desired.main \in EntityQoses
             /\ desired.volatile \in EntityQoses \cup {NoQos}
             /\ desired = [main |-> desired.main, volatile |-> desired.volatile]
             /\ desired.volatile # NoQos <=> mixed_durability(ws)
             /\ \A i \in DOMAIN ws :
                  /\ Compatible(ws[i], desired.main) <=> ~(mixed_durability(ws) /\ ~ws[i].tl)
                  /\ mixed_durability(ws) /\ ~ws[i].tl => Compatible(ws[i], desired.volatile)
<1> DEFINE T == TransientLocal(ws)
           V == Volatile(ws)
           desired == readers_qos_for_local_writers(ws)
<1>1. \A qs \in Seq(EntityQoses) : qs # <<>> =>
        /\ reader_qos_for_local_writers(qs) \in EntityQoses
        /\ reader_qos_for_local_writers(qs).tl <=> \A i \in DOMAIN qs : qs[i].tl
        /\ \A i \in DOMAIN qs : reader_qos_for_local_writers(qs).rel = "RELIABLE" =>
                                  qs[i].rel = "RELIABLE"
  <2> TAKE qs \in Seq(EntityQoses)
  <2> HAVE qs # <<>>
  <2>1. reader_qos_for_local_writers(qs) \in EntityQoses
    BY DerivedTypes
  <2>2. reader_qos_for_local_writers(qs).tl <=> \A i \in DOMAIN qs : qs[i].tl
    BY DEF reader_qos_for_local_writers, Qos, Every, is_transient_local
  <2>3. reader_qos_for_local_writers(qs).rel = "RELIABLE" =>
          \A i \in DOMAIN qs : qs[i].rel = "RELIABLE"
    BY DEF reader_qos_for_local_writers, Qos, Every, is_reliable, Rel
  <2> QED
    BY <2>1, <2>2, <2>3
<1>2. /\ T \in Seq(EntityQoses) /\ V \in Seq(EntityQoses)
      /\ \A k \in DOMAIN T : T[k].tl
      /\ \A k \in DOMAIN V : ~V[k].tl
      /\ \A i \in DOMAIN ws : ws[i].tl => \E k \in DOMAIN T : T[k] = ws[i]
      /\ \A i \in DOMAIN ws : ~ws[i].tl => \E k \in DOMAIN V : V[k] = ws[i]
  BY SplitByDurability
<1>3. \A i \in DOMAIN ws : ws[i] \in EntityQoses
  BY SequenceDomain
<1>4. CASE mixed_durability(ws)
  <2>1. desired = [main |-> reader_qos_for_local_writers(T),
                   volatile |-> reader_qos_for_local_writers(V)]
    BY <1>4 DEF readers_qos_for_local_writers, SplitInTwo
  <2>2. T # <<>> /\ V # <<>>
    BY <1>4 DEF mixed_durability
  <2> HIDE DEF T, V, desired
  <2>3. /\ desired.main = reader_qos_for_local_writers(T)
        /\ desired.volatile = reader_qos_for_local_writers(V)
    BY <2>1
  <2>4. /\ desired.main \in EntityQoses /\ desired.main.tl
        /\ \A i \in DOMAIN T : desired.main.rel = "RELIABLE" => T[i].rel = "RELIABLE"
    BY <1>1, <1>2, <2>2, <2>3
  <2>5. /\ desired.volatile \in EntityQoses /\ ~desired.volatile.tl
        /\ \A i \in DOMAIN V : desired.volatile.rel = "RELIABLE" => V[i].rel = "RELIABLE"
    <3>1. DOMAIN V # {}
      BY <1>2, <2>2, SequenceDomain
    <3> QED
      BY <1>1, <1>2, <2>2, <2>3, <3>1
  <2>6. \A i \in DOMAIN ws : ws[i].tl => Compatible(ws[i], desired.main)
    BY <1>2, <2>4 DEF Compatible, is_reliable, is_transient_local
  <2>7. \A i \in DOMAIN ws : ~ws[i].tl => /\ ~Compatible(ws[i], desired.main)
                                         /\ Compatible(ws[i], desired.volatile)
    BY <1>2, <2>4, <2>5 DEF Compatible, is_reliable, is_transient_local
  <2>8. desired.volatile # NoQos
    BY <2>5, HistoryTypes
  <2>9. desired = [main |-> desired.main, volatile |-> desired.volatile]
    BY <2>1
  <2> QED
    BY <1>4, <2>4, <2>5, <2>6, <2>7, <2>8, <2>9 DEF desired
<1>5. CASE ~mixed_durability(ws)
  <2>1. desired = [main |-> reader_qos_for_local_writers(ws), volatile |-> NoQos]
    BY <1>5 DEF readers_qos_for_local_writers, SplitInTwo
  <2> HIDE DEF desired
  <2>2. /\ desired.main = reader_qos_for_local_writers(ws) /\ desired.volatile = NoQos
        /\ desired = [main |-> desired.main, volatile |-> desired.volatile]
    BY <2>1
  <2>3. \A i \in DOMAIN ws : Compatible(ws[i], desired.main)
    BY <1>1, <2>2 DEF Compatible, is_reliable, is_transient_local
  <2>4. desired.main \in EntityQoses
    BY <1>1, <2>2
  <2> QED
    BY <1>5, <2>2, <2>3, <2>4 DEF desired
<1> QED
  BY <1>4, <1>5

\* What a bridge announces of its Writers: one announcement, or one per durability.
LEMMA AnnouncementsCalledFor ==
  ASSUME NEW ws \in Seq(EntityQoses), ws # <<>>
  PROVE  LET called == announced_qoses_for_local_writers(ws)
         IN  /\ called.main \in EntityQoses
             /\ called.volatile \in EntityQoses \cup {NoQos}
             /\ called = [main |-> called.main, volatile |-> called.volatile]
             /\ called.volatile # NoQos <=> mixed_durability(ws)
             /\ called.main.tl <=> \E i \in DOMAIN ws : ws[i].tl
             /\ ~called.volatile.tl
<1> DEFINE T == TransientLocal(ws)
           V == Volatile(ws)
           called == announced_qoses_for_local_writers(ws)
<1>1. \A qs \in Seq(EntityQoses) : qs # <<>> =>
        /\ announced_qos_for_local_writers(qs) \in EntityQoses
        /\ announced_qos_for_local_writers(qs).tl <=> \E i \in DOMAIN qs : qs[i].tl
  <2> TAKE qs \in Seq(EntityQoses)
  <2> HAVE qs # <<>>
  <2>1. announced_qos_for_local_writers(qs) \in EntityQoses
    BY DerivedTypes
  <2>2. announced_qos_for_local_writers(qs).tl <=> \E i \in DOMAIN qs : qs[i].tl
    BY DEF announced_qos_for_local_writers, Qos, Some, is_transient_local
  <2> QED
    BY <2>1, <2>2
<1>2. /\ T \in Seq(EntityQoses) /\ V \in Seq(EntityQoses)
      /\ \A k \in DOMAIN T : T[k].tl
      /\ \A k \in DOMAIN V : ~V[k].tl
      /\ mixed_durability(ws) <=> (\E i \in DOMAIN ws : ws[i].tl)
                                    /\ (\E i \in DOMAIN ws : ~ws[i].tl)
  BY SplitByDurability
<1>3. ~NoQos.tl
  BY DEF NoQos, Qos
<1>4. CASE mixed_durability(ws)
  <2>1. called = [main |-> announced_qos_for_local_writers(T),
                  volatile |-> announced_qos_for_local_writers(V)]
    BY <1>4 DEF announced_qoses_for_local_writers, SplitInTwo
  <2>2. T # <<>> /\ V # <<>>
    BY <1>4 DEF mixed_durability
  <2> HIDE DEF T, V, called
  <2>3. /\ called.main = announced_qos_for_local_writers(T)
        /\ called.volatile = announced_qos_for_local_writers(V)
        /\ called = [main |-> called.main, volatile |-> called.volatile]
    BY <2>1
  <2>4. called.main \in EntityQoses /\ called.main.tl
    <3>1. DOMAIN T # {}
      BY <1>2, <2>2, SequenceDomain
    <3> QED
      BY <1>1, <1>2, <2>2, <2>3, <3>1
  <2>5. called.volatile \in EntityQoses /\ ~called.volatile.tl
    BY <1>1, <1>2, <2>2, <2>3
  <2>6. called.volatile # NoQos
    BY <2>5, HistoryTypes
  <2> QED
    BY <1>2, <1>4, <2>3, <2>4, <2>5, <2>6 DEF called
<1>5. CASE ~mixed_durability(ws)
  <2>1. called = [main |-> announced_qos_for_local_writers(ws), volatile |-> NoQos]
    BY <1>5 DEF announced_qoses_for_local_writers, SplitInTwo
  <2> HIDE DEF called
  <2>2. /\ called.main = announced_qos_for_local_writers(ws) /\ called.volatile = NoQos
        /\ called = [main |-> called.main, volatile |-> called.volatile]
    BY <2>1
  <2>3. called.main \in EntityQoses /\ (called.main.tl <=> \E i \in DOMAIN ws : ws[i].tl)
    BY <1>1, <2>2
  <2> QED
    BY <1>3, <1>5, <2>2, <2>3 DEF called
<1> QED
  BY <1>4, <1>5

\* What the receiving bridge offers for the announcements that it serves.
LEMMA WritersCalledFor ==
  ASSUME NEW as \in Seq(Announcements)
  PROVE  LET desired == writers_qos_for_remote_writers(as)
         IN  /\ desired.main \in EntityQoses /\ desired.main.rel = "RELIABLE"
             /\ desired.volatile \in EntityQoses \cup {NoQos}
             /\ desired.volatile # NoQos => desired.volatile.rel = "RELIABLE"
             /\ desired = [main |-> desired.main, volatile |-> desired.volatile]
             /\ desired.volatile # NoQos <=> \E i \in DOMAIN as : moved(as, as[i])
             /\ (\E i \in DOMAIN as : as[i].qos.tl) => desired.main.tl
<1> DEFINE moves == {i \in DOMAIN as : moved(as, as[i])}
           stays == DOMAIN as \ moves
           marked == Subsequence(as, moves)
           kept == Subsequence(as, stays)
           desired == writers_qos_for_remote_writers(as)
<1>1. desired = [main |-> writer_qos_for_remote_writers(QosesOf(kept)),
                 volatile |-> IF marked = <<>> THEN NoQos
                              ELSE writer_qos_for_remote_writers(QosesOf(marked))]
  BY DEF writers_qos_for_remote_writers
<1>2. \A s \in Seq(Announcements) : /\ QosesOf(s) \in Seq(EntityQoses)
                        /\ DOMAIN QosesOf(s) = DOMAIN s
                        /\ \A i \in DOMAIN s : QosesOf(s)[i] = s[i].qos
  <2> TAKE s \in Seq(Announcements)
  <2>1. DOMAIN s = 1 .. Len(s) /\ Len(s) \in Nat /\ \A i \in DOMAIN s : s[i] \in Announcements
    BY SequenceDomain
  <2>2. QosesOf(s) = [i \in 1 .. Len(s) |-> s[i].qos]
    BY <2>1 DEF QosesOf
  <2>3. \A i \in 1 .. Len(s) : s[i].qos \in EntityQoses
    BY <2>1 DEF Announcements
  <2>4. QosesOf(s) \in Seq(EntityQoses)
    BY <2>1, <2>2, <2>3, IsASeq
  <2> QED
    BY <2>1, <2>2, <2>4
<1>3. /\ marked \in Seq(Announcements)
      /\ \A k \in DOMAIN marked : \E i \in DOMAIN as : i \in moves /\ as[i] = marked[k]
      /\ \A i \in DOMAIN as : i \in moves => \E k \in DOMAIN marked : marked[k] = as[i]
  <2>1. marked \in Seq(Announcements) /\ Selected(marked, as, moves)
    BY SubsequenceElements
  <2> QED
    BY <2>1 DEF Selected
<1>4. /\ kept \in Seq(Announcements)
      /\ \A i \in DOMAIN as : i \in stays => \E k \in DOMAIN kept : kept[k] = as[i]
  <2>1. kept \in Seq(Announcements) /\ Selected(kept, as, stays)
    BY SubsequenceElements
  <2> QED
    BY <2>1 DEF Selected
<1>5. \A qs \in Seq(EntityQoses) :
        /\ writer_qos_for_remote_writers(qs) \in EntityQoses
        /\ writer_qos_for_remote_writers(qs).rel = "RELIABLE"
        /\ writer_qos_for_remote_writers(qs).tl <=> \E i \in DOMAIN qs : qs[i].tl
  <2> TAKE qs \in Seq(EntityQoses)
  <2>1. writer_qos_for_remote_writers(qs) \in EntityQoses
    BY DerivedTypes
  <2>2. /\ writer_qos_for_remote_writers(qs).rel = "RELIABLE"
        /\ writer_qos_for_remote_writers(qs).tl <=> \E i \in DOMAIN qs : qs[i].tl
    BY DEF writer_qos_for_remote_writers, Qos, Some, is_transient_local
  <2> QED
    BY <2>1, <2>2
<1>6. \A i \in DOMAIN as : as[i].qos.tl => i \in stays
  BY DEF moved, is_transient_local
<1>7. marked # <<>> <=> moves # {}
  <2>1. marked # <<>> <=> DOMAIN marked # {}
    <3>1. marked \in Seq(Announcements)
      BY <1>3
    <3> HIDE DEF marked
    <3> QED
      BY <3>1, SequenceDomain
  <2> HIDE DEF marked
  <2> QED
    BY <1>3, <2>1
<1>8. moves # {} <=> \E i \in DOMAIN as : moved(as, as[i])
  OBVIOUS
<1> HIDE DEF moves, stays, marked, kept, desired
<1>9. /\ desired.main = writer_qos_for_remote_writers(QosesOf(kept))
      /\ desired.volatile = IF marked = <<>> THEN NoQos
                            ELSE writer_qos_for_remote_writers(QosesOf(marked))
      /\ desired = [main |-> desired.main, volatile |-> desired.volatile]
  BY <1>1
<1>10. desired.main \in EntityQoses /\ desired.main.rel = "RELIABLE"
  BY <1>2, <1>4, <1>5, <1>9
<1>11. /\ desired.volatile \in EntityQoses \cup {NoQos}
       /\ desired.volatile # NoQos => desired.volatile.rel = "RELIABLE"
       /\ desired.volatile # NoQos <=> marked # <<>>
  <2>1. CASE marked = <<>>
    BY <1>9, <2>1
  <2>2. CASE marked # <<>>
    <3>1. desired.volatile = writer_qos_for_remote_writers(QosesOf(marked))
      BY <1>9, <2>2
    <3>2. desired.volatile \in EntityQoses /\ desired.volatile.rel = "RELIABLE"
      <4>1. QosesOf(marked) \in Seq(EntityQoses)
        BY <1>2, <1>3
      <4> QED
        BY <1>5, <3>1, <4>1
    <3> QED
      BY <2>2, <3>2, HistoryTypes
  <2> QED
    BY <2>1, <2>2
<1>12. (\E i \in DOMAIN as : as[i].qos.tl) => desired.main.tl
  <2> SUFFICES ASSUME NEW i \in DOMAIN as, as[i].qos.tl PROVE desired.main.tl
    OBVIOUS
  <2>1. PICK k \in DOMAIN kept : kept[k] = as[i]
    BY <1>4, <1>6
  <2>2. k \in DOMAIN QosesOf(kept) /\ QosesOf(kept)[k].tl
    BY <1>2, <1>4, <2>1
  <2> QED
    BY <1>2, <1>4, <1>5, <1>9, <2>2
<1> QED
  BY <1>7, <1>8, <1>9, <1>10, <1>11, <1>12 DEF desired

-----------------------------------------------------------------------------
(* Equal QoS. *)

\* A QoS is the same as itself, and a changed one the same as the one called for.
LEMMA ChangedFollows ==
  ASSUME NEW current, NEW desired, NEW reader
  PROVE  /\ same_route_qos(desired, desired, reader)
         /\ same_route_qos(Changed(current, desired, reader), desired, reader)
BY DEF Changed, same_route_qos

\* What two QoS that are the same agree about.
LEMMA SamePolicies ==
  ASSUME NEW a, NEW b, NEW reader \in BOOLEAN, same_route_qos(a, b, reader)
  PROVE  /\ a = NoQos <=> b = NoQos
         /\ a.tl = b.tl
         /\ reader => (a.rel = "RELIABLE" <=> b.rel = "RELIABLE")
         /\ ~reader => (a.rel = "BEST_EFFORT" <=> b.rel = "BEST_EFFORT")
         /\ a # NoQos => history_of(a) = history_of(b) /\ a.ds = b.ds
<1>1. CASE a = NoQos /\ b = NoQos
  BY <1>1
<1>2. CASE ~(a = NoQos /\ b = NoQos)
  <2>1. /\ a # NoQos /\ b # NoQos /\ a.tl = b.tl /\ history_of(a) = history_of(b)
        /\ a.ds = b.ds
        /\ (IF a.rel = "unset" THEN Rel(~reader) ELSE a.rel) =
             (IF b.rel = "unset" THEN Rel(~reader) ELSE b.rel)
    BY <1>2 DEF same_route_qos
  <2>2. CASE reader
    <3>1. Rel(~reader) = "BEST_EFFORT"
      BY <2>2 DEF Rel
    <3> QED
      BY <2>1, <2>2, <3>1
  <2>3. CASE ~reader
    <3>1. Rel(~reader) = "RELIABLE"
      BY <2>3 DEF Rel
    <3> QED
      BY <2>1, <2>3, <3>1
  <2> QED
    BY <2>2, <2>3
<1> QED
  BY <1>1, <1>2

-----------------------------------------------------------------------------
(* Pairs of QoS, and the events that announce them. *)

\* The members of a pair, and what can be made of it.
LEMMA PairTypes ==
  /\ None \in Pairs
  /\ \A p \in Pairs : /\ p.main \in EntityQoses \cup {NoQos}
                      /\ p.volatile \in EntityQoses \cup {NoQos}
  /\ \A p \in Pairs, q \in EntityQoses \cup {NoQos} :
       /\ [p EXCEPT !.main = q] \in Pairs
       /\ [p EXCEPT !.main = q].main = q /\ [p EXCEPT !.main = q].volatile = p.volatile
       /\ [p EXCEPT !.volatile = q] \in Pairs
       /\ [p EXCEPT !.volatile = q].volatile = q /\ [p EXCEPT !.volatile = q].main = p.main
  /\ \A m, v \in EntityQoses \cup {NoQos} : [main |-> m, volatile |-> v] \in Pairs
BY DEF Pairs, None

\* The pairs of QoS that a sequence of Writers calls for.
LEMMA CalledForTypes ==
  ASSUME NEW ws \in Seq(EntityQoses)
  PROVE  /\ readers_qos_for_local_writers(ws) \in Pairs
         /\ announced_qoses_for_local_writers(ws) \in Pairs
         /\ ws = <<>> => readers_qos_for_local_writers(ws).volatile = NoQos
<1>1. CASE ws # <<>>
  BY <1>1, ReadersCalledFor, AnnouncementsCalledFor, PairTypes
<1>2. CASE ws = <<>>
  <2>1. ~mixed_durability(ws)
    <3>1. DOMAIN ws = {}
      BY <1>2
    <3> QED
      BY <3>1, SplitByDurability
  <2>2. readers_qos_for_local_writers(ws) =
          [main |-> reader_qos_for_local_writers(ws), volatile |-> NoQos]
    BY <2>1 DEF readers_qos_for_local_writers, SplitInTwo
  <2>3. announced_qoses_for_local_writers(ws) =
          [main |-> announced_qos_for_local_writers(ws), volatile |-> NoQos]
    BY <2>1 DEF announced_qoses_for_local_writers, SplitInTwo
  <2> QED
    BY <2>2, <2>3, DerivedTypes, PairTypes
<1> QED
  BY <1>1, <1>2

\* The announcements of a pair.
LEMMA KeysOfPair ==
  ASSUME NEW p \in Pairs
  PROVE  /\ Keys(p) \subseteq EntityQoses
         /\ IsFiniteSet(Keys(p))
         /\ p.main # NoQos => qos_to_key_expr(p.main) \in Keys(p)
         /\ p.volatile # NoQos => qos_to_key_expr(p.volatile) \in Keys(p)
         /\ \A k \in Keys(p) :
              \/ p.main # NoQos /\ k = qos_to_key_expr(p.main)
              \/ p.volatile # NoQos /\ k = qos_to_key_expr(p.volatile)
<1>1. \A q \in EntityQoses : qos_to_key_expr(q) \in EntityQoses
  <2> TAKE q \in EntityQoses
  <2>1. /\ q = [rel |-> q.rel, tl |-> q.tl, history |-> q.history, ds |-> q.ds]
        /\ q.rel \in {"unset", "BEST_EFFORT", "RELIABLE"} /\ q.tl \in BOOLEAN
        /\ q.history \in Histories
    BY DEF EntityQoses, Qoses
  <2>2. qos_to_key_expr(q) =
          [rel |-> q.rel, tl |-> q.tl, history |-> q.history, ds |-> UnsetHistory]
    BY <2>1 DEF qos_to_key_expr
  <2> QED
    BY <2>1, <2>2, HistoryTypes DEF EntityQoses, Qoses
<1>2. {p.main, p.volatile} \ {NoQos} \subseteq EntityQoses
  BY PairTypes
<1>3. Keys(p) \subseteq EntityQoses
  BY <1>1, <1>2 DEF Keys
<1>4. IsFiniteSet(Keys(p))
  <2> DEFINE S == {p.main, p.volatile} \ {NoQos}
             key == [q \in S |-> qos_to_key_expr(q)]
  <2>1. IsFiniteSet(S)
    <3>1. IsFiniteSet({p.main, p.volatile})
      <4>1. {p.main, p.volatile} = {p.main} \cup {p.volatile}
        OBVIOUS
      <4>2. IsFiniteSet({p.main}) /\ IsFiniteSet({p.volatile})
        BY FS_Singleton
      <4>3. IsFiniteSet({p.main} \cup {p.volatile})
        BY <4>2, FS_Union
      <4> QED
        BY <4>1, <4>3
    <3> QED
      BY <3>1, FS_Subset
  <2>2. key \in Surjection(S, Keys(p))
    BY DEF Surjection, Keys, Range
  <2> QED
    BY <2>1, <2>2, FS_Surjection
<1>5. \A q \in {p.main, p.volatile} : q # NoQos => qos_to_key_expr(q) \in Keys(p)
  BY DEF Keys
<1>6. \A k \in Keys(p) : \E q \in {p.main, p.volatile} : q # NoQos /\ k = qos_to_key_expr(q)
  BY DEF Keys
<1> QED
  BY <1>3, <1>4, <1>5, <1>6

\* The key expression tells the durability.
LEMMA KeyTellsDurability ==
  ASSUME NEW q \in EntityQoses
  PROVE  /\ qos_to_key_expr(q).tl = q.tl
         /\ qos_to_key_expr(q).history = q.history
BY DEF qos_to_key_expr, EntityQoses, Qoses

\* The events about a set of announcements: one about each.
LEMMA EventsAbout ==
  ASSUME NEW b \in Bridges, NEW op \in {"announced", "retired"},
         NEW keys, keys \subseteq EntityQoses, IsFiniteSet(keys)
  PROVE  /\ Events(b, op, keys) \in Seq(LivelinessEvents)
         /\ \A i \in DOMAIN Events(b, op, keys) :
              /\ Events(b, op, keys)[i].op = op
              /\ Events(b, op, keys)[i].bridge = b
              /\ Events(b, op, keys)[i].qos \in keys
         /\ \A k \in keys :
              \E i \in DOMAIN Events(b, op, keys) : Events(b, op, keys)[i].qos = k
<1> DEFINE s == SetToSeq(keys)
           es == [i \in DOMAIN s |-> [op |-> op, bridge |-> b, qos |-> s[i]]]
<1>1. Events(b, op, keys) = es
  BY DEF Events
<1>2. s \in Seq(keys) /\ \A x \in keys : \E i \in DOMAIN s : s[i] = x
  BY SequenceOfSet
<1>3. DOMAIN s = 1 .. Len(s) /\ Len(s) \in Nat /\ \A i \in DOMAIN s : s[i] \in keys
  <2>1. s \in Seq(keys)
    BY <1>2
  <2> HIDE DEF s
  <2> QED
    BY <2>1, SequenceDomain
<1> HIDE DEF s
<1>4. \A i \in DOMAIN s : es[i] \in LivelinessEvents /\ es[i].op = op /\ es[i].bridge = b
                          /\ es[i].qos = s[i]
  BY <1>3 DEF LivelinessEvents
<1>5. DOMAIN es = DOMAIN s
  OBVIOUS
<1>6. es \in Seq(LivelinessEvents)
  <2>1. es = [i \in 1 .. Len(s) |-> es[i]]
    BY <1>3
  <2> HIDE DEF es
  <2> QED
    BY <1>3, <1>4, <2>1, IsASeq
<1> HIDE DEF es
<1> QED
  BY <1>1, <1>2, <1>3, <1>4, <1>5, <1>6

-----------------------------------------------------------------------------
(* Types. *)

\* A changed QoS is one of the two.
LEMMA ChangedType ==
  ASSUME NEW S, NEW current \in S, NEW desired \in S, NEW reader
  PROVE  Changed(current, desired, reader) \in S
BY DEF Changed

\* What a redeclaration makes of the tokens and of the events on their way.
LEMMA RedeclareTypes ==
  ASSUME TypeOK, NEW b \in Bridges, NEW new \in Pairs, Redeclare(b, new)
  PROVE  token' \in [Bridges -> Pairs] /\ channel' \in [Bridges -> Seq(LivelinessEvents)]
<1> DEFINE added == Keys(new) \ Keys(token[b])
           gone == Keys(token[b]) \ Keys(new)
<1>1. token[b] \in Pairs /\ channel[b] \in Seq(LivelinessEvents)
  BY DEF TypeOK
<1>2. /\ added \subseteq EntityQoses /\ IsFiniteSet(added)
      /\ gone \subseteq EntityQoses /\ IsFiniteSet(gone)
  <2>1. /\ Keys(new) \subseteq EntityQoses /\ IsFiniteSet(Keys(new))
        /\ Keys(token[b]) \subseteq EntityQoses /\ IsFiniteSet(Keys(token[b]))
    BY <1>1, KeysOfPair
  <2> QED
    BY <2>1, FS_Subset
<1>3. /\ Events(b, "announced", added) \in Seq(LivelinessEvents)
      /\ Events(b, "retired", gone) \in Seq(LivelinessEvents)
  <2> HIDE DEF added, gone
  <2> QED
    BY <1>2, EventsAbout
<1>4. channel[b] \o Events(b, "announced", added) \o Events(b, "retired", gone)
        \in Seq(LivelinessEvents)
  <2> HIDE DEF added, gone
  <2> QED
    BY <1>1, <1>3
<1>5. channel' = [channel EXCEPT ![b] =
                    channel[b] \o Events(b, "announced", added) \o Events(b, "retired", gone)]
  BY DEF Redeclare
<1>6. token' = [token EXCEPT ![b] = new]
  BY DEF Redeclare
<1> HIDE DEF added, gone
<1> QED
  BY <1>4, <1>5, <1>6 DEF TypeOK

\* The Writers of a system are a sequence of QoS.
LEMMA OnTopicType ==
  ASSUME NEW ids
  PROVE  /\ writers_qos_on_topic(ids) \in Seq(EntityQoses)
         /\ Selected(writers_qos_on_topic(ids), WriterQoses, ids)
<1>1. WriterQoses \in Seq(EntityQoses)
  BY TopicQosAssumption
<1> QED
  BY <1>1, SubsequenceElements DEF writers_qos_on_topic

\* An announcement is removed from the ones that are served.
LEMMA WithoutType ==
  ASSUME remote \in Seq(Announcements), NEW a
  PROVE  /\ without(a) \in Seq(Announcements)
         /\ Selected(without(a), remote,
                     {i \in DOMAIN remote :
                        remote_publisher_key(remote[i]) # remote_publisher_key(a)})
<1> DEFINE set == {i \in DOMAIN remote :
                     remote_publisher_key(remote[i]) # remote_publisher_key(a)}
<1>1. without(a) = Subsequence(remote, set)
  BY DEF without
<1> HIDE DEF set
<1>2. without(a) \in Seq(Announcements) /\ Selected(without(a), remote, set)
  BY <1>1, SubsequenceElements
<1> QED
  BY <1>2 DEF set

\* The types hold initially.
LEMMA InitTypes ==
  Init => TypeOK
<1> SUFFICES ASSUME Init PROVE TypeOK
  OBVIOUS
<1>1. <<>> \in Seq(EntityQoses) /\ <<>> \in Seq(LivelinessEvents) /\ <<>> \in Seq(Announcements)
  OBVIOUS
<1> QED
  BY <1>1, PairTypes DEF Init, TypeOK

\* The types are preserved.
LEMMA TypeKept ==
  TypeOK /\ [Next]_vars => TypeOK'
<1> SUFFICES ASSUME TypeOK, [Next]_vars PROVE TypeOK'
  OBVIOUS
<1>1. ASSUME NEW b \in Bridges, NEW w \in near[b], ChangeWriters(b, w) PROVE TypeOK'
  <2>1. near[b] \subseteq Writers
    BY TopicQosAssumption DEF TypeOK
  <2>2. local' \in [Bridges -> SUBSET Writers]
    BY <1>1, <2>1 DEF ChangeWriters, TypeOK
  <2>3. stale' \subseteq Bridges
    BY <1>1 DEF ChangeWriters, TypeOK
  <2> QED
    BY <1>1, <2>2, <2>3 DEF ChangeWriters, receiverVars, TypeOK
<1>2. ASSUME NEW b \in Bridges, Retire(b) PROVE TypeOK'
  <2>1. token' \in [Bridges -> Pairs] /\ channel' \in [Bridges -> Seq(LivelinessEvents)]
    BY <1>2, PairTypes, RedeclareTypes DEF Retire
  <2>2. <<>> \in Seq(EntityQoses)
    OBVIOUS
  <2>3. writers' \in [Bridges -> Seq(EntityQoses)]
    BY <1>2, <2>2 DEF Retire, TypeOK
  <2>4. readers' \in [Bridges -> Pairs]
    BY <1>2, <2>2, CalledForTypes, PairTypes DEF Retire, TypeOK
  <2>5. stale' \subseteq Bridges
    BY <1>2 DEF Retire, TypeOK
  <2> QED
    BY <1>2, <2>1, <2>3, <2>4, <2>5 DEF Retire, receiverVars, TypeOK
<1>3. ASSUME NEW b \in Bridges, Begin(b) PROVE TypeOK'
  <2>1. writers' \in [Bridges -> Seq(EntityQoses)]
    BY <1>3, OnTopicType DEF Begin, TypeOK
  <2>2. stale' \subseteq Bridges
    BY <1>3 DEF Begin, TypeOK
  <2>3. pc' \in [Bridges -> {"idle", "announce", "announce_volatile", "readers"}]
    BY <1>3 DEF Begin, TypeOK
  <2> QED
    BY <1>3, <2>1, <2>2, <2>3 DEF Begin, receiverVars, TypeOK
<1>4. ASSUME NEW b \in Bridges, Announce(b) PROVE TypeOK'
  <2>1. writers[b] \in Seq(EntityQoses) /\ token[b] \in Pairs
    BY DEF TypeOK
  <2> DEFINE called == announced_qoses_for_local_writers(writers[b]).main
             new == [token[b] EXCEPT !.main = Changed(@, called, FALSE)]
  <2>2. Redeclare(b, new)
    BY <1>4 DEF Announce
  <2>3. Changed(token[b].main, called, FALSE) \in EntityQoses \cup {NoQos}
    BY <2>1, CalledForTypes, PairTypes, ChangedType
  <2>4. new \in Pairs
    BY <2>1, <2>3, PairTypes
  <2>5. token' \in [Bridges -> Pairs] /\ channel' \in [Bridges -> Seq(LivelinessEvents)]
    <3> HIDE DEF new
    <3> QED
      BY <2>2, <2>4, RedeclareTypes
  <2>6. pc' \in [Bridges -> {"idle", "announce", "announce_volatile", "readers"}]
    BY <1>4 DEF Announce, TypeOK
  <2> QED
    BY <1>4, <2>5, <2>6 DEF Announce, receiverVars, TypeOK
<1>5. ASSUME NEW b \in Bridges, AnnounceVolatile(b) PROVE TypeOK'
  <2>1. writers[b] \in Seq(EntityQoses) /\ token[b] \in Pairs
    BY DEF TypeOK
  <2> DEFINE called == announced_qoses_for_local_writers(writers[b]).volatile
             new == [token[b] EXCEPT !.volatile = Changed(@, called, FALSE)]
  <2>2. Redeclare(b, new)
    BY <1>5 DEF AnnounceVolatile
  <2>3. Changed(token[b].volatile, called, FALSE) \in EntityQoses \cup {NoQos}
    BY <2>1, CalledForTypes, PairTypes, ChangedType
  <2>4. new \in Pairs
    BY <2>1, <2>3, PairTypes
  <2>5. token' \in [Bridges -> Pairs] /\ channel' \in [Bridges -> Seq(LivelinessEvents)]
    <3> HIDE DEF new
    <3> QED
      BY <2>2, <2>4, RedeclareTypes
  <2>6. pc' \in [Bridges -> {"idle", "announce", "announce_volatile", "readers"}]
    BY <1>5 DEF AnnounceVolatile, TypeOK
  <2> QED
    BY <1>5, <2>5, <2>6 DEF AnnounceVolatile, receiverVars, TypeOK
<1>6. ASSUME NEW b \in Bridges, UpdateReaders(b) PROVE TypeOK'
  <2> DEFINE desired == readers_qos_for_local_writers(writers[b])
             volatile == Changed(readers[b].volatile, desired.volatile, TRUE)
             new == IF same_route_qos(readers[b].main, desired.main, TRUE)
                    THEN [readers[b] EXCEPT !.volatile = volatile]
                    ELSE desired
  <2>1. writers[b] \in Seq(EntityQoses) /\ readers[b] \in Pairs
    BY DEF TypeOK
  <2>2. desired \in Pairs
    BY <2>1, CalledForTypes
  <2>3. volatile \in EntityQoses \cup {NoQos}
    BY <2>1, <2>2, PairTypes, ChangedType
  <2>4. new \in Pairs
    BY <2>1, <2>2, <2>3, PairTypes
  <2>5. readers' = [readers EXCEPT ![b] = new]
    BY <1>6 DEF UpdateReaders
  <2>6. readers' \in [Bridges -> Pairs]
    <3> HIDE DEF new
    <3> QED
      BY <2>4, <2>5 DEF TypeOK
  <2>7. pc' \in [Bridges -> {"idle", "announce", "announce_volatile", "readers"}]
    BY <1>6 DEF UpdateReaders, TypeOK
  <2> QED
    BY <1>6, <2>6, <2>7 DEF UpdateReaders, receiverVars, TypeOK
<1>7. ASSUME NEW b \in Bridges, Hear(b) PROVE TypeOK'
  <2> DEFINE e == Head(channel[b])
             a == [bridge |-> b, qos |-> e.qos]
  <2>1. channel[b] \in Seq(LivelinessEvents) /\ channel[b] # <<>>
    BY <1>7 DEF Hear, TypeOK
  <2>2. e \in LivelinessEvents /\ Tail(channel[b]) \in Seq(LivelinessEvents)
    BY <2>1
  <2>3. a \in Announcements
    BY <2>2 DEF Announcements, LivelinessEvents
  <2>4. without(a) \in Seq(Announcements)
    BY WithoutType DEF TypeOK
  <2>5. remote' \in Seq(Announcements)
    <3>1. remote' = IF e.op = "announced" THEN Append(without(a), a) ELSE without(a)
      BY <1>7 DEF Hear
    <3> HIDE DEF a
    <3> QED
      BY <2>3, <2>4, <3>1
  <2>6. channel' \in [Bridges -> Seq(LivelinessEvents)]
    BY <1>7, <2>2 DEF Hear, TypeOK
  <2>7. writer' \in Pairs
    <3> DEFINE desired == writers_qos_for_remote_writers(remote')
    <3>1. /\ writer.main \in EntityQoses \cup {NoQos}
          /\ writer.volatile \in EntityQoses \cup {NoQos}
      BY PairTypes DEF TypeOK
    <3>2. /\ desired.main \in EntityQoses \cup {NoQos}
          /\ desired.volatile \in EntityQoses \cup {NoQos}
      BY <2>5, WritersCalledFor
    <3>3. fallback_writer_qos \in EntityQoses
      BY HistoryTypes DEF fallback_writer_qos, Qos, EntityQoses, Qoses
    <3>4. /\ Changed(writer.main, desired.main, FALSE) \in EntityQoses \cup {NoQos}
          /\ Changed(writer.volatile, desired.volatile, FALSE) \in EntityQoses \cup {NoQos}
      <4> HIDE DEF desired
      <4> QED
        BY <3>1, <3>2, ChangedType
    <3>5. writer' = IF remote' = <<>>
            THEN [main |-> IF writer.main.tl THEN fallback_writer_qos ELSE writer.main,
                  volatile |-> NoQos]
            ELSE [main |-> Changed(writer.main, desired.main, FALSE),
                  volatile |-> Changed(writer.volatile, desired.volatile, FALSE)]
      BY <1>7 DEF Hear, update_writer
    <3> HIDE DEF desired
    <3> QED
      BY <3>1, <3>3, <3>4, <3>5, PairTypes
  <2> QED
    BY <1>7, <2>5, <2>6, <2>7 DEF Hear, senderVars, TypeOK
<1>8. CASE UNCHANGED vars
  BY <1>8 DEF vars, senderVars, receiverVars, TypeOK
<1> QED
  BY <1>1, <1>2, <1>3, <1>4, <1>5, <1>6, <1>7, <1>8 DEF Next, Update

\* The state is well-typed: the derived, announced and offered QoS are QoS, and the events
\* and announcements are those of the bridges.
THEOREM TypeCorrect ==
  Spec => []TypeOK
<1> QED
  BY InitTypes, TypeKept, PTL DEF Spec

-----------------------------------------------------------------------------
(* The sending bridges. *)

\* The local Writers of a bridge that has no event to handle are the ones that its last
\* update has read.
WritersRead(b) ==
  /\ b \notin stale => writers[b] = writers_qos_on_topic(local[b])
  /\ pc[b] # "idle" => writers[b] # <<>>

\* A bridge without Writers announces nothing; the others announce what their Writers call
\* for, once the stage of the update has passed.
TokensFollow(b) ==
  LET called == announced_qoses_for_local_writers(writers[b])
  IN  /\ writers[b] = <<>> => token[b] = None
      /\ writers[b] # <<>> /\ pc[b] # "announce" =>
           same_route_qos(token[b].main, called.main, FALSE)
      /\ writers[b] # <<>> /\ pc[b] \in {"readers", "idle"} =>
           same_route_qos(token[b].volatile, called.volatile, FALSE)

\* A bridge without Writers has no VOLATILE Reader, the Readers of the others are the ones
\* that their Writers call for.
ReadersFollow(b) ==
  LET desired == readers_qos_for_local_writers(writers[b])
  IN  pc[b] = "idle" =>
        /\ writers[b] = <<>> => readers[b].volatile = NoQos
        /\ writers[b] # <<>> => /\ same_route_qos(readers[b].main, desired.main, TRUE)
                                /\ same_route_qos(readers[b].volatile, desired.volatile, TRUE)

Follows(b) == WritersRead(b) /\ TokensFollow(b) /\ ReadersFollow(b)

\* Nothing changes for a bridge that has only been told to update.
LEMMA FollowsElsewhere ==
  ASSUME NEW b, Follows(b), pc'[b] = pc[b], writers'[b] = writers[b], token'[b] = token[b],
         readers'[b] = readers[b], b \notin stale' => b \notin stale /\ local'[b] = local[b]
  PROVE  Follows(b)'
BY DEF Follows, WritersRead, TokensFollow, ReadersFollow

\* Writers of a system have QoS, no Writers have none.
LEMMA OnTopicEmpty ==
  ASSUME NEW ids \in SUBSET Writers
  PROVE  writers_qos_on_topic(ids) = <<>> <=> ids = {}
<1> DEFINE ws == writers_qos_on_topic(ids)
<1>1. ws \in Seq(EntityQoses) /\ Selected(ws, WriterQoses, ids)
  BY OnTopicType
<1> HIDE DEF ws
<1>2. ws = <<>> <=> DOMAIN ws = {}
  BY <1>1, SequenceDomain
<1> QED
  BY <1>1, <1>2 DEF Selected, Writers, ws

\* A step of a bridge changes nothing of another bridge.
LEMMA FollowsOfOthers ==
  ASSUME TypeOK, NEW c \in Bridges, \A b \in Bridges : Follows(b),
         \/ \E w \in near[c] : ChangeWriters(c, w)
         \/ Retire(c) \/ Update(c)
  PROVE  \A b \in Bridges \ {c} : Follows(b)'
<1> SUFFICES ASSUME NEW b \in Bridges, b # c PROVE Follows(b)'
  OBVIOUS
<1>1. CASE \E w \in near[c] : ChangeWriters(c, w)
  BY <1>1, FollowsElsewhere DEF ChangeWriters, TypeOK
<1>2. CASE Retire(c)
  BY <1>2, FollowsElsewhere DEF Retire, Redeclare, TypeOK
<1>3. CASE Begin(c)
  BY <1>3, FollowsElsewhere DEF Begin, TypeOK
<1>4. CASE Announce(c)
  BY <1>4, FollowsElsewhere DEF Announce, Redeclare, TypeOK
<1>5. CASE AnnounceVolatile(c)
  BY <1>5, FollowsElsewhere DEF AnnounceVolatile, Redeclare, TypeOK
<1>6. CASE UpdateReaders(c)
  <2>1. /\ pc' = [pc EXCEPT ![c] = "idle"]
        /\ \E new : readers' = [readers EXCEPT ![c] = new]
        /\ UNCHANGED <<near, local, stale, writers, token, channel, receiverVars>>
    BY <1>6 DEF UpdateReaders
  <2>2. pc'[b] = pc[b] /\ readers'[b] = readers[b]
    BY <2>1 DEF TypeOK
  <2> QED
    BY <2>1, <2>2, FollowsElsewhere
<1> QED
  BY <1>1, <1>2, <1>3, <1>4, <1>5, <1>6 DEF Update

\* A step of a bridge keeps what holds of the bridge.
LEMMA FollowsKept ==
  TypeOK /\ (\A b \in Bridges : Follows(b)) /\ [Next]_vars => \A b \in Bridges : Follows(b)'
<1> SUFFICES ASSUME TypeOK, \A b \in Bridges : Follows(b), [Next]_vars
             PROVE  \A b \in Bridges : Follows(b)'
  OBVIOUS
<1> DEFINE Others(c) == \A b \in Bridges \ {c} : Follows(b)'
<1>1. ASSUME NEW c \in Bridges, NEW w \in near[c], ChangeWriters(c, w)
      PROVE  \A b \in Bridges : Follows(b)'
  <2>1. /\ c \in stale'
        /\ \A b \in Bridges \ {c} : local'[b] = local[b] /\ (b \in stale' <=> b \in stale)
    BY <1>1 DEF ChangeWriters, TypeOK
  <2>2. UNCHANGED <<pc, writers, token, readers>>
    BY <1>1 DEF ChangeWriters
  <2> QED
    BY <2>1, <2>2, FollowsElsewhere
<1>2. ASSUME NEW c \in Bridges, Retire(c) PROVE Others(c) /\ Follows(c)'
  <2>1. Others(c)
    BY <1>2, FollowsOfOthers
  <2>2. /\ writers'[c] = <<>> /\ token'[c] = None /\ local'[c] = {} /\ pc'[c] = "idle"
        /\ readers'[c] \in {None, readers_qos_for_local_writers(<<>>)}
    BY <1>2 DEF Retire, Redeclare, TypeOK
  <2>3. WritersRead(c)'
    <3>1. writers_qos_on_topic({}) = <<>>
      BY OnTopicEmpty
    <3> QED
      BY <2>2, <3>1 DEF WritersRead
  <2>4. TokensFollow(c)'
    BY <2>2 DEF TokensFollow
  <2>5. ReadersFollow(c)'
    <3>1. <<>> \in Seq(EntityQoses)
      OBVIOUS
    <3>2. readers_qos_for_local_writers(<<>>).volatile = NoQos /\ None.volatile = NoQos
      BY <3>1, CalledForTypes DEF None
    <3>3. readers'[c].volatile = NoQos
      BY <2>2, <3>2
    <3> QED
      BY <2>2, <3>3 DEF ReadersFollow
  <2> QED
    BY <2>1, <2>3, <2>4, <2>5 DEF Follows
<1>3. ASSUME NEW c \in Bridges, Begin(c) PROVE Others(c) /\ Follows(c)'
  <2>1. Others(c)
    BY <1>3, FollowsOfOthers DEF Update
  <2>2. /\ writers'[c] = writers_qos_on_topic(local[c]) /\ local'[c] = local[c]
        /\ pc'[c] = "announce" /\ local[c] # {} /\ local[c] \in SUBSET Writers
    BY <1>3 DEF Begin, TypeOK
  <2>3. writers'[c] # <<>>
    BY <2>2, OnTopicEmpty
  <2> QED
    BY <2>1, <2>2, <2>3 DEF Follows, WritersRead, TokensFollow, ReadersFollow
<1>4. ASSUME NEW c \in Bridges, Announce(c) PROVE Others(c) /\ Follows(c)'
  <2>1. Others(c)
    BY <1>4, FollowsOfOthers DEF Update
  <2> DEFINE called == announced_qoses_for_local_writers(writers[c]).main
             new == [token[c] EXCEPT !.main = Changed(@, called, FALSE)]
  <2>2. /\ UNCHANGED <<local, stale, writers, readers>>
        /\ pc[c] = "announce" /\ pc'[c] = "announce_volatile" /\ token'[c] = new
    BY <1>4 DEF Announce, Redeclare, TypeOK
  <2>3. token[c] \in Pairs
    BY DEF TypeOK
  <2>4. same_route_qos(new.main, called, FALSE)
    BY <2>3, ChangedFollows DEF Pairs
  <2>5. writers[c] # <<>>
    BY <2>2 DEF Follows, WritersRead
  <2> HIDE DEF new
  <2> QED
    BY <2>1, <2>2, <2>4, <2>5 DEF Follows, WritersRead, TokensFollow, ReadersFollow
<1>5. ASSUME NEW c \in Bridges, AnnounceVolatile(c) PROVE Others(c) /\ Follows(c)'
  <2>1. Others(c)
    BY <1>5, FollowsOfOthers DEF Update
  <2> DEFINE called == announced_qoses_for_local_writers(writers[c]).volatile
             new == [token[c] EXCEPT !.volatile = Changed(@, called, FALSE)]
  <2>2. /\ UNCHANGED <<local, stale, writers, readers>>
        /\ pc[c] = "announce_volatile" /\ pc'[c] = "readers" /\ token'[c] = new
    BY <1>5 DEF AnnounceVolatile, Redeclare, TypeOK
  <2>3. token[c] \in Pairs
    BY DEF TypeOK
  <2>4. same_route_qos(new.volatile, called, FALSE) /\ new.main = token[c].main
    BY <2>3, ChangedFollows DEF Pairs
  <2>5. writers[c] # <<>>
    BY <2>2 DEF Follows, WritersRead
  <2> HIDE DEF new
  <2> QED
    BY <2>1, <2>2, <2>4, <2>5 DEF Follows, WritersRead, TokensFollow, ReadersFollow
<1>6. ASSUME NEW c \in Bridges, UpdateReaders(c) PROVE Others(c) /\ Follows(c)'
  <2>1. Others(c)
    BY <1>6, FollowsOfOthers DEF Update
  <2> DEFINE desired == readers_qos_for_local_writers(writers[c])
             new == [readers[c] EXCEPT !.volatile = Changed(@, desired.volatile, TRUE)]
  <2>2. /\ UNCHANGED <<local, stale, writers, token>>
        /\ pc[c] = "readers" /\ pc'[c] = "idle"
        /\ readers'[c] = IF same_route_qos(readers[c].main, desired.main, TRUE) THEN new
                         ELSE desired
    BY <1>6 DEF UpdateReaders, TypeOK
  <2>3. readers[c] \in Pairs
    BY DEF TypeOK
  <2>4. same_route_qos(new.volatile, desired.volatile, TRUE) /\ new.main = readers[c].main
    BY <2>3, ChangedFollows DEF Pairs
  <2>5. writers[c] # <<>>
    BY <2>2 DEF Follows, WritersRead
  <2>6. /\ same_route_qos(readers'[c].main, desired.main, TRUE)
        /\ same_route_qos(readers'[c].volatile, desired.volatile, TRUE)
    <3> HIDE DEF new, desired
    <3>1. CASE same_route_qos(readers[c].main, desired.main, TRUE)
      <4>1. readers'[c] = new
        BY <2>2, <3>1
      <4> QED
        BY <2>4, <3>1, <4>1
    <3>2. CASE ~same_route_qos(readers[c].main, desired.main, TRUE)
      <4>1. readers'[c] = desired
        BY <2>2, <3>2
      <4> QED
        BY <4>1, ChangedFollows
    <3> QED
      BY <3>1, <3>2
  <2> QED
    BY <2>1, <2>2, <2>5, <2>6 DEF Follows, WritersRead, TokensFollow, ReadersFollow
<1>7. ASSUME NEW c \in Bridges, Hear(c) PROVE \A b \in Bridges : Follows(b)'
  BY <1>7, FollowsElsewhere DEF Hear, senderVars
<1>8. CASE UNCHANGED vars
  BY <1>8, FollowsElsewhere DEF vars, senderVars
<1>9. \A c \in Bridges : Others(c) /\ Follows(c)' => \A b \in Bridges : Follows(b)'
  OBVIOUS
<1> QED
  BY <1>1, <1>2, <1>3, <1>4, <1>5, <1>6, <1>7, <1>8, <1>9 DEF Next, Update

\* A Writer matches two Readers of the same QoS alike.
LEMMA SameRequest ==
  ASSUME NEW offer, NEW a, NEW b, same_route_qos(a, b, TRUE)
  PROVE  Compatible(offer, a) <=> Compatible(offer, b)
<1>1. a.tl = b.tl /\ (a.rel = "RELIABLE" <=> b.rel = "RELIABLE")
  BY SamePolicies
<1> QED
  BY <1>1 DEF Compatible, is_reliable, is_transient_local

\* What the last update has read tells of every local Writer of a bridge that is up to date.
LEMMA UpToDateWriters ==
  ASSUME TypeOK, NEW b \in Bridges, Follows(b), UpToDate(b), NEW w \in local[b]
  PROVE  /\ writers[b] \in Seq(EntityQoses) /\ writers[b] # <<>>
         /\ \E k \in DOMAIN writers[b] : writers[b][k] = WriterQoses[w]
         /\ \A k \in DOMAIN writers[b] : \E v \in local[b] : writers[b][k] = WriterQoses[v]
<1>1. writers[b] \in Seq(EntityQoses) /\ local[b] \in SUBSET Writers
  BY DEF TypeOK
<1>2. writers[b] = writers_qos_on_topic(local[b])
  BY DEF Follows, WritersRead, UpToDate
<1>3. Selected(writers[b], WriterQoses, local[b])
  BY <1>2, OnTopicType
<1>4. /\ \E k \in DOMAIN writers[b] : writers[b][k] = WriterQoses[w]
      /\ \A k \in DOMAIN writers[b] : \E v \in local[b] : writers[b][k] = WriterQoses[v]
  BY <1>1, <1>3 DEF Selected, Writers
<1>5. writers[b] # <<>>
  BY <1>1, <1>2, OnTopicEmpty
<1> QED
  BY <1>1, <1>4, <1>5

\* The Reader that forwards what a local Writer of a bridge that is up to date publishes.
LEMMA ReadByOne ==
  ASSUME TypeOK, NEW b \in Bridges, Follows(b), UpToDate(b), NEW w \in local[b]
  PROVE  /\ ReadBy(b, w) = IF readers[b].volatile # NoQos /\ ~WriterQoses[w].tl
                           THEN {"volatile"} ELSE {"main"}
         /\ readers[b].volatile # NoQos <=> mixed_durability(writers[b])
<1> DEFINE desired == readers_qos_for_local_writers(writers[b])
<1>1. /\ writers[b] \in Seq(EntityQoses) /\ writers[b] # <<>>
      /\ \E k \in DOMAIN writers[b] : writers[b][k] = WriterQoses[w]
  BY UpToDateWriters
<1>2. /\ same_route_qos(readers[b].main, desired.main, TRUE)
      /\ same_route_qos(readers[b].volatile, desired.volatile, TRUE)
  BY <1>1 DEF Follows, ReadersFollow, UpToDate
<1>3. PICK k \in DOMAIN writers[b] : writers[b][k] = WriterQoses[w]
  BY <1>1
<1> DEFINE q == WriterQoses[w]
           mixed == mixed_durability(writers[b])
<1>4. /\ desired.main \in EntityQoses
      /\ desired.volatile # NoQos <=> mixed
      /\ Compatible(q, desired.main) <=> ~(mixed /\ ~q.tl)
      /\ mixed /\ ~q.tl => Compatible(q, desired.volatile)
  BY <1>1, <1>3, ReadersCalledFor
<1> HIDE DEF desired, mixed
<1>5. readers[b].main # NoQos /\ (readers[b].volatile # NoQos <=> mixed)
  BY <1>2, <1>4, SamePolicies, HistoryTypes
<1>6. /\ Compatible(q, readers[b].main) <=> ~(mixed /\ ~q.tl)
      /\ mixed /\ ~q.tl => Compatible(q, readers[b].volatile)
  BY <1>2, <1>4, SameRequest
<1>7. "main" \in ReadBy(b, w) <=> ~(mixed /\ ~q.tl)
  BY <1>5, <1>6 DEF ReadBy
<1>8. "volatile" \in ReadBy(b, w) <=> mixed /\ ~q.tl
  BY <1>5, <1>6 DEF ReadBy, is_transient_local
<1>9. \A i \in ReadBy(b, w) : i = "main" \/ i = "volatile"
  BY DEF ReadBy
<1>10. ReadBy(b, w) = IF mixed /\ ~q.tl THEN {"volatile"} ELSE {"main"}
  BY <1>7, <1>8, <1>9
<1> QED
  BY <1>5, <1>10 DEF mixed

SenderInv == TypeOK /\ \A b \in Bridges : Follows(b)

\* What the tokens and the Readers of the bridges follow from is invariant.
THEOREM SenderInvariant ==
  Spec => []SenderInv
<1>1. Init => SenderInv
  <2> SUFFICES ASSUME Init, NEW b \in Bridges PROVE Follows(b)
    BY InitTypes DEF SenderInv
  <2>1. writers_qos_on_topic({}) = <<>>
    BY OnTopicEmpty
  <2>2. /\ writers[b] = <<>> /\ local[b] = {} /\ pc[b] = "idle" /\ token[b] = None
        /\ readers[b].volatile = NoQos
    BY DEF Init, None
  <2> QED
    BY <2>1, <2>2 DEF Follows, WritersRead, TokensFollow, ReadersFollow
<1>2. SenderInv /\ [Next]_vars => SenderInv'
  BY TypeKept, FollowsKept DEF SenderInv
<1> QED
  BY <1>1, <1>2, PTL DEF Spec

\* Whatever Writers came and went, each local Writer of a bridge that is up to date is read
\* by exactly one of the route's Readers: its samples are forwarded once.
THEOREM WritersReadOnce ==
  Spec => []EachWriterReadOnce
<1>1. SenderInv => EachWriterReadOnce
  <2> SUFFICES ASSUME SenderInv, NEW b \in Bridges, UpToDate(b), NEW w \in local[b]
               PROVE  Cardinality(ReadBy(b, w)) = 1
    BY DEF EachWriterReadOnce
  <2>1. ReadBy(b, w) = {"volatile"} \/ ReadBy(b, w) = {"main"}
    BY ReadByOne DEF SenderInv
  <2>2. Cardinality({"volatile"}) = 1 /\ Cardinality({"main"}) = 1
    BY FS_Singleton
  <2> QED
    BY <2>1, <2>2
<1> QED
  BY <1>1, SenderInvariant, PTL

\* A step that installs a VOLATILE Reader finds its announcement declared: remote bridges
\* can make their VOLATILE Writer before marked samples come.
THEOREM MarkedAnnounced ==
  Spec => VolatileAnnouncedFirst
<1> DEFINE A == \A b \in Bridges :
                  readers[b].volatile = NoQos /\ readers'[b].volatile # NoQos =>
                    token[b].volatile # NoQos
<1>1. SenderInv /\ [Next]_vars => [A]_vars
  <2> SUFFICES ASSUME SenderInv, Next, NEW b \in Bridges,
                      readers[b].volatile = NoQos, readers'[b].volatile # NoQos
               PROVE  token[b].volatile # NoQos
    BY DEF vars
  <2>1. readers'[b] # readers[b]
    OBVIOUS
  <2>2. ASSUME NEW c \in Bridges, UpdateReaders(c) PROVE token[b].volatile # NoQos
    <3> DEFINE desired == readers_qos_for_local_writers(writers[b])
               called == announced_qoses_for_local_writers(writers[b])
    <3>0. \E new : readers' = [readers EXCEPT ![c] = new]
      BY <2>2 DEF UpdateReaders
    <3>1. b = c
      BY <2>1, <3>0 DEF SenderInv, TypeOK
    <3>2. /\ pc[b] = "readers" /\ readers[b] \in Pairs /\ writers[b] \in Seq(EntityQoses)
          /\ readers'[b] = IF same_route_qos(readers[b].main, desired.main, TRUE)
               THEN [readers[b] EXCEPT !.volatile = Changed(@, desired.volatile, TRUE)]
               ELSE desired
      BY <2>2, <3>1 DEF UpdateReaders, SenderInv, TypeOK
    <3>3. readers'[b].volatile \in {readers[b].volatile, desired.volatile}
      <4> HIDE DEF desired
      <4>1. Changed(readers[b].volatile, desired.volatile, TRUE)
              \in {readers[b].volatile, desired.volatile}
        BY DEF Changed
      <4>2. CASE same_route_qos(readers[b].main, desired.main, TRUE)
        <5>1. readers'[b] =
                [readers[b] EXCEPT !.volatile = Changed(@, desired.volatile, TRUE)]
          BY <3>2, <4>2
        <5>2. readers'[b].volatile = Changed(readers[b].volatile, desired.volatile, TRUE)
          BY <3>2, <5>1 DEF Pairs
        <5> QED
          BY <4>1, <5>2
      <4>3. CASE ~same_route_qos(readers[b].main, desired.main, TRUE)
        <5>1. readers'[b] = desired
          BY <3>2, <4>3
        <5> QED
          BY <5>1
      <4> QED
        BY <4>2, <4>3
    <3>4. desired.volatile # NoQos
      BY <3>3
    <3>5. writers[b] # <<>>
      BY <3>2 DEF SenderInv, Follows, WritersRead
    <3>6. called.volatile # NoQos
      BY <3>2, <3>4, <3>5, ReadersCalledFor, AnnouncementsCalledFor
    <3>7. same_route_qos(token[b].volatile, called.volatile, FALSE)
      BY <3>2, <3>5 DEF SenderInv, Follows, TokensFollow
    <3> QED
      BY <3>6, <3>7, SamePolicies
  <2>3. ASSUME NEW c \in Bridges, Retire(c) PROVE FALSE
    <3>1. /\ readers'[c] \in {None, readers_qos_for_local_writers(<<>>)}
          /\ \A d \in Bridges \ {c} : readers'[d] = readers[d]
      BY <2>3 DEF Retire, SenderInv, TypeOK
    <3>2. <<>> \in Seq(EntityQoses)
      OBVIOUS
    <3>3. readers_qos_for_local_writers(<<>>).volatile = NoQos /\ None.volatile = NoQos
      BY <3>2, CalledForTypes DEF None
    <3>4. readers'[c].volatile = NoQos
      BY <3>1, <3>3
    <3> QED
      BY <2>1, <3>1, <3>4
  <2>4. ASSUME NEW c \in Bridges,
               \/ \E w \in near[c] : ChangeWriters(c, w)
               \/ Begin(c) \/ Announce(c) \/ AnnounceVolatile(c) \/ Hear(c)
        PROVE  FALSE
    BY <2>1, <2>4 DEF ChangeWriters, Begin, Announce, AnnounceVolatile, Hear, senderVars
  <2> QED
    BY <2>2, <2>3, <2>4 DEF Next, Update
<1> QED
  BY <1>1, SenderInvariant, PTL DEF Spec, VolatileAnnouncedFirst

-----------------------------------------------------------------------------
(* The announcements on their way. *)

\* The announcements of a bridge in a sequence of announcements.
ServedOf(as, b) ==
  {k \in EntityQoses : \E i \in DOMAIN as : as[i].bridge = b /\ as[i].qos = k}

\* The events replayed over the announcements that are served give the ones that are
\* declared: the last event about an announcement tells whether it is declared; without an
\* event about it, it is declared if it is served.
Tells(events, declared, served) ==
  /\ \A i \in DOMAIN events :
       (\A j \in DOMAIN events : j > i => events[j].qos # events[i].qos) =>
         (events[i].op = "announced" <=> events[i].qos \in declared)
  /\ \A k \in EntityQoses :
       (\A i \in DOMAIN events : events[i].qos # k) => (k \in served <=> k \in declared)

ChannelTells(b) == Tells(channel[b], Keys(token[b]), ServedOf(remote, b))

\* Two sequences one after the other.
LEMMA SequencesJoined ==
  ASSUME NEW S, NEW s \in Seq(S), NEW t \in Seq(S)
  PROVE  /\ s \o t \in Seq(S)
         /\ \A i \in DOMAIN s : i \in DOMAIN (s \o t) /\ (s \o t)[i] = s[i]
         /\ \A j \in DOMAIN t : /\ Len(s) + j \in DOMAIN (s \o t)
                                /\ (s \o t)[Len(s) + j] = t[j]
                                /\ \A i \in DOMAIN s : Len(s) + j > i
         /\ \A i \in DOMAIN (s \o t) :
              i \in DOMAIN s \/ \E j \in DOMAIN t : i = Len(s) + j
<1>1. /\ s \o t \in Seq(S) /\ Len(s \o t) = Len(s) + Len(t)
      /\ DOMAIN (s \o t) = 1 .. Len(s) + Len(t)
      /\ DOMAIN s = 1 .. Len(s) /\ DOMAIN t = 1 .. Len(t)
      /\ Len(s) \in Nat /\ Len(t) \in Nat
  OBVIOUS
<1>2. \A i \in 1 .. Len(s) + Len(t) :
        (s \o t)[i] = IF i <= Len(s) THEN s[i] ELSE t[i - Len(s)]
  BY ConcatProperties
<1>3. \A m, n \in Nat :
        /\ \A i \in 1 .. m : i \in 1 .. m + n /\ i <= m
        /\ \A j \in 1 .. n : /\ m + j \in 1 .. m + n /\ ~(m + j <= m) /\ (m + j) - m = j
                             /\ \A i \in 1 .. m : m + j > i
        /\ \A i \in 1 .. m + n : i \notin 1 .. m => i - m \in 1 .. n /\ i = m + (i - m)
  OBVIOUS
<1>4. \A i \in DOMAIN s : i \in DOMAIN (s \o t) /\ (s \o t)[i] = s[i]
  BY <1>1, <1>2, <1>3
<1>5. \A j \in DOMAIN t : /\ Len(s) + j \in DOMAIN (s \o t)
                          /\ (s \o t)[Len(s) + j] = t[j]
                          /\ \A i \in DOMAIN s : Len(s) + j > i
  BY <1>1, <1>2, <1>3
<1>6. \A i \in DOMAIN (s \o t) : i \in DOMAIN s \/ \E j \in DOMAIN t : i = Len(s) + j
  <2> SUFFICES ASSUME NEW i \in 1 .. Len(s) + Len(t), i \notin 1 .. Len(s)
               PROVE  \E j \in DOMAIN t : i = Len(s) + j
    BY <1>1
  <2>1. i - Len(s) \in DOMAIN t /\ i = Len(s) + (i - Len(s))
    BY <1>1, <1>3
  <2> QED
    BY <2>1
<1> QED
  BY <1>1, <1>4, <1>5, <1>6

\* The events are about all that changes, as it changes.
TellChange(events, old, new) ==
  /\ \A j \in DOMAIN events :
       /\ ~(events[j].qos \in old <=> events[j].qos \in new)
       /\ events[j].op = "announced" <=> events[j].qos \in new
  /\ \A k \in EntityQoses :
       ~(k \in old <=> k \in new) => \E j \in DOMAIN events : events[j].qos = k

\* Such events tell of the change.
LEMMA TellsAppended ==
  ASSUME NEW s \in Seq(LivelinessEvents), NEW t \in Seq(LivelinessEvents),
         NEW old, NEW new, NEW served, Tells(s, old, served), TellChange(t, old, new)
  PROVE  Tells(s \o t, new, served)
<1> DEFINE u == s \o t
<1>1. /\ \A i \in DOMAIN s : i \in DOMAIN u /\ u[i] = s[i]
      /\ \A j \in DOMAIN t : /\ Len(s) + j \in DOMAIN u /\ u[Len(s) + j] = t[j]
                             /\ \A i \in DOMAIN s : Len(s) + j > i
      /\ \A i \in DOMAIN u : i \in DOMAIN s \/ \E j \in DOMAIN t : i = Len(s) + j
  BY SequencesJoined
<1>2. \A i \in DOMAIN s : s[i].qos \in EntityQoses
  <2>1. \A i \in DOMAIN s : s[i] \in LivelinessEvents
    BY SequenceDomain
  <2> QED
    BY <2>1 DEF LivelinessEvents
<1> HIDE DEF u
<1>3. ASSUME NEW i \in DOMAIN u, \A j \in DOMAIN u : j > i => u[j].qos # u[i].qos
      PROVE  u[i].op = "announced" <=> u[i].qos \in new
  <2>1. CASE i \in DOMAIN s
    <3>1. \A j \in DOMAIN t : t[j].qos # s[i].qos
      BY <1>1, <1>3, <2>1
    <3>2. s[i].qos \in old <=> s[i].qos \in new
      BY <1>2, <2>1, <3>1 DEF TellChange
    <3>3. \A j \in DOMAIN s : j > i => s[j].qos # s[i].qos
      BY <1>1, <1>3, <2>1
    <3> QED
      BY <1>1, <2>1, <3>2, <3>3 DEF Tells
  <2>2. CASE i \notin DOMAIN s
    <3>1. PICK j \in DOMAIN t : i = Len(s) + j
      BY <1>1, <2>2
    <3> QED
      BY <1>1, <3>1 DEF TellChange
  <2> QED
    BY <2>1, <2>2
<1>4. ASSUME NEW k \in EntityQoses, \A i \in DOMAIN u : u[i].qos # k
      PROVE  k \in served <=> k \in new
  <2>1. \A i \in DOMAIN s : s[i].qos # k
    BY <1>1, <1>4
  <2>2. \A j \in DOMAIN t : t[j].qos # k
    BY <1>1, <1>4
  <2> QED
    BY <2>1, <2>2 DEF Tells, TellChange
<1> QED
  BY <1>3, <1>4 DEF Tells, u

\* The first event is heard.
LEMMA TellsHeard ==
  ASSUME NEW s \in Seq(LivelinessEvents), s # <<>>, NEW declared, NEW old, NEW new,
         Tells(s, declared, old),
         \A k \in EntityQoses :
           k \in new <=> IF k = Head(s).qos THEN Head(s).op = "announced" ELSE k \in old
  PROVE  Tells(Tail(s), declared, new)
<1> DEFINE t == Tail(s)
<1>1. /\ \A i \in DOMAIN t : i + 1 \in DOMAIN s /\ t[i] = s[i + 1] /\ i \in Nat
      /\ \A i \in DOMAIN s : i = 1 \/ (i - 1 \in DOMAIN t /\ i = (i - 1) + 1)
      /\ 1 \in DOMAIN s /\ s[1] = Head(s)
      /\ \A i \in DOMAIN s : i \in Nat
  <2>1. /\ Len(s) \in Nat /\ Len(s) > 0 /\ Len(t) = Len(s) - 1
        /\ DOMAIN s = 1 .. Len(s) /\ DOMAIN t = 1 .. Len(s) - 1
        /\ \A i \in 1 .. Len(s) - 1 : t[i] = s[i + 1]
        /\ s[1] = Head(s)
    OBVIOUS
  <2>2. \A n \in Nat : n > 0 =>
          /\ \A i \in 1 .. n - 1 : i + 1 \in 1 .. n
          /\ \A i \in 1 .. n : i = 1 \/ (i - 1 \in 1 .. n - 1 /\ i = (i - 1) + 1)
          /\ 1 \in 1 .. n
    OBVIOUS
  <2> HIDE DEF t
  <2> QED
    BY <2>1, <2>2
<1> HIDE DEF t
<1>2. ASSUME NEW i \in DOMAIN t, \A j \in DOMAIN t : j > i => t[j].qos # t[i].qos
      PROVE  t[i].op = "announced" <=> t[i].qos \in declared
  <2>1. ASSUME NEW j \in DOMAIN s, j > i + 1 PROVE s[j].qos # s[i + 1].qos
    <3>1. \A m, n \in Nat : m > n + 1 => m # 1 /\ m - 1 > n
      OBVIOUS
    <3>2. j - 1 \in DOMAIN t /\ j - 1 > i /\ j = (j - 1) + 1
      BY <1>1, <2>1, <3>1
    <3>3. t[j - 1].qos # t[i].qos
      BY <1>2, <3>2
    <3> QED
      BY <1>1, <3>2, <3>3
  <2> QED
    BY <1>1, <2>1 DEF Tells
<1>3. ASSUME NEW k \in EntityQoses, \A i \in DOMAIN t : t[i].qos # k
      PROVE  k \in new <=> k \in declared
  <2>1. \A i \in DOMAIN s : i # 1 => s[i].qos # k
    <3> SUFFICES ASSUME NEW i \in DOMAIN s, i # 1 PROVE s[i].qos # k
      OBVIOUS
    <3>1. i - 1 \in DOMAIN t /\ t[i - 1] = s[i]
      BY <1>1
    <3> QED
      BY <1>3, <3>1
  <2>2. CASE s[1].qos = k
    <3>1. \A j \in DOMAIN s : j > 1 => s[j].qos # s[1].qos
      BY <2>1, <2>2
    <3>2. s[1].op = "announced" <=> k \in declared
      BY <1>1, <2>2, <3>1 DEF Tells
    <3> QED
      BY <1>1, <2>2, <3>2
  <2>3. CASE s[1].qos # k
    <3>1. \A i \in DOMAIN s : s[i].qos # k
      BY <2>1, <2>3
    <3>2. k \in old <=> k \in declared
      BY <3>1 DEF Tells
    <3> QED
      BY <1>1, <2>3, <3>2
  <2> QED
    BY <2>2, <2>3
<1> QED
  BY <1>2, <1>3 DEF Tells, t

\* A redeclaration is told.
LEMMA RedeclareTells ==
  ASSUME TypeOK, NEW b \in Bridges, NEW new \in Pairs, Redeclare(b, new), ChannelTells(b)
  PROVE  Tells(channel'[b], Keys(token'[b]), ServedOf(remote, b))
<1> DEFINE added == Keys(new) \ Keys(token[b])
           gone == Keys(token[b]) \ Keys(new)
           up == Events(b, "announced", added)
           down == Events(b, "retired", gone)
<1>1. token[b] \in Pairs /\ channel[b] \in Seq(LivelinessEvents)
  BY DEF TypeOK
<1>2. /\ added \subseteq EntityQoses /\ IsFiniteSet(added)
      /\ gone \subseteq EntityQoses /\ IsFiniteSet(gone)
  <2>1. /\ Keys(new) \subseteq EntityQoses /\ IsFiniteSet(Keys(new))
        /\ Keys(token[b]) \subseteq EntityQoses /\ IsFiniteSet(Keys(token[b]))
    BY <1>1, KeysOfPair
  <2> QED
    BY <2>1, FS_Subset
<1>3. /\ up \in Seq(LivelinessEvents)
      /\ \A i \in DOMAIN up : up[i].op = "announced" /\ up[i].qos \in added
      /\ \A k \in added : \E i \in DOMAIN up : up[i].qos = k
  <2> HIDE DEF added
  <2> QED
    BY <1>2, EventsAbout
<1>4. /\ down \in Seq(LivelinessEvents)
      /\ \A i \in DOMAIN down : down[i].op = "retired" /\ down[i].qos \in gone
      /\ \A k \in gone : \E i \in DOMAIN down : down[i].qos = k
  <2> HIDE DEF gone
  <2> QED
    BY <1>2, EventsAbout
<1>5. /\ token'[b] = new
      /\ channel'[b] = channel[b] \o up \o down
  BY DEF Redeclare, TypeOK
<1> DEFINE mid == Keys(token[b]) \cup Keys(new)
<1> HIDE DEF up, down
<1>6. Tells(channel[b] \o up, mid, ServedOf(remote, b))
  <2>1. TellChange(up, Keys(token[b]), mid)
    BY <1>3 DEF TellChange
  <2> HIDE DEF mid
  <2> QED
    BY <1>1, <1>3, <2>1, TellsAppended DEF ChannelTells
<1>7. Tells((channel[b] \o up) \o down, Keys(new), ServedOf(remote, b))
  <2>1. TellChange(down, mid, Keys(new))
    BY <1>4 DEF TellChange
  <2>2. channel[b] \o up \in Seq(LivelinessEvents)
    BY <1>1, <1>3
  <2> HIDE DEF mid
  <2> QED
    BY <1>4, <1>6, <2>1, <2>2, TellsAppended
<1> QED
  BY <1>5, <1>7

-----------------------------------------------------------------------------
(* The receiving bridge. *)

\* The Writers are the ones that the announcements call for.
WriterFollows ==
  LET desired == writers_qos_for_remote_writers(remote)
  IN  /\ remote = <<>> => writer.volatile = NoQos
      /\ remote # <<>> => /\ same_route_qos(writer.main, desired.main, FALSE)
                          /\ same_route_qos(writer.volatile, desired.volatile, FALSE)

\* An announcement that is removed is not served any more, the others are.
LEMMA ServedWithout ==
  ASSUME remote \in Seq(Announcements), NEW c \in Bridges, NEW q \in EntityQoses,
         NEW b \in Bridges, NEW k \in EntityQoses
  PROVE  LET a == [bridge |-> c, qos |-> q]
         IN  /\ k \in ServedOf(without(a), b) <=>
                  k \in ServedOf(remote, b) /\ ~(b = c /\ k = q)
             /\ k \in ServedOf(Append(without(a), a), b) <=>
                  k \in ServedOf(remote, b) \/ (b = c /\ k = q)
<1> DEFINE a == [bridge |-> c, qos |-> q]
           r == without(a)
           others == {i \in DOMAIN remote :
                        remote_publisher_key(remote[i]) # remote_publisher_key(a)}
<1>1. r \in Seq(Announcements) /\ Selected(r, remote, others)
  BY WithoutType
<1>2. a.bridge = c /\ a.qos = q /\ a \in Announcements
  BY DEF Announcements
<1> HIDE DEF r, a
<1>3. \A i \in DOMAIN remote : i \in others <=> ~(remote[i].bridge = c /\ remote[i].qos = q)
  BY <1>2 DEF remote_publisher_key
<1> HIDE DEF others
<1>4. (\E i \in DOMAIN r : r[i].bridge = b /\ r[i].qos = k) <=>
        (\E i \in DOMAIN remote : /\ remote[i].bridge = b /\ remote[i].qos = k
                                  /\ ~(b = c /\ k = q))
  BY <1>1, <1>3 DEF Selected
<1>5. k \in ServedOf(r, b) <=> k \in ServedOf(remote, b) /\ ~(b = c /\ k = q)
  BY <1>4 DEF ServedOf
<1>6. /\ DOMAIN Append(r, a) = 1 .. Len(r) + 1 /\ DOMAIN r = 1 .. Len(r) /\ Len(r) \in Nat
      /\ \A i \in 1 .. Len(r) : Append(r, a)[i] = r[i]
      /\ Append(r, a)[Len(r) + 1] = a
  BY <1>1, <1>2
<1>7. \A n \in Nat : /\ \A i \in 1 .. n + 1 : i \in 1 .. n \/ i = n + 1
                     /\ \A i \in 1 .. n : i \in 1 .. n + 1
                     /\ n + 1 \in 1 .. n + 1
  OBVIOUS
<1> DEFINE t == Append(r, a)
<1>8. /\ \A i \in DOMAIN t : t[i] = a \/ \E j \in DOMAIN r : t[i] = r[j]
      /\ \A j \in DOMAIN r : \E i \in DOMAIN t : t[i] = r[j]
      /\ \E i \in DOMAIN t : t[i] = a
  BY <1>6, <1>7
<1> HIDE DEF t
<1>9. (\E i \in DOMAIN t : t[i].bridge = b /\ t[i].qos = k) <=>
        (\E i \in DOMAIN r : r[i].bridge = b /\ r[i].qos = k) \/ (b = c /\ k = q)
  BY <1>2, <1>8
<1>10. k \in ServedOf(t, b) <=> k \in ServedOf(remote, b) \/ (b = c /\ k = q)
  BY <1>4, <1>9 DEF ServedOf
<1> QED
  BY <1>5, <1>10 DEF r, a, t

\* What a bridge hears is served, and the Writers follow it.
LEMMA HearKeeps ==
  ASSUME TypeOK, \A b \in Bridges : ChannelTells(b), NEW c \in Bridges, Hear(c)
  PROVE  (\A b \in Bridges : ChannelTells(b)') /\ WriterFollows'
<1> DEFINE e == Head(channel[c])
           a == [bridge |-> c, qos |-> e.qos]
<1>1. /\ channel[c] \in Seq(LivelinessEvents) /\ channel[c] # <<>>
      /\ remote \in Seq(Announcements)
  BY DEF Hear, TypeOK
<1>2. e \in LivelinessEvents /\ e.qos \in EntityQoses
  <2>1. e \in LivelinessEvents
    BY <1>1
  <2> QED
    BY <2>1 DEF LivelinessEvents
<1>3. /\ remote' = IF e.op = "announced" THEN Append(without(a), a) ELSE without(a)
      /\ channel' = [channel EXCEPT ![c] = Tail(channel[c])]
      /\ token' = token
  BY DEF Hear, senderVars
<1>4. \A b \in Bridges : \A k \in EntityQoses :
        k \in ServedOf(remote', b) <=>
          IF b = c /\ k = e.qos THEN e.op = "announced" ELSE k \in ServedOf(remote, b)
  <2> SUFFICES ASSUME NEW b \in Bridges, NEW k \in EntityQoses
               PROVE  k \in ServedOf(remote', b) <=>
                        IF b = c /\ k = e.qos THEN e.op = "announced"
                        ELSE k \in ServedOf(remote, b)
    OBVIOUS
  <2>1. /\ k \in ServedOf(without(a), b) <=>
             k \in ServedOf(remote, b) /\ ~(b = c /\ k = e.qos)
        /\ k \in ServedOf(Append(without(a), a), b) <=>
             k \in ServedOf(remote, b) \/ (b = c /\ k = e.qos)
    <3> HIDE DEF e
    <3> QED
      BY <1>1, <1>2, ServedWithout
  <2> HIDE DEF e, a
  <2> QED
    BY <1>3, <2>1
<1>5. ASSUME NEW b \in Bridges PROVE ChannelTells(b)'
  <2>1. CASE b = c
    <3>1. \A k \in EntityQoses : k \in ServedOf(remote', c) <=>
            IF k = e.qos THEN e.op = "announced" ELSE k \in ServedOf(remote, c)
      BY <1>4
    <3>2. Tells(Tail(channel[c]), Keys(token[c]), ServedOf(remote', c))
      BY <1>1, <3>1, TellsHeard DEF ChannelTells
    <3>3. channel'[c] = Tail(channel[c]) /\ token'[c] = token[c]
      BY <1>3 DEF TypeOK
    <3> QED
      BY <2>1, <3>2, <3>3 DEF ChannelTells
  <2>2. CASE b # c
    <3>1. \A k \in EntityQoses : k \in ServedOf(remote', b) <=> k \in ServedOf(remote, b)
      BY <1>4, <2>2
    <3>2. channel'[b] = channel[b] /\ token'[b] = token[b]
      BY <1>3, <2>2 DEF TypeOK
    <3>3. Tells(channel[b], Keys(token[b]), ServedOf(remote', b))
      BY <3>1 DEF ChannelTells, Tells
    <3> QED
      BY <3>2, <3>3 DEF ChannelTells
  <2> QED
    BY <2>1, <2>2
<1>6. WriterFollows'
  <2> DEFINE desired == writers_qos_for_remote_writers(remote')
  <2>1. writer' = IF remote' = <<>>
          THEN [main |-> IF writer.main.tl THEN fallback_writer_qos ELSE writer.main,
                volatile |-> NoQos]
          ELSE [main |-> Changed(writer.main, desired.main, FALSE),
                volatile |-> Changed(writer.volatile, desired.volatile, FALSE)]
    BY DEF Hear, update_writer
  <2> HIDE DEF desired
  <2>2. remote' = <<>> => writer'.volatile = NoQos
    BY <2>1
  <2>3. remote' # <<>> => /\ writer'.main = Changed(writer.main, desired.main, FALSE)
                          /\ writer'.volatile = Changed(writer.volatile, desired.volatile, FALSE)
    BY <2>1
  <2>4. remote' # <<>> => /\ same_route_qos(writer'.main, desired.main, FALSE)
                          /\ same_route_qos(writer'.volatile, desired.volatile, FALSE)
    BY <2>3, ChangedFollows
  <2> QED
    BY <2>2, <2>4 DEF WriterFollows, desired
<1> QED
  BY <1>5, <1>6

ReceiverInv == TypeOK /\ (\A b \in Bridges : ChannelTells(b)) /\ WriterFollows

\* A step keeps what the events on their way tell, and what the Writers follow.
LEMMA ReceiverKept ==
  ReceiverInv /\ [Next]_vars => (\A b \in Bridges : ChannelTells(b)') /\ WriterFollows'
<1> SUFFICES ASSUME ReceiverInv, [Next]_vars
             PROVE  (\A b \in Bridges : ChannelTells(b)') /\ WriterFollows'
  OBVIOUS
<1> USE DEF ReceiverInv
<1>1. ASSUME UNCHANGED <<token, channel, receiverVars>>
      PROVE  (\A b \in Bridges : ChannelTells(b)') /\ WriterFollows'
  BY <1>1 DEF ChannelTells, WriterFollows, receiverVars
<1>2. ASSUME NEW c \in Bridges, NEW new \in Pairs, Redeclare(c, new), UNCHANGED receiverVars
      PROVE  (\A b \in Bridges : ChannelTells(b)') /\ WriterFollows'
  <2>1. Tells(channel'[c], Keys(token'[c]), ServedOf(remote, c))
    BY <1>2, RedeclareTells
  <2>2. \A b \in Bridges \ {c} : channel'[b] = channel[b] /\ token'[b] = token[b]
    BY <1>2 DEF Redeclare, TypeOK
  <2>3. remote' = remote /\ writer' = writer
    BY <1>2 DEF receiverVars
  <2>4. ASSUME NEW b \in Bridges PROVE ChannelTells(b)'
    <3>1. CASE b = c
      BY <2>1, <2>3, <3>1 DEF ChannelTells
    <3>2. CASE b # c
      BY <2>2, <2>3, <3>2 DEF ChannelTells
    <3> QED
      BY <3>1, <3>2
  <2> QED
    BY <2>3, <2>4 DEF WriterFollows
<1>3. ASSUME NEW b \in Bridges
      PROVE  /\ token[b] \in Pairs
             /\ Changed(token[b].main, announced_qoses_for_local_writers(writers[b]).main, FALSE)
                  \in EntityQoses \cup {NoQos}
             /\ Changed(token[b].volatile,
                        announced_qoses_for_local_writers(writers[b]).volatile, FALSE)
                  \in EntityQoses \cup {NoQos}
  <2>1. writers[b] \in Seq(EntityQoses) /\ token[b] \in Pairs
    BY DEF TypeOK
  <2> QED
    BY <2>1, CalledForTypes, PairTypes, ChangedType
<1>4. ASSUME NEW b \in Bridges, Announce(b)
      PROVE  \E new \in Pairs : Redeclare(b, new)
  <2> DEFINE called == announced_qoses_for_local_writers(writers[b]).main
             new == [token[b] EXCEPT !.main = Changed(@, called, FALSE)]
  <2>1. Redeclare(b, new)
    BY <1>4 DEF Announce
  <2>2. new \in Pairs
    BY <1>3, PairTypes
  <2> HIDE DEF new
  <2> QED
    BY <2>1, <2>2
<1>5. ASSUME NEW b \in Bridges, AnnounceVolatile(b)
      PROVE  \E new \in Pairs : Redeclare(b, new)
  <2> DEFINE called == announced_qoses_for_local_writers(writers[b]).volatile
             new == [token[b] EXCEPT !.volatile = Changed(@, called, FALSE)]
  <2>1. Redeclare(b, new)
    BY <1>5 DEF AnnounceVolatile
  <2>2. new \in Pairs
    BY <1>3, PairTypes
  <2> HIDE DEF new
  <2> QED
    BY <2>1, <2>2
<1>6. ASSUME NEW b \in Bridges, Retire(b) \/ Announce(b) \/ AnnounceVolatile(b)
      PROVE  (\A d \in Bridges : ChannelTells(d)') /\ WriterFollows'
  <2>1. \E new \in Pairs : Redeclare(b, new)
    BY <1>4, <1>5, <1>6, PairTypes DEF Retire
  <2>2. UNCHANGED receiverVars
    BY <1>6 DEF Retire, Announce, AnnounceVolatile
  <2> QED
    BY <1>2, <2>1, <2>2
<1>7. ASSUME NEW b \in Bridges,
             (\E w \in near[b] : ChangeWriters(b, w)) \/ Begin(b) \/ UpdateReaders(b)
      PROVE  UNCHANGED <<token, channel, receiverVars>>
  BY <1>7 DEF ChangeWriters, Begin, UpdateReaders
<1>8. CASE UNCHANGED vars
  BY <1>1, <1>8 DEF vars, senderVars
<1> QED
  BY <1>1, <1>6, <1>7, <1>8, HearKeeps DEF Next, Update

\* What the events on their way tell, and what the Writers follow, is invariant.
THEOREM ReceiverInvariant ==
  Spec => []ReceiverInv
<1>1. Init => ReceiverInv
  <2> SUFFICES ASSUME Init PROVE (\A b \in Bridges : ChannelTells(b)) /\ WriterFollows
    BY InitTypes DEF ReceiverInv
  <2>1. Keys(None) = {}
    BY DEF Keys, None
  <2>2. /\ remote = <<>> /\ writer.volatile = NoQos
        /\ \A b \in Bridges : channel[b] = <<>> /\ token[b] = None
    BY DEF Init, None
  <2>3. DOMAIN <<>> = {}
    OBVIOUS
  <2>4. \A b \in Bridges : ServedOf(remote, b) = {}
    BY <2>2, <2>3 DEF ServedOf
  <2>5. \A b \in Bridges : ChannelTells(b)
    BY <2>1, <2>2, <2>3, <2>4 DEF ChannelTells, Tells
  <2> QED
    BY <2>2, <2>5 DEF WriterFollows
<1>2. ReceiverInv /\ [Next]_vars => ReceiverInv'
  BY TypeKept, ReceiverKept DEF ReceiverInv
<1> QED
  BY <1>1, <1>2, PTL DEF Spec

-----------------------------------------------------------------------------
(* When everything has settled. *)

\* All events are heard: the announcements that are served are the ones declared.
LEMMA SettledServes ==
  ASSUME ReceiverInv, NEW b \in Bridges, channel[b] = <<>>
  PROVE  \A k \in EntityQoses :
           k \in Keys(token[b]) <=> \E i \in DOMAIN remote : /\ remote[i].bridge = b
                                                             /\ remote[i].qos = k
<1>1. Tells(<<>>, Keys(token[b]), ServedOf(remote, b))
  BY DEF ReceiverInv, ChannelTells
<1>2. DOMAIN <<>> = {}
  OBVIOUS
<1>3. \A k \in EntityQoses : k \in ServedOf(remote, b) <=> k \in Keys(token[b])
  BY <1>1, <1>2 DEF Tells
<1> QED
  BY <1>3 DEF ServedOf

\* When everything has settled, the receiving bridge serves exactly the announcements of
\* the tokens that are declared, although a re-announcement precedes the retirement of the
\* old one.
THEOREM AnnouncedAreServed ==
  Spec => []RemoteIsAnnounced
<1>1. ReceiverInv => RemoteIsAnnounced
  <2> DEFINE served == {remote[i] : i \in DOMAIN remote}
             pairs == UNION {{b} \X Keys(token[b]) : b \in Bridges}
             declared == {[bridge |-> p[1], qos |-> p[2]] : p \in pairs}
  <2> SUFFICES ASSUME ReceiverInv, Settled PROVE served = declared
    BY DEF RemoteIsAnnounced
  <2>1. \A b \in Bridges : \A k \in EntityQoses :
          k \in Keys(token[b]) <=> \E i \in DOMAIN remote : /\ remote[i].bridge = b
                                                            /\ remote[i].qos = k
    BY SettledServes DEF Settled
  <2>2. \A b \in Bridges : Keys(token[b]) \subseteq EntityQoses
    BY KeysOfPair DEF ReceiverInv, TypeOK
  <2>3. \A i \in DOMAIN remote : remote[i] \in Announcements
    BY SequenceDomain DEF ReceiverInv, TypeOK
  <2>4. \A a \in Announcements : /\ a.bridge \in Bridges /\ a.qos \in EntityQoses
                                 /\ a = [bridge |-> a.bridge, qos |-> a.qos]
    BY DEF Announcements
  <2>5. served \subseteq declared
    <3> SUFFICES ASSUME NEW i \in DOMAIN remote PROVE remote[i] \in declared
      OBVIOUS
    <3> DEFINE a == remote[i]
    <3>1. a \in Announcements
      BY <2>3
    <3>2. a.bridge \in Bridges /\ a.qos \in Keys(token[a.bridge])
      BY <2>1, <2>4, <3>1
    <3>3. <<a.bridge, a.qos>> \in pairs
      BY <3>2
    <3> QED
      BY <2>4, <3>1, <3>3
  <2>6. declared \subseteq served
    <3> SUFFICES ASSUME NEW b \in Bridges, NEW k \in Keys(token[b])
                 PROVE  [bridge |-> b, qos |-> k] \in served
      OBVIOUS
    <3>1. PICK i \in DOMAIN remote : remote[i].bridge = b /\ remote[i].qos = k
      BY <2>1, <2>2
    <3>2. remote[i] = [bridge |-> b, qos |-> k]
      BY <2>3, <2>4, <3>1
    <3> QED
      BY <3>2
  <2> QED
    BY <2>5, <2>6
<1> QED
  BY <1>1, ReceiverInvariant, PTL

\* What a bridge that has Writers, and has settled, announces and serves: both durabilities
\* if it splits its Writers, one announcement otherwise.
LEMMA SettledAnnouncements ==
  ASSUME TypeOK, NEW b \in Bridges, Follows(b), UpToDate(b), NEW w \in local[b]
  PROVE  /\ token[b].main \in EntityQoses
         /\ token[b].volatile \in EntityQoses \cup {NoQos}
         /\ token[b].volatile # NoQos <=> mixed_durability(writers[b])
         /\ token[b].main.tl <=> \E v \in local[b] : WriterQoses[v].tl
         /\ ~token[b].volatile.tl
<1> DEFINE called == announced_qoses_for_local_writers(writers[b])
           mixed == mixed_durability(writers[b])
<1>1. /\ writers[b] \in Seq(EntityQoses) /\ writers[b] # <<>>
      /\ \A k \in DOMAIN writers[b] : \E v \in local[b] : writers[b][k] = WriterQoses[v]
      /\ \A v \in local[b] : \E k \in DOMAIN writers[b] : writers[b][k] = WriterQoses[v]
  BY UpToDateWriters
<1>2. /\ called.main \in EntityQoses
      /\ called.volatile # NoQos <=> mixed
      /\ called.main.tl <=> \E i \in DOMAIN writers[b] : writers[b][i].tl
      /\ ~called.volatile.tl
  BY <1>1, AnnouncementsCalledFor
<1>3. /\ same_route_qos(token[b].main, called.main, FALSE)
      /\ same_route_qos(token[b].volatile, called.volatile, FALSE)
  BY <1>1 DEF Follows, TokensFollow, UpToDate
<1> HIDE DEF called, mixed
<1>4. /\ token[b].main # NoQos /\ (token[b].main.tl <=> called.main.tl)
      /\ token[b].volatile # NoQos <=> mixed
      /\ token[b].volatile.tl <=> called.volatile.tl
  <2>1. \A x, y : same_route_qos(x, y, FALSE) => (x = NoQos <=> y = NoQos) /\ x.tl = y.tl
    BY SamePolicies
  <2>2. /\ token[b].main = NoQos <=> called.main = NoQos
        /\ token[b].main.tl = called.main.tl
    BY <1>3, <2>1
  <2>3. /\ token[b].volatile = NoQos <=> called.volatile = NoQos
        /\ token[b].volatile.tl = called.volatile.tl
    BY <1>3, <2>1
  <2> QED
    BY <1>2, <2>2, <2>3, HistoryTypes
<1>5. token[b] \in Pairs
  BY DEF TypeOK
<1>6. /\ token[b].main \in EntityQoses
      /\ token[b].volatile \in EntityQoses \cup {NoQos}
  BY <1>4, <1>5, PairTypes
<1>7. called.main.tl <=> \E v \in local[b] : WriterQoses[v].tl
  BY <1>1, <1>2
<1> QED
  BY <1>2, <1>4, <1>6, <1>7 DEF mixed

\* A bridge that is up to date and announces or splits anything has Writers.
LEMMA SettledHasWriters ==
  ASSUME TypeOK, NEW b \in Bridges, Follows(b), UpToDate(b),
         Keys(token[b]) # {} \/ readers[b].volatile # NoQos
  PROVE  \E w \in local[b] : TRUE
<1>1. writers[b] = writers_qos_on_topic(local[b])
  BY DEF Follows, WritersRead, UpToDate
<1>2. Keys(None) = {}
  BY DEF Keys, None
<1>3. writers[b] # <<>>
  BY <1>2 DEF Follows, TokensFollow, ReadersFollow, UpToDate
<1>4. local[b] \in SUBSET Writers
  BY DEF TypeOK
<1>5. local[b] # {}
  BY <1>1, <1>3, <1>4, OnTopicEmpty
<1> QED
  BY <1>5

\* The announcements of a bridge that has settled mix their durabilities if and only if the
\* bridge marks the samples of its VOLATILE Writers.
LEMMA MarksAreAnnounced ==
  ASSUME TypeOK, NEW b \in Bridges, Follows(b), UpToDate(b)
  PROVE  readers[b].volatile # NoQos <=>
           (\E k \in Keys(token[b]) : k.tl) /\ (\E k \in Keys(token[b]) : ~k.tl)
<1> DEFINE t == token[b]
<1>1. t \in Pairs
  BY DEF TypeOK
<1>2. CASE ~(Keys(t) # {} \/ readers[b].volatile # NoQos)
  BY <1>2
<1>3. CASE Keys(t) # {} \/ readers[b].volatile # NoQos
  <2>1. PICK w \in local[b] : TRUE
    BY <1>3, SettledHasWriters
  <2>2. readers[b].volatile # NoQos <=> mixed_durability(writers[b])
    BY ReadByOne
  <2>3. /\ t.main \in EntityQoses
        /\ t.volatile \in EntityQoses \cup {NoQos}
        /\ t.volatile # NoQos <=> mixed_durability(writers[b])
        /\ t.main.tl <=> \E v \in local[b] : WriterQoses[v].tl
        /\ ~t.volatile.tl
    BY SettledAnnouncements
  <2>4. mixed_durability(writers[b]) => t.main.tl
    <3>1. /\ writers[b] \in Seq(EntityQoses)
          /\ \A k \in DOMAIN writers[b] : \E v \in local[b] : writers[b][k] = WriterQoses[v]
      BY UpToDateWriters
    <3>2. mixed_durability(writers[b]) => \E k \in DOMAIN writers[b] : writers[b][k].tl
      BY <3>1, SplitByDurability
    <3> QED
      BY <2>3, <3>1, <3>2
  <2>5. t.main # NoQos /\ (t.volatile # NoQos => t.volatile \in EntityQoses)
    BY <2>3, HistoryTypes
  <2>6. /\ qos_to_key_expr(t.main) \in Keys(t)
        /\ t.volatile # NoQos => qos_to_key_expr(t.volatile) \in Keys(t)
        /\ \A k \in Keys(t) : \/ k = qos_to_key_expr(t.main)
                              \/ t.volatile # NoQos /\ k = qos_to_key_expr(t.volatile)
    BY <1>1, <2>5, KeysOfPair
  <2>7. /\ qos_to_key_expr(t.main).tl = t.main.tl
        /\ t.volatile # NoQos => qos_to_key_expr(t.volatile).tl = t.volatile.tl
    BY <2>3, <2>5, KeyTellsDurability
  <2> HIDE DEF t
  <2>8. t.volatile # NoQos <=> (\E k \in Keys(t) : k.tl) /\ (\E k \in Keys(t) : ~k.tl)
    BY <2>3, <2>4, <2>6, <2>7
  <2> QED
    BY <2>2, <2>3, <2>8 DEF t
<1> QED
  BY <1>2, <1>3 DEF t

\* The receiving bridge has a VOLATILE Writer if and only if it serves a bridge that
\* announces both durabilities.
LEMMA VolatileWriterServes ==
  ASSUME ReceiverInv
  PROVE  writer.volatile # NoQos <=> \E i \in DOMAIN remote : moved(remote, remote[i])
<1> DEFINE desired == writers_qos_for_remote_writers(remote)
<1>1. remote \in Seq(Announcements)
  BY DEF ReceiverInv, TypeOK
<1>2. desired.volatile # NoQos <=> \E i \in DOMAIN remote : moved(remote, remote[i])
  BY <1>1, WritersCalledFor
<1>3. CASE remote = <<>>
  <2>1. DOMAIN remote = {} /\ writer.volatile = NoQos
    BY <1>3 DEF ReceiverInv, WriterFollows
  <2> QED
    BY <2>1
<1>4. CASE remote # <<>>
  <2>1. same_route_qos(writer.volatile, desired.volatile, FALSE)
    BY <1>4 DEF ReceiverInv, WriterFollows
  <2> HIDE DEF desired
  <2>2. \A x, y : same_route_qos(x, y, FALSE) => (x = NoQos <=> y = NoQos) /\ x.tl = y.tl
    BY SamePolicies
  <2>3. writer.volatile = NoQos <=> desired.volatile = NoQos
    BY <2>1, <2>2
  <2> QED
    BY <1>2, <2>3
<1> QED
  BY <1>3, <1>4

\* What the bridges mark is what the announcements mix, and what the VOLATILE Writer is for.
LEMMA MarksWritten ==
  SenderInv /\ ReceiverInv => MarkedSamplesWritten
<1> SUFFICES ASSUME SenderInv, ReceiverInv, Settled
             PROVE  writer.volatile # NoQos <=>
                      \E b \in Bridges : readers[b].volatile # NoQos
  BY DEF MarkedSamplesWritten
<1>1. \A b \in Bridges : TypeOK /\ Follows(b) /\ UpToDate(b) /\ channel[b] = <<>>
  BY DEF SenderInv, Settled
<1>2. \A b \in Bridges : \A k \in EntityQoses :
        k \in Keys(token[b]) <=> \E i \in DOMAIN remote : /\ remote[i].bridge = b
                                                          /\ remote[i].qos = k
  BY <1>1, SettledServes
<1>3. \A b \in Bridges : Keys(token[b]) \subseteq EntityQoses
  BY <1>1, KeysOfPair DEF TypeOK
<1>4. \A i \in DOMAIN remote : remote[i].bridge \in Bridges /\ remote[i].qos \in EntityQoses
  <2>1. \A i \in DOMAIN remote : remote[i] \in Announcements
    BY SequenceDomain DEF ReceiverInv, TypeOK
  <2> QED
    BY <2>1 DEF Announcements
<1>5. \A b \in Bridges : readers[b].volatile # NoQos <=>
        (\E k \in Keys(token[b]) : k.tl) /\ (\E k \in Keys(token[b]) : ~k.tl)
  BY <1>1, MarksAreAnnounced
<1>6. \A b \in Bridges : readers[b].volatile # NoQos <=>
        \E i, j \in DOMAIN remote : /\ remote[i].bridge = b /\ ~remote[i].qos.tl
                                    /\ remote[j].bridge = b /\ remote[j].qos.tl
  <2> TAKE b \in Bridges
  <2>1. ASSUME NEW i \in DOMAIN remote, remote[i].bridge = b
        PROVE  remote[i].qos \in Keys(token[b])
    BY <1>2, <1>4, <2>1
  <2>2. ASSUME NEW k \in Keys(token[b])
        PROVE  \E i \in DOMAIN remote : remote[i].bridge = b /\ remote[i].qos = k
    BY <1>2, <1>3, <2>2
  <2> QED
    BY <1>5, <2>1, <2>2
<1>7. (\E i \in DOMAIN remote : moved(remote, remote[i])) <=>
        \E b \in Bridges : \E i, j \in DOMAIN remote :
          /\ remote[i].bridge = b /\ ~remote[i].qos.tl
          /\ remote[j].bridge = b /\ remote[j].qos.tl
  BY <1>4 DEF moved, is_transient_local
<1> QED
  BY <1>6, <1>7, VolatileWriterServes

\* When everything has settled, the receiving bridge has a VOLATILE Writer if and only if
\* a sending bridge marks the samples of its VOLATILE Writers.
THEOREM MarkedAreWritten ==
  Spec => []MarkedSamplesWritten
<1> QED
  BY MarksWritten, SenderInvariant, ReceiverInvariant, PTL

\* What the Writers of the receiving bridge offer while it serves announcements: they are
\* reliable, and the first one is TRANSIENT_LOCAL if an announcement is.
LEMMA ServingWriters ==
  ASSUME ReceiverInv, remote # <<>>
  PROVE  /\ writer.main # NoQos /\ writer.main.rel # "BEST_EFFORT"
         /\ writer.volatile # NoQos => writer.volatile.rel # "BEST_EFFORT"
         /\ (\E i \in DOMAIN remote : remote[i].qos.tl) => writer.main.tl
<1> DEFINE desired == writers_qos_for_remote_writers(remote)
<1>1. remote \in Seq(Announcements)
  BY DEF ReceiverInv, TypeOK
<1>2. /\ desired.main \in EntityQoses /\ desired.main.rel = "RELIABLE"
      /\ desired.volatile # NoQos => desired.volatile.rel = "RELIABLE"
      /\ (\E i \in DOMAIN remote : remote[i].qos.tl) => desired.main.tl
  BY <1>1, WritersCalledFor
<1>3. /\ same_route_qos(writer.main, desired.main, FALSE)
      /\ same_route_qos(writer.volatile, desired.volatile, FALSE)
  BY DEF ReceiverInv, WriterFollows
<1> HIDE DEF desired
<1>4. \A x, y : same_route_qos(x, y, FALSE) =>
        /\ x = NoQos <=> y = NoQos
        /\ x.tl = y.tl
        /\ x.rel = "BEST_EFFORT" <=> y.rel = "BEST_EFFORT"
  BY SamePolicies
<1>5. /\ writer.main = NoQos <=> desired.main = NoQos
      /\ writer.main.tl = desired.main.tl
      /\ writer.main.rel = "BEST_EFFORT" <=> desired.main.rel = "BEST_EFFORT"
  BY <1>3, <1>4
<1>6. /\ writer.volatile = NoQos <=> desired.volatile = NoQos
      /\ writer.volatile.rel = "BEST_EFFORT" <=> desired.volatile.rel = "BEST_EFFORT"
  BY <1>3, <1>4
<1> QED
  BY <1>2, <1>5, <1>6, HistoryTypes

\* When everything has settled, a Reader that matches a Writer in the same DDS domain also
\* matches the Writer of the receiving bridge that republishes its samples.
THEOREM ReadersMatch ==
  Spec => []TransparentToReaders
<1>1. SenderInv /\ ReceiverInv => MarkedSamplesWritten
  BY MarksWritten
<1>2. SenderInv /\ ReceiverInv => TransparentToReaders
  <2> SUFFICES ASSUME SenderInv, ReceiverInv, Settled,
                      NEW b \in Bridges, NEW w \in local[b], NEW r \in ReaderQoses,
                      Compatible(WriterQoses[w], r)
               PROVE  /\ WrittenWith(b, w) # NoQos
                      /\ Compatible(WrittenWith(b, w), r)
    BY DEF TransparentToReaders
  <2>1. TypeOK /\ Follows(b) /\ UpToDate(b) /\ channel[b] = <<>>
    BY DEF SenderInv, Settled
  <2>2. /\ token[b].main \in EntityQoses
        /\ token[b].main.tl <=> \E v \in local[b] : WriterQoses[v].tl
    BY <2>1, SettledAnnouncements
  <2>3. PICK i \in DOMAIN remote : remote[i].qos = qos_to_key_expr(token[b].main)
    <3>1. qos_to_key_expr(token[b].main) \in Keys(token[b])
      BY <2>1, <2>2, HistoryTypes, KeysOfPair DEF TypeOK
    <3>2. Keys(token[b]) \subseteq EntityQoses
      BY <2>1, KeysOfPair DEF TypeOK
    <3> QED
      BY <2>1, <3>1, <3>2, SettledServes
  <2>4. remote # <<>>
    BY <2>3
  <2>5. /\ writer.main # NoQos /\ writer.main.rel # "BEST_EFFORT"
        /\ writer.volatile # NoQos => writer.volatile.rel # "BEST_EFFORT"
        /\ (\E j \in DOMAIN remote : remote[j].qos.tl) => writer.main.tl
    BY <2>4, ServingWriters
  <2>6. ReadBy(b, w) = IF readers[b].volatile # NoQos /\ ~WriterQoses[w].tl
                       THEN {"volatile"} ELSE {"main"}
    BY <2>1, ReadByOne
  <2>7. r.tl => WriterQoses[w].tl
    BY DEF Compatible, is_transient_local
  <2>8. CASE readers[b].volatile # NoQos /\ ~WriterQoses[w].tl
    <3>1. writer.volatile # NoQos
      BY <1>1, <2>8 DEF MarkedSamplesWritten
    <3>2. WrittenWith(b, w) = writer.volatile
      BY <2>6, <2>8 DEF WrittenWith
    <3> QED
      BY <2>5, <2>7, <2>8, <3>1, <3>2 DEF Compatible, is_transient_local
  <2>9. CASE ~(readers[b].volatile # NoQos /\ ~WriterQoses[w].tl)
    <3>1. WrittenWith(b, w) = writer.main
      BY <2>6, <2>9 DEF WrittenWith
    <3>2. WriterQoses[w].tl => writer.main.tl
      <4>1. qos_to_key_expr(token[b].main).tl = token[b].main.tl
        BY <2>2, KeyTellsDurability
      <4> QED
        BY <2>2, <2>3, <2>5, <4>1
    <3> QED
      BY <2>5, <2>7, <3>1, <3>2 DEF Compatible, is_transient_local
  <2> QED
    BY <2>8, <2>9
<1> QED
  BY <1>2, SenderInvariant, ReceiverInvariant, PTL

-----------------------------------------------------------------------------
(* The histories. *)

\* A publisher that keeps everything makes the strongest history keep everything.
LEMMA StrongestKeepsAll ==
  ASSUME NEW qoses \in Seq(Qoses), NEW i \in DOMAIN qoses,
         history_of(qoses[i]).kind = "KEEP_ALL"
  PROVE  max_history(qoses).kind = "KEEP_ALL"
<1> DEFINE keep_all == {j \in DOMAIN qoses : history_of(qoses[j]).kind = "KEEP_ALL"}
<1>1. qoses # <<>> /\ keep_all # {} /\ keep_all \subseteq Nat
  BY SequenceDomain
<1>2. max_history(qoses) = history_of(qoses[Min(keep_all)])
  BY <1>1 DEF max_history
<1>3. Min(keep_all) \in keep_all
  <2>1. \E k \in keep_all : \A j \in keep_all : k <= j
    <3> HIDE DEF keep_all
    <3> QED
      BY <1>1, LeastNatural
  <2> QED
    BY <2>1 DEF Min
<1> QED
  BY <1>2, <1>3

\* The positions of the TRANSIENT_LOCAL publishers, and their depths.
TLPositions(qoses) == {i \in DOMAIN qoses : qoses[i].tl}
TLDepths(qoses) == [i \in TLPositions(qoses) |-> history_of(qoses[i]).depth]

\* Publishers whose history is bounded do not keep everything, and the history of their
\* route has room for the histories of all TRANSIENT_LOCAL ones, up to the cap.
BoundedHistory(history, qoses) ==
  /\ \A i \in TLPositions(qoses) : history_of(qoses[i]).kind # "KEEP_ALL"
  /\ \A i \in TLPositions(qoses) : TLDepths(qoses)[i] \in Nat
  /\ history.kind = "KEEP_LAST" /\ history.depth \in Nat
  /\ history.depth >=
       Least(SumFunctionOnSet(TLDepths(qoses), TLPositions(qoses)), MAX_TL_DEPTH)

\* The depths of the TRANSIENT_LOCAL publishers add up.
LEMMA RouteHistoryHolds ==
  ASSUME NEW qoses \in Seq(Qoses), NEW multiplier \in Nat, TLPositions(qoses) # {},
         route_history(qoses, multiplier).kind # "KEEP_ALL"
  PROVE  BoundedHistory(route_history(qoses, multiplier), qoses)
<1> DEFINE tl == TLPositions(qoses)
           depth == TLDepths(qoses)
           strongest == max_history(qoses)
           sum == SumFunctionOnSet(depth, tl)
           factor == IF Cardinality(tl) > 1 THEN Greatest(multiplier, 1) ELSE 1
<1>1. route_history(qoses, multiplier) =
        IF strongest.kind = "KEEP_ALL" THEN strongest
        ELSE KeepLast(Least(sum * factor, MAX_TL_DEPTH))
  BY DEF route_history, is_transient_local, TLPositions, TLDepths
<1>2. strongest.kind # "KEEP_ALL"
  BY <1>1
<1>3. route_history(qoses, multiplier) = KeepLast(Least(sum * factor, MAX_TL_DEPTH))
  BY <1>1, <1>2
<1>4. \A i \in DOMAIN qoses : qoses[i] \in Qoses /\ history_of(qoses[i]).kind # "KEEP_ALL"
  BY <1>2, SequenceDomain, StrongestKeepsAll
<1>5. \A i \in DOMAIN qoses : history_of(qoses[i]).depth \in Nat
  BY <1>4, HistoryOfType
<1>6. tl \subseteq DOMAIN qoses /\ \A i \in tl : depth[i] \in Nat
  BY <1>5 DEF TLPositions, TLDepths
<1>7. sum \in Nat
  <2>1. IsFiniteSet(tl)
    BY <1>6, SequenceDomain
  <2> HIDE DEF tl, depth
  <2> QED
    BY <1>6, <2>1, SumNatural
<1>8. factor \in Nat /\ factor >= 1
  BY DEF Greatest
<1>9. \A i, k \in Nat : k >= 1 => i * k \in Nat /\ i * k >= i
  <2>1. \A i, k \in Nat : i * (k + 1) = i * k + i /\ i * k \in Nat
    OBVIOUS
  <2>2. \A k \in Nat : k >= 1 => k - 1 \in Nat /\ k = (k - 1) + 1
    OBVIOUS
  <2>3. \A i, j \in Nat : j + i >= i /\ j + i \in Nat
    OBVIOUS
  <2> QED
    BY <2>1, <2>2, <2>3
<1> HIDE DEF sum, factor
<1>10. sum * factor \in Nat /\ sum * factor >= sum
  BY <1>7, <1>8, <1>9
<1>11. \A i, j, m \in Nat : j >= i => Least(j, m) \in Nat /\ Least(j, m) >= Least(i, m)
  BY DEF Least
<1>12. /\ Least(sum * factor, MAX_TL_DEPTH) \in Nat
       /\ Least(sum * factor, MAX_TL_DEPTH) >= Least(sum, MAX_TL_DEPTH)
  BY <1>7, <1>10, <1>11, QosAssumption
<1>13. \A d : KeepLast(d).kind = "KEEP_LAST" /\ KeepLast(d).depth = d
  BY DEF KeepLast
<1>14. \A i \in tl : history_of(qoses[i]).kind # "KEEP_ALL"
  BY <1>4, <1>6
<1> QED
  BY <1>3, <1>6, <1>12, <1>13, <1>14 DEF BoundedHistory, sum

\* The depths f are those of some of the TRANSIENT_LOCAL publishers, by the positions h.
Among(S, f, h, qoses) ==
  \A x \in S : /\ h[x] \in TLPositions(qoses)
               /\ f[x] = history_of(qoses[h[x]]).depth
               /\ \A y \in S : h[y] = h[x] => y = x

\* A history that has room for publishers has room for others whose histories are among
\* theirs.
LEMMA BoundedAmong ==
  ASSUME NEW history, NEW qoses \in Seq(Qoses), BoundedHistory(history, qoses),
         NEW S, IsFiniteSet(S), NEW f, NEW h, Among(S, f, h, qoses)
  PROVE  /\ \A x \in S : f[x] \in Nat
         /\ history.depth >= Least(SumFunctionOnSet(f, S), MAX_TL_DEPTH)
<1> DEFINE tl == TLPositions(qoses)
           depth == TLDepths(qoses)
<1>1. /\ \A i \in tl : depth[i] \in Nat /\ depth[i] = history_of(qoses[i]).depth
      /\ history.depth \in Nat
      /\ history.depth >= Least(SumFunctionOnSet(depth, tl), MAX_TL_DEPTH)
  BY DEF BoundedHistory, TLDepths
<1>2. IsFiniteSet(tl)
  <2>1. tl \in SUBSET DOMAIN qoses
    BY DEF TLPositions
  <2> QED
    BY <2>1, SequenceDomain
<1> HIDE DEF tl, depth
<1>3. \A x \in S : h[x] \in tl /\ f[x] \in Nat /\ f[x] = depth[h[x]]
  BY <1>1 DEF tl, Among
<1>4. \A n \in Nat : n <= n
  OBVIOUS
<1>5. \A x \in S : f[x] <= depth[h[x]]
  BY <1>3, <1>4
<1>6. SumFunctionOnSet(f, S) <= SumFunctionOnSet(depth, tl)
  <2>1. \A x, y \in S : h[x] = h[y] => x = y
    BY DEF Among
  <2> QED
    BY <1>1, <1>2, <1>3, <1>5, <2>1, SumDominates
<1>7. SumFunctionOnSet(f, S) \in Nat /\ SumFunctionOnSet(depth, tl) \in Nat
  BY <1>1, <1>2, <1>3, SumNatural
<1>8. \A i, j, k, m \in Nat : i <= j /\ k >= Least(j, m) => k >= Least(i, m)
  BY DEF Least
<1> QED
  BY <1>1, <1>3, <1>6, <1>7, <1>8, QosAssumption

\* The announcement of a bridge has room for the histories of its TRANSIENT_LOCAL Writers,
\* or keeps everything.
LEMMA AnnouncedHistory ==
  ASSUME NEW ws \in Seq(EntityQoses), NEW qs \in Seq(EntityQoses), NEW ids \in SUBSET DOMAIN qs,
         ws = Subsequence(qs, ids), \E i \in ids : qs[i].tl,
         history_of(announced_qoses_for_local_writers(ws).main).kind # "KEEP_ALL"
  PROVE  LET S == {i \in ids : qs[i].tl}
             f == [i \in S |-> history_of(qs[i]).depth]
             history == history_of(announced_qoses_for_local_writers(ws).main)
         IN  /\ \A i \in S : f[i] \in Nat
             /\ history.depth \in Nat
             /\ history.depth >= Least(SumFunctionOnSet(f, S), MAX_TL_DEPTH)
<1> DEFINE S == {i \in ids : qs[i].tl}
           f == [i \in S |-> history_of(qs[i]).depth]
           q == announced_qoses_for_local_writers(ws).main
           T == IF mixed_durability(ws) THEN TransientLocal(ws) ELSE ws
           tls == {i \in DOMAIN ws : is_transient_local(ws[i])}
<1>1. T \in Seq(EntityQoses) /\ T \in Seq(Qoses)
  <2>1. T \in Seq(EntityQoses)
    BY SplitByDurability
  <2>2. EntityQoses \subseteq Qoses
    BY DEF EntityQoses
  <2> HIDE DEF T
  <2> QED
    BY <2>1, <2>2, SequenceDomain, IsASeq
<1>2. q = announced_qos_for_local_writers(T)
  BY DEF announced_qoses_for_local_writers, SplitInTwo
<1>3. PICK d : PlacedBy(d, ws, qs, ids)
  BY SubsequencePlaces
<1>4. PICK e : PlacedBy(e, T, ws, tls)
  <2>1. CASE mixed_durability(ws)
    <3>1. T = Subsequence(ws, tls)
      BY <2>1 DEF TransientLocal
    <3>2. \E e : PlacedBy(e, Subsequence(ws, tls), ws, tls)
      BY SubsequencePlaces
    <3> QED
      BY <3>1, <3>2
  <2>2. CASE ~mixed_durability(ws)
    <3>1. T = ws
      BY <2>2
    <3>2. PlacedBy([i \in DOMAIN ws |-> i], ws, ws, tls)
      BY DEF PlacedBy
    <3> QED
      BY <3>1, <3>2
  <2> QED
    BY <2>1, <2>2
<1> HIDE DEF T
<1> DEFINE h == [i \in S |-> e[d[i]]]
<1>5. ASSUME NEW i \in S
      PROVE  /\ d[i] \in DOMAIN ws /\ d[i] \in tls /\ ws[d[i]] = qs[i]
             /\ e[d[i]] \in DOMAIN T /\ T[e[d[i]]] = qs[i]
  <2>1. i \in DOMAIN qs /\ i \in ids /\ qs[i].tl
    OBVIOUS
  <2>2. d[i] \in DOMAIN ws /\ ws[d[i]] = qs[i]
    BY <1>3, <2>1 DEF PlacedBy
  <2>3. d[i] \in tls
    BY <2>1, <2>2 DEF is_transient_local
  <2> QED
    BY <1>4, <2>2, <2>3 DEF PlacedBy
<1>6. ASSUME NEW i \in S, NEW j \in S, e[d[i]] = e[d[j]] PROVE i = j
  <2>1. d[i] \in DOMAIN ws /\ d[j] \in DOMAIN ws /\ d[i] \in tls /\ d[j] \in tls
    BY <1>5
  <2> HIDE DEF tls
  <2>2. d[i] = d[j]
    BY <1>4, <1>6, <2>1 DEF PlacedBy
  <2>3. i \in DOMAIN qs /\ j \in DOMAIN qs /\ i \in ids /\ j \in ids
    OBVIOUS
  <2> QED
    BY <1>3, <2>2, <2>3 DEF PlacedBy
<1>7. \A i \in S : /\ h[i] \in TLPositions(T)
                   /\ f[i] = history_of(T[h[i]]).depth
  BY <1>5 DEF TLPositions
<1>8. Among(S, f, h, T)
  <2>1. \A i, j \in S : h[i] = h[j] => i = j
    BY <1>6
  <2> HIDE DEF h
  <2> QED
    BY <1>7, <2>1 DEF Among
<1> DEFINE history == route_history(T, tl_cache_multiplier)
<1>9. q.history = history
  BY <1>2 DEF announced_qos_for_local_writers, Qos
<1>10. history.kind # "KEEP_ALL"
  BY <1>9 DEF history_of
<1>11. BoundedHistory(history, T)
  <2>1. TLPositions(T) # {}
    BY <1>7
  <2> QED
    BY <1>1, <1>10, <2>1, QosAssumption, RouteHistoryHolds
<1>12. IsFiniteSet(S)
  <2>1. S \in SUBSET DOMAIN qs
    OBVIOUS
  <2> QED
    BY <2>1, SequenceDomain
<1> HIDE DEF h, history
<1>13. /\ \A i \in S : f[i] \in Nat
       /\ history.depth >= Least(SumFunctionOnSet(f, S), MAX_TL_DEPTH)
  BY <1>1, <1>8, <1>11, <1>12, BoundedAmong
<1>14. history_of(q).depth = Greatest(history.depth, 1) /\ history.depth \in Nat
  BY <1>9, <1>11 DEF BoundedHistory, history_of, KeepLast
<1>15. Least(SumFunctionOnSet(f, S), MAX_TL_DEPTH) \in Nat
  <2>1. SumFunctionOnSet(f, S) \in Nat
    BY <1>12, <1>13, SumNatural
  <2> QED
    BY <2>1, QosAssumption DEF Least
<1>16. \A k, m \in Nat : m >= k => Greatest(m, 1) \in Nat /\ Greatest(m, 1) >= k
  BY DEF Greatest
<1> QED
  BY <1>13, <1>14, <1>15, <1>16

\* The Writer of the receiving bridge has room for the histories of all TRANSIENT_LOCAL
\* announcements that it serves, or keeps everything.
LEMMA OfferedHistory ==
  ASSUME NEW as \in Seq(Announcements), NEW S, S = {i \in DOMAIN as : as[i].qos.tl}, S # {},
         NEW f, \A i \in S : f[i] = history_of(as[i].qos).depth,
         NEW q, q = writers_qos_for_remote_writers(as).main,
         q.ds.kind # "KEEP_ALL"
  PROVE  /\ \A i \in S : f[i] \in Nat /\ history_of(as[i].qos).kind # "KEEP_ALL"
         /\ q.ds.depth \in Nat
         /\ q.ds.depth >= Least(SumFunctionOnSet(f, S), MAX_TL_DEPTH)
<1> DEFINE moves == {i \in DOMAIN as : moved(as, as[i])}
           stays == DOMAIN as \ moves
           kept == Subsequence(as, stays)
           Q == QosesOf(kept)
<1>1. q = writer_qos_for_remote_writers(Q)
  BY DEF writers_qos_for_remote_writers
<1>2. kept \in Seq(Announcements)
  BY SubsequenceElements
<1>3. PICK e : PlacedBy(e, kept, as, stays)
  BY SubsequencePlaces
<1>4. \A i \in S : i \in DOMAIN as /\ i \in stays /\ as[i].qos.tl
  BY DEF moved, is_transient_local
<1> HIDE DEF stays, kept
<1>5. /\ Q \in Seq(Qoses) /\ DOMAIN Q = DOMAIN kept
      /\ \A i \in DOMAIN kept : Q[i] = kept[i].qos
  <2>1. /\ DOMAIN kept = 1 .. Len(kept) /\ Len(kept) \in Nat
        /\ \A i \in DOMAIN kept : kept[i] \in Announcements
    BY <1>2, SequenceDomain
  <2>2. \A a \in Announcements : a.qos \in Qoses
    BY DEF Announcements, EntityQoses
  <2>3. Q = [i \in 1 .. Len(kept) |-> kept[i].qos]
    BY <2>1 DEF QosesOf
  <2>4. \A i \in 1 .. Len(kept) : kept[i].qos \in Qoses
    BY <2>1, <2>2
  <2>5. Q \in Seq(Qoses)
    BY <2>1, <2>3, <2>4, IsASeq
  <2> QED
    BY <2>1, <2>3, <2>5
<1> HIDE DEF Q
<1>6. \A i \in S : /\ e[i] \in DOMAIN kept /\ kept[e[i]] = as[i]
                   /\ \A j \in S : e[j] = e[i] => j = i
  <2> TAKE i \in S
  <2>1. i \in DOMAIN as /\ i \in stays
    BY <1>4
  <2>2. e[i] \in DOMAIN kept /\ kept[e[i]] = as[i]
    BY <1>3, <2>1 DEF PlacedBy
  <2>3. \A j \in S : e[j] = e[i] => j = i
    <3> SUFFICES ASSUME NEW j \in S, e[j] = e[i] PROVE j = i
      OBVIOUS
    <3>1. j \in DOMAIN as /\ j \in stays
      BY <1>4
    <3> QED
      BY <1>3, <2>1, <3>1 DEF PlacedBy
  <2> QED
    BY <2>2, <2>3
<1>7. \A i \in S : e[i] \in TLPositions(Q) /\ Q[e[i]] = as[i].qos
  <2> TAKE i \in S
  <2>1. e[i] \in DOMAIN Q /\ Q[e[i]] = as[i].qos
    <3>1. e[i] \in DOMAIN kept /\ kept[e[i]] = as[i]
      BY <1>6
    <3>2. \A k \in DOMAIN kept : Q[k] = kept[k].qos
      BY <1>5
    <3>3. Q[e[i]] = kept[e[i]].qos
      BY <3>1, <3>2
    <3>4. e[i] \in DOMAIN Q
      BY <1>5, <3>1
    <3> QED
      BY <3>1, <3>3, <3>4
  <2>2. Q[e[i]].tl
    BY <1>4, <2>1
  <2> QED
    BY <2>1, <2>2 DEF TLPositions
<1>8. TLPositions(Q) # {}
  BY <1>7
<1> DEFINE history == route_history(Q, 1)
<1>9. q.ds = history
  <2>1. Some(Q, is_transient_local)
    BY <1>8 DEF Some, is_transient_local, TLPositions
  <2> QED
    BY <1>1, <2>1 DEF writer_qos_for_remote_writers, Qos
<1>10. BoundedHistory(history, Q)
  BY <1>5, <1>8, <1>9, RouteHistoryHolds
<1>11. IsFiniteSet(S)
  <2>1. S \in SUBSET DOMAIN as
    OBVIOUS
  <2> QED
    BY <2>1, SequenceDomain
<1> HIDE DEF history
<1>12. Among(S, f, e, Q)
  <2>1. \A i \in S : \A j \in S : e[j] = e[i] => j = i
    BY <1>6
  <2>2. \A i \in S : f[i] = history_of(Q[e[i]]).depth
    BY <1>7
  <2> QED
    BY <1>7, <2>1, <2>2 DEF Among
<1>13. /\ \A i \in S : f[i] \in Nat
       /\ history.depth >= Least(SumFunctionOnSet(f, S), MAX_TL_DEPTH)
  BY <1>5, <1>10, <1>11, <1>12, BoundedAmong
<1>14. \A i \in S : history_of(as[i].qos).kind # "KEEP_ALL"
  BY <1>7, <1>10 DEF BoundedHistory
<1> QED
  BY <1>9, <1>10, <1>13, <1>14 DEF BoundedHistory

\* What a bound leaves of a sum is at most the sum of what it leaves of the summands.
LEMMA SumCapped ==
  ASSUME NEW S, IsFiniteSet(S), NEW f, \A x \in S : f[x] \in Nat, NEW m \in Nat
  PROVE  Least(SumFunctionOnSet(f, S), m) <= SumFunctionOnSet([x \in S |-> Least(f[x], m)], S)
<1> DEFINE g == [x \in S |-> Least(f[x], m)]
           P == {s \in SUBSET S : Least(SumFunctionOnSet(f, s), m) <= SumFunctionOnSet(g, s)}
<1>1. \A x \in S : g[x] \in Nat /\ g[x] = Least(f[x], m)
  BY DEF Least
<1>2. \A s \in SUBSET S : /\ IsFiniteSet(s)
                          /\ SumFunctionOnSet(f, s) \in Nat /\ SumFunctionOnSet(g, s) \in Nat
  <2> HIDE DEF g
  <2> QED
    BY <1>1, FS_Subset, SumNatural
<1> HIDE DEF g
<1>3. {} \in P
  <2>1. Least(0, m) <= 0
    BY DEF Least
  <2> QED
    BY <2>1, SumEmpty
<1>4. ASSUME NEW s \in SUBSET S, NEW x \in S \ s, s \in P PROVE s \cup {x} \in P
  <2>1. s \cup {x} \in SUBSET S /\ (s \cup {x}) \ {x} = s /\ x \in s \cup {x}
    OBVIOUS
  <2>2. SumFunctionOnSet(f, s \cup {x}) = f[x] + SumFunctionOnSet(f, s)
    BY <1>2, <2>1, SumRemove
  <2>3. SumFunctionOnSet(g, s \cup {x}) = g[x] + SumFunctionOnSet(g, s)
    <3>1. \A y \in s \cup {x} : g[y] \in Int
      BY <1>1, <2>1
    <3> QED
      BY <1>2, <2>1, <3>1, SumRemove
  <2>4. \A i, j, k \in Nat : Least(j, m) <= k => Least(i + j, m) <= Least(i, m) + k
    BY DEF Least
  <2> QED
    BY <1>1, <1>2, <1>4, <2>1, <2>2, <2>3, <2>4
<1>5. S \in P
  <2> HIDE DEF P
  <2>1. SUBSET S \subseteq P
    BY <1>3, <1>4, SubsetsByInduction
  <2> QED
    BY <2>1
<1> QED
  BY <1>5 DEF g

\* The bridges that have TRANSIENT_LOCAL Writers, and these Writers.
TLWriters(b) == {w \in local[b] : WriterQoses[w].tl}
TLBridges == {b \in Bridges : TLWriters(b) # {}}
TLSum(b) == SumFunctionOnSet([w \in TLWriters(b) |-> history_of(WriterQoses[w]).depth],
                             TLWriters(b))

\* The announcement of a bridge has room for its Writers, unless it keeps everything.
LEMMA TokenHolds ==
  ASSUME TypeOK, NEW b \in Bridges, Follows(b), UpToDate(b), TLWriters(b) # {},
         history_of(qos_to_key_expr(token[b].main)).kind # "KEEP_ALL"
  PROVE  /\ \A w \in TLWriters(b) : history_of(WriterQoses[w]).depth \in Nat
         /\ TLSum(b) \in Nat
         /\ history_of(qos_to_key_expr(token[b].main)).depth \in Nat
         /\ history_of(qos_to_key_expr(token[b].main)).depth >= Least(TLSum(b), MAX_TL_DEPTH)
<1> DEFINE S == TLWriters(b)
           f == [w \in S |-> history_of(WriterQoses[w]).depth]
           q == announced_qoses_for_local_writers(writers[b]).main
           key == qos_to_key_expr(token[b].main)
<1>1. PICK w \in local[b] : WriterQoses[w].tl
  BY DEF TLWriters
<1>2. writers[b] \in Seq(EntityQoses) /\ writers[b] # <<>> /\ token[b].main \in EntityQoses
  BY UpToDateWriters, SettledAnnouncements
<1>3. same_route_qos(token[b].main, q, FALSE)
  BY <1>2 DEF Follows, TokensFollow, UpToDate
<1>4. history_of(token[b].main) = history_of(q)
  <2>1. token[b].main # NoQos
    BY <1>2, HistoryTypes
  <2> HIDE DEF q
  <2> QED
    BY <1>3, <2>1, SamePolicies
<1>5. history_of(key) = history_of(token[b].main)
  BY <1>2, KeyTellsDurability DEF history_of
<1>6. writers[b] = Subsequence(WriterQoses, local[b])
  BY DEF Follows, WritersRead, UpToDate, writers_qos_on_topic
<1>7. local[b] \in SUBSET DOMAIN WriterQoses
  BY DEF TypeOK, Writers
<1>8. S = {v \in local[b] : WriterQoses[v].tl} /\ S # {}
  BY DEF TLWriters
<1>9. \A v \in S : f[v] = history_of(WriterQoses[v]).depth
  OBVIOUS
<1>10. WriterQoses \in Seq(EntityQoses)
  BY TopicQosAssumption
<1>11. history_of(q).kind # "KEEP_ALL"
  BY <1>4, <1>5
<1>12. TLSum(b) = SumFunctionOnSet(f, S)
  BY DEF TLSum
<1> HIDE DEF key
<1>13. /\ \A v \in S : f[v] \in Nat
       /\ history_of(q).depth \in Nat
       /\ history_of(q).depth >= Least(SumFunctionOnSet(f, S), MAX_TL_DEPTH)
  BY <1>1, <1>2, <1>6, <1>7, <1>10, <1>11, AnnouncedHistory DEF TLWriters
<1> HIDE DEF S, f
<1>14. SumFunctionOnSet(f, S) \in Nat
  <2>1. IsFiniteSet(S)
    <3>1. S \in SUBSET DOMAIN WriterQoses
      BY <1>7, <1>8
    <3> QED
      BY <1>10, <3>1, SequenceDomain
  <2> QED
    BY <1>13, <2>1, SumNatural
<1>15. \A v \in S : history_of(WriterQoses[v]).depth \in Nat
  BY <1>9, <1>13
<1> HIDE DEF q
<1> QED
  BY <1>4, <1>5, <1>12, <1>13, <1>14, <1>15 DEF S, key

\* The Writers of all bridges, added up bridge by bridge.
LEMMA SumByBridge ==
  ASSUME local \in [Bridges -> SUBSET Writers],
         \A b \in TLBridges : \A w \in TLWriters(b) : history_of(WriterQoses[w]).depth \in Nat
  PROVE  /\ IsFiniteSet(TLBridges)
         /\ \A b \in TLBridges : TLSum(b) \in Nat
         /\ SumFunctionOnSet(TransientLocalDepths, TransientLocalWriters)
              = SumFunctionOnSet([b \in TLBridges |-> TLSum(b)], TLBridges)
<1> DEFINE S == TransientLocalWriters
           f == TransientLocalDepths
           class == [p \in S |-> p[1]]
           Class(b) == {p \in S : class[p] = b}
           sums == [b \in TLBridges |-> SumFunctionOnSet(f, Class(b))]
           wanted == [b \in TLBridges |-> TLSum(b)]
<1>1. IsFiniteSet(TLBridges) /\ IsFiniteSet(Bridges) /\ IsFiniteSet(Writers)
  <2>1. IsFiniteSet(Bridges) /\ WriterQoses \in Seq(EntityQoses)
    BY TopicQosAssumption
  <2>2. TLBridges \in SUBSET Bridges
    BY DEF TLBridges
  <2> QED
    BY <2>1, <2>2, FS_Subset, SequenceDomain DEF Writers
<1>2. IsFiniteSet(S)
  <2>1. S \subseteq Bridges \X Writers
    BY DEF TransientLocalWriters
  <2>2. IsFiniteSet(Bridges \X Writers)
    BY <1>1, FS_Product
  <2> QED
    BY <2>1, <2>2, FS_Subset
<1>3. ASSUME NEW p \in S
      PROVE  /\ p = <<p[1], p[2]>> /\ p[1] \in TLBridges /\ p[2] \in TLWriters(p[1])
             /\ f[p] = history_of(WriterQoses[p[2]]).depth /\ f[p] \in Nat
  <2>1. /\ p = <<p[1], p[2]>> /\ p[1] \in Bridges /\ p[2] \in local[p[1]]
        /\ WriterQoses[p[2]].tl
    BY DEF TransientLocalWriters
  <2>2. p[2] \in TLWriters(p[1])
    BY <2>1 DEF TLWriters
  <2>3. p[1] \in TLBridges
    BY <2>1, <2>2 DEF TLBridges
  <2>4. f[p] = history_of(WriterQoses[p[2]]).depth
    BY DEF TransientLocalDepths
  <2> QED
    BY <2>1, <2>2, <2>3, <2>4
<1>4. ASSUME NEW b \in TLBridges, NEW w \in TLWriters(b)
      PROVE  <<b, w>> \in S
  BY DEF TLBridges, TLWriters, TransientLocalWriters
<1>5. \A p \in S : f[p] \in Int /\ class[p] \in TLBridges
  BY <1>3
<1>6. SumFunctionOnSet(f, S) = SumFunctionOnSet(sums, TLBridges)
  <2> HIDE DEF S, f, class
  <2> QED
    BY <1>1, <1>2, <1>5, SumOfClasses
<1>7. ASSUME NEW b \in TLBridges
      PROVE  SumFunctionOnSet(f, Class(b)) = TLSum(b) /\ TLSum(b) \in Nat
  <2> DEFINE W == TLWriters(b)
             C == Class(b)
             g == [w \in W |-> history_of(WriterQoses[w]).depth]
             second == [p \in C |-> p[2]]
             pair == [w \in W |-> <<b, w>>]
  <2>1. C \subseteq S /\ IsFiniteSet(C)
    BY <1>2, FS_Subset
  <2>2. IsFiniteSet(W)
    <3>1. W \subseteq Writers
      BY DEF TLWriters, TLBridges
    <3> QED
      BY <1>1, <3>1, FS_Subset
  <2>3. ASSUME NEW p \in C
        PROVE  p = <<b, p[2]>> /\ p[2] \in W /\ f[p] = g[p[2]] /\ f[p] \in Nat
    <3>1. p \in S /\ p[1] = b
      OBVIOUS
    <3> HIDE DEF S, f
    <3> QED
      BY <1>3, <3>1
  <2>4. ASSUME NEW w \in W PROVE <<b, w>> \in C /\ f[<<b, w>>] = g[w]
    <3>1. <<b, w>> \in S
      BY <1>4
    <3>2. <<b, w>> \in C
      BY <3>1
    <3>3. <<b, w>>[2] = w
      OBVIOUS
    <3> QED
      BY <2>3, <3>2, <3>3
  <2>5. \A w \in W : g[w] \in Nat
    OBVIOUS
  <2>6. TLSum(b) = SumFunctionOnSet(g, W)
    BY DEF TLSum
  <2>7. /\ \A p \in C : second[p] \in W /\ f[p] <= g[second[p]]
        /\ \A p, r \in C : second[p] = second[r] => p = r
        /\ \A p \in C : f[p] \in Nat
    <3>1. \A n \in Nat : n <= n
      OBVIOUS
    <3>2. \A p \in C : second[p] = p[2]
      OBVIOUS
    <3> HIDE DEF C, W, f, g, second
    <3> QED
      BY <2>3, <2>5, <3>1, <3>2
  <2>8. /\ \A w \in W : pair[w] \in C /\ g[w] <= f[pair[w]]
        /\ \A v, w \in W : pair[v] = pair[w] => v = w
    <3>1. \A n \in Nat : n <= n
      OBVIOUS
    <3>2. \A w \in W : pair[w] = <<b, w>>
      OBVIOUS
    <3> HIDE DEF C, W, f, g, pair
    <3>3. \A w \in W : pair[w] \in C /\ f[pair[w]] = g[w]
      BY <2>4, <3>2
    <3>4. \A v, w : <<b, v>> = <<b, w>> => v = w
      OBVIOUS
    <3>5. \A v, w \in W : pair[v] = pair[w] => v = w
      BY <3>2, <3>4
    <3> QED
      BY <2>5, <3>1, <3>3, <3>5
  <2> HIDE DEF C, W, f, g, second, pair, Class
  <2>9. SumFunctionOnSet(f, C) <= SumFunctionOnSet(g, W)
    BY <2>1, <2>2, <2>5, <2>7, SumDominates
  <2>10. SumFunctionOnSet(g, W) <= SumFunctionOnSet(f, C)
    BY <2>1, <2>2, <2>5, <2>7, <2>8, SumDominates
  <2>11. SumFunctionOnSet(g, W) \in Nat /\ SumFunctionOnSet(f, C) \in Nat
    BY <2>1, <2>2, <2>5, <2>7, SumNatural
  <2>12. SumFunctionOnSet(f, C) = SumFunctionOnSet(g, W)
    BY <2>9, <2>10, <2>11
  <2> QED
    BY <2>6, <2>11, <2>12 DEF C
<1>8. SumFunctionOnSet(sums, TLBridges) = SumFunctionOnSet(wanted, TLBridges)
  <2>1. \A b \in TLBridges : wanted[b] \in Int /\ sums[b] = wanted[b]
    BY <1>7
  <2> HIDE DEF sums, wanted
  <2> QED
    BY <1>1, <2>1, SumEqual
<1>9. \A b \in TLBridges : TLSum(b) \in Nat
  BY <1>7
<1> HIDE DEF S, f, sums
<1> QED
  BY <1>1, <1>6, <1>8, <1>9 DEF S, f

\* When everything has settled, the history of the receiving bridge's Writer has room for
\* all TRANSIENT_LOCAL Writers of all bridges.
LEMMA HeldWhenSettled ==
  SenderInv /\ ReceiverInv => HistoryHeld
<1> DEFINE desired == writers_qos_for_remote_writers(remote).main
           key(b) == qos_to_key_expr(token[b].main)
           S == {i \in DOMAIN remote : remote[i].qos.tl}
           depth == [i \in S |-> history_of(remote[i].qos).depth]
           capped == [b \in TLBridges |-> Least(TLSum(b), MAX_TL_DEPTH)]
           sums == [b \in TLBridges |-> TLSum(b)]
           total == SumFunctionOnSet(TransientLocalDepths, TransientLocalWriters)
<1> SUFFICES ASSUME SenderInv, ReceiverInv, Settled, TransientLocalWriters # {},
                    writer.main.ds.kind # "KEEP_ALL"
             PROVE  writer.main.ds.depth >= Least(total, MAX_TL_DEPTH)
  BY DEF HistoryHeld
<1>1. /\ \A b \in Bridges : TypeOK /\ Follows(b) /\ UpToDate(b) /\ channel[b] = <<>>
      /\ TypeOK /\ remote \in Seq(Announcements) /\ local \in [Bridges -> SUBSET Writers]
  BY DEF SenderInv, Settled, TypeOK
<1>2. ASSUME NEW b \in TLBridges
      PROVE  /\ b \in Bridges /\ TLWriters(b) # {}
             /\ \E i \in S : remote[i].bridge = b /\ remote[i].qos = key(b)
  <2>1. b \in Bridges /\ TLWriters(b) # {}
    BY DEF TLBridges
  <2>2. PICK w \in local[b] : WriterQoses[w].tl
    BY <2>1 DEF TLWriters
  <2>3. token[b].main \in EntityQoses /\ token[b].main.tl
    BY <1>1, <2>1, <2>2, SettledAnnouncements
  <2>4. key(b).tl
    BY <2>3, KeyTellsDurability
  <2>5. key(b) \in Keys(token[b]) /\ Keys(token[b]) \subseteq EntityQoses
    BY <1>1, <2>1, <2>3, HistoryTypes, KeysOfPair DEF TypeOK
  <2> HIDE DEF key
  <2>6. \E i \in DOMAIN remote : remote[i].bridge = b /\ remote[i].qos = key(b)
    BY <1>1, <2>1, <2>5, SettledServes
  <2> QED
    BY <2>1, <2>4, <2>6
<1> DEFINE pos == [b \in TLBridges |->
                     CHOOSE i \in S : remote[i].bridge = b /\ remote[i].qos = key(b)]
<1>3. \A b \in TLBridges :
        pos[b] \in S /\ remote[pos[b]].bridge = b /\ remote[pos[b]].qos = key(b)
  <2> HIDE DEF S, key
  <2> QED
    BY <1>2
<1>4. PICK b0 \in TLBridges : TRUE
  <2>1. PICK p \in TransientLocalWriters : TRUE
    OBVIOUS
  <2>2. p[1] \in TLBridges
    BY DEF TransientLocalWriters, TLBridges, TLWriters
  <2> QED
    BY <2>2
<1>5. S # {} /\ remote # <<>>
  BY <1>3, <1>4
<1>6. writer.main.ds = desired.ds
  <2>1. same_route_qos(writer.main, desired, FALSE)
    BY <1>5 DEF ReceiverInv, WriterFollows
  <2>2. writer.main # NoQos
    BY <1>5, ServingWriters
  <2> HIDE DEF desired
  <2> QED
    BY <2>1, <2>2, SamePolicies
<1>7. \A i \in S : depth[i] = history_of(remote[i].qos).depth
  OBVIOUS
<1> HIDE DEF depth, pos
<1>8. /\ \A i \in S : depth[i] \in Nat /\ history_of(remote[i].qos).kind # "KEEP_ALL"
      /\ desired.ds.depth \in Nat
      /\ desired.ds.depth >= Least(SumFunctionOnSet(depth, S), MAX_TL_DEPTH)
  BY <1>1, <1>5, <1>6, <1>7, OfferedHistory
<1> HIDE DEF desired, S
<1>9. \A b \in TLBridges : history_of(key(b)).kind # "KEEP_ALL"
  <2> HIDE DEF key
  <2> QED
    BY <1>3, <1>8
<1>10. ASSUME NEW b \in TLBridges
       PROVE  /\ \A w \in TLWriters(b) : history_of(WriterQoses[w]).depth \in Nat
              /\ TLSum(b) \in Nat
              /\ history_of(key(b)).depth \in Nat
              /\ history_of(key(b)).depth >= Least(TLSum(b), MAX_TL_DEPTH)
  BY <1>1, <1>2, <1>9, TokenHolds
<1> HIDE DEF key
<1>11. IsFiniteSet(TLBridges) /\ total = SumFunctionOnSet(sums, TLBridges)
  BY <1>1, <1>10, SumByBridge
<1>12. IsFiniteSet(S)
  <2>1. S \in SUBSET DOMAIN remote
    BY DEF S
  <2> QED
    BY <1>1, <2>1, SequenceDomain
<1>13. \A b \in TLBridges :
         /\ sums[b] \in Nat /\ capped[b] = Least(sums[b], MAX_TL_DEPTH) /\ capped[b] \in Nat
         /\ capped[b] <= depth[pos[b]]
  <2> TAKE b \in TLBridges
  <2>1. \A i \in Nat : Least(i, MAX_TL_DEPTH) \in Nat
    BY QosAssumption DEF Least
  <2>2. depth[pos[b]] = history_of(key(b)).depth
    BY <1>3, <1>7
  <2>3. \A i, j \in Nat : i >= j => j <= i
    OBVIOUS
  <2> QED
    BY <1>10, <2>1, <2>2, <2>3
<1>14. capped = [b \in TLBridges |-> Least(sums[b], MAX_TL_DEPTH)]
  OBVIOUS
<1> HIDE DEF capped, sums
<1>15. Least(total, MAX_TL_DEPTH) <= SumFunctionOnSet(capped, TLBridges)
  BY <1>11, <1>13, <1>14, QosAssumption, SumCapped
<1>16. SumFunctionOnSet(capped, TLBridges) <= SumFunctionOnSet(depth, S)
  <2>1. \A b \in TLBridges : pos[b] \in S /\ capped[b] \in Nat /\ capped[b] <= depth[pos[b]]
    BY <1>3, <1>13
  <2>2. \A b, c \in TLBridges : pos[b] = pos[c] => b = c
    BY <1>3
  <2>3. \A i \in S : depth[i] \in Nat
    BY <1>8
  <2> QED
    BY <1>11, <1>12, <2>1, <2>2, <2>3, SumDominates
<1>17. /\ SumFunctionOnSet(capped, TLBridges) \in Nat /\ SumFunctionOnSet(depth, S) \in Nat
       /\ total \in Nat
  BY <1>8, <1>11, <1>12, <1>13, SumNatural
<1>18. \A t, c, d, w \in Nat : \A m \in Nat :
         Least(t, m) <= c /\ c <= d /\ w >= Least(d, m) => w >= Least(t, m)
  BY DEF Least
<1> HIDE DEF total
<1> QED
  BY <1>6, <1>8, <1>15, <1>16, <1>17, <1>18, QosAssumption

\* When everything has settled, the durability service of the receiving bridge keeps the
\* depths of all TRANSIENT_LOCAL Writers of all bridges, up to MAX_TL_DEPTH, unless it keeps
\* everything.
THEOREM HistoriesAreHeld ==
  Spec => []HistoryHeld
<1> QED
  BY HeldWhenSettled, SenderInvariant, ReceiverInvariant, PTL

=============================================================================
