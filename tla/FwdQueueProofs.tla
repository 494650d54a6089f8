---------------------------- MODULE FwdQueueProofs ----------------------------
(***************************************************************************)
(* Theorems about the forward queue, for any Readers, payload sizes,       *)
(* limits and numbers of samples: the order of the samples, their number   *)
(* and their bytes, the two counts, and what the Drop of the route leaves. *)
(*                                                                         *)
(* The order follows from what a callback knows while it pushes: its       *)
(* sample is younger than all of its Reader's that were ever queued.  What *)
(* the Drop leaves follows from the listeners: none runs once its Reader   *)
(* is deleted, which a periodic task may do.  The counts follow from where *)
(* every item is (Places): each has one place, and its bytes are counted   *)
(* there.  The budget follows from the byte count: a callback that finds   *)
(* room sees all that is queued or sent, and overlooks at most one sample  *)
(* of each other Reader.                                                   *)
(***************************************************************************)
EXTENDS FwdQueue, FoldTheorems, TLAPS

Message == Sample \cup {Stop}

Stages == {"idle", "length", "empty", "bytes", "evict", "evicted", "add", "send", "full", "count"}

\* A callback that has not sent its sample yet.
Sending == {"length", "empty", "bytes", "evict", "evicted", "add", "send"}

\* What a sample is.
LEMMA SampleFacts ==
  ASSUME NEW m \in Sample
  PROVE  /\ m.reader \in Readers
         /\ m.n \in Nat /\ m.n >= 1
         /\ m # Stop /\ m # None
<1>1. m.reader \in Readers /\ m.n \in 1 .. MaxSamples
  BY DEF Sample
<1>2. m.n >= 1 /\ m.n \in Nat
  BY <1>1, FwdQueueAssumption
<1>3. Stop.n = -1 /\ None.n = 0
  BY DEF Stop, None
<1> QED
  BY <1>1, <1>2, <1>3

\* The queue after a pop.
LEMMA PoppedQueue ==
  ASSUME NEW M, NEW s \in Seq(M), s # <<>>
  PROVE  /\ Tail(s) \in Seq(M)
         /\ Len(Tail(s)) = Len(s) - 1
         /\ \A i \in 1 .. Len(Tail(s)) : i + 1 \in 1 .. Len(s) /\ Tail(s)[i] = s[i + 1]
         /\ Head(s) = s[1] /\ 1 \in 1 .. Len(s)
         /\ Len(s) \in Nat \ {0}
OBVIOUS

\* The queue after a push.
LEMMA PushedQueue ==
  ASSUME NEW M, NEW s \in Seq(M), NEW m \in M
  PROVE  /\ Append(s, m) \in Seq(M)
         /\ Len(Append(s, m)) = Len(s) + 1
         /\ \A i \in 1 .. Len(s) : Append(s, m)[i] = s[i]
         /\ Append(s, m)[Len(s) + 1] = m
         /\ Len(s) \in Nat
OBVIOUS

-----------------------------------------------------------------------------
(* The order of the samples. *)

QueueType ==
  /\ queue \in Seq(Message)
  /\ pc \in [Readers -> Stages]
  /\ sample \in [Readers -> Sample \cup {None}]
  /\ held \in Sample \cup {None}

\* The samples of a Reader are its own.
OwnSamples ==
  \A r \in Readers : /\ sample[r] # None => sample[r].reader = r
                     /\ pc[r] # "idle" => sample[r] # None

\* The n-th sample of a Reader is not younger than the last one taken, and older while
\* that one is not sent.
Older(r, n) == n <= sample[r].n /\ (pc[r] \in Sending => n < sample[r].n)

QueuedOlder == \A i \in Messages : Older(queue[i].reader, queue[i].n)
HeldOlder == held # None => Older(held.reader, held.n)

OrderInv == QueueType /\ OwnSamples /\ QueuedOlder /\ HeldOlder /\ InOrder

\* The messages are samples.
LEMMA MessagesAreSamples ==
  ASSUME QueueType
  PROVE  \A i \in Messages : /\ i \in 1 .. Len(queue)
                             /\ queue[i] \in Sample
                             /\ queue[i].reader \in Readers
                             /\ queue[i].n \in Nat
BY SampleFacts DEF QueueType, Messages, Message

\* A step of a callback that sends nothing.
LEMMA QuietSteps ==
  ASSUME OrderInv,
         UNCHANGED <<queue, sample, held>>,
         pc' \in [Readers -> Stages],
         \A r \in Readers : /\ pc'[r] # "idle" => pc[r] # "idle"
                            /\ pc'[r] \in Sending => pc[r] \in Sending
  PROVE  OrderInv'
<1>1. QueueType' /\ OwnSamples' /\ InOrder'
  BY DEF OrderInv, QueueType, OwnSamples, InOrder, Messages
<1>2. QueuedOlder'
  BY MessagesAreSamples DEF OrderInv, QueuedOlder, Older, Messages
<1>3. HeldOlder'
  BY SampleFacts DEF OrderInv, QueueType, HeldOlder, Older
<1> QED
  BY <1>1, <1>2, <1>3 DEF OrderInv

\* The oldest message is popped, and held if the forwarder popped a sample.
LEMMA PopsKeepOrder ==
  ASSUME OrderInv,
         queue # <<>>, queue' = Tail(queue),
         UNCHANGED sample,
         pc' \in [Readers -> Stages],
         \A r \in Readers : /\ pc'[r] # "idle" => pc[r] # "idle"
                            /\ pc'[r] \in Sending => pc[r] \in Sending,
         UNCHANGED held \/ (Head(queue) # Stop /\ held' = Head(queue))
  PROVE  OrderInv'
<1>1. /\ queue' \in Seq(Message)
      /\ Len(queue') = Len(queue) - 1
      /\ \A i \in 1 .. Len(queue') : i + 1 \in 1 .. Len(queue) /\ queue'[i] = queue[i + 1]
      /\ Head(queue) = queue[1] /\ 1 \in 1 .. Len(queue)
      /\ Len(queue) \in Nat \ {0}
  BY PoppedQueue DEF OrderInv, QueueType
<1>2. \A i \in Messages' : /\ i \in 1 .. Len(queue')
                           /\ i + 1 \in Messages
                           /\ queue'[i] = queue[i + 1]
  BY <1>1 DEF Messages
<1>3. Head(queue) # Stop => 1 \in Messages /\ queue[1] \in Sample
  BY <1>1 DEF Messages, OrderInv, QueueType, Message
<1>4. QueueType' /\ OwnSamples'
  BY <1>1, <1>3 DEF OrderInv, QueueType, OwnSamples
<1>5. QueuedOlder'
  BY <1>2, MessagesAreSamples DEF OrderInv, QueuedOlder, Older
<1>6. HeldOlder'
  <2>1. CASE UNCHANGED held
    BY <2>1, SampleFacts DEF OrderInv, QueueType, HeldOlder, Older
  <2>2. CASE Head(queue) # Stop /\ held' = Head(queue)
    BY <1>1, <1>3, <2>2, SampleFacts DEF OrderInv, QueuedOlder, HeldOlder, Older
  <2> QED
    BY <2>1, <2>2
<1>7. InOrder'
  <2> SUFFICES ASSUME NEW i \in Messages', NEW j \in Messages',
                      queue'[i].reader = queue'[j].reader
               PROVE  /\ i < j => queue'[i].n < queue'[j].n
                      /\ held' # None /\ held'.reader = queue'[i].reader =>
                           held'.n < queue'[i].n
    BY DEF InOrder
  <2>1. i < j => queue'[i].n < queue'[j].n
    <3>1. i < j => i + 1 < j + 1
      BY <1>1, <1>2
    <3> QED
      BY <1>2, <3>1 DEF OrderInv, InOrder
  <2>2. CASE UNCHANGED held
    BY <1>2, <2>1, <2>2 DEF OrderInv, InOrder
  <2>3. CASE Head(queue) # Stop /\ held' = Head(queue)
    <3>1. 1 < i + 1
      BY <1>1, <1>2
    <3> QED
      BY <1>1, <1>2, <1>3, <2>1, <2>3, <3>1 DEF OrderInv, InOrder
  <2> QED
    BY <2>1, <2>2, <2>3
<1> QED
  BY <1>4, <1>5, <1>6, <1>7 DEF OrderInv

\* A new sample is younger than all others of its Reader.
LEMMA BeginKeepsOrder ==
  ASSUME OrderInv, NEW r \in Readers, PushBegin(r)
  PROVE  OrderInv'
<1>1. PICK len \in Lens :
        sample' = [sample EXCEPT ![r] = [reader |-> r, n |-> sample[r].n + 1, len |-> len]]
  BY DEF PushBegin
<1> DEFINE new == [reader |-> r, n |-> sample[r].n + 1, len |-> len]
<1>2. /\ sample[r].n < MaxSamples
      /\ pc' = [pc EXCEPT ![r] = "length"]
      /\ UNCHANGED <<queue, held>>
  BY DEF PushBegin, Goto, queueVars, fwdVars
<1>3. sample[r].n \in Nat
  BY SampleFacts DEF OrderInv, QueueType, None
<1>4. new \in Sample /\ new.reader = r /\ new.n = sample[r].n + 1
  BY <1>2, <1>3, FwdQueueAssumption DEF Sample
<1> HIDE DEF new
<1>5. /\ sample' = [sample EXCEPT ![r] = new]
      /\ sample \in [Readers -> Sample \cup {None}]
      /\ pc \in [Readers -> Stages]
  BY <1>1 DEF new, OrderInv, QueueType
<1>6. /\ sample' \in [Readers -> Sample \cup {None}]
      /\ pc' \in [Readers -> Stages]
      /\ sample'[r] = new
      /\ \A q \in Readers \ {r} : sample'[q] = sample[q] /\ pc'[q] = pc[q]
  BY <1>2, <1>4, <1>5 DEF Stages
<1>7. QueueType' /\ InOrder'
  BY <1>2, <1>6 DEF OrderInv, QueueType, InOrder, Messages
<1>8. OwnSamples'
  BY <1>4, <1>6, SampleFacts DEF OrderInv, OwnSamples
<1>9. ASSUME NEW q \in Readers, NEW n \in Nat, Older(q, n) PROVE Older(q, n)'
  <2>1. CASE q = r
    BY <1>3, <1>4, <1>6, <1>9, <2>1 DEF Older
  <2>2. CASE q # r
    BY <1>6, <1>9, <2>2 DEF Older
  <2> QED
    BY <2>1, <2>2
<1>10. QueuedOlder'
  BY <1>2, <1>9, MessagesAreSamples DEF OrderInv, QueuedOlder, Messages
<1>11. HeldOlder'
  <2>1. held # None => held.reader \in Readers /\ held.n \in Nat
    BY SampleFacts DEF OrderInv, QueueType
  <2> QED
    BY <1>2, <1>9, <2>1 DEF OrderInv, HeldOlder
<1> QED
  BY <1>7, <1>8, <1>10, <1>11 DEF OrderInv

\* A message is queued: a sample by the callback that has taken it, or Stop.
LEMMA SendsKeepOrder ==
  ASSUME OrderInv, NEW m \in Message,
         queue' = Append(queue, m),
         UNCHANGED <<sample, held>>,
         \/ m = Stop /\ UNCHANGED pc
         \/ \E r \in Readers : /\ m = sample[r] /\ m # None
                               /\ pc[r] = "send"
                               /\ pc' = [pc EXCEPT ![r] = "count"]
  PROVE  OrderInv'
<1> DEFINE last == Len(queue) + 1
<1>1. /\ queue' \in Seq(Message)
      /\ Len(queue') = last
      /\ \A i \in 1 .. Len(queue) : queue'[i] = queue[i]
      /\ queue'[last] = m
      /\ Len(queue) \in Nat
  BY PushedQueue DEF OrderInv, QueueType
<1>2. \A i \in Messages' :
        \/ i \in Messages /\ queue'[i] = queue[i] /\ i < last
        \/ i = last /\ queue'[i] = m /\ m # Stop
  BY <1>1 DEF Messages
<1>3. /\ QueueType'
      /\ \A r \in Readers : /\ pc'[r] # "idle" => pc[r] # "idle"
                            /\ pc'[r] \in Sending => pc[r] \in Sending
  <2>1. pc \in [Readers -> Stages]
    BY DEF OrderInv, QueueType
  <2>2. /\ pc' \in [Readers -> Stages]
        /\ \A r \in Readers : /\ pc'[r] # "idle" => pc[r] # "idle"
                              /\ pc'[r] \in Sending => pc[r] \in Sending
    BY <2>1 DEF Stages, Sending
  <2> QED
    BY <1>1, <2>2 DEF OrderInv, QueueType
<1>4. OwnSamples'
  BY <1>3 DEF OrderInv, OwnSamples
<1>5. HeldOlder'
  BY <1>3, SampleFacts DEF OrderInv, QueueType, HeldOlder, Older
<1>6. m # Stop => /\ m \in Sample
                  /\ m.reader \in Readers
                  /\ m = sample[m.reader]
                  /\ pc[m.reader] = "send" /\ pc'[m.reader] = "count"
  BY SampleFacts DEF Message, OrderInv, OwnSamples, QueueType
<1>7. QueuedOlder'
  <2>1. m # Stop => Older(m.reader, m.n)'
    BY <1>6, SampleFacts DEF Older, Sending
  <2>2. \A i \in Messages : Older(queue[i].reader, queue[i].n)'
    BY <1>3, MessagesAreSamples DEF OrderInv, QueuedOlder, Older
  <2> QED
    BY <1>2, <2>1, <2>2 DEF QueuedOlder
<1>8. InOrder'
  <2> SUFFICES ASSUME NEW i \in Messages', NEW j \in Messages',
                      queue'[i].reader = queue'[j].reader
               PROVE  /\ i < j => queue'[i].n < queue'[j].n
                      /\ held' # None /\ held'.reader = queue'[i].reader =>
                           held'.n < queue'[i].n
    BY DEF InOrder
  <2>1. \A k \in Messages : m # Stop /\ queue[k].reader = m.reader => queue[k].n < m.n
    BY <1>6 DEF OrderInv, QueuedOlder, Older, Sending
  <2>2. m # Stop /\ held # None /\ held.reader = m.reader => held.n < m.n
    BY <1>6 DEF OrderInv, HeldOlder, Older, Sending
  <2>3. CASE i \in Messages /\ j \in Messages /\ queue'[i] = queue[i] /\ queue'[j] = queue[j]
    BY <2>3 DEF OrderInv, InOrder
  <2>4. CASE i \in Messages /\ queue'[i] = queue[i] /\ j = last /\ queue'[j] = m /\ m # Stop
    BY <2>1, <2>4 DEF OrderInv, InOrder
  <2>5. CASE i = last /\ queue'[i] = m /\ m # Stop
    <3>1. ~(i < j)
      BY <1>1, <1>2, <2>5 DEF Messages
    <3> QED
      BY <2>2, <2>5, <3>1
  <2> QED
    BY <1>2, <2>3, <2>4, <2>5
<1> QED
  BY <1>3, <1>4, <1>5, <1>7, <1>8 DEF OrderInv

\* The steps of a callback.
LEMMA PushKeepsOrder ==
  ASSUME OrderInv, NEW r \in Readers, Push(r)
  PROVE  OrderInv'
<1> USE DEF Goto, queueVars, fwdVars
<1>1. pc \in [Readers -> Stages] /\ pc[r] # "idle"
  BY DEF OrderInv, QueueType, Push, PushLength, PushEmpty, PushBytes, PushEvict, PushEvicted,
         PushAdd, PushSend, PushFull, PushCount
<1>2. ASSUME NEW where \in Stages, pc' = [pc EXCEPT ![r] = where],
             where \in Sending => pc[r] \in Sending
      PROVE  /\ pc' \in [Readers -> Stages]
             /\ \A q \in Readers : /\ pc'[q] # "idle" => pc[q] # "idle"
                                   /\ pc'[q] \in Sending => pc[q] \in Sending
  BY <1>1, <1>2
<1>3. CASE PushLength(r) \/ PushEmpty(r) \/ PushBytes(r) \/ PushEvicted(r) \/ PushAdd(r)
           \/ PushFull(r) \/ PushCount(r)
  <2>1. UNCHANGED <<queue, sample, held>>
    BY <1>3 DEF PushLength, PushEmpty, PushBytes, PushEvicted, PushAdd, PushFull, PushCount
  <2>2. \E where \in Stages : /\ pc' = [pc EXCEPT ![r] = where]
                              /\ where \in Sending => pc[r] \in Sending
    BY <1>3 DEF PushLength, PushEmpty, PushBytes, PushEvicted, PushAdd, PushFull, PushCount,
                Stages, Sending
  <2> QED
    BY <1>2, <2>1, <2>2, QuietSteps
<1>4. CASE PushEvict(r)
  <2>1. UNCHANGED <<sample, held>> /\ pc[r] \in Sending
    BY <1>4 DEF PushEvict, Sending
  <2>2. \E where \in Stages : pc' = [pc EXCEPT ![r] = where]
    BY <1>4 DEF PushEvict, Stages
  <2>3. UNCHANGED queue \/ (queue # <<>> /\ queue' = Tail(queue))
    BY <1>4 DEF PushEvict
  <2> QED
    BY <1>2, <2>1, <2>2, <2>3, QuietSteps, PopsKeepOrder
<1>5. CASE PushSend(r)
  <2>1. pc[r] = "send" /\ UNCHANGED <<sample, held>>
    BY <1>5 DEF PushSend
  <2>2. CASE queue' = Append(queue, sample[r]) /\ pc' = [pc EXCEPT ![r] = "count"]
    <3>1. sample[r] \in Sample /\ sample[r] # None
      BY <1>1 DEF OrderInv, OwnSamples, QueueType
    <3> QED
      BY <2>1, <2>2, <3>1, SendsKeepOrder DEF Message
  <2>3. CASE UNCHANGED queue /\ pc' = [pc EXCEPT ![r] = "full"]
    BY <1>2, <2>1, <2>3, QuietSteps DEF Stages, Sending
  <2> QED
    BY <1>5, <2>2, <2>3 DEF PushSend
<1> QED
  BY <1>3, <1>4, <1>5 DEF Push

\* The invariant of the order.
THEOREM OrderInvariant == Spec => []OrderInv
<1>1. Init => OrderInv
  BY DEF Init, OrderInv, QueueType, OwnSamples, QueuedOlder, HeldOlder, InOrder, Messages,
         Stages
<1>2. OrderInv /\ [Next]_vars => OrderInv'
  <2> SUFFICES ASSUME OrderInv, [Next]_vars PROVE OrderInv'
    OBVIOUS
  <2>1. ASSUME NEW r \in Readers, PushBegin(r) \/ Push(r) PROVE OrderInv'
    BY <2>1, BeginKeepsOrder, PushKeepsOrder
  <2>2. CASE Recv \/ Drain
    <3>1. UNCHANGED <<pc, sample>>
      BY <2>2 DEF Recv, Drain, pushVars
    <3>2. \/ /\ queue # <<>> /\ queue' = Tail(queue)
             /\ UNCHANGED held \/ (Head(queue) # Stop /\ held' = Head(queue))
          \/ UNCHANGED <<queue, held>>
      BY <2>2 DEF Recv, Drain
    <3>3. pc \in [Readers -> Stages]
      BY DEF OrderInv, QueueType
    <3> QED
      BY <3>1, <3>2, <3>3, QuietSteps, PopsKeepOrder
  <2>3. CASE \/ RecvTimeout \/ Received \/ Pick \/ Put \/ Drained
             \/ ActivateReaders \/ DeactivateReaders \/ DropReaders \/ DropFlag
             \/ \E present \in BOOLEAN : SetVolatileReader(present)
             \/ \E l \in Limits : Rebuild(l)
             \/ Terminated
             \/ UNCHANGED vars
    <3>1. UNCHANGED <<queue, sample, held, pc>>
      BY <2>3 DEF RecvTimeout, Received, Pick, Put, Drained, ActivateReaders,
                  DeactivateReaders, DropReaders, DropFlag, SetVolatileReader, Rebuild,
                  Terminated, vars, queueVars, pushVars, fwdVars
    <3>2. pc \in [Readers -> Stages]
      BY DEF OrderInv, QueueType
    <3> QED
      BY <3>1, <3>2, QuietSteps
  <2>4. CASE DropStop
    <3>1. UNCHANGED <<pc, sample, held>> /\ (UNCHANGED queue \/ queue' = Append(queue, Stop))
      BY <2>4 DEF DropStop, pushVars, fwdVars
    <3>2. Stop \in Message /\ pc \in [Readers -> Stages]
      BY DEF Message, OrderInv, QueueType
    <3> QED
      BY <3>1, <3>2, QuietSteps, SendsKeepOrder
  <2>5. CASE ChannelFreed
    <3>1. queue' = <<>> /\ UNCHANGED <<pc, sample, held>>
      BY <2>5 DEF ChannelFreed, pushVars, fwdVars
    <3>2. Messages' = {} /\ queue' \in Seq(Message)
      BY <3>1 DEF Messages
    <3> QED
      BY <3>1, <3>2, SampleFacts
         DEF OrderInv, QueueType, OwnSamples, QueuedOlder, HeldOlder, Older, InOrder
  <2> QED
    BY <2>1, <2>2, <2>3, <2>4, <2>5 DEF Next, Forwarder, Owner
<1> QED
  BY <1>1, <1>2, PTL DEF Spec

\* The samples of a Reader leave the queue in the order they came in, with any number of
\* callbacks that push and evict, and with the forwarder, the rebuilds and the Drop.
THEOREM SamplesInOrder == Spec => []InOrder
<1>1. OrderInv => InOrder
  BY DEF OrderInv
<1> QED
  BY <1>1, OrderInvariant, PTL

-----------------------------------------------------------------------------
(* The Drop and the limit, with listeners: a Reader is deleted after its callback. *)

\* A callback runs for a Reader that exists, the VOLATILE one only with its publisher.
Listening ==
  /\ \A r \in Readers : pc[r] # "idle" => r \in active
  /\ active \subseteq Readers
  /\ ~volatile => active \cap VolatileReaders = {}

\* The Drop deletes the Readers before anything tells the forwarder to end.
DropOrder ==
  /\ owner # "serving" => active = {}
  /\ fwd_stop => owner # "serving"
  /\ (\E i \in 1 .. Len(queue) : queue[i] = Stop) => owner # "serving"
  /\ fwd \in {"drain", "drained", "ended"} => owner # "serving"

\* The callbacks that have found room in the queue, and may not have sent yet.
Passed == {r \in Readers : pc[r] \in {"empty", "bytes", "add", "send"}}

\* The queue and what they will send exceed the limit by less than the number of Readers.
Bounded ==
  /\ limit \in Limits
  /\ Passed # {} => Len(queue) + Cardinality(Passed) < limit + Cardinality(Readers)

ListenInv == OrderInv /\ Listening /\ DropOrder /\ NothingRetained /\ Bounded

\* The number of callbacks that have found room.
LEMMA PassedCounted ==
  ASSUME NEW S \in SUBSET Readers
  PROVE  /\ IsFiniteSet(S)
         /\ Cardinality(S) \in Nat
         /\ Cardinality(S) <= Cardinality(Readers)
         /\ S = {} <=> Cardinality(S) = 0
         /\ Cardinality(Readers) \in Nat
         /\ \A r \in S : Cardinality(S \ {r}) = Cardinality(S) - 1
         /\ \A T \in SUBSET S : Cardinality(T) <= Cardinality(S)
BY FwdQueueAssumption, FS_Subset, FS_CardinalityType, FS_EmptySet, FS_RemoveElement

\* The limit after a step that adds nothing to the queue, or after one that is entitled to.
LEMMA BoundKept ==
  ASSUME OrderInv, OrderInv', Bounded,
         \/ Passed' = {} /\ limit' \in Limits
         \/ /\ limit' = limit
            /\ \/ Passed' \subseteq Passed /\ Len(queue') <= Len(queue)
               \/ Len(queue') < limit
               \/ \E r \in Passed : Passed' = Passed \ {r} /\ Len(queue') = Len(queue) + 1
  PROVE  Bounded'
<1>1. Passed \in SUBSET Readers /\ Passed' \in SUBSET Readers
  BY DEF Passed
<1>2. Len(queue) \in Nat /\ Len(queue') \in Nat
  BY DEF OrderInv, QueueType
<1>3. limit \in Nat
  BY FwdQueueAssumption DEF Bounded
<1>4. CASE Passed' = {} /\ limit' \in Limits
  BY <1>4 DEF Bounded
<1>5. CASE limit' = limit /\ Passed' \subseteq Passed /\ Len(queue') <= Len(queue)
  <2>1. Cardinality(Passed') <= Cardinality(Passed) /\ (Passed' # {} => Passed # {})
    BY <1>1, <1>5, PassedCounted
  <2>2. /\ Cardinality(Passed) \in Nat /\ Cardinality(Passed') \in Nat
        /\ Cardinality(Readers) \in Nat
    BY <1>1, PassedCounted
  <2> QED
    BY <1>2, <1>3, <1>5, <2>1, <2>2 DEF Bounded
<1>6. CASE limit' = limit /\ Len(queue') < limit
  <2>1. /\ Cardinality(Passed') \in Nat /\ Cardinality(Readers) \in Nat
        /\ Cardinality(Passed') <= Cardinality(Readers)
    BY <1>1, PassedCounted
  <2> QED
    BY <1>2, <1>3, <1>6, <2>1 DEF Bounded
<1>7. ASSUME limit' = limit, NEW r \in Passed, Passed' = Passed \ {r},
             Len(queue') = Len(queue) + 1
      PROVE  Bounded'
  <2>1. /\ Cardinality(Passed') = Cardinality(Passed) - 1
        /\ Cardinality(Passed) \in Nat /\ Cardinality(Readers) \in Nat
    BY <1>1, <1>7, PassedCounted
  <2> QED
    BY <1>2, <1>3, <1>7, <2>1 DEF Bounded
<1> QED
  BY <1>4, <1>5, <1>6, <1>7

\* The steps of a callback, while its Reader exists.
LEMMA PushKeepsListening ==
  ASSUME ListenInv, OrderInv', NEW r \in Readers, PushBegin(r) \/ Push(r)
  PROVE  ListenInv'
<1> USE DEF Goto, queueVars, fwdVars, ownerVars
<1>1. /\ UNCHANGED <<active, volatile, owner, fwd, fwd_stop, limit>>
      /\ r \in active
      /\ \A q \in Readers \ {r} : pc'[q] = pc[q]
      /\ pc \in [Readers -> Stages]
  BY DEF ListenInv, Listening, OrderInv, QueueType, PushBegin, Push, PushLength, PushEmpty,
         PushBytes, PushEvict, PushEvicted, PushAdd, PushSend, PushFull, PushCount
<1>2. Listening' /\ owner = "serving" /\ fwd \notin {"drain", "drained", "ended"} /\ ~fwd_stop
  BY <1>1 DEF ListenInv, Listening, DropOrder
<1>3. \/ UNCHANGED queue
      \/ queue # <<>> /\ queue' = Tail(queue)
      \/ pc[r] = "send" /\ queue' = Append(queue, sample[r])
  BY DEF PushBegin, Push, PushLength, PushEmpty, PushBytes, PushEvict, PushEvicted, PushAdd,
         PushSend, PushFull, PushCount
<1>4. queue \in Seq(Message) /\ ~\E i \in 1 .. Len(queue) : queue[i] = Stop
  BY <1>2 DEF ListenInv, OrderInv, QueueType, DropOrder
<1>5. ~\E i \in 1 .. Len(queue') : queue'[i] = Stop
  <2>1. CASE queue # <<>> /\ queue' = Tail(queue)
    BY <1>4, <2>1, PoppedQueue
  <2>2. CASE pc[r] = "send" /\ queue' = Append(queue, sample[r])
    <3>1. sample[r] \in Sample
      BY <2>2 DEF ListenInv, OrderInv, OwnSamples, QueueType
    <3>2. sample[r] # Stop /\ sample[r] \in Message
      BY <3>1, SampleFacts DEF Message
    <3>3. /\ Len(queue') = Len(queue) + 1 /\ Len(queue) \in Nat
          /\ \A i \in 1 .. Len(queue) : queue'[i] = queue[i]
          /\ queue'[Len(queue) + 1] = sample[r]
      BY <1>4, <2>2, <3>2, PushedQueue
    <3>4. \A i \in 1 .. Len(queue') : i \in 1 .. Len(queue) \/ i = Len(queue) + 1
      BY <3>3
    <3> QED
      BY <1>4, <3>2, <3>3, <3>4
  <2> QED
    BY <1>3, <1>4, <2>1, <2>2
<1>6. DropOrder' /\ NothingRetained'
  BY <1>1, <1>2, <1>5 DEF ListenInv, DropOrder, NothingRetained
<1>7. Bounded'
  <2>1. /\ queue # <<>> => Len(Tail(queue)) = Len(queue) - 1
        /\ Len(queue) \in Nat
        /\ limit \in Nat /\ limit >= 1
    BY <1>4, PoppedQueue, FwdQueueAssumption DEF ListenInv, Bounded
  <2>2. CASE \/ PushBegin(r) \/ PushEmpty(r) \/ PushBytes(r) \/ PushEvicted(r) \/ PushAdd(r)
             \/ PushFull(r) \/ PushCount(r)
    <3>1. UNCHANGED queue /\ Passed' \subseteq Passed
      BY <1>1, <2>2 DEF PushBegin, PushEmpty, PushBytes, PushEvicted, PushAdd, PushFull,
                        PushCount, Passed
    <3> QED
      BY <1>1, <2>1, <3>1, BoundKept DEF ListenInv
  <2>3. CASE PushLength(r)
    <3>1. UNCHANGED queue /\ (Passed' \subseteq Passed \/ Len(queue) < limit)
      <4>1. CASE Len(queue) >= limit
        BY <1>1, <2>3, <4>1 DEF PushLength, Passed
      <4> QED
        BY <2>1, <2>3, <4>1 DEF PushLength
    <3> QED
      BY <1>1, <2>1, <3>1, BoundKept DEF ListenInv
  <2>4. CASE PushEvict(r)
    <3>1. CASE queue = <<>> /\ UNCHANGED queue
      <4>1. Len(queue') < limit
        BY <2>1, <3>1
      <4> QED
        BY <1>1, <4>1, BoundKept DEF ListenInv
    <3>2. CASE queue # <<>> /\ queue' = Tail(queue)
      <4>1. Passed' \subseteq Passed
        BY <1>1, <2>4, <3>2 DEF PushEvict, Passed
      <4> QED
        BY <1>1, <2>1, <3>2, <4>1, BoundKept DEF ListenInv
    <3> QED
      BY <2>4, <3>1, <3>2 DEF PushEvict
  <2>5. CASE PushSend(r)
    <3>1. r \in Passed /\ Passed' = Passed \ {r}
      BY <1>1, <2>5 DEF PushSend, Passed
    <3>2. CASE UNCHANGED queue
      BY <1>1, <2>1, <3>1, <3>2, BoundKept DEF ListenInv
    <3>3. CASE queue' = Append(queue, sample[r])
      <4>1. Len(queue') = Len(queue) + 1
        BY <1>4, <3>3
      <4> QED
        BY <1>1, <3>1, <4>1, BoundKept DEF ListenInv
    <3> QED
      BY <2>5, <3>2, <3>3 DEF PushSend
  <2> QED
    BY <2>2, <2>3, <2>4, <2>5 DEF Push
<1> QED
  BY <1>2, <1>6, <1>7 DEF ListenInv

\* The forwarder only shortens the queue, and ends once it is empty after a Drop.
LEMMA ForwarderKeepsListening ==
  ASSUME ListenInv, OrderInv', Forwarder
  PROVE  ListenInv'
<1> USE DEF queueVars, pushVars, ownerVars
<1>1. /\ UNCHANGED <<pc, active, volatile, owner, fwd_stop, limit>>
      /\ \/ UNCHANGED queue
         \/ queue # <<>> /\ queue' = Tail(queue)
  BY DEF Forwarder, Recv, RecvTimeout, Received, Pick, Put, Drain, Drained
<1>2. /\ queue \in Seq(Message)
      /\ Len(queue) \in Nat
      /\ queue # <<>> => /\ 1 \in 1 .. Len(queue) /\ Head(queue) = queue[1]
                         /\ Len(Tail(queue)) = Len(queue) - 1
                         /\ \A i \in 1 .. Len(Tail(queue)) :
                              i + 1 \in 1 .. Len(queue) /\ Tail(queue)[i] = queue[i + 1]
  BY PoppedQueue DEF ListenInv, OrderInv, QueueType
<1>3. Listening'
  BY <1>1 DEF ListenInv, Listening
<1>4. fwd' \in {"drain", "drained", "ended"} => owner # "serving"
  <2>1. CASE Recv /\ Head(queue) = Stop
    BY <1>2, <2>1 DEF Recv, ListenInv, DropOrder
  <2>2. CASE Recv /\ Head(queue) # Stop
    BY <2>2 DEF Recv
  <2>3. CASE RecvTimeout \/ Received \/ Pick \/ Put \/ Drain \/ Drained
    BY <2>3 DEF RecvTimeout, Received, Pick, Put, Drain, Drained, ListenInv, DropOrder
  <2> QED
    BY <2>1, <2>2, <2>3 DEF Forwarder
<1>5. (\E i \in 1 .. Len(queue') : queue'[i] = Stop) => owner # "serving"
  BY <1>1, <1>2 DEF ListenInv, DropOrder
<1>6. DropOrder'
  BY <1>1, <1>4, <1>5 DEF ListenInv, DropOrder
<1>7. fwd' = "ended" => queue' = <<>>
  BY DEF Forwarder, Recv, RecvTimeout, Received, Pick, Put, Drain, Drained
<1>8. NothingRetained'
  BY <1>7 DEF NothingRetained, Messages
<1>9. Bounded'
  <2>1. Passed' = Passed /\ Len(queue') <= Len(queue)
    BY <1>1, <1>2 DEF Passed
  <2> QED
    BY <1>1, <2>1, BoundKept DEF ListenInv
<1> QED
  BY <1>3, <1>6, <1>8, <1>9 DEF ListenInv

\* The owner waits for the callbacks of the Readers that it deletes.
LEMMA OwnerKeepsListening ==
  ASSUME ~Periodic, ListenInv, OrderInv', Owner
  PROVE  ListenInv'
<1> USE DEF queueVars, pushVars, fwdVars, ownerVars, Deletable
<1>1. UNCHANGED <<pc, fwd>> /\ Passed' = Passed
  BY DEF Owner, ActivateReaders, DeactivateReaders, SetVolatileReader, Rebuild, DropReaders,
         DropFlag, DropStop, Passed
<1>2. Listening'
  <2>1. CASE DeactivateReaders \/ DropReaders \/ \E present \in BOOLEAN : SetVolatileReader(present)
    BY <1>1, <2>1 DEF DeactivateReaders, DropReaders, SetVolatileReader, ListenInv, Listening
  <2>2. CASE ActivateReaders
    <3>1. active \subseteq active' /\ active' \subseteq Readers
      BY <2>2, FwdQueueAssumption DEF ActivateReaders, ListenInv, Listening
    <3> QED
      BY <1>1, <2>2, <3>1 DEF ActivateReaders, ListenInv, Listening
  <2>3. CASE DropFlag \/ DropStop \/ \E l \in Limits : Rebuild(l)
    BY <1>1, <2>3 DEF DropFlag, DropStop, Rebuild, ListenInv, Listening
  <2> QED
    BY <2>1, <2>2, <2>3 DEF Owner
<1>3. active = {} => Passed = {}
  BY DEF ListenInv, Listening, Passed
<1>4. queue \in Seq(Message) /\ Len(queue) \in Nat
  BY DEF ListenInv, OrderInv, QueueType
<1>5. CASE DropStop
  <2>1. /\ owner = "flagged" /\ owner' = "dropped"
        /\ UNCHANGED <<active, fwd_stop, limit>>
        /\ active = {}
    BY <1>5 DEF DropStop, ListenInv, DropOrder
  <2>2. DropOrder'
    BY <1>1, <2>1 DEF DropOrder, ListenInv
  <2>3. Bounded'
    BY <1>1, <1>3, <2>1, BoundKept DEF ListenInv, Bounded
  <2>4. NothingRetained'
    <3>1. CASE UNCHANGED queue
      BY <1>1, <3>1 DEF ListenInv, NothingRetained, Messages
    <3>2. CASE queue' = Append(queue, Stop)
      <4>1. /\ Len(queue') = Len(queue) + 1
            /\ \A i \in 1 .. Len(queue) : queue'[i] = queue[i]
            /\ queue'[Len(queue) + 1] = Stop
        BY <1>4, <3>2, PushedQueue DEF Message
      <4>2. \A i \in DOMAIN queue' : i \in 1 .. Len(queue) \/ i = Len(queue) + 1
        BY <1>4, <3>2
      <4>3. Messages' \subseteq Messages
        BY <1>4, <4>1, <4>2 DEF Messages
      <4> QED
        BY <1>1, <4>3 DEF ListenInv, NothingRetained
    <3> QED
      BY <1>5, <3>1, <3>2 DEF DropStop
  <2> QED
    BY <1>2, <2>2, <2>3, <2>4 DEF ListenInv
<1>6. CASE \E l \in Limits : Rebuild(l)
  <2>1. UNCHANGED <<queue, active, owner, fwd_stop>> /\ active = {} /\ limit' \in Limits
    BY <1>6 DEF Rebuild
  <2>2. DropOrder' /\ NothingRetained'
    BY <1>1, <2>1 DEF ListenInv, DropOrder, NothingRetained, Messages
  <2>3. Bounded'
    BY <1>1, <1>3, <2>1, BoundKept DEF ListenInv
  <2> QED
    BY <1>2, <2>2, <2>3 DEF ListenInv
<1>7. CASE \/ ActivateReaders \/ DeactivateReaders \/ DropReaders \/ DropFlag
           \/ \E present \in BOOLEAN : SetVolatileReader(present)
  <2>1. UNCHANGED <<queue, limit>>
    BY <1>7 DEF ActivateReaders, DeactivateReaders, DropReaders, DropFlag, SetVolatileReader
  <2>2. DropOrder'
    BY <1>1, <1>7, <2>1 DEF ActivateReaders, DeactivateReaders, DropReaders, DropFlag,
                            SetVolatileReader, ListenInv, DropOrder
  <2>3. NothingRetained' /\ Bounded'
    BY <1>1, <2>1 DEF ListenInv, NothingRetained, Messages, Bounded
  <2> QED
    BY <1>2, <2>2, <2>3 DEF ListenInv
<1> QED
  BY <1>5, <1>6, <1>7 DEF Owner

\* Listeners are kept by every step.
LEMMA ListeningKept ==
  ASSUME ~Periodic, ListenInv, OrderInv', [Next]_vars
  PROVE  ListenInv'
<1>1. ASSUME NEW r \in Readers, PushBegin(r) \/ Push(r) PROVE ListenInv'
  BY <1>1, PushKeepsListening
<1>2. CASE Forwarder
  BY <1>2, ForwarderKeepsListening
<1>3. CASE Owner
  BY <1>3, OwnerKeepsListening
<1>4. CASE ChannelFreed
  BY <1>4 DEF ChannelFreed
<1>5. CASE Terminated \/ UNCHANGED vars
  <2>1. UNCHANGED <<queue, limit, pc, active, volatile, owner, fwd, fwd_stop>>
    BY <1>5 DEF Terminated, vars, queueVars, pushVars, fwdVars, ownerVars
  <2>2. Listening' /\ DropOrder' /\ NothingRetained' /\ Bounded'
    BY <2>1 DEF ListenInv, Listening, DropOrder, NothingRetained, Messages, Bounded, Passed
  <2> QED
    BY <2>2 DEF ListenInv
<1> QED
  BY <1>1, <1>2, <1>3, <1>4, <1>5 DEF Next

\* The invariant of a route whose Readers have listeners.
THEOREM ListenersInvariant ==
  ASSUME ~Periodic
  PROVE  Spec => []ListenInv
<1>1. Init /\ OrderInv => ListenInv
  BY DEF Init, ListenInv, Listening, DropOrder, NothingRetained, Messages, Bounded, Passed
<1>2. ListenInv /\ OrderInv' /\ [Next]_vars => ListenInv'
  BY ListeningKept
<1> QED
  BY <1>1, <1>2, OrderInvariant, PTL DEF Spec

\* The forwarder of a dropped route leaves no payload to a callback that keeps the channel,
\* however its end and the last pushes interleave.
THEOREM PayloadsFreed ==
  ASSUME ~Periodic
  PROVE  Spec => []NothingRetained
<1>1. ListenInv => NothingRetained
  BY DEF ListenInv
<1> QED
  BY <1>1, ListenersInvariant, PTL

\* The queue that a push leaves exceeds the limit by less than the number of Readers,
\* although the callbacks check it and send in separate steps, and rebuilds lower it.
THEOREM LimitKept ==
  ASSUME ~Periodic
  PROVE  Spec => [][\A r \in Readers : pc[r] = "send" /\ pc'[r] = "count" => WithinLimit]_vars
<1>1. ASSUME ListenInv, OrderInv', [Next]_vars,
             NEW r \in Readers, pc[r] = "send", pc'[r] = "count"
      PROVE  WithinLimit
  <2>1. PushSend(r) \/ UNCHANGED pc \/ (\E q \in Readers \ {r} : PushBegin(q) \/ Push(q))
    BY <1>1 DEF Next, Push, PushBegin, PushLength, PushEmpty, PushBytes, PushEvict, PushEvicted,
                PushAdd, PushSend, PushFull, PushCount, Forwarder, Recv, RecvTimeout, Received,
                Pick, Put, Drain, Drained, Owner, ActivateReaders, DeactivateReaders,
                SetVolatileReader, Rebuild, DropReaders, DropFlag, DropStop, ChannelFreed,
                Terminated, vars, pushVars
  <2>2. ASSUME NEW q \in Readers \ {r}, PushBegin(q) \/ Push(q) PROVE pc'[r] = pc[r]
    BY <1>1, <2>2 DEF Push, PushBegin, PushLength, PushEmpty, PushBytes, PushEvict, PushEvicted,
                PushAdd, PushSend, PushFull, PushCount, Goto, ListenInv, OrderInv, QueueType
  <2>3. PushSend(r)
    BY <1>1, <2>1, <2>2
  <2>4. queue' = Append(queue, sample[r]) /\ UNCHANGED limit
    BY <1>1, <2>3 DEF PushSend, Goto, ListenInv, OrderInv, QueueType
  <2>5. Len(queue') = Len(queue) + 1 /\ Len(queue) \in Nat
    BY <2>4, <1>1 DEF ListenInv, OrderInv, QueueType
  <2>6. r \in Passed /\ Passed \in SUBSET Readers
    BY <1>1 DEF Passed
  <2>7. Cardinality(Passed) >= 1 /\ Cardinality(Passed) \in Nat /\ Cardinality(Readers) \in Nat
    BY <2>6, PassedCounted
  <2>8. limit \in Nat
    BY <1>1, FwdQueueAssumption DEF ListenInv, Bounded
  <2>9. Len(queue') < limit + Cardinality(Readers)
    BY <1>1, <2>5, <2>6, <2>7, <2>8 DEF ListenInv, Bounded
  <2>10. Cardinality(Messages') <= Len(queue') /\ Cardinality(Messages') \in Nat
    <3>1. Messages' \in SUBSET (1 .. Len(queue')) /\ Len(queue') \in Nat
      BY <1>1, <2>5 DEF Messages, OrderInv, QueueType
    <3>2. IsFiniteSet(1 .. Len(queue')) /\ Cardinality(1 .. Len(queue')) = Len(queue')
      BY <3>1, FS_Interval
    <3> QED
      BY <3>1, <3>2, FS_Subset, FS_CardinalityType
  <2> QED
    BY <2>4, <2>5, <2>7, <2>8, <2>9, <2>10 DEF WithinLimit
<1>2. ListenInv /\ OrderInv' /\ [Next]_vars =>
        [\A r \in Readers : pc[r] = "send" /\ pc'[r] = "count" => WithinLimit]_vars
  BY <1>1
<1> QED
  BY <1>2, ListenersInvariant, OrderInvariant, PTL DEF Spec

-----------------------------------------------------------------------------
(* Where every item is. *)

\* The type invariant, but for the byte count.
Fields ==
  /\ queue \in Seq(Message)
  /\ Len(queue) <= FWD_QUEUE_MAX
  /\ limit \in Limits
  /\ dropped \in Nat
  /\ active \subseteq Readers
  /\ volatile \in BOOLEAN
  /\ pc \in [Readers -> Stages]
  /\ sample \in [Readers -> Sample \cup {None}]
  /\ popped \in [Readers -> Sample \cup {None, Stop}]
  /\ evicted \in [Readers -> Nat]
  /\ fwd \in {"recv", "received", "pick", "put", "drain", "drained", "ended"}
  /\ held \in Sample \cup {None}
  /\ fwd_stop \in BOOLEAN
  /\ owner \in {"serving", "deactivated", "flagged", "dropped"}
  /\ fate \in [Ids -> {"none", "pushed", "queued", "held", "forwarded", "failed", "skipped",
                       "evicted", "freed"}]

\* What a callback has evicted, and what the forwarder holds, is a sample.
Moved ==
  /\ \A r \in Readers : pc[r] = "evicted" => popped[r] \in Sample
  /\ fwd \in {"received", "pick", "put", "drained"} => held \in Sample

\* Every item is in one place: its fate is what the queue, the callbacks and the forwarder
\* have done with it.
Places ==
  /\ \A i \in 1 .. Len(queue) : fate[Id(queue[i])] = "queued"
  /\ \A i, j \in 1 .. Len(queue) : i # j => Id(queue[i]) # Id(queue[j])
  /\ \A r \in Readers : pc[r] \in Sending => fate[Id(sample[r])] = "pushed"
  /\ \A r \in Readers : \A n \in 1 .. MaxSamples :
       n > sample[r].n => fate[[reader |-> r, n |-> n]] = "none"
  /\ fwd \in {"received", "pick", "put"} => fate[Id(held)] = "held"
  /\ owner # "dropped" => fate[Stop] = "none"

PlaceInv == OrderInv /\ Fields /\ Moved /\ Places

\* The items by name.
LEMMA IdFacts ==
  /\ Stop \in Ids /\ Id(Stop) = Stop
  /\ \A m \in Sample : Id(m) \in Ids /\ Id(m).reader = m.reader /\ Id(m).n = m.n /\ Id(m) # Stop
  /\ \A m \in Message : Id(m) \in Ids
  /\ \A r \in Readers : \A n \in 1 .. MaxSamples :
       [reader |-> r, n |-> n] \in Ids /\ [reader |-> r, n |-> n] # Stop
  /\ \A m \in Sample : Id(m) = [reader |-> m.reader, n |-> m.n] /\ m.n \in 1 .. MaxSamples
<1>1. Stop \in Ids /\ Id(Stop) = Stop
  BY DEF Ids, Id
<1>2. ASSUME NEW r \in Readers, NEW n \in 1 .. MaxSamples
      PROVE  [reader |-> r, n |-> n] \in Ids /\ [reader |-> r, n |-> n] # Stop
  <2>1. n # -1
    BY FwdQueueAssumption
  <2>2. [reader |-> r, n |-> n].n = n /\ Stop.n = -1
    BY DEF Stop
  <2> QED
    BY <2>1, <2>2 DEF Ids
<1>3. ASSUME NEW m \in Sample
      PROVE  /\ Id(m) = [reader |-> m.reader, n |-> m.n]
             /\ m.n \in 1 .. MaxSamples /\ m.reader \in Readers
  BY SampleFacts DEF Id, Sample
<1>4. ASSUME NEW m \in Sample
      PROVE  Id(m) \in Ids /\ Id(m).reader = m.reader /\ Id(m).n = m.n /\ Id(m) # Stop
  BY <1>2, <1>3
<1> QED
  BY <1>1, <1>2, <1>3, <1>4 DEF Message

\* The fields keep their types.
LEMMA FieldsKept ==
  ASSUME OrderInv', Fields, Moved, [Next]_vars
  PROVE  Fields'
<1> USE DEF Goto, queueVars, pushVars, fwdVars, ownerVars
<1>1. /\ queue' \in Seq(Message)
      /\ pc' \in [Readers -> Stages]
      /\ sample' \in [Readers -> Sample \cup {None}]
      /\ held' \in Sample \cup {None}
  BY DEF OrderInv, QueueType
<1>2. queue # <<>> => /\ Head(queue) \in Message /\ Len(Tail(queue)) <= FWD_QUEUE_MAX
                      /\ Id(Head(queue)) \in Ids
  <2>1. queue # <<>> => /\ Head(queue) \in Message
                        /\ Len(Tail(queue)) = Len(queue) - 1 /\ Len(queue) \in Nat
    BY PoppedQueue DEF Fields
  <2> QED
    BY <2>1, IdFacts, FwdQueueAssumption DEF Fields
<1>3. \A m \in Message : Len(queue) < FWD_QUEUE_MAX => Len(Append(queue, m)) <= FWD_QUEUE_MAX
  BY PushedQueue, FwdQueueAssumption DEF Fields
<1>4. ASSUME NEW r \in Readers, PushBegin(r) PROVE Fields'
  <2>1. UNCHANGED <<queue, limit, dropped, active, volatile, popped, evicted, fwd, held, fwd_stop,
                    owner>>
    BY <1>4 DEF PushBegin
  <2>2. \E i : fate' = [fate EXCEPT ![i] = "pushed"]
    BY <1>4 DEF PushBegin
  <2> QED
    BY <1>1, <2>1, <2>2 DEF Fields
<1>5. ASSUME NEW r \in Readers, Push(r) PROVE Fields'
  <2>1. CASE PushLength(r) \/ PushEmpty(r) \/ PushBytes(r) \/ PushEvicted(r) \/ PushAdd(r)
             \/ PushFull(r)
    BY <1>1, <2>1 DEF PushLength, PushEmpty, PushBytes, PushEvicted, PushAdd, PushFull, Fields
  <2>2. CASE PushEvict(r)
    <3>1. UNCHANGED <<limit, dropped, active, volatile, fwd, held, fwd_stop, owner>>
      BY <2>2 DEF PushEvict
    <3>2. CASE queue = <<>> /\ UNCHANGED <<queue, popped, evicted, fate>>
      BY <1>1, <3>1, <3>2 DEF Fields
    <3>3. CASE queue # <<>>
      <4>1. /\ Len(queue') <= FWD_QUEUE_MAX
            /\ popped' = [popped EXCEPT ![r] = Head(queue)]
            /\ evicted' = [evicted EXCEPT ![r] = @ + 1]
            /\ \E i : fate' = [fate EXCEPT ![i] = "evicted"]
        BY <1>2, <2>2, <3>3 DEF PushEvict
      <4>2. popped' \in [Readers -> Sample \cup {None, Stop}]
        BY <1>2, <3>3, <4>1 DEF Fields, Message
      <4>3. evicted' \in [Readers -> Nat]
        BY <4>1 DEF Fields
      <4> QED
        BY <1>1, <3>1, <4>1, <4>2, <4>3 DEF Fields
    <3> QED
      BY <2>2, <3>2, <3>3 DEF PushEvict
  <2>3. CASE PushSend(r)
    <3>1. UNCHANGED <<limit, dropped, active, volatile, popped, fwd, held, fwd_stop, owner>>
      BY <2>3 DEF PushSend
    <3>2. \E i : \E f \in {"queued", "evicted"} : fate' = [fate EXCEPT ![i] = f]
      BY <2>3 DEF PushSend
    <3>3. evicted' \in [Readers -> Nat]
      BY <2>3 DEF PushSend, Fields
    <3>4. Len(queue') <= FWD_QUEUE_MAX
      BY <1>3, <2>3, <1>1 DEF PushSend, Fields, OrderInv, OwnSamples, Message
    <3> QED
      BY <1>1, <3>1, <3>2, <3>3, <3>4 DEF Fields
  <2>4. CASE PushCount(r)
    BY <1>1, <2>4 DEF PushCount, Fields
  <2> QED
    BY <1>5, <2>1, <2>2, <2>3, <2>4 DEF Push
<1>6. CASE Forwarder
  <2>1. UNCHANGED <<limit, dropped, active, volatile, popped, evicted, fwd_stop, owner>>
    BY <1>6 DEF Forwarder, Recv, RecvTimeout, Received, Pick, Put, Drain, Drained
  <2>2. UNCHANGED fate \/ \E i : \E f \in {"held", "skipped", "forwarded", "failed", "freed"} :
          fate' = [fate EXCEPT ![i] = f]
    BY <1>6 DEF Forwarder, Recv, RecvTimeout, Received, Pick, Put, Drain, Drained
  <2>3. fwd' \in {"recv", "received", "pick", "put", "drain", "drained", "ended"}
    BY <1>6 DEF Forwarder, Recv, RecvTimeout, Received, Pick, Put, Drain, Drained
  <2>4. Len(queue') <= FWD_QUEUE_MAX
    BY <1>2, <1>6 DEF Forwarder, Recv, RecvTimeout, Received, Pick, Put, Drain, Drained, Fields
  <2> QED
    BY <1>1, <2>1, <2>2, <2>3, <2>4 DEF Fields
<1>7. CASE Owner
  <2>1. UNCHANGED <<dropped, popped, evicted, fwd, held>>
    BY <1>7 DEF Owner, ActivateReaders, DeactivateReaders, SetVolatileReader, Rebuild, DropReaders,
                DropFlag, DropStop
  <2>2. /\ limit' \in Limits /\ active' \subseteq Readers /\ volatile' \in BOOLEAN
        /\ fwd_stop' \in BOOLEAN /\ owner' \in {"serving", "deactivated", "flagged", "dropped"}
    BY <1>7, FwdQueueAssumption
       DEF Owner, ActivateReaders, DeactivateReaders, SetVolatileReader, Rebuild, DropReaders,
           DropFlag, DropStop, Fields
  <2>3. CASE DropStop
    <3>1. Len(queue') <= FWD_QUEUE_MAX
      BY <1>3, <2>3 DEF DropStop, Fields, Message
    <3>2. UNCHANGED fate \/ fate' = [fate EXCEPT ![Stop] = "queued"]
      BY <2>3 DEF DropStop
    <3> QED
      BY <1>1, <2>1, <2>2, <3>1, <3>2 DEF Fields
  <2>4. CASE UNCHANGED <<queue, fate>>
    BY <1>1, <2>1, <2>2, <2>4 DEF Fields
  <2> QED
    BY <1>7, <2>3, <2>4 DEF Owner, ActivateReaders, DeactivateReaders, SetVolatileReader, Rebuild,
                            DropReaders, DropFlag
<1>8. CASE ChannelFreed
  <2>1. Len(queue') <= FWD_QUEUE_MAX
    BY <1>8, FwdQueueAssumption DEF ChannelFreed
  <2> QED
    BY <1>1, <1>8, <2>1 DEF ChannelFreed, Fields
<1>9. CASE Terminated \/ UNCHANGED vars
  BY <1>1, <1>9 DEF Terminated, vars, Fields
<1> QED
  BY <1>4, <1>5, <1>6, <1>7, <1>8, <1>9 DEF Next

\* What is moved is a sample: a callback and the forwarder tell Stop apart as they pop it.
LEMMA MovedKept ==
  ASSUME Fields, Fields', Moved, [Next]_vars
  PROVE  Moved'
<1> USE DEF Goto, queueVars, pushVars, fwdVars, ownerVars
<1>1. queue # <<>> => Head(queue) \in Message
  BY PoppedQueue DEF Fields
<1>2. ASSUME NEW r \in Readers, PushBegin(r) \/ Push(r), ~PushEvict(r) PROVE Moved'
  <2>1. UNCHANGED <<popped, fwd, held>>
    BY <1>2 DEF PushBegin, Push, PushLength, PushEmpty, PushBytes, PushEvicted, PushAdd, PushSend,
                PushFull, PushCount
  <2>2. \A q \in Readers : pc'[q] = "evicted" => pc[q] = "evicted"
    BY <1>2 DEF PushBegin, Push, PushLength, PushEmpty, PushBytes, PushEvicted, PushAdd, PushSend,
                PushFull, PushCount, Fields
  <2> QED
    BY <2>1, <2>2 DEF Moved
<1>3. ASSUME NEW r \in Readers, PushEvict(r) PROVE Moved'
  <2>1. \A q \in Readers \ {r} : pc'[q] = pc[q] /\ popped'[q] = popped[q]
    BY <1>3 DEF PushEvict, Fields
  <2>2. pc'[r] = "evicted" => popped'[r] \in Sample
    BY <1>1, <1>3 DEF PushEvict, Fields, Message
  <2>3. UNCHANGED <<fwd, held>>
    BY <1>3 DEF PushEvict
  <2> QED
    BY <2>1, <2>2, <2>3 DEF Moved
<1>4. CASE Forwarder
  <2>1. UNCHANGED <<pc, popped>>
    BY <1>4 DEF Forwarder, Recv, RecvTimeout, Received, Pick, Put, Drain, Drained
  <2>2. fwd' \in {"received", "pick", "put", "drained"} => held' \in Sample
    BY <1>1, <1>4 DEF Forwarder, Recv, RecvTimeout, Received, Pick, Put, Drain, Drained, Moved,
                      Message
  <2> QED
    BY <2>1, <2>2 DEF Moved
<1>5. CASE Owner \/ ChannelFreed \/ Terminated \/ UNCHANGED vars
  <2>1. UNCHANGED <<pc, popped, fwd, held>>
    BY <1>5 DEF Owner, ActivateReaders, DeactivateReaders, SetVolatileReader, Rebuild, DropReaders,
                DropFlag, DropStop, ChannelFreed, Terminated, vars
  <2> QED
    BY <2>1 DEF Moved
<1> QED
  BY <1>2, <1>3, <1>4, <1>5 DEF Next, Push

\* A step that moves no item.
LEMMA QuietKeepsPlaces ==
  ASSUME PlaceInv, UNCHANGED <<queue, sample, held, fate>>,
         \A r \in Readers : pc'[r] \in Sending => pc[r] \in Sending,
         fwd' \in {"received", "pick", "put"} => fwd \in {"received", "pick", "put"},
         owner' # "dropped" => owner # "dropped"
  PROVE  Places'
BY DEF PlaceInv, Places

\* An item is popped.
LEMMA PopKeepsPlaces ==
  ASSUME PlaceInv, queue # <<>>, queue' = Tail(queue), UNCHANGED <<sample, owner>>,
         \A r \in Readers : pc'[r] \in Sending => pc[r] \in Sending,
         NEW v \in {"held", "evicted", "freed"}, fate' = [fate EXCEPT ![Id(Head(queue))] = v],
         \/ UNCHANGED held /\ (fwd' \in {"received", "pick", "put"} =>
                                 fwd \in {"received", "pick", "put"})
         \/ held' = Head(queue) /\ v = "held"
         \/ fwd' \notin {"received", "pick", "put"}
  PROVE  Places'
<1>1. /\ Len(queue') = Len(queue) - 1
      /\ \A i \in 1 .. Len(queue') : i + 1 \in 1 .. Len(queue) /\ queue'[i] = queue[i + 1]
      /\ Head(queue) = queue[1] /\ 1 \in 1 .. Len(queue)
      /\ Head(queue) \in Message
  BY PoppedQueue DEF PlaceInv, Fields
<1> DEFINE h == Id(Head(queue))
<1>2. h \in Ids /\ fate[h] = "queued" /\ DOMAIN fate = Ids
  BY <1>1, IdFacts DEF PlaceInv, Places, Fields
<1>3. \A i \in Ids : i # h => fate'[i] = fate[i]
  BY DEF PlaceInv, Fields
<1>4. fate'[h] = v
  BY <1>2
<1>5. \A i \in 1 .. Len(queue') : Id(queue'[i]) # h /\ Id(queue'[i]) \in Ids
  <2> SUFFICES ASSUME NEW i \in 1 .. Len(queue') PROVE Id(queue'[i]) # h /\ Id(queue'[i]) \in Ids
    OBVIOUS
  <2>1. i + 1 \in 1 .. Len(queue) /\ i + 1 # 1 /\ queue'[i] = queue[i + 1]
    BY <1>1
  <2>2. queue[i + 1] \in Message
    BY <2>1 DEF PlaceInv, Fields
  <2> QED
    BY <1>1, <2>1, <2>2, IdFacts DEF PlaceInv, Places
<1>6. \A i \in 1 .. Len(queue') : fate'[Id(queue'[i])] = "queued"
  BY <1>1, <1>3, <1>5 DEF PlaceInv, Places
<1>7. \A i, j \in 1 .. Len(queue') : i # j => Id(queue'[i]) # Id(queue'[j])
  <2> SUFFICES ASSUME NEW i \in 1 .. Len(queue'), NEW j \in 1 .. Len(queue'), i # j
               PROVE  Id(queue'[i]) # Id(queue'[j])
    OBVIOUS
  <2>1. i + 1 # j + 1
    BY <1>1
  <2> QED
    BY <1>1, <2>1 DEF PlaceInv, Places
<1>8. \A r \in Readers : pc'[r] \in Sending => fate'[Id(sample'[r])] = "pushed"
  <2> SUFFICES ASSUME NEW r \in Readers, pc'[r] \in Sending
               PROVE  fate'[Id(sample'[r])] = "pushed"
    OBVIOUS
  <2>1. fate[Id(sample[r])] = "pushed" /\ sample[r] \in Sample
    BY DEF PlaceInv, Places, OrderInv, OwnSamples, Fields, Sending
  <2>2. Id(sample[r]) # h /\ Id(sample[r]) \in Ids
    BY <1>2, <2>1, IdFacts
  <2> QED
    BY <1>3, <2>1, <2>2
<1>9. \A r \in Readers : \A n \in 1 .. MaxSamples :
        n > sample'[r].n => fate'[[reader |-> r, n |-> n]] = "none"
  <2> SUFFICES ASSUME NEW r \in Readers, NEW n \in 1 .. MaxSamples, n > sample[r].n
               PROVE  fate'[[reader |-> r, n |-> n]] = "none"
    OBVIOUS
  <2>1. fate[[reader |-> r, n |-> n]] = "none" /\ [reader |-> r, n |-> n] \in Ids
    BY IdFacts DEF PlaceInv, Places
  <2> QED
    BY <1>2, <1>3, <2>1
<1>10. fwd' \in {"received", "pick", "put"} => fate'[Id(held')] = "held"
  <2>1. CASE UNCHANGED held /\ fwd \in {"received", "pick", "put"}
    <3>1. fate[Id(held)] = "held" /\ Id(held) \in Ids
      BY <2>1, IdFacts DEF PlaceInv, Places, Moved
    <3> QED
      BY <1>2, <1>3, <2>1, <3>1
  <2>2. CASE held' = Head(queue) /\ v = "held"
    BY <1>4, <2>2
  <2> QED
    BY <2>1, <2>2
<1>11. owner' # "dropped" => fate'[Stop] = "none"
  BY <1>2, <1>3, IdFacts DEF PlaceInv, Places
<1> QED
  BY <1>6, <1>7, <1>8, <1>9, <1>10, <1>11 DEF Places

\* A new item.
LEMMA BeginKeepsPlaces ==
  ASSUME PlaceInv, Fields', NEW r \in Readers, PushBegin(r)
  PROVE  Places'
<1> DEFINE n == sample[r].n + 1
           new == [reader |-> r, n |-> n]
<1>1. /\ UNCHANGED <<queue, fwd, held, owner>>
      /\ fate' = [fate EXCEPT ![new] = "pushed"]
      /\ sample[r].n < MaxSamples
      /\ \A q \in Readers \ {r} : pc'[q] = pc[q] /\ sample'[q] = sample[q]
  BY DEF PushBegin, queueVars, fwdVars, ownerVars, Goto, PlaceInv, Fields
<1>2. sample[r].n \in Nat
  BY SampleFacts DEF PlaceInv, Fields, None
<1>3. n \in 1 .. MaxSamples /\ n > sample[r].n
  BY <1>1, <1>2, FwdQueueAssumption
<1>4. new \in Ids /\ new # Stop /\ fate[new] = "none"
  BY <1>3, IdFacts DEF PlaceInv, Places
<1>5. \A i \in Ids : i # new => fate'[i] = fate[i]
  BY <1>1 DEF PlaceInv, Fields
<1>6. fate'[new] = "pushed"
  BY <1>1, <1>4 DEF PlaceInv, Fields
<1>7. sample'[r] \in Sample /\ sample'[r].reader = r /\ sample'[r].n = n
  <2>1. PICK len \in Lens : sample' = [sample EXCEPT ![r] = [reader |-> r, n |-> n, len |-> len]]
    BY DEF PushBegin
  <2>2. sample'[r] = [reader |-> r, n |-> n, len |-> len]
    BY <2>1 DEF PlaceInv, Fields
  <2> QED
    BY <1>3, <2>2 DEF Sample
<1>8. Id(sample'[r]) = new
  BY <1>7, IdFacts
<1> HIDE DEF n, new
<1>9. \A i \in 1 .. Len(queue) : fate'[Id(queue[i])] = "queued"
  BY <1>4, <1>5, IdFacts DEF PlaceInv, Places, Fields
<1>10. \A q \in Readers : pc'[q] \in Sending => fate'[Id(sample'[q])] = "pushed"
  <2> SUFFICES ASSUME NEW q \in Readers \ {r}, pc[q] \in Sending
               PROVE  fate'[Id(sample[q])] = "pushed"
    BY <1>1, <1>6, <1>8
  <2>1. fate[Id(sample[q])] = "pushed" /\ sample[q] \in Sample
    BY DEF PlaceInv, Places, OrderInv, OwnSamples, Fields, Sending
  <2> QED
    BY <1>5, <1>6, <2>1, IdFacts
<1>11. ASSUME NEW q \in Readers, NEW k \in 1 .. MaxSamples, k > sample'[q].n
       PROVE  fate'[[reader |-> q, n |-> k]] = "none"
  <2>1. [reader |-> q, n |-> k] \in Ids
    BY IdFacts
  <2>2. CASE q = r
    <3>1. k > n /\ k > sample[r].n
      BY <1>2, <1>7, <1>11, <2>2, FwdQueueAssumption DEF n
    <3>2. [reader |-> q, n |-> k] # new
      BY <1>2, <3>1, FwdQueueAssumption DEF n, new
    <3> QED
      BY <1>5, <2>1, <2>2, <3>1, <3>2 DEF PlaceInv, Places
  <2>3. CASE q # r
    <3>1. [reader |-> q, n |-> k] # new
      BY <2>3 DEF new
    <3> QED
      BY <1>1, <1>5, <1>11, <2>1, <2>3, <3>1 DEF PlaceInv, Places
  <2> QED
    BY <2>2, <2>3
<1>12. fwd' \in {"received", "pick", "put"} => fate'[Id(held')] = "held"
  <2> SUFFICES ASSUME fwd \in {"received", "pick", "put"} PROVE fate'[Id(held)] = "held"
    BY <1>1
  <2>1. fate[Id(held)] = "held" /\ Id(held) \in Ids
    BY IdFacts DEF PlaceInv, Places, Moved
  <2> QED
    BY <1>4, <1>5, <2>1
<1>13. owner' # "dropped" => fate'[Stop] = "none"
  BY <1>1, <1>4, <1>5, IdFacts DEF PlaceInv, Places
<1>14. \A i, j \in 1 .. Len(queue) : i # j => Id(queue[i]) # Id(queue[j])
  BY DEF PlaceInv, Places
<1> QED
  BY <1>1, <1>9, <1>10, <1>11, <1>12, <1>13, <1>14 DEF Places

\* A sample is sent, or refused by the channel.
LEMMA SendKeepsPlaces ==
  ASSUME PlaceInv, Fields', NEW r \in Readers, PushSend(r)
  PROVE  Places'
<1>1. /\ UNCHANGED <<sample, fwd, held, owner>>
      /\ pc[r] = "send" /\ pc'[r] \notin Sending
      /\ \A q \in Readers \ {r} : pc'[q] = pc[q]
  BY DEF PushSend, fwdVars, ownerVars, Goto, PlaceInv, Fields, Sending
<1> DEFINE m == sample[r]
<1>2. m \in Sample /\ m.reader = r /\ m \in Message
  BY <1>1 DEF PlaceInv, OrderInv, OwnSamples, Fields, Message
<1>3. Id(m) \in Ids /\ Id(m) # Stop /\ fate[Id(m)] = "pushed" /\ Id(m).reader = r
  BY <1>1, <1>2, IdFacts DEF PlaceInv, Places, Sending
<1>4. PICK v \in {"queued", "evicted"} :
        /\ fate' = [fate EXCEPT ![Id(m)] = v]
        /\ \/ v = "queued" /\ queue' = Append(queue, m)
           \/ UNCHANGED queue
  BY DEF PushSend
<1>5. \A i \in Ids : i # Id(m) => fate'[i] = fate[i]
  BY <1>4 DEF PlaceInv, Fields
<1>6. fate'[Id(m)] = v
  BY <1>3, <1>4 DEF PlaceInv, Fields
<1>7. /\ Len(queue) \in Nat
      /\ \A i \in 1 .. Len(queue) : Id(queue[i]) \in Ids /\ Id(queue[i]) # Id(m)
  BY <1>3, IdFacts DEF PlaceInv, Places, Fields
<1>8. \A i \in 1 .. Len(queue) : fate'[Id(queue[i])] = "queued"
  BY <1>5, <1>7 DEF PlaceInv, Places
<1>9. /\ \A i \in 1 .. Len(queue') : fate'[Id(queue'[i])] = "queued"
      /\ \A i, j \in 1 .. Len(queue') : i # j => Id(queue'[i]) # Id(queue'[j])
  <2>1. CASE UNCHANGED queue
    BY <1>8, <2>1 DEF PlaceInv, Places
  <2>2. CASE v = "queued" /\ queue' = Append(queue, m)
    <3>1. /\ Len(queue') = Len(queue) + 1
          /\ \A i \in 1 .. Len(queue) : queue'[i] = queue[i]
          /\ queue'[Len(queue) + 1] = m
      BY <1>2, <2>2, PushedQueue DEF PlaceInv, Fields
    <3>2. \A i \in 1 .. Len(queue') : i \in 1 .. Len(queue) \/ i = Len(queue) + 1
      BY <1>7, <3>1
    <3> QED
      BY <1>6, <1>7, <1>8, <2>2, <3>1, <3>2 DEF PlaceInv, Places
  <2> QED
    BY <1>4, <2>1, <2>2
<1>10. \A q \in Readers : pc'[q] \in Sending => fate'[Id(sample'[q])] = "pushed"
  <2> SUFFICES ASSUME NEW q \in Readers \ {r}, pc[q] \in Sending
               PROVE  fate'[Id(sample[q])] = "pushed"
    BY <1>1
  <2>1. fate[Id(sample[q])] = "pushed" /\ sample[q] \in Sample /\ sample[q].reader = q
    BY DEF PlaceInv, Places, OrderInv, OwnSamples, Fields, Sending
  <2>2. Id(sample[q]) \in Ids /\ Id(sample[q]) # Id(m)
    BY <1>3, <2>1, IdFacts
  <2> QED
    BY <1>5, <2>1, <2>2
<1>11. ASSUME NEW q \in Readers, NEW k \in 1 .. MaxSamples, k > sample'[q].n
       PROVE  fate'[[reader |-> q, n |-> k]] = "none"
  BY <1>1, <1>3, <1>5, <1>11, IdFacts DEF PlaceInv, Places
<1>12. fwd' \in {"received", "pick", "put"} => fate'[Id(held')] = "held"
  <2> SUFFICES ASSUME fwd \in {"received", "pick", "put"} PROVE fate'[Id(held)] = "held"
    BY <1>1
  <2>1. fate[Id(held)] = "held" /\ Id(held) \in Ids
    BY IdFacts DEF PlaceInv, Places, Moved
  <2> QED
    BY <1>3, <1>5, <2>1
<1>13. owner' # "dropped" => fate'[Stop] = "none"
  BY <1>1, <1>3, <1>5, IdFacts DEF PlaceInv, Places
<1> QED
  BY <1>9, <1>10, <1>11, <1>12, <1>13 DEF Places

\* The forwarder is done with its sample.
LEMMA DoneKeepsPlaces ==
  ASSUME PlaceInv, UNCHANGED <<queue, sample, pc, owner>>, fwd' = "recv",
         fwd \in {"pick", "put"}, NEW v, fate' = [fate EXCEPT ![Id(held)] = v]
  PROVE  Places'
<1>1. fate[Id(held)] = "held" /\ Id(held) \in Ids /\ Id(held) # Stop
  BY IdFacts DEF PlaceInv, Places, Moved
<1>2. \A i \in Ids : fate[i] # "held" => fate'[i] = fate[i]
  BY <1>1 DEF PlaceInv, Fields
<1>3. \A i \in 1 .. Len(queue) : Id(queue[i]) \in Ids
  BY IdFacts DEF PlaceInv, Fields
<1>4. \A r \in Readers : pc[r] \in Sending => Id(sample[r]) \in Ids
  BY IdFacts DEF PlaceInv, OrderInv, OwnSamples, Fields, Sending
<1> QED
  BY <1>1, <1>2, <1>3, <1>4, IdFacts DEF PlaceInv, Places

\* Stop is queued last.
LEMMA StopKeepsPlaces ==
  ASSUME PlaceInv, DropStop
  PROVE  Places'
<1>1. /\ UNCHANGED <<sample, pc, fwd, held>>
      /\ owner' = "dropped"
      /\ fate[Stop] = "none"
  BY DEF DropStop, pushVars, fwdVars, PlaceInv, Places
<1>2. CASE UNCHANGED <<queue, fate>>
  BY <1>1, <1>2 DEF PlaceInv, Places
<1>3. CASE queue' = Append(queue, Stop) /\ fate' = [fate EXCEPT ![Stop] = "queued"]
  <2>1. /\ Len(queue') = Len(queue) + 1 /\ Len(queue) \in Nat
        /\ \A i \in 1 .. Len(queue) : queue'[i] = queue[i]
        /\ queue'[Len(queue) + 1] = Stop
    BY <1>3, PushedQueue DEF PlaceInv, Fields, Message
  <2>2. \A i \in 1 .. Len(queue') : i \in 1 .. Len(queue) \/ i = Len(queue) + 1
    BY <2>1
  <2>3. /\ fate'[Stop] = "queued"
        /\ \A i \in Ids : i # Stop => fate'[i] = fate[i]
    BY <1>3, IdFacts DEF PlaceInv, Fields
  <2>4. \A i \in 1 .. Len(queue) : Id(queue[i]) \in Ids /\ Id(queue[i]) # Stop
    BY <1>1, IdFacts DEF PlaceInv, Places, Fields
  <2>5. /\ \A i \in 1 .. Len(queue') : fate'[Id(queue'[i])] = "queued"
        /\ \A i, j \in 1 .. Len(queue') : i # j => Id(queue'[i]) # Id(queue'[j])
    BY <2>1, <2>2, <2>3, <2>4, IdFacts DEF PlaceInv, Places
  <2>6. \A r \in Readers : pc[r] \in Sending => Id(sample[r]) \in Ids /\ Id(sample[r]) # Stop
    BY IdFacts DEF PlaceInv, OrderInv, OwnSamples, Fields, Sending
  <2>7. fwd \in {"received", "pick", "put"} => Id(held) \in Ids /\ Id(held) # Stop
    BY IdFacts DEF PlaceInv, Moved
  <2> QED
    BY <1>1, <2>3, <2>5, <2>6, <2>7, IdFacts DEF PlaceInv, Places
<1> QED
  BY <1>2, <1>3 DEF DropStop

\* The channel is freed once no callback and no thread uses it.
LEMMA FreedKeepsPlaces ==
  ASSUME PlaceInv, ChannelFreed
  PROVE  Places'
<1>1. /\ UNCHANGED <<sample, pc, fwd, held, owner>> /\ queue' = <<>>
      /\ owner = "dropped" /\ fwd = "ended" /\ \A r \in Readers : pc[r] = "idle"
  BY DEF ChannelFreed, pushVars, fwdVars, ownerVars
<1>2. ASSUME NEW r \in Readers, NEW n \in 1 .. MaxSamples, n > sample[r].n
      PROVE  fate'[[reader |-> r, n |-> n]] = "none"
  <2> DEFINE i == [reader |-> r, n |-> n]
  <2>1. i \in Ids /\ fate[i] = "none"
    BY <1>2, IdFacts DEF PlaceInv, Places
  <2>2. ~\E k \in DOMAIN queue : Id(queue[k]) = i
    <3>1. DOMAIN queue = 1 .. Len(queue)
      BY DEF PlaceInv, Fields
    <3>2. \A k \in 1 .. Len(queue) : fate[Id(queue[k])] = "queued"
      BY DEF PlaceInv, Places
    <3> HIDE DEF i
    <3> QED
      BY <2>1, <3>1, <3>2
  <2> QED
    BY <2>1, <2>2 DEF ChannelFreed
<1>3. \A i \in 1 .. Len(queue') : FALSE
  BY <1>1
<1> QED
  BY <1>1, <1>2, <1>3 DEF Places, Sending

\* The steps keep track of every item.
LEMMA PlacesKept ==
  ASSUME PlaceInv, Fields', [Next]_vars
  PROVE  Places'
<1> USE DEF Goto, queueVars, pushVars, fwdVars, ownerVars
<1>1. ASSUME NEW r \in Readers, PushBegin(r) PROVE Places'
  BY <1>1, BeginKeepsPlaces
<1>2. ASSUME NEW r \in Readers, Push(r) PROVE Places'
  <2>1. UNCHANGED <<sample, fwd, held, owner>>
    BY <1>2 DEF Push, PushLength, PushEmpty, PushBytes, PushEvict, PushEvicted, PushAdd, PushSend,
                PushFull, PushCount
  <2>2. pc \in [Readers -> Stages]
    BY DEF PlaceInv, Fields
  <2>3. CASE PushLength(r) \/ PushEmpty(r) \/ PushBytes(r) \/ PushEvicted(r) \/ PushAdd(r)
             \/ PushFull(r) \/ PushCount(r)
    <3>1. UNCHANGED <<queue, fate>>
      BY <2>3 DEF PushLength, PushEmpty, PushBytes, PushEvicted, PushAdd, PushFull, PushCount
    <3>2. \A q \in Readers : pc'[q] \in Sending => pc[q] \in Sending
      BY <2>2, <2>3 DEF PushLength, PushEmpty, PushBytes, PushEvicted, PushAdd, PushFull, PushCount,
                        Sending
    <3> QED
      BY <2>1, <3>1, <3>2, QuietKeepsPlaces
  <2>4. CASE PushEvict(r)
    <3>1. \A q \in Readers : pc'[q] \in Sending => pc[q] \in Sending
      BY <2>2, <2>4 DEF PushEvict, Sending
    <3>2. CASE UNCHANGED <<queue, fate>>
      BY <2>1, <3>1, <3>2, QuietKeepsPlaces
    <3>3. CASE queue # <<>> /\ queue' = Tail(queue)
               /\ fate' = [fate EXCEPT ![Id(Head(queue))] = "evicted"]
      BY <2>1, <3>1, <3>3, PopKeepsPlaces
    <3> QED
      BY <2>4, <3>2, <3>3 DEF PushEvict
  <2>5. CASE PushSend(r)
    BY <2>5, SendKeepsPlaces
  <2> QED
    BY <1>2, <2>3, <2>4, <2>5 DEF Push
<1>3. CASE Forwarder
  <2>1. UNCHANGED <<sample, pc, owner>>
    BY <1>3 DEF Forwarder, Recv, RecvTimeout, Received, Pick, Put, Drain, Drained
  <2>2. CASE Recv
    <3>1. /\ queue # <<>> /\ queue' = Tail(queue)
          /\ fate' = [fate EXCEPT ![Id(Head(queue))] = "held"]
          /\ held' = Head(queue) \/ fwd' = "drain"
      BY <2>2 DEF Recv
    <3> QED
      BY <2>1, <3>1, PopKeepsPlaces
  <2>3. CASE Drain /\ queue # <<>>
    <3>1. /\ queue' = Tail(queue)
          /\ fate' = [fate EXCEPT ![Id(Head(queue))] = "freed"]
          /\ fwd' \notin {"received", "pick", "put"}
      BY <2>3 DEF Drain
    <3> QED
      BY <2>1, <2>3, <3>1, PopKeepsPlaces
  <2>4. CASE (Drain /\ queue = <<>>) \/ RecvTimeout \/ Received \/ Drained
    <3>1. UNCHANGED <<queue, held, fate>>
      BY <2>4 DEF Drain, RecvTimeout, Received, Drained
    <3>2. fwd' \in {"received", "pick", "put"} => fwd \in {"received", "pick", "put"}
      BY <2>4 DEF Drain, RecvTimeout, Received, Drained
    <3> QED
      BY <2>1, <3>1, <3>2, QuietKeepsPlaces
  <2>5. CASE Pick
    <3>1. CASE fwd' = "put" /\ UNCHANGED fate
      <4>1. UNCHANGED <<queue, held>> /\ fwd = "pick"
        BY <2>5 DEF Pick
      <4> QED
        BY <2>1, <3>1, <4>1, QuietKeepsPlaces
    <3>2. CASE fwd' = "recv" /\ fate' = [fate EXCEPT ![Id(held)] = "skipped"]
      <4>1. UNCHANGED queue /\ fwd = "pick"
        BY <2>5 DEF Pick
      <4> QED
        BY <2>1, <3>2, <4>1, DoneKeepsPlaces
    <3> QED
      BY <2>5, <3>1, <3>2 DEF Pick
  <2>6. CASE Put
    <3>1. /\ UNCHANGED queue /\ fwd = "put" /\ fwd' = "recv"
          /\ \E v \in {"forwarded", "failed"} : fate' = [fate EXCEPT ![Id(held)] = v]
      BY <2>6 DEF Put
    <3> QED
      BY <2>1, <3>1, DoneKeepsPlaces
  <2> QED
    BY <1>3, <2>2, <2>3, <2>4, <2>5, <2>6 DEF Forwarder
<1>4. CASE Owner /\ ~DropStop
  <2>1. UNCHANGED <<queue, sample, pc, fwd, held, fate>>
    BY <1>4 DEF Owner, ActivateReaders, DeactivateReaders, SetVolatileReader, Rebuild, DropReaders,
                DropFlag
  <2>2. owner' # "dropped" => owner # "dropped"
    BY <1>4 DEF Owner, ActivateReaders, DeactivateReaders, SetVolatileReader, Rebuild, DropReaders,
                DropFlag
  <2> QED
    BY <2>1, <2>2, QuietKeepsPlaces
<1>5. CASE DropStop
  BY <1>5, StopKeepsPlaces
<1>6. CASE ChannelFreed
  BY <1>6, FreedKeepsPlaces
<1>7. CASE Terminated \/ UNCHANGED vars
  BY <1>7, QuietKeepsPlaces DEF Terminated, vars
<1> QED
  BY <1>1, <1>2, <1>3, <1>4, <1>5, <1>6, <1>7 DEF Next

\* Where every item is, is invariant.
THEOREM PlaceInvariant == Spec => []PlaceInv
<1>1. Init /\ OrderInv => PlaceInv
  <2> SUFFICES ASSUME Init, OrderInv PROVE PlaceInv
    OBVIOUS
  <2>1. Fields
    <3>1. /\ queue \in Seq(Message) /\ Len(queue) <= FWD_QUEUE_MAX /\ limit \in Limits
          /\ dropped \in Nat /\ evicted \in [Readers -> Nat]
      BY FwdQueueAssumption DEF Init
    <3>2. /\ sample \in [Readers -> Sample \cup {None}]
          /\ popped \in [Readers -> Sample \cup {None, Stop}]
          /\ held \in Sample \cup {None}
          /\ pc \in [Readers -> Stages]
      BY DEF Init, Stages
    <3> QED
      BY <3>1, <3>2 DEF Init, Fields
  <2>2. Moved
    BY DEF Init, Moved
  <2>3. Places
    BY IdFacts DEF Init, Places, Sending
  <2> QED
    BY <2>1, <2>2, <2>3 DEF PlaceInv
<1>2. PlaceInv /\ OrderInv' /\ [Next]_vars => PlaceInv'
  BY FieldsKept, MovedKept, PlacesKept DEF PlaceInv
<1> QED
  BY <1>1, <1>2, OrderInvariant, PTL DEF Spec

-----------------------------------------------------------------------------
(* The byte count. *)

\* What a callback has still to subtract, or has added before it sends.
Share(r) == CASE pc[r] \in {"send", "full"} -> sample[r].len
              [] pc[r] = "evicted" -> popped[r].len
              [] OTHER -> 0
HeldShare == IF fwd \in {"received", "drained"} THEN held.len ELSE 0
Shares == SumFunctionOnSet([r \in Readers |-> Share(r)], Readers)

\* The counted sizes are natural numbers.
LEMMA ShareFacts ==
  ASSUME PlaceInv
  PROVE  /\ \A m \in Message : Size(m) \in Nat
         /\ \A m \in Sample : Size(m) = m.len /\ m.len \in Lens /\ m.len \in Nat
         /\ Size(Stop) = 0
         /\ \A r \in Readers : Share(r) \in Nat
         /\ HeldShare \in Nat
<1>1. \A m \in Sample : Size(m) = m.len /\ m.len \in Lens /\ m.len \in Nat
  BY SampleFacts, FwdQueueAssumption DEF Sample, Size
<1>2. Size(Stop) = 0
  BY DEF Size
<1>3. \A m \in Message : Size(m) \in Nat
  BY <1>1, <1>2 DEF Message
<1>4. \A r \in Readers : Share(r) \in Nat
  <2> SUFFICES ASSUME NEW r \in Readers PROVE Share(r) \in Nat
    OBVIOUS
  <2>1. pc[r] \in {"send", "full"} => sample[r] \in Sample
    BY DEF PlaceInv, OrderInv, OwnSamples, Fields
  <2>2. pc[r] = "evicted" => popped[r] \in Sample
    BY DEF PlaceInv, Moved
  <2> QED
    BY <1>1, <2>1, <2>2 DEF Share
<1>5. HeldShare \in Nat
  BY <1>1 DEF HeldShare, PlaceInv, Moved
<1> QED
  BY <1>1, <1>2, <1>3, <1>4, <1>5

\* The sums of BytesExact.
LEMMA BytesUnfolded ==
  ASSUME PlaceInv
  PROVE  /\ QueuedBytes = SumFunctionOnSet([i \in 1 .. Len(queue) |-> Size(queue[i])],
                                           1 .. Len(queue))
         /\ PendingBytes = Shares + HeldShare
         /\ QueuedBytes \in Nat /\ Shares \in Nat
<1>1. DOMAIN queue = 1 .. Len(queue) /\ Len(queue) \in Nat
  BY DEF PlaceInv, Fields
<1>2. QueuedBytes = SumFunctionOnSet([i \in 1 .. Len(queue) |-> Size(queue[i])], 1 .. Len(queue))
  BY <1>1 DEF QueuedBytes, SumFunction
<1>3. PendingBytes = Shares + HeldShare
  BY DEF PendingBytes, SumFunction, Shares, Share, HeldShare
<1>4. ASSUME NEW S, IsFiniteSet(S), NEW f, \A x \in S : f[x] \in Nat
      PROVE  SumFunctionOnSet(f, S) \in Nat
  BY <1>4, SumNatural
<1>5. QueuedBytes \in Nat
  <2>1. IsFiniteSet(1 .. Len(queue))
    BY <1>1, FS_Interval
  <2>2. \A i \in 1 .. Len(queue) : [j \in 1 .. Len(queue) |-> Size(queue[j])][i] \in Nat
    BY <1>1, ShareFacts DEF PlaceInv, Fields
  <2> QED
    BY <1>2, <1>4, <2>1, <2>2
<1>6. Shares \in Nat
  <2>1. \A r \in Readers : [q \in Readers |-> Share(q)][r] \in Nat
    BY ShareFacts
  <2> QED
    BY <1>4, <2>1, FwdQueueAssumption DEF Shares
<1> QED
  BY <1>2, <1>3, <1>5, <1>6

\* The queued bytes after a push and after a pop.
LEMMA QueuedBytesChange ==
  ASSUME PlaceInv, PlaceInv'
  PROVE  /\ \A m \in Message : queue' = Append(queue, m) => QueuedBytes' = QueuedBytes + Size(m)
         /\ queue # <<>> /\ queue' = Tail(queue) => QueuedBytes = Size(Head(queue)) + QueuedBytes'
         /\ UNCHANGED queue => UNCHANGED QueuedBytes
         /\ queue = <<>> => QueuedBytes = 0
<1> DEFINE f == [i \in 1 .. Len(queue) |-> Size(queue[i])]
           g == [i \in 1 .. Len(queue') |-> Size(queue'[i])]
<1>1. /\ QueuedBytes = SumFunctionOnSet(f, 1 .. Len(queue))
      /\ QueuedBytes' = SumFunctionOnSet(g, 1 .. Len(queue'))
  <2>1. (PlaceInv => QueuedBytes = SumFunctionOnSet(f, 1 .. Len(queue)))'
    BY BytesUnfolded, PTL
  <2> QED
    BY <2>1, BytesUnfolded DEF Size
<1>2. Len(queue) \in Nat /\ \A i \in 1 .. Len(queue) : Size(queue[i]) \in Int
  BY ShareFacts DEF PlaceInv, Fields
<1>3. ASSUME NEW m \in Message, queue' = Append(queue, m)
      PROVE  QueuedBytes' = QueuedBytes + Size(m)
  <2>1. /\ Len(queue') = Len(queue) + 1
        /\ \A i \in 1 .. Len(queue) : queue'[i] = queue[i] /\ i \in 1 .. Len(queue')
        /\ queue'[Len(queue) + 1] = m /\ Len(queue) + 1 \in 1 .. Len(queue')
    BY <1>3, PushedQueue DEF PlaceInv, Fields
  <2>2. /\ \A i \in 1 .. Len(queue) : f[i] \in Int /\ g[i] = f[i]
        /\ g[Len(queue) + 1] = Size(m) /\ g[Len(queue) + 1] \in Int
    BY <1>2, <2>1, ShareFacts
  <2> HIDE DEF f, g
  <2>3. SumFunctionOnSet(g, 1 .. Len(queue) + 1)
          = SumFunctionOnSet(f, 1 .. Len(queue)) + g[Len(queue) + 1]
    BY <1>2, <2>2, SumAppended
  <2> QED
    BY <1>1, <2>1, <2>2, <2>3
<1>4. ASSUME queue # <<>>, queue' = Tail(queue)
      PROVE  QueuedBytes = Size(Head(queue)) + QueuedBytes'
  <2> DEFINE n == Len(queue) - 1
  <2>1. /\ Len(queue') = n /\ n \in Nat /\ Len(queue) = n + 1
        /\ \A i \in 1 .. n : i + 1 \in 1 .. n + 1 /\ queue'[i] = queue[i + 1]
        /\ Head(queue) = queue[1] /\ 1 \in 1 .. n + 1
    BY <1>4, PoppedQueue DEF PlaceInv, Fields
  <2>2. /\ \A i \in 1 .. n + 1 : f[i] \in Int
        /\ \A i \in 1 .. n : g[i] = f[i + 1]
        /\ f[1] = Size(Head(queue))
    BY <1>2, <2>1
  <2> HIDE DEF f, g, n
  <2>3. SumFunctionOnSet(f, 1 .. n + 1) = f[1] + SumFunctionOnSet(g, 1 .. n)
    BY <2>1, <2>2, SumTail
  <2> QED
    BY <1>1, <2>1, <2>2, <2>3
<1>5. queue = <<>> => QueuedBytes = 0
  <2>1. queue = <<>> => 1 .. Len(queue) = {}
    BY <1>2
  <2> HIDE DEF f
  <2> QED
    BY <1>1, <2>1, SumEmpty
<1>6. UNCHANGED queue => UNCHANGED QueuedBytes
  BY DEF QueuedBytes, Size
<1> QED
  BY <1>3, <1>4, <1>5, <1>6

\* The shares by themselves.
LEMMA ShareTypes == PlaceInv => \A r \in Readers : Share(r) \in Nat
BY ShareFacts

\* The shares after a step are natural numbers too.
LEMMA NextShares ==
  ASSUME PlaceInv'
  PROVE  \A r \in Readers : Share(r)' \in Nat
<1>1. (PlaceInv => \A r \in Readers : Share(r) \in Nat)'
  BY ShareTypes, PTL
<1> QED
  BY <1>1

\* The share of one callback changes.
LEMMA SharesChange ==
  ASSUME PlaceInv, PlaceInv', NEW p \in Readers,
         \A q \in Readers \ {p} : Share(q)' = Share(q)
  PROVE  Shares' = Shares - Share(p) + Share(p)'
<1> DEFINE f == [q \in Readers |-> Share(q)]
           g == [q \in Readers |-> Share(q)']
<1>1. Shares = SumFunctionOnSet(f, Readers) /\ Shares' = SumFunctionOnSet(g, Readers)
  BY DEF Shares
<1>2. \A q \in Readers : f[q] \in Int
  BY ShareFacts
<1>3. g[p] \in Int
  BY NextShares
<1>4. f[p] = Share(p) /\ g[p] = Share(p)' /\ \A q \in Readers \ {p} : g[q] = f[q]
  OBVIOUS
<1> HIDE DEF f, g
<1>5. SumFunctionOnSet(g, Readers) = SumFunctionOnSet(f, Readers) - f[p] + g[p]
  BY <1>2, <1>3, <1>4, FwdQueueAssumption, SumReplace
<1> QED
  BY <1>1, <1>4, <1>5

\* The shares do not change.
LEMMA SharesSame ==
  ASSUME \A q \in Readers : Share(q)' = Share(q)
  PROVE  Shares' = Shares
BY DEF Shares

\* The byte count changes with what is queued and what is moved.
LEMMA BytesKept ==
  ASSUME PlaceInv, PlaceInv', BytesExact, [Next]_vars
  PROVE  BytesExact'
<1> USE DEF Goto, queueVars, pushVars, fwdVars, ownerVars
<1>1. /\ QueuedBytes \in Nat /\ Shares \in Nat /\ HeldShare \in Nat
      /\ bytes = QueuedBytes + (Shares + HeldShare)
  BY BytesUnfolded, ShareFacts DEF BytesExact
<1>2. /\ QueuedBytes' \in Nat /\ Shares' \in Nat /\ HeldShare' \in Nat
      /\ PendingBytes' = Shares' + HeldShare'
      /\ \A r \in Readers : Share(r)' \in Nat
  <2>1. (PlaceInv => /\ QueuedBytes \in Nat /\ Shares \in Nat /\ HeldShare \in Nat
                     /\ PendingBytes = Shares + HeldShare
                     /\ \A r \in Readers : Share(r) \in Nat)'
    BY BytesUnfolded, ShareFacts, PTL
  <2> QED
    BY <2>1
<1>3. SUFFICES bytes' = QueuedBytes' + (Shares' + HeldShare')
  BY <1>2 DEF BytesExact
<1>4. \A r \in Readers : Share(r) \in Nat
  BY ShareFacts
<1>5. ASSUME NEW r \in Readers, PushBegin(r) \/ Push(r)
      PROVE  bytes' = QueuedBytes' + (Shares' + HeldShare')
  <2>1. HeldShare' = HeldShare
    BY <1>5 DEF PushBegin, Push, PushLength, PushEmpty, PushBytes, PushEvict, PushEvicted, PushAdd,
                PushSend, PushFull, PushCount, HeldShare
  <2>2. \A q \in Readers \ {r} : Share(q)' = Share(q)
    BY <1>5 DEF PushBegin, Push, PushLength, PushEmpty, PushBytes, PushEvict, PushEvicted, PushAdd,
                PushSend, PushFull, PushCount, Share, PlaceInv, Fields
  <2>3. Shares' = Shares - Share(r) + Share(r)'
    BY <2>2, SharesChange
  <2>4. pc[r] \in Stages /\ pc \in [Readers -> Stages]
    BY DEF PlaceInv, Fields
  <2>5. CASE PushBegin(r) \/ PushLength(r) \/ PushEmpty(r) \/ PushBytes(r) \/ PushCount(r)
    <3>1. UNCHANGED <<bytes, queue>> /\ Share(r) = 0 /\ Share(r)' = 0
      BY <2>4, <2>5 DEF PushBegin, PushLength, PushEmpty, PushBytes, PushCount, Share
    <3> QED
      BY <1>1, <1>2, <2>1, <2>3, <3>1, QueuedBytesChange
  <2>6. CASE PushEvict(r)
    <3>1. UNCHANGED bytes /\ Share(r) = 0
      BY <2>6 DEF PushEvict, Share
    <3>2. CASE queue = <<>> /\ UNCHANGED queue /\ pc' = [pc EXCEPT ![r] = "add"]
      <4>1. Share(r)' = 0
        BY <2>4, <3>2 DEF Share
      <4> QED
        BY <1>1, <1>2, <2>1, <2>3, <3>1, <3>2, <4>1, QueuedBytesChange
    <3>3. CASE queue # <<>> /\ queue' = Tail(queue)
      <4>1. Head(queue) \in Message
        BY <3>3, PoppedQueue DEF PlaceInv, Fields
      <4>2. Share(r)' = Size(Head(queue))
        <5>1. popped'[r] = Head(queue)
          BY <2>6, <3>3 DEF PushEvict, PlaceInv, Fields
        <5>2. pc'[r] = IF Head(queue) = Stop THEN "length" ELSE "evicted"
          BY <2>4, <2>6, <3>3 DEF PushEvict
        <5> QED
          BY <5>1, <5>2 DEF Share, Size
      <4>3. QueuedBytes = Size(Head(queue)) + QueuedBytes'
        BY <3>3, QueuedBytesChange
      <4>4. Size(Head(queue)) \in Nat
        BY <4>1, ShareFacts
      <4> QED
        BY <1>1, <1>2, <2>1, <2>3, <3>1, <4>2, <4>3, <4>4
    <3> QED
      BY <2>6, <3>2, <3>3 DEF PushEvict
  <2>7. CASE PushEvicted(r) \/ PushFull(r)
    <3>1. UNCHANGED queue /\ bytes' = bytes - Share(r) /\ Share(r)' = 0
      BY <2>4, <2>7 DEF PushEvicted, PushFull, Share
    <3> QED
      BY <1>1, <1>2, <1>4, <2>1, <2>3, <3>1, QueuedBytesChange
  <2>8. CASE PushAdd(r)
    <3>1. UNCHANGED queue /\ bytes' = bytes + Share(r)' /\ Share(r) = 0
      BY <2>4, <2>8 DEF PushAdd, Share
    <3> QED
      BY <1>1, <1>2, <1>4, <2>1, <2>3, <3>1, QueuedBytesChange
  <2>9. CASE PushSend(r)
    <3>1. UNCHANGED bytes /\ Share(r) = sample[r].len
      BY <2>9 DEF PushSend, Share
    <3>2. sample[r] \in Sample /\ sample[r] \in Message
      BY <2>9 DEF PushSend, PlaceInv, OrderInv, OwnSamples, Fields, Message
    <3>3. CASE queue' = Append(queue, sample[r]) /\ pc' = [pc EXCEPT ![r] = "count"]
      <4>1. Share(r)' = 0
        BY <2>4, <3>3 DEF Share
      <4>2. QueuedBytes' = QueuedBytes + Share(r)
        BY <3>1, <3>2, <3>3, QueuedBytesChange, ShareFacts
      <4> QED
        BY <1>1, <1>2, <1>4, <2>1, <2>3, <3>1, <4>1, <4>2
    <3>4. CASE UNCHANGED queue /\ pc' = [pc EXCEPT ![r] = "full"]
      <4>1. Share(r)' = Share(r)
        BY <2>4, <2>9, <3>1, <3>4 DEF Share, PushSend
      <4>2. QueuedBytes' = QueuedBytes
        BY <3>4, QueuedBytesChange
      <4>3. Shares' = Shares
        BY <1>1, <1>4, <2>3, <4>1
      <4> QED
        BY <1>1, <2>1, <3>1, <4>2, <4>3
    <3> QED
      BY <2>9, <3>3, <3>4 DEF PushSend
  <2> QED
    BY <1>5, <2>5, <2>6, <2>7, <2>8, <2>9 DEF Push
<1>6. CASE Forwarder
  <2>1. Shares' = Shares
    BY <1>6, SharesSame DEF Forwarder, Recv, RecvTimeout, Received, Pick, Put, Drain, Drained, Share
  <2>2. CASE Recv \/ (Drain /\ queue # <<>>)
    <3>1. UNCHANGED bytes /\ HeldShare = 0 /\ queue # <<>> /\ queue' = Tail(queue)
      BY <2>2 DEF Recv, Drain, HeldShare
    <3>2. HeldShare' = Size(Head(queue))
      BY <2>2 DEF Recv, Drain, HeldShare, Size
    <3>3. QueuedBytes = Size(Head(queue)) + QueuedBytes'
      BY <3>1, QueuedBytesChange
    <3> QED
      BY <1>1, <1>2, <2>1, <3>1, <3>2, <3>3
  <2>3. CASE Received \/ Drained
    <3>1. UNCHANGED queue /\ bytes' = bytes - HeldShare /\ HeldShare' = 0
      BY <2>3 DEF Received, Drained, HeldShare
    <3> QED
      BY <1>1, <1>2, <2>1, <3>1, QueuedBytesChange
  <2>4. CASE (Drain /\ queue = <<>>) \/ RecvTimeout \/ Pick \/ Put
    <3>1. UNCHANGED <<queue, bytes>> /\ HeldShare = 0 /\ HeldShare' = 0
      BY <2>4 DEF Drain, RecvTimeout, Pick, Put, HeldShare
    <3> QED
      BY <1>1, <1>2, <2>1, <3>1, QueuedBytesChange
  <2> QED
    BY <1>6, <2>2, <2>3, <2>4 DEF Forwarder
<1>7. CASE Owner \/ Terminated \/ UNCHANGED vars
  <2>1. UNCHANGED <<bytes, pc, sample, popped, fwd, held>>
    BY <1>7 DEF Owner, ActivateReaders, DeactivateReaders, SetVolatileReader, Rebuild, DropReaders,
                DropFlag, DropStop, Terminated, vars
  <2>2. Shares' = Shares /\ HeldShare' = HeldShare
    BY <2>1, SharesSame DEF Share, HeldShare
  <2>3. UNCHANGED queue \/ queue' = Append(queue, Stop)
    BY <1>7 DEF Owner, ActivateReaders, DeactivateReaders, SetVolatileReader, Rebuild, DropReaders,
                DropFlag, DropStop, Terminated, vars
  <2>4. QueuedBytes' = QueuedBytes
    <3>1. queue' = Append(queue, Stop) => QueuedBytes' = QueuedBytes + Size(Stop)
      BY QueuedBytesChange DEF Message
    <3>2. Size(Stop) = 0
      BY ShareFacts
    <3> QED
      BY <1>1, <2>3, <3>1, <3>2, QueuedBytesChange
  <2> QED
    BY <1>1, <2>1, <2>2, <2>4
<1>8. CASE ChannelFreed
  <2>1. /\ bytes' = 0 /\ queue' = <<>> /\ UNCHANGED <<pc, sample, popped, fwd, held>>
        /\ fwd = "ended" /\ \A r \in Readers : pc[r] = "idle"
    BY <1>8 DEF ChannelFreed
  <2>2. HeldShare' = 0
    BY <2>1 DEF HeldShare
  <2>3. Shares' = 0
    <3>1. \A r \in Readers : Share(r)' = 0
      BY <2>1 DEF Share
    <3> QED
      BY <3>1, FwdQueueAssumption, SumZero DEF Shares
  <2>4. QueuedBytes' = 0
    <3>1. SumFunctionOnSet([i \in 1 .. Len(queue') |-> Size(queue'[i])], {}) = 0
      BY SumEmpty
    <3>2. /\ DOMAIN queue' = {}
          /\ [i \in {} |-> Size(queue'[i])] = [i \in DOMAIN queue' |-> Size(queue'[i])]
      BY <2>1
    <3>3. QueuedBytes' = SumFunctionOnSet([i \in {} |-> Size(queue'[i])], {})
      BY <3>2 DEF QueuedBytes, SumFunction, Size
    <3> QED
      BY <3>3, SumEmpty
  <2> QED
    BY <2>1, <2>2, <2>3, <2>4
<1> QED
  BY <1>5, <1>6, <1>7, <1>8 DEF Next

\* BytesExact is invariant.
THEOREM BytesInvariant == Spec => [](PlaceInv /\ BytesExact)
<1>1. Init /\ PlaceInv => BytesExact
  <2> SUFFICES ASSUME Init, PlaceInv PROVE BytesExact
    OBVIOUS
  <2>1. QueuedBytes = 0 /\ HeldShare = 0 /\ bytes = 0
    <3>1. DOMAIN queue = {} /\ queue = <<>>
      BY DEF Init
    <3>2. QueuedBytes = SumFunctionOnSet([i \in {} |-> Size(queue[i])], {})
      BY <3>1 DEF QueuedBytes, SumFunction
    <3> QED
      BY <3>2, SumEmpty DEF Init, HeldShare
  <2>2. Shares = 0
    <3>1. \A r \in Readers : Share(r) = 0
      BY DEF Init, Share
    <3> QED
      BY <3>1, FwdQueueAssumption, SumZero DEF Shares
  <2> QED
    BY <2>1, <2>2, BytesUnfolded DEF BytesExact
<1>2. PlaceInv /\ BytesExact /\ PlaceInv' /\ [Next]_vars => BytesExact'
  BY BytesKept
<1> QED
  BY <1>1, <1>2, PlaceInvariant, PTL DEF Spec

-----------------------------------------------------------------------------
(* The count of the dropped samples. *)

EvictedIds == {i \in Ids : fate[i] = "evicted"}
Evictions == SumFunctionOnSet(evicted, Readers)
DroppedInv == IsFiniteSet(EvictedIds) /\ dropped + Evictions = Cardinality(EvictedIds)

\* DroppedInv is DroppedExact, of a finite number of items.
LEMMA DroppedUnfolded ==
  ASSUME PlaceInv, DroppedInv
  PROVE  DroppedExact
<1>1. DOMAIN evicted = Readers
  BY DEF PlaceInv, Fields
<1> QED
  BY <1>1 DEF DroppedInv, EvictedIds, Evictions, DroppedExact, SumFunction

\* The sum of the local counts is a natural number.
LEMMA EvictionsType ==
  ASSUME PlaceInv
  PROVE  Evictions \in Nat
<1>1. \A r \in Readers : evicted[r] \in Nat
  BY DEF PlaceInv, Fields
<1> QED
  BY <1>1, FwdQueueAssumption, SumNatural DEF Evictions

\* The local count of one callback changes.
LEMMA EvictionsChange ==
  ASSUME PlaceInv, NEW r \in Readers, NEW g, g[r] \in Int,
         \A q \in Readers \ {r} : g[q] = evicted[q]
  PROVE  SumFunctionOnSet(g, Readers) = Evictions - evicted[r] + g[r]
<1>1. \A q \in Readers : evicted[q] \in Int
  BY DEF PlaceInv, Fields
<1> QED
  BY <1>1, FwdQueueAssumption, SumReplace DEF Evictions

\* An item that is not evicted yet is evicted, or something else becomes of it.
LEMMA EvictedChange ==
  ASSUME PlaceInv, NEW i \in Ids, fate[i] # "evicted", NEW what,
         fate' = [fate EXCEPT ![i] = what]
  PROVE  /\ what = "evicted" => EvictedIds' = EvictedIds \cup {i} /\ i \notin EvictedIds
         /\ what # "evicted" => EvictedIds' = EvictedIds
<1>1. fate'[i] = what /\ \A j \in Ids \ {i} : fate'[j] = fate[j]
  BY DEF PlaceInv, Fields
<1> QED
  BY <1>1 DEF EvictedIds

\* Nothing is evicted and nothing is counted.
LEMMA DroppedSame ==
  ASSUME DroppedInv, EvictedIds' = EvictedIds, UNCHANGED <<dropped, evicted>>
  PROVE  DroppedInv'
BY DEF DroppedInv, Evictions

\* One more item is evicted, and counted in the push of a callback.
LEMMA DroppedOneMore ==
  ASSUME PlaceInv, DroppedInv, NEW r \in Readers, NEW i,
         EvictedIds' = EvictedIds \cup {i}, i \notin EvictedIds,
         UNCHANGED dropped, evicted' = [evicted EXCEPT ![r] = @ + 1]
  PROVE  DroppedInv'
<1>1. /\ IsFiniteSet(EvictedIds')
      /\ Cardinality(EvictedIds') = Cardinality(EvictedIds) + 1
  BY FS_AddElement DEF DroppedInv
<1>2. /\ \A q \in Readers : evicted[q] \in Int
      /\ evicted'[r] = evicted[r] + 1 /\ evicted'[r] \in Int
      /\ \A q \in Readers \ {r} : evicted'[q] = evicted[q]
  BY DEF PlaceInv, Fields
<1>3. Evictions' = Evictions - evicted[r] + evicted'[r]
  BY <1>2, EvictionsChange DEF Evictions
<1>4. Evictions \in Nat /\ dropped \in Nat
  BY EvictionsType DEF PlaceInv, Fields
<1>5. Evictions' = Evictions + 1
  BY <1>2, <1>3, <1>4
<1> QED
  BY <1>1, <1>4, <1>5 DEF DroppedInv

\* A push ends: its count moves to the count of the queue.
LEMMA DroppedCounted ==
  ASSUME PlaceInv, DroppedInv, NEW r \in Readers, PushCount(r)
  PROVE  DroppedInv'
<1>1. EvictedIds' = EvictedIds
  BY DEF PushCount, EvictedIds
<1>2. /\ \A q \in Readers : evicted[q] \in Int
      /\ evicted'[r] = 0 /\ evicted'[r] \in Int /\ evicted[r] \in Nat
      /\ \A q \in Readers \ {r} : evicted'[q] = evicted[q]
  BY DEF PlaceInv, Fields, PushCount
<1>3. Evictions' = Evictions - evicted[r] + evicted'[r]
  BY <1>2, EvictionsChange DEF Evictions
<1>4. Evictions \in Nat /\ dropped \in Nat /\ dropped' = dropped + evicted[r]
  BY EvictionsType DEF PlaceInv, Fields, PushCount
<1>5. dropped' + Evictions' = dropped + Evictions
  BY <1>2, <1>3, <1>4
<1> QED
  BY <1>1, <1>5 DEF DroppedInv

\* The item at the head of the queue is not evicted yet, nor are those that are held or
\* being pushed.
LEMMA NotEvictedYet ==
  ASSUME PlaceInv
  PROVE  /\ queue # <<>> => Id(Head(queue)) \in Ids /\ fate[Id(Head(queue))] # "evicted"
         /\ \A r \in Readers : pc[r] \in Sending =>
              Id(sample[r]) \in Ids /\ fate[Id(sample[r])] # "evicted"
         /\ fwd \in {"received", "pick", "put"} =>
              Id(held) \in Ids /\ fate[Id(held)] # "evicted"
<1>1. ASSUME queue # <<>>
      PROVE  Id(Head(queue)) \in Ids /\ fate[Id(Head(queue))] # "evicted"
  <2>1. Head(queue) = queue[1] /\ 1 \in 1 .. Len(queue) /\ Head(queue) \in Message
    BY <1>1, PoppedQueue DEF PlaceInv, Fields
  <2> QED
    BY <2>1, IdFacts DEF PlaceInv, Places
<1>2. ASSUME NEW r \in Readers, pc[r] \in Sending
      PROVE  Id(sample[r]) \in Ids /\ fate[Id(sample[r])] # "evicted"
  <2>1. sample[r] \in Sample
    BY <1>2 DEF PlaceInv, OrderInv, OwnSamples, Sending, Fields
  <2> QED
    BY <1>2, <2>1, IdFacts DEF PlaceInv, Places
<1>3. ASSUME fwd \in {"received", "pick", "put"}
      PROVE  Id(held) \in Ids /\ fate[Id(held)] # "evicted"
  BY <1>3, IdFacts DEF PlaceInv, Moved, Places
<1> QED
  BY <1>1, <1>2, <1>3

\* Whatever is evicted is counted.
LEMMA DroppedKept ==
  ASSUME PlaceInv, DroppedInv, [Next]_vars
  PROVE  DroppedInv'
<1> USE DEF queueVars, pushVars, fwdVars, ownerVars
<1>1. ASSUME NEW r \in Readers, PushBegin(r) PROVE DroppedInv'
  <2> DEFINE i == [reader |-> r, n |-> sample[r].n + 1]
  <2>1. sample[r].n + 1 \in 1 .. MaxSamples /\ sample[r].n + 1 > sample[r].n
    <3>1. sample[r].n \in Nat
      BY SampleFacts DEF PlaceInv, Fields, None
    <3> QED
      BY <1>1, <3>1, FwdQueueAssumption DEF PushBegin
  <2>2. i \in Ids /\ fate[i] # "evicted"
    BY <2>1, IdFacts DEF PlaceInv, Places
  <2>3. EvictedIds' = EvictedIds
    <3>1. fate' = [fate EXCEPT ![i] = "pushed"]
      BY <1>1 DEF PushBegin
    <3> QED
      BY <2>2, <3>1, EvictedChange
  <2> QED
    BY <1>1, <2>3, DroppedSame DEF PushBegin
<1>2. ASSUME NEW r \in Readers, PushEvict(r) PROVE DroppedInv'
  <2>1. CASE UNCHANGED <<evicted, fate>>
    BY <1>2, <2>1, DroppedSame DEF PushEvict, EvictedIds
  <2>2. CASE /\ queue # <<>>
             /\ evicted' = [evicted EXCEPT ![r] = @ + 1]
             /\ fate' = [fate EXCEPT ![Id(Head(queue))] = "evicted"]
    <3>1. /\ EvictedIds' = EvictedIds \cup {Id(Head(queue))}
          /\ Id(Head(queue)) \notin EvictedIds
      BY <2>2, NotEvictedYet, EvictedChange
    <3> QED
      BY <1>2, <2>2, <3>1, DroppedOneMore DEF PushEvict
  <2> QED
    BY <1>2, <2>1, <2>2 DEF PushEvict
<1>3. ASSUME NEW r \in Readers, PushSend(r) PROVE DroppedInv'
  <2>0. Id(sample[r]) \in Ids /\ fate[Id(sample[r])] # "evicted"
    BY <1>3, NotEvictedYet DEF PushSend, Sending
  <2>1. CASE fate' = [fate EXCEPT ![Id(sample[r])] = "queued"] /\ UNCHANGED evicted
    BY <1>3, <2>0, <2>1, EvictedChange, DroppedSame DEF PushSend
  <2>2. CASE /\ fate' = [fate EXCEPT ![Id(sample[r])] = "evicted"]
             /\ evicted' = [evicted EXCEPT ![r] = @ + 1]
    <3>1. EvictedIds' = EvictedIds \cup {Id(sample[r])} /\ Id(sample[r]) \notin EvictedIds
      BY <2>0, <2>2, EvictedChange
    <3> QED
      BY <1>3, <2>2, <3>1, DroppedOneMore DEF PushSend
  <2> QED
    BY <1>3, <2>1, <2>2 DEF PushSend
<1>4. ASSUME NEW r \in Readers,
             PushLength(r) \/ PushEmpty(r) \/ PushBytes(r) \/ PushEvicted(r) \/ PushAdd(r)
               \/ PushFull(r)
      PROVE  DroppedInv'
  BY <1>4, DroppedSame
     DEF PushLength, PushEmpty, PushBytes, PushEvicted, PushAdd, PushFull, EvictedIds
<1>5. CASE Recv \/ (Drain /\ queue # <<>>)
  <2>1. UNCHANGED <<dropped, evicted>>
    BY <1>5 DEF Recv, Drain
  <2>2. /\ queue # <<>>
        /\ \E what \in {"held", "freed"} : fate' = [fate EXCEPT ![Id(Head(queue))] = what]
    BY <1>5 DEF Recv, Drain
  <2>3. EvictedIds' = EvictedIds
    BY <2>2, NotEvictedYet, EvictedChange
  <2> QED
    BY <2>1, <2>3, DroppedSame
<1>6. CASE Put \/ (Pick /\ fate' # fate)
  <2>1. UNCHANGED <<dropped, evicted>> /\ fwd \in {"received", "pick", "put"}
    BY <1>6 DEF Put, Pick
  <2>2. \E what \in {"forwarded", "failed", "skipped"} : fate' = [fate EXCEPT ![Id(held)] = what]
    BY <1>6 DEF Put, Pick
  <2>3. EvictedIds' = EvictedIds
    BY <2>1, <2>2, NotEvictedYet, EvictedChange
  <2> QED
    BY <2>1, <2>3, DroppedSame
<1>7. CASE DropStop
  <2>1. Stop \in Ids /\ fate[Stop] # "evicted"
    BY <1>7, IdFacts DEF PlaceInv, Places, DropStop
  <2>2. CASE fate' = [fate EXCEPT ![Stop] = "queued"]
    <3>1. EvictedIds' = EvictedIds
      BY <2>1, <2>2, EvictedChange
    <3> QED
      BY <1>7, <3>1, DroppedSame DEF DropStop
  <2>3. CASE UNCHANGED fate
    BY <1>7, <2>3, DroppedSame DEF DropStop, EvictedIds
  <2> QED
    BY <1>7, <2>2, <2>3 DEF DropStop
<1>8. CASE ChannelFreed
  <2>1. \A k \in DOMAIN queue : fate[Id(queue[k])] # "evicted"
    BY DEF PlaceInv, Places, Fields
  <2>2. EvictedIds' = EvictedIds
    BY <1>8, <2>1 DEF ChannelFreed, EvictedIds
  <2> QED
    BY <1>8, <2>2, DroppedSame DEF ChannelFreed
<1>9. CASE UNCHANGED <<dropped, evicted, fate>>
  BY <1>9, DroppedSame DEF EvictedIds
<1> QED
  <2>1. ASSUME Forwarder PROVE DroppedInv'
    <3>1. \/ Recv \/ (Drain /\ queue # <<>>) \/ Put \/ (Pick /\ fate' # fate)
          \/ UNCHANGED <<dropped, evicted, fate>>
      BY <2>1 DEF Forwarder, Recv, RecvTimeout, Received, Pick, Put, Drain, Drained
    <3> QED
      BY <1>5, <1>6, <1>9, <3>1
  <2>2. ASSUME Owner PROVE DroppedInv'
    <3>1. DropStop \/ UNCHANGED <<dropped, evicted, fate>>
      BY <2>2 DEF Owner, ActivateReaders, DeactivateReaders, SetVolatileReader, Rebuild,
                  DropReaders, DropFlag
    <3> QED
      BY <1>7, <1>9, <3>1
  <2> QED
    BY <1>1, <1>2, <1>3, <1>4, <1>8, <1>9, <2>1, <2>2, DroppedCounted
       DEF Next, Push, Terminated, vars

\* Every sample that is evicted, or refused by the channel, is counted once.
THEOREM DroppedInvariant == Spec => []DroppedExact
<1>1. Init => DroppedInv
  <2> SUFFICES ASSUME Init PROVE DroppedInv
    OBVIOUS
  <2>1. EvictedIds = {}
    BY DEF Init, EvictedIds
  <2>2. Evictions = 0
    BY FwdQueueAssumption, SumZero DEF Evictions, Init
  <2> QED
    BY <2>1, <2>2, FS_EmptySet DEF Init, DroppedInv
<1>2. PlaceInv /\ DroppedInv /\ [Next]_vars => DroppedInv'
  BY DroppedKept
<1>3. PlaceInv /\ DroppedInv => DroppedExact
  BY DroppedUnfolded
<1> QED
  BY <1>1, <1>2, <1>3, PlaceInvariant, PTL DEF Spec

\* CountsExact: both counts of the queue are exact between any two accesses to it.
THEOREM CountsAreExact == Spec => []CountsExact
BY BytesInvariant, DroppedInvariant, PTL DEF CountsExact

\* TypeOK: the channel is never over its capacity, no count is negative (what is
\* subtracted was counted before), and every callback and thread is at one of its steps.
THEOREM TypeCorrect == Spec => []TypeOK
<1>1. PlaceInv /\ BytesExact => TypeOK
  <2> SUFFICES ASSUME PlaceInv, BytesExact PROVE TypeOK
    OBVIOUS
  <2>1. bytes \in Nat
    BY BytesUnfolded, ShareFacts DEF BytesExact
  <2> QED
    BY <2>1 DEF PlaceInv, Fields, TypeOK, Message, Stages
<1> QED
  BY <1>1, BytesInvariant, PTL

-----------------------------------------------------------------------------
(* The budget. *)

\* The callbacks that have found room in the budget, and have not sent yet, with the bytes
\* that they will send.
Admitted == {r \in Readers : pc[r] \in {"add", "send"}}
Weight(r) == IF pc[r] \in {"add", "send"} THEN sample[r].len ELSE 0
Weights == SumFunctionOnSet([r \in Readers |-> Weight(r)], Readers)

\* What the other Readers may send after a callback has found room.
Slack == (Cardinality(Readers) - 1) * Max(Lens)

\* The queue and what those callbacks will send is within the budget and that slack, or it
\* is no more than one sample of each Reader.
Within ==
  Admitted # {} =>
    \/ QueuedBytes + Weights <= FWD_QUEUE_BYTES + Slack
    \/ Cardinality(Messages) + Cardinality(Admitted) <= Cardinality(Readers)

\* What an admitted callback sends.
LEMMA WeightFacts ==
  ASSUME PlaceInv
  PROVE  /\ \A r \in Readers : Weight(r) \in Nat
         /\ \A r \in Admitted : sample[r] \in Sample /\ Weight(r) = sample[r].len
         /\ Weights \in Nat
<1>1. ASSUME NEW r \in Readers, pc[r] \in {"add", "send"}
      PROVE  sample[r] \in Sample /\ sample[r].len \in Nat
  BY <1>1, ShareFacts DEF PlaceInv, OrderInv, OwnSamples, Fields
<1>2. \A r \in Readers : Weight(r) \in Nat
  BY <1>1 DEF Weight
<1>3. \A r \in Admitted : sample[r] \in Sample /\ Weight(r) = sample[r].len
  BY <1>1 DEF Admitted, Weight
<1>4. Weights \in Nat
  BY <1>2, FwdQueueAssumption, SumNatural DEF Weights
<1> QED
  BY <1>2, <1>3, <1>4

\* A payload size is at most the largest one.
LEMMA LargestPayload ==
  ASSUME NEW m \in Sample
  PROVE  m.len \in Nat /\ Max(Lens) \in Nat /\ m.len <= Max(Lens)
<1>1. m.len \in Lens
  BY DEF Sample
<1>2. Max(Lens) \in Lens /\ \A x \in Lens : x <= Max(Lens)
  BY <1>1, FwdQueueAssumption, MaxOfFinite
<1> QED
  BY <1>1, <1>2, FwdQueueAssumption

\* The weights by themselves, for their values after a step.
LEMMA WeightTypes == PlaceInv => (\A r \in Readers : Weight(r) \in Nat) /\ Weights \in Nat
BY WeightFacts

\* The weights after a step.
LEMMA NextWeights ==
  ASSUME PlaceInv'
  PROVE  (\A r \in Readers : Weight(r)' \in Nat) /\ Weights' \in Nat
<1>1. (PlaceInv => (\A r \in Readers : Weight(r) \in Nat) /\ Weights \in Nat)'
  BY WeightTypes, PTL
<1> QED
  BY <1>1

\* The weight of one callback changes.
LEMMA WeightsChange ==
  ASSUME PlaceInv, PlaceInv', NEW p \in Readers,
         \A q \in Readers \ {p} : Weight(q)' = Weight(q)
  PROVE  Weights' = Weights - Weight(p) + Weight(p)'
<1> DEFINE f == [q \in Readers |-> Weight(q)]
           g == [q \in Readers |-> Weight(q)']
<1>1. Weights = SumFunctionOnSet(f, Readers) /\ Weights' = SumFunctionOnSet(g, Readers)
  BY DEF Weights
<1>2. \A q \in Readers : f[q] \in Int
  BY WeightFacts
<1>3. g[p] \in Int
  BY NextWeights
<1>4. f[p] = Weight(p) /\ g[p] = Weight(p)' /\ \A q \in Readers \ {p} : g[q] = f[q]
  OBVIOUS
<1> HIDE DEF f, g
<1>5. SumFunctionOnSet(g, Readers) = SumFunctionOnSet(f, Readers) - f[p] + g[p]
  BY <1>2, <1>3, <1>4, FwdQueueAssumption, SumReplace
<1> QED
  BY <1>1, <1>4, <1>5

\* The number of samples in the queue.
LEMMA MessagesFinite ==
  ASSUME PlaceInv
  PROVE  IsFiniteSet(Messages) /\ Cardinality(Messages) \in Nat
<1>1. Messages \in SUBSET (1 .. Len(queue)) /\ Len(queue) \in Nat
  BY DEF Messages, PlaceInv, Fields
<1>2. IsFiniteSet(1 .. Len(queue))
  BY <1>1, FS_Interval
<1>3. IsFiniteSet(Messages)
  BY <1>1, <1>2, FS_Subset
<1> QED
  BY <1>3, FS_CardinalityType

\* The number of samples in the queue after a push and after a pop.
LEMMA MessagesChange ==
  ASSUME PlaceInv
  PROVE  /\ \A m \in Sample : queue' = Append(queue, m) =>
              Cardinality(Messages') = Cardinality(Messages) + 1
         /\ queue' = Append(queue, Stop) => Messages' = Messages
         /\ queue # <<>> /\ queue' = Tail(queue) =>
              Cardinality(Messages') <= Cardinality(Messages)
         /\ UNCHANGED queue => UNCHANGED Messages
<1>1. /\ Messages = {i \in 1 .. Len(queue) : queue[i] # Stop}
      /\ queue \in Seq(Message) /\ Len(queue) \in Nat
  BY DEF Messages, PlaceInv, Fields
<1>2. ASSUME NEW m \in Message, queue' = Append(queue, m)
      PROVE  Messages' = IF m = Stop THEN Messages ELSE Messages \cup {Len(queue) + 1}
  <2>1. /\ Len(queue') = Len(queue) + 1 /\ DOMAIN queue' = 1 .. Len(queue) + 1
        /\ \A i \in 1 .. Len(queue) : queue'[i] = queue[i]
        /\ queue'[Len(queue) + 1] = m
    BY <1>1, <1>2, PushedQueue
  <2>2. 1 .. Len(queue) + 1 = (1 .. Len(queue)) \cup {Len(queue) + 1}
    BY <1>1
  <2> QED
    BY <1>1, <2>1, <2>2 DEF Messages
<1>3. ASSUME NEW m \in Sample, queue' = Append(queue, m)
      PROVE  Cardinality(Messages') = Cardinality(Messages) + 1
  <2>1. m # Stop /\ m \in Message
    BY SampleFacts DEF Message
  <2>2. Len(queue) + 1 \notin Messages /\ Messages' = Messages \cup {Len(queue) + 1}
    BY <1>1, <1>2, <1>3, <2>1
  <2> QED
    BY <2>2, MessagesFinite, FS_AddElement
<1>4. queue' = Append(queue, Stop) => Messages' = Messages
  BY <1>2 DEF Message
<1>5. ASSUME queue # <<>>, queue' = Tail(queue)
      PROVE  Cardinality(Messages') <= Cardinality(Messages)
  <2>1. \A i \in 1 .. Len(queue') : i + 1 \in 1 .. Len(queue) /\ queue'[i] = queue[i + 1]
    BY <1>1, <1>5, PoppedQueue
  <2>2. Messages' = {i \in 1 .. Len(queue') : queue'[i] # Stop} /\ Len(queue') \in Nat
    BY <1>1, <1>5, PoppedQueue DEF Messages
  <2> DEFINE older == [i \in Messages' |-> i + 1]
  <2>3. older \in [Messages' -> Messages]
    BY <1>1, <2>1, <2>2
  <2>4. \A i, j \in Messages' : older[i] = older[j] => i = j
    BY <2>2
  <2>5. older \in Injection(Messages', Messages)
    BY <2>3, <2>4 DEF Injection, IsInjective
  <2> QED
    BY <2>5, MessagesFinite, FS_Injection
<1> QED
  BY <1>3, <1>4, <1>5 DEF Messages

\* The budget after a step that keeps what it is entitled to.
LEMMA BudgetStep ==
  ASSUME PlaceInv, PlaceInv', Within,
         \/ Admitted' = {}
         \/ Messages' = {}
         \/ QueuedBytes' + Weights' <= FWD_QUEUE_BYTES + Slack
         \/ /\ Admitted' = Admitted
            /\ QueuedBytes' + Weights' <= QueuedBytes + Weights
            /\ Cardinality(Messages') <= Cardinality(Messages)
         \/ /\ \E r \in Admitted : Admitted' = Admitted \ {r}
            /\ QueuedBytes' + Weights' <= QueuedBytes + Weights
            /\ Cardinality(Messages') <= Cardinality(Messages) + 1
  PROVE  Within'
<1>1. Admitted \in SUBSET Readers /\ Admitted' \in SUBSET Readers
  BY DEF Admitted
<1>2. /\ Cardinality(Messages) \in Nat /\ Cardinality(Messages') \in Nat
      /\ QueuedBytes \in Nat /\ QueuedBytes' \in Nat /\ Weights \in Nat /\ Weights' \in Nat
  <2>1. (PlaceInv => IsFiniteSet(Messages) /\ Cardinality(Messages) \in Nat)'
    BY MessagesFinite, PTL
  <2>2. (PlaceInv => QueuedBytes \in Nat)'
    BY BytesUnfolded, PTL
  <2> QED
    BY <2>1, <2>2, MessagesFinite, BytesUnfolded, WeightFacts, NextWeights
<1>3. /\ Cardinality(Admitted) \in Nat /\ Cardinality(Admitted') \in Nat
      /\ Cardinality(Admitted') <= Cardinality(Readers) /\ Cardinality(Readers) \in Nat
  BY <1>1, PassedCounted
<1>4. CASE Admitted' = {}
  BY <1>4 DEF Within
<1>5. CASE Messages' = {}
  <2>1. Cardinality(Messages') = 0
    BY <1>5, FS_EmptySet
  <2> QED
    BY <1>3, <2>1 DEF Within
<1>6. CASE QueuedBytes' + Weights' <= FWD_QUEUE_BYTES + Slack
  BY <1>6 DEF Within, Slack
<1>7. ASSUME Admitted' # {}, Admitted # {},
             QueuedBytes' + Weights' <= QueuedBytes + Weights,
             Cardinality(Messages') + Cardinality(Admitted')
               <= Cardinality(Messages) + Cardinality(Admitted)
      PROVE  Within'
  <2>1. CASE QueuedBytes + Weights <= FWD_QUEUE_BYTES + Slack
    <3>1. FWD_QUEUE_BYTES + Slack \in Int
      <4>1. PICK r \in Admitted : TRUE
        BY <1>7
      <4>2. Max(Lens) \in Nat
        BY WeightFacts, LargestPayload
      <4>3. Cardinality(Readers) - 1 \in Int
        BY <1>3
      <4>4. \A i \in Int : \A n \in Nat : i * n \in Int
        OBVIOUS
      <4> QED
        BY <4>2, <4>3, <4>4, FwdQueueAssumption DEF Slack
    <3>2. \A i, j, k \in Int : i <= j /\ j <= k => i <= k
      OBVIOUS
    <3>3. QueuedBytes' + Weights' \in Int /\ QueuedBytes + Weights \in Int
      BY <1>2
    <3>4. QueuedBytes' + Weights' <= FWD_QUEUE_BYTES + Slack
      BY <1>7, <2>1, <3>1, <3>2, <3>3
    <3> QED
      BY <1>6, <3>4
  <2>2. CASE Cardinality(Messages) + Cardinality(Admitted) <= Cardinality(Readers)
    BY <1>2, <1>3, <1>7, <2>2 DEF Within
  <2> QED
    BY <1>7, <2>1, <2>2 DEF Within
<1>8. CASE /\ Admitted' = Admitted
           /\ QueuedBytes' + Weights' <= QueuedBytes + Weights
           /\ Cardinality(Messages') <= Cardinality(Messages)
  BY <1>2, <1>3, <1>4, <1>7, <1>8
<1>9. ASSUME NEW r \in Admitted, Admitted' = Admitted \ {r},
             QueuedBytes' + Weights' <= QueuedBytes + Weights,
             Cardinality(Messages') <= Cardinality(Messages) + 1
      PROVE  Within'
  <2>1. Cardinality(Admitted') = Cardinality(Admitted) - 1
    BY <1>1, <1>9, PassedCounted
  <2>2. Cardinality(Messages') + Cardinality(Admitted')
          <= Cardinality(Messages) + Cardinality(Admitted)
    BY <1>2, <1>3, <1>9, <2>1
  <2> QED
    BY <1>4, <1>7, <1>9, <2>2
<1> QED
  BY <1>4, <1>5, <1>6, <1>8, <1>9

\* A step that adds nothing to the queue and leaves the callbacks where they are.
LEMMA BudgetIdle ==
  ASSUME PlaceInv, PlaceInv', Within, UNCHANGED <<pc, sample>>,
         \/ UNCHANGED queue
         \/ queue # <<>> /\ queue' = Tail(queue)
         \/ queue' = Append(queue, Stop)
         \/ queue' = <<>>
  PROVE  Within'
<1>1. Admitted' = Admitted
  BY DEF Admitted
<1>2. Weights' = Weights
  BY DEF Weights, Weight
<1>3. CASE queue' = <<>>
  <2>1. Messages' = {}
    BY <1>3 DEF Messages
  <2> QED
    BY <2>1, BudgetStep
<1>4. ASSUME \/ UNCHANGED queue
             \/ queue # <<>> /\ queue' = Tail(queue)
             \/ queue' = Append(queue, Stop)
      PROVE  QueuedBytes' <= QueuedBytes /\ Cardinality(Messages') <= Cardinality(Messages)
  <2>1. QueuedBytes \in Nat /\ QueuedBytes' \in Nat /\ Cardinality(Messages) \in Nat
    <3>1. (PlaceInv => QueuedBytes \in Nat)'
      BY BytesUnfolded, PTL
    <3> QED
      BY <3>1, BytesUnfolded, MessagesFinite
  <2>2. CASE UNCHANGED queue
    BY <2>1, <2>2, QueuedBytesChange, MessagesChange
  <2>3. CASE queue # <<>> /\ queue' = Tail(queue)
    <3>1. QueuedBytes = Size(Head(queue)) + QueuedBytes'
      BY <2>3, QueuedBytesChange
    <3>2. Size(Head(queue)) \in Nat
      BY <2>3, PoppedQueue, ShareFacts DEF PlaceInv, Fields
    <3> QED
      BY <2>1, <2>3, <3>1, <3>2, MessagesChange
  <2>4. CASE queue' = Append(queue, Stop)
    <3>1. QueuedBytes' = QueuedBytes + Size(Stop) /\ Size(Stop) = 0
      BY <2>4, QueuedBytesChange, ShareFacts DEF Message
    <3> QED
      BY <2>1, <2>4, <3>1, MessagesChange
  <2> QED
    BY <1>4, <2>2, <2>3, <2>4
<1>5. QueuedBytes \in Nat /\ QueuedBytes' \in Nat /\ Weights \in Nat
  <2>1. (PlaceInv => QueuedBytes \in Nat)'
    BY BytesUnfolded, PTL
  <2> QED
    BY <2>1, BytesUnfolded, WeightFacts
<1>6. CASE queue' # <<>>
  <2>1. QueuedBytes' <= QueuedBytes /\ Cardinality(Messages') <= Cardinality(Messages)
    BY <1>4, <1>6
  <2>2. QueuedBytes' + Weights' <= QueuedBytes + Weights
    <3>1. QueuedBytes' <= QueuedBytes /\ Weights' = Weights
      BY <1>2, <2>1
    <3>2. \A i, j, k \in Nat : i <= j => i + k <= j + k
      OBVIOUS
    <3>3. QueuedBytes' + Weights <= QueuedBytes + Weights
      BY <1>5, <3>1, <3>2
    <3> QED
      BY <3>1, <3>3
  <2> QED
    BY <1>1, <2>1, <2>2, BudgetStep
<1> QED
  BY <1>3, <1>6

\* A callback that finds room in the budget does not know of the other callbacks that have
\* found room and not yet counted their samples.
LEMMA BytesKeepBudget ==
  ASSUME PlaceInv, PlaceInv', BytesExact, Within, NEW p \in Readers, PushBytes(p)
  PROVE  Within'
<1> USE DEF Goto, queueVars, fwdVars, ownerVars
<1>1. /\ UNCHANGED <<queue, bytes, sample>>
      /\ pc[p] = "bytes" /\ \A q \in Readers \ {p} : pc'[q] = pc[q]
      /\ pc'[p] = IF bytes + sample[p].len > FWD_QUEUE_BYTES THEN "evict" ELSE "add"
  BY DEF PushBytes, PlaceInv, Fields
<1>2. Weight(p) = 0 /\ \A q \in Readers \ {p} : Weight(q)' = Weight(q)
  BY <1>1 DEF Weight
<1>3. CASE pc'[p] = "evict"
  <2>1. Weight(p)' = 0
    BY <1>3 DEF Weight
  <2>2. Weights' = Weights /\ Weights \in Nat
    BY <1>2, <2>1, WeightsChange, WeightFacts
  <2>3. Admitted' = Admitted
    BY <1>1, <1>3 DEF Admitted
  <2>4. QueuedBytes' = QueuedBytes /\ Messages' = Messages
    BY <1>1, QueuedBytesChange, MessagesChange
  <2> QED
    BY <2>2, <2>3, <2>4, BudgetStep, BytesUnfolded, MessagesFinite
<1>4. CASE pc'[p] = "add" /\ bytes + sample[p].len <= FWD_QUEUE_BYTES
  <2> DEFINE others == Readers \ {p}
             f == [q \in Readers |-> Weight(q)']
             g == [q \in Readers |-> Share(q)]
  <2>1. sample[p] \in Sample /\ Weight(p)' = sample[p].len /\ sample[p].len \in Nat
    BY <1>1, <1>4, ShareFacts DEF Weight, PlaceInv, OrderInv, OwnSamples, Fields
  <2>2. Max(Lens) \in Nat
    BY <2>1, LargestPayload
  <2>3. \A q \in Readers : f[q] \in Int /\ g[q] \in Int
    BY NextWeights, ShareFacts
  <2>4. \A q \in others : f[q] <= g[q] + Max(Lens)
    <3> SUFFICES ASSUME NEW q \in others PROVE Weight(q) <= Share(q) + Max(Lens)
      BY <1>2
    <3>1. CASE q \in Admitted
      <4>1. sample[q] \in Sample /\ Weight(q) = sample[q].len
        BY <3>1, WeightFacts
      <4>2. Weight(q) <= Max(Lens) /\ Weight(q) \in Nat
        BY <4>1, LargestPayload
      <4> QED
        BY <2>2, <4>2, ShareFacts
    <3>2. CASE q \notin Admitted
      <4>1. Weight(q) = 0
        BY <3>2 DEF Admitted, Weight
      <4> QED
        BY <2>2, <4>1, ShareFacts
    <3> QED
      BY <3>1, <3>2
  <2>5. /\ Weights' = SumFunctionOnSet(f, Readers) /\ Shares = SumFunctionOnSet(g, Readers)
        /\ f[p] = sample[p].len /\ g[p] \in Nat
    BY <2>1, ShareFacts DEF Weights, Shares
  <2>6. /\ IsFiniteSet(Readers) /\ IsFiniteSet(others)
        /\ Cardinality(others) = Cardinality(Readers) - 1 /\ Cardinality(Readers) \in Nat
    BY FwdQueueAssumption, FS_RemoveElement, FS_CardinalityType
  <2> HIDE DEF f, g
  <2>7. /\ SumFunctionOnSet(f, Readers) = f[p] + SumFunctionOnSet(f, others)
        /\ SumFunctionOnSet(g, Readers) = g[p] + SumFunctionOnSet(g, others)
    BY <2>3, <2>6, SumRemove
  <2>8. SumFunctionOnSet(f, others) \in Int /\ SumFunctionOnSet(g, others) \in Int
    BY <2>3, <2>6, SumType
  <2>9. SumFunctionOnSet(f, others) <= SumFunctionOnSet(g, others) + Slack
    <3>1. SumFunctionOnSet(f, others)
            <= SumFunctionOnSet(g, others) + Cardinality(others) * Max(Lens)
      BY <2>2, <2>3, <2>4, <2>6, SumExceeds
    <3> QED
      BY <2>6, <3>1 DEF Slack
  <2>10. Slack \in Int
    <3>1. \A i \in Int : \A n \in Nat : i * n \in Int
      OBVIOUS
    <3>2. Cardinality(Readers) - 1 \in Int
      BY <2>6
    <3> QED
      BY <2>2, <3>1, <3>2 DEF Slack
  <2>11. Weights' <= sample[p].len + (Shares + Slack)
    BY <2>1, <2>5, <2>7, <2>8, <2>9, <2>10
  <2>12. /\ bytes = QueuedBytes + (Shares + HeldShare)
         /\ QueuedBytes \in Nat /\ Shares \in Nat /\ HeldShare \in Nat
    BY BytesUnfolded, ShareFacts DEF BytesExact
  <2>13. QueuedBytes' = QueuedBytes
    BY <1>1, QueuedBytesChange
  <2>14. QueuedBytes' + Weights' <= FWD_QUEUE_BYTES + Slack
    <3>1. Weights' \in Nat /\ FWD_QUEUE_BYTES \in Nat
      BY NextWeights, FwdQueueAssumption
    <3>2. \A q, s, h, l, b, w \in Nat : \A k \in Int :
            (q + (s + h)) + l <= b /\ w <= l + (s + k) => q + w <= b + k
      OBVIOUS
    <3>3. (QueuedBytes + (Shares + HeldShare)) + sample[p].len <= FWD_QUEUE_BYTES
      BY <1>4, <2>12
    <3> QED
      BY <2>1, <2>10, <2>11, <2>12, <2>13, <3>1, <3>2, <3>3
  <2> QED
    BY <2>14, BudgetStep
<1>5. bytes \in Int /\ sample[p].len \in Int /\ FWD_QUEUE_BYTES \in Int
  <2>1. bytes \in Nat
    BY BytesUnfolded, ShareFacts DEF BytesExact
  <2>2. sample[p].len \in Nat
    BY <1>1, ShareFacts DEF PlaceInv, OrderInv, OwnSamples, Fields
  <2> QED
    BY <2>1, <2>2, FwdQueueAssumption
<1> QED
  BY <1>1, <1>3, <1>4, <1>5

\* The steps of a callback keep the budget.
LEMMA PushKeepsBudget ==
  ASSUME PlaceInv, PlaceInv', BytesExact, Within, NEW p \in Readers, PushBegin(p) \/ Push(p)
  PROVE  Within'
<1> USE DEF Goto, queueVars, fwdVars, ownerVars
<1>1. /\ \A q \in Readers \ {p} : pc'[q] = pc[q] /\ sample'[q] = sample[q]
      /\ sample \in [Readers -> Sample \cup {None}] /\ pc \in [Readers -> Stages]
  BY DEF PushBegin, Push, PushLength, PushEmpty, PushBytes, PushEvict, PushEvicted, PushAdd,
         PushSend, PushFull, PushCount, PlaceInv, Fields
<1>2. \A q \in Readers \ {p} : Weight(q)' = Weight(q)
  BY <1>1 DEF Weight
<1>3. Weights' = Weights - Weight(p) + Weight(p)'
  BY <1>2, WeightsChange
<1>4. /\ Weights \in Nat /\ Weights' \in Nat /\ QueuedBytes \in Nat /\ QueuedBytes' \in Nat
      /\ Cardinality(Messages) \in Nat /\ Weight(p) \in Nat
  <2>1. (PlaceInv => QueuedBytes \in Nat)'
    BY BytesUnfolded, PTL
  <2> QED
    BY <2>1, NextWeights, WeightFacts, BytesUnfolded, MessagesFinite
\* It is not admitted before or after the step.
<1>5. CASE \/ PushBegin(p) \/ PushLength(p) \/ PushEvicted(p) \/ PushFull(p) \/ PushCount(p)
           \/ PushEmpty(p) /\ pc'[p] = "bytes"
  <2>1. /\ UNCHANGED queue
        /\ pc[p] \notin {"add", "send"} /\ pc'[p] \notin {"add", "send"}
    BY <1>1, <1>5 DEF PushBegin, PushLength, PushEvicted, PushFull, PushCount, PushEmpty
  <2>2. Weights' = Weights
    BY <1>3, <1>4, <2>1 DEF Weight
  <2>3. Admitted' = Admitted
    BY <1>1, <2>1 DEF Admitted
  <2>4. QueuedBytes' = QueuedBytes /\ Messages' = Messages
    BY <2>1, QueuedBytesChange, MessagesChange
  <2> QED
    BY <1>4, <2>2, <2>3, <2>4, BudgetStep
\* It is admitted to a queue that is empty.
<1>6. CASE queue = <<>> /\ (PushEmpty(p) \/ PushEvict(p))
  <2>1. queue' = <<>>
    BY <1>6 DEF PushEmpty, PushEvict
  <2>2. Messages' = {}
    BY <2>1 DEF Messages
  <2> QED
    BY <2>2, BudgetStep
\* It evicts.
<1>7. CASE queue # <<>> /\ PushEvict(p)
  <2>1. /\ queue' = Tail(queue) /\ UNCHANGED sample
        /\ pc[p] \notin {"add", "send"} /\ pc'[p] \notin {"add", "send"}
    BY <1>1, <1>7 DEF PushEvict
  <2>2. Weights' = Weights /\ Admitted' = Admitted
    BY <1>1, <1>3, <1>4, <2>1 DEF Weight, Admitted
  <2>3. QueuedBytes = Size(Head(queue)) + QueuedBytes'
    BY <1>7, <2>1, QueuedBytesChange
  <2>4. Size(Head(queue)) \in Nat
    BY <1>7, PoppedQueue, ShareFacts DEF PlaceInv, Fields
  <2>5. Cardinality(Messages') <= Cardinality(Messages)
    BY <1>7, <2>1, MessagesChange
  <2>6. QueuedBytes' + Weights' <= QueuedBytes + Weights
    BY <1>4, <2>2, <2>3, <2>4
  <2> QED
    BY <2>2, <2>5, <2>6, BudgetStep
\* It counts its bytes.
<1>8. CASE PushAdd(p)
  <2>1. UNCHANGED <<queue, sample>> /\ pc[p] = "add" /\ pc'[p] = "send"
    BY <1>1, <1>8 DEF PushAdd
  <2>2. Weight(p)' = Weight(p) /\ Admitted' = Admitted
    BY <1>1, <2>1 DEF Weight, Admitted
  <2>3. Weights' = Weights
    BY <1>3, <1>4, <2>2
  <2>4. QueuedBytes' = QueuedBytes /\ Messages' = Messages
    BY <2>1, QueuedBytesChange, MessagesChange
  <2> QED
    BY <1>4, <2>2, <2>3, <2>4, BudgetStep
\* It sends.
<1>9. CASE PushSend(p)
  <2>1. /\ UNCHANGED sample /\ pc[p] = "send" /\ pc'[p] \notin {"add", "send"}
        /\ UNCHANGED queue \/ queue' = Append(queue, sample[p])
    BY <1>1, <1>9 DEF PushSend
  <2>2. /\ p \in Admitted /\ Admitted' = Admitted \ {p} /\ Weight(p)' = 0
    BY <1>1, <2>1 DEF Admitted, Weight
  <2>3. sample[p] \in Sample /\ sample[p] \in Message /\ Size(sample[p]) = Weight(p)
    BY <2>2, WeightFacts, ShareFacts DEF Message
  <2>4. \/ QueuedBytes' = QueuedBytes /\ Messages' = Messages
        \/ /\ QueuedBytes' = QueuedBytes + Weight(p)
           /\ Cardinality(Messages') = Cardinality(Messages) + 1
    BY <2>1, <2>3, QueuedBytesChange, MessagesChange
  <2>5. /\ QueuedBytes' + Weights' <= QueuedBytes + Weights
        /\ Cardinality(Messages') <= Cardinality(Messages) + 1
    BY <1>3, <1>4, <2>2, <2>4
  <2> QED
    BY <2>2, <2>5, BudgetStep
<1> QED
  BY <1>1, <1>5, <1>6, <1>7, <1>8, <1>9, BytesKeepBudget DEF Push, PushEmpty

\* Every step keeps the budget.
LEMMA BudgetKept ==
  ASSUME PlaceInv, PlaceInv', BytesExact, Within, [Next]_vars
  PROVE  Within'
<1> USE DEF queueVars, pushVars, fwdVars, ownerVars
<1>1. ASSUME Forwarder \/ Owner \/ ChannelFreed \/ Terminated \/ UNCHANGED vars
      PROVE  /\ UNCHANGED <<pc, sample>>
             /\ \/ UNCHANGED queue
                \/ queue # <<>> /\ queue' = Tail(queue)
                \/ queue' = Append(queue, Stop)
                \/ queue' = <<>>
  BY <1>1 DEF Forwarder, Recv, RecvTimeout, Received, Pick, Put, Drain, Drained, Owner,
              ActivateReaders, DeactivateReaders, SetVolatileReader, Rebuild, DropReaders,
              DropFlag, DropStop, ChannelFreed, Terminated, vars
<1> QED
  BY <1>1, BudgetIdle, PushKeepsBudget DEF Next

\* The budget is invariant.
THEOREM BudgetInvariant == Spec => [](PlaceInv /\ BytesExact /\ Within)
<1>1. Init => Within
  BY DEF Init, Within, Admitted
<1>2. PlaceInv /\ BytesExact /\ Within /\ PlaceInv' /\ [Next]_vars => Within'
  BY BudgetKept
<1> QED
  BY <1>1, <1>2, BytesInvariant, PTL DEF Spec

\* A push that sends is the step of its callback.
LEMMA SendingStep ==
  ASSUME PlaceInv, [Next]_vars, NEW r \in Readers, pc[r] = "send", pc'[r] = "count"
  PROVE  PushSend(r) /\ queue' = Append(queue, sample[r])
<1>1. PushSend(r) \/ UNCHANGED pc \/ (\E q \in Readers \ {r} : PushBegin(q) \/ Push(q))
  BY DEF Next, Push, PushBegin, PushLength, PushEmpty, PushBytes, PushEvict, PushEvicted,
         PushAdd, PushSend, PushFull, PushCount, Forwarder, Recv, RecvTimeout, Received,
         Pick, Put, Drain, Drained, Owner, ActivateReaders, DeactivateReaders,
         SetVolatileReader, Rebuild, DropReaders, DropFlag, DropStop, ChannelFreed,
         Terminated, vars, pushVars
<1>2. ASSUME NEW q \in Readers \ {r}, PushBegin(q) \/ Push(q) PROVE pc'[r] = pc[r]
  BY <1>2 DEF Push, PushBegin, PushLength, PushEmpty, PushBytes, PushEvict, PushEvicted,
              PushAdd, PushSend, PushFull, PushCount, Goto, PlaceInv, Fields
<1>3. PushSend(r)
  BY <1>1, <1>2
<1>4. queue' = Append(queue, sample[r])
  BY <1>3 DEF PushSend, Goto, PlaceInv, Fields
<1> QED
  BY <1>3, <1>4

\* The payload that a push leaves in the queue is within the budget and what the other
\* Readers were about to send, or the queue holds at most one sample of each Reader:
\* whatever the interleaving, and with read periods too.
THEOREM PayloadBounded ==
  Spec => [][\A r \in Readers : pc[r] = "send" /\ pc'[r] = "count" => WithinBudget]_vars
<1>1. ASSUME PlaceInv, PlaceInv', Within, [Next]_vars,
             NEW r \in Readers, pc[r] = "send", pc'[r] = "count"
      PROVE  WithinBudget
  <2>1. queue' = Append(queue, sample[r])
    BY <1>1, SendingStep
  <2>2. r \in Admitted /\ Admitted \in SUBSET Readers
    BY <1>1 DEF Admitted
  <2>3. sample[r] \in Sample /\ sample[r] \in Message /\ Size(sample[r]) = Weight(r)
    BY <1>1, <2>2, WeightFacts, ShareFacts DEF Message
  <2>4. /\ QueuedBytes' = QueuedBytes + Weight(r)
        /\ Cardinality(Messages') = Cardinality(Messages) + 1
    BY <1>1, <2>1, <2>3, QueuedBytesChange, MessagesChange
  <2>5. Weight(r) <= Weights /\ Weight(r) \in Nat /\ Weights \in Nat /\ QueuedBytes \in Nat
    <3> DEFINE f == [q \in Readers |-> Weight(q)]
    <3>1. \A q \in Readers : f[q] \in Nat
      BY <1>1, WeightFacts
    <3>2. f[r] = Weight(r) /\ Weights = SumFunctionOnSet(f, Readers)
      BY DEF Weights
    <3> HIDE DEF f
    <3>3. SumFunctionOnSet(f, Readers) = f[r] + SumFunctionOnSet(f, Readers \ {r})
      BY <3>1, FwdQueueAssumption, SumRemove
    <3>4. SumFunctionOnSet(f, Readers \ {r}) \in Nat
      BY <3>1, FwdQueueAssumption, FS_RemoveElement, SumNatural
    <3> QED
      BY <1>1, <3>1, <3>2, <3>3, <3>4, WeightFacts, BytesUnfolded
  <2>6. /\ Cardinality(Admitted) \in Nat /\ Cardinality(Admitted) >= 1
        /\ Cardinality(Messages) \in Nat /\ Cardinality(Readers) \in Nat
    BY <1>1, <2>2, PassedCounted, MessagesFinite
  <2>7. CASE QueuedBytes + Weights <= FWD_QUEUE_BYTES + Slack
    <3>1. FWD_QUEUE_BYTES + Slack \in Int
      <4>1. Max(Lens) \in Nat
        BY <2>3, LargestPayload
      <4>2. \A i \in Int : \A n \in Nat : i * n \in Int
        OBVIOUS
      <4>3. Cardinality(Readers) - 1 \in Int
        BY <2>6
      <4> QED
        BY <4>1, <4>2, <4>3, FwdQueueAssumption DEF Slack
    <3>2. \A w, v, q \in Nat : \A k \in Int : w <= v /\ q + v <= k => q + w <= k
      OBVIOUS
    <3>3. QueuedBytes' <= FWD_QUEUE_BYTES + Slack
      BY <2>4, <2>5, <2>7, <3>1, <3>2
    <3> QED
      BY <3>3 DEF WithinBudget, Slack
  <2>8. CASE Cardinality(Messages) + Cardinality(Admitted) <= Cardinality(Readers)
    BY <2>4, <2>6, <2>8 DEF WithinBudget
  <2> QED
    BY <1>1, <2>2, <2>7, <2>8 DEF Within
<1>2. PlaceInv /\ PlaceInv' /\ Within /\ [Next]_vars =>
        [\A r \in Readers : pc[r] = "send" /\ pc'[r] = "count" => WithinBudget]_vars
  BY <1>1
<1> QED
  BY <1>2, BudgetInvariant, PTL DEF Spec

\* QueueBounded: what a push leaves in the queue is within both bounds, when the Readers
\* have listeners (a read period lets a rebuild lower the limit in the middle of a push).
THEOREM QueueIsBounded ==
  ASSUME ~Periodic
  PROVE  Spec => QueueBounded
<1>1. [\A r \in Readers : pc[r] = "send" /\ pc'[r] = "count" => WithinLimit]_vars
        /\ [\A r \in Readers : pc[r] = "send" /\ pc'[r] = "count" => WithinBudget]_vars
      => [\A r \in Readers :
            pc[r] = "send" /\ pc'[r] = "count" => WithinLimit /\ WithinBudget]_vars
  OBVIOUS
<1> QED
  BY <1>1, LimitKept, PayloadBounded, PTL DEF QueueBounded

=============================================================================
