------------------------------- MODULE FwdQueue -------------------------------
(***************************************************************************)
(* The forward queue of a publisher route (FwdQueue in route_publisher.rs) *)
(* and its threads: the callbacks of the route's DDS Readers push samples  *)
(* and never block, a forwarder thread pops them and calls the possibly    *)
(* blocking put of Zenoh, and the owner of the route replaces its Readers  *)
(* and at last drops it.                                                   *)
(*                                                                         *)
(* Every access to a shared variable is a step of its own: the channel,    *)
(* the byte count, the limit, the stop flag.  The atomics are Relaxed, but *)
(* the channel orders what a sample's push and pop do to the byte count.   *)
(***************************************************************************)
EXTENDS Integers, Sequences, FiniteSetsExt

CONSTANTS
  Readers,          \* the DDS Readers of the route
  VolatileReaders,  \* the one of the VOLATILE Writers of a topic of mixed durability
  Lens,             \* payload sizes
  Limits,           \* queue_limit_for the cache sizes that the route may get
  FWD_QUEUE_MAX,    \* capacity of the channel
  FWD_QUEUE_BYTES,  \* payload bytes that the route queues
  Periodic,         \* pub_max_frequencies: a task reads the samples, not a listener
  MaxSamples        \* bound on the samples of each Reader

ASSUME FwdQueueAssumption ==
  /\ IsFiniteSet(Readers)
  /\ VolatileReaders \subseteq Readers
  /\ Lens \subseteq Nat
  /\ IsFiniteSet(Lens)
  /\ FWD_QUEUE_MAX \in Nat \ {0}
  /\ Limits \subseteq 1 .. FWD_QUEUE_MAX
  /\ FWD_QUEUE_BYTES \in Nat
  /\ Periodic \in BOOLEAN
  /\ MaxSamples \in Nat

VARIABLES
  queue,      \* the channel
  limit,
  bytes,
  dropped,
  active,     \* the Readers that exist
  volatile,   \* the Zenoh publisher of the VOLATILE Reader is declared
  pc,         \* of each Reader's callback: where it is in push
  sample,     \* of each Reader's callback: the sample that it pushes
  popped,     \* of each Reader's callback: the sample that it evicts
  evicted,    \* of each Reader's callback: the local count of push
  fwd,        \* where the forwarder thread is
  held,       \* the sample that the forwarder holds
  fwd_stop,
  owner,      \* "serving", or how far the route's Drop is
  fate        \* history: what became of each item

queueVars == <<queue, limit, bytes, dropped>>
pushVars == <<pc, sample, popped, evicted>>
fwdVars == <<fwd, held>>
ownerVars == <<active, volatile, fwd_stop, owner>>
vars == <<queueVars, pushVars, fwdVars, ownerVars, fate>>

Sample == [reader : Readers, n : 1 .. MaxSamples, len : Lens]
None == [n |-> 0]
Stop == [n |-> -1]

\* The items by name: the n-th sample of a Reader, and Stop.
Id(m) == IF m = Stop THEN Stop ELSE [reader |-> m.reader, n |-> m.n]
Ids == [reader : Readers, n : 1 .. MaxSamples] \cup {Stop}

Init ==
  /\ queue = <<>>
  /\ limit \in Limits
  /\ bytes = 0
  /\ dropped = 0
  /\ active = {}
  /\ volatile = FALSE
  /\ pc = [r \in Readers |-> "idle"]
  /\ sample = [r \in Readers |-> None]
  /\ popped = [r \in Readers |-> None]
  /\ evicted = [r \in Readers |-> 0]
  /\ fwd = "recv"
  /\ held = None
  /\ fwd_stop = FALSE
  /\ owner = "serving"
  /\ fate = [i \in Ids |-> "none"]

-----------------------------------------------------------------------------
(* FwdQueue::push, in the callback of Reader r. *)

Goto(r, where) == pc' = [pc EXCEPT ![r] = where]

\* A sample is taken from the Reader.
PushBegin(r) ==
  /\ pc[r] = "idle"
  /\ r \in active
  /\ sample[r].n < MaxSamples
  /\ \E len \in Lens :
       sample' = [sample EXCEPT ![r] = [reader |-> r, n |-> @.n + 1, len |-> len]]
  /\ Goto(r, "length")
  /\ fate' = [fate EXCEPT ![[reader |-> r, n |-> sample[r].n + 1]] = "pushed"]
  /\ UNCHANGED <<queueVars, popped, evicted, fwdVars, ownerVars>>

\* Mutant: the length is not compared with the limit.
PushLength_NoLimit(r) ==
  /\ pc[r] = "length"
  /\ Goto(r, "empty")
  /\ UNCHANGED <<queueVars, sample, popped, evicted, fwdVars, ownerVars, fate>>

PushLength(r) ==
  /\ pc[r] = "length"
  /\ Goto(r, IF Len(queue) >= limit THEN "evict" ELSE "empty")
  /\ UNCHANGED <<queueVars, sample, popped, evicted, fwdVars, ownerVars, fate>>

PushEmpty(r) ==
  /\ pc[r] = "empty"
  /\ Goto(r, IF queue = <<>> THEN "add" ELSE "bytes")
  /\ UNCHANGED <<queueVars, sample, popped, evicted, fwdVars, ownerVars, fate>>

PushBytes(r) ==
  /\ pc[r] = "bytes"
  /\ Goto(r, IF bytes + sample[r].len > FWD_QUEUE_BYTES THEN "evict" ELSE "add")
  /\ UNCHANGED <<queueVars, sample, popped, evicted, fwdVars, ownerVars, fate>>

\* pop: whatever is oldest is evicted, Stop included.
PushEvict(r) ==
  /\ pc[r] = "evict"
  /\ \/ /\ queue = <<>>
        /\ Goto(r, "add")
        /\ UNCHANGED <<queue, popped, evicted, fate>>
     \/ /\ queue # <<>>
        /\ queue' = Tail(queue)
        /\ popped' = [popped EXCEPT ![r] = Head(queue)]
        /\ evicted' = [evicted EXCEPT ![r] = @ + 1]
        /\ Goto(r, IF Head(queue) = Stop THEN "length" ELSE "evicted")
        /\ fate' = [fate EXCEPT ![Id(Head(queue))] = "evicted"]
  /\ UNCHANGED <<limit, bytes, dropped, sample, fwdVars, ownerVars>>

PushEvicted(r) ==
  /\ pc[r] = "evicted"
  /\ bytes' = bytes - popped[r].len
  /\ Goto(r, "length")
  /\ UNCHANGED <<queue, limit, dropped, sample, popped, evicted, fwdVars, ownerVars, fate>>

\* Mutant: the bytes are counted once the sample is queued.
PushAdd_Late(r) ==
  /\ pc[r] = "add"
  /\ Goto(r, "send")
  /\ UNCHANGED <<queueVars, sample, popped, evicted, fwdVars, ownerVars, fate>>

PushAdd(r) ==
  /\ pc[r] = "add"
  /\ bytes' = bytes + sample[r].len
  /\ Goto(r, "send")
  /\ UNCHANGED <<queue, limit, dropped, sample, popped, evicted, fwdVars, ownerVars, fate>>

\* Mutant: a push waits for room in the channel.
PushSend_Waits(r) ==
  /\ pc[r] = "send"
  /\ Len(queue) < FWD_QUEUE_MAX
  /\ queue' = Append(queue, sample[r])
  /\ Goto(r, "count")
  /\ fate' = [fate EXCEPT ![Id(sample[r])] = "queued"]
  /\ UNCHANGED <<limit, bytes, dropped, sample, popped, evicted, fwdVars, ownerVars>>

PushSend(r) ==
  /\ pc[r] = "send"
  /\ IF Len(queue) < FWD_QUEUE_MAX
     THEN /\ queue' = Append(queue, sample[r])
          /\ Goto(r, "count")
          /\ fate' = [fate EXCEPT ![Id(sample[r])] = "queued"]
          /\ UNCHANGED evicted
     ELSE /\ Goto(r, "full")
          /\ evicted' = [evicted EXCEPT ![r] = @ + 1]
          /\ fate' = [fate EXCEPT ![Id(sample[r])] = "evicted"]
          /\ UNCHANGED queue
  /\ UNCHANGED <<limit, bytes, dropped, sample, popped, fwdVars, ownerVars>>

\* Mutant: the bytes of a sample that the full channel refuses stay counted.
PushFull_Kept(r) ==
  /\ pc[r] = "full"
  /\ Goto(r, "count")
  /\ UNCHANGED <<queueVars, sample, popped, evicted, fwdVars, ownerVars, fate>>

PushFull(r) ==
  /\ pc[r] = "full"
  /\ bytes' = bytes - sample[r].len
  /\ Goto(r, "count")
  /\ UNCHANGED <<queue, limit, dropped, sample, popped, evicted, fwdVars, ownerVars, fate>>

PushCount(r) ==
  /\ pc[r] = "count"
  /\ dropped' = dropped + evicted[r]
  /\ evicted' = [evicted EXCEPT ![r] = 0]
  /\ Goto(r, "idle")
  /\ UNCHANGED <<queue, limit, bytes, sample, popped, fwdVars, ownerVars, fate>>

Push(r) ==
  \/ PushLength(r) \/ PushEmpty(r) \/ PushBytes(r)
  \/ PushEvict(r) \/ PushEvicted(r)
  \/ PushAdd(r) \/ PushSend(r) \/ PushFull(r) \/ PushCount(r)

-----------------------------------------------------------------------------
(* The forwarder thread. *)

\* Stop ends the loop, whatever was queued after it.
Recv ==
  /\ fwd = "recv"
  /\ queue # <<>>
  /\ queue' = Tail(queue)
  /\ fate' = [fate EXCEPT ![Id(Head(queue))] = "held"]
  /\ IF Head(queue) = Stop
     THEN fwd' = "drain" /\ UNCHANGED held
     ELSE fwd' = "received" /\ held' = Head(queue)
  /\ UNCHANGED <<limit, bytes, dropped, pushVars, ownerVars>>

\* Mutant: the wakeup does not look at the flag.
RecvTimeout_NoFlag ==
  /\ fwd = "recv"
  /\ queue = <<>>
  /\ UNCHANGED vars

\* Nothing was received for 10 s: the flag is looked at, and the thread waits
\* again unless it is set.
RecvTimeout ==
  /\ fwd = "recv"
  /\ queue = <<>>
  /\ fwd_stop
  /\ fwd' = "drain"
  /\ UNCHANGED <<queueVars, pushVars, held, ownerVars, fate>>

Received ==
  /\ fwd = "received"
  /\ bytes' = bytes - held.len
  /\ fwd' = "pick"
  /\ UNCHANGED <<queue, limit, dropped, pushVars, held, ownerVars, fate>>

\* A volatile sample whose publisher is gone must not enter the cache.
Pick ==
  /\ fwd = "pick"
  /\ IF held.reader \in VolatileReaders /\ ~volatile
     THEN fwd' = "recv" /\ fate' = [fate EXCEPT ![Id(held)] = "skipped"]
     ELSE fwd' = "put" /\ UNCHANGED fate
  /\ UNCHANGED <<queueVars, pushVars, held, ownerVars>>

\* Mutant: a failed put is queued again.
Put_Requeue ==
  /\ fwd = "put"
  /\ fwd' = "recv"
  /\ \/ /\ fate' = [fate EXCEPT ![Id(held)] = "forwarded"]
        /\ UNCHANGED queue
     \/ /\ fate' = [fate EXCEPT ![Id(held)] = "queued"]
        /\ queue' = Append(queue, held)
  /\ UNCHANGED <<limit, bytes, dropped, pushVars, held, ownerVars>>

\* The put returns, with or without an error that is only logged.
Put ==
  /\ fwd = "put"
  /\ fwd' = "recv"
  /\ \E outcome \in {"forwarded", "failed"} :
       fate' = [fate EXCEPT ![Id(held)] = outcome]
  /\ UNCHANGED <<queueVars, pushVars, held, ownerVars>>

Drain ==
  /\ fwd = "drain"
  /\ \/ /\ queue = <<>>
        /\ fwd' = "ended"
        /\ UNCHANGED <<queue, held, fate>>
     \/ /\ queue # <<>>
        /\ queue' = Tail(queue)
        /\ fate' = [fate EXCEPT ![Id(Head(queue))] = "freed"]
        /\ IF Head(queue) = Stop
           THEN UNCHANGED <<fwd, held>>
           ELSE fwd' = "drained" /\ held' = Head(queue)
  /\ UNCHANGED <<limit, bytes, dropped, pushVars, ownerVars>>

Drained ==
  /\ fwd = "drained"
  /\ bytes' = bytes - held.len
  /\ fwd' = "drain"
  /\ UNCHANGED <<queue, limit, dropped, pushVars, held, ownerVars, fate>>

Forwarder == Recv \/ RecvTimeout \/ Received \/ Pick \/ Put \/ Drain \/ Drained

-----------------------------------------------------------------------------
(* The owner of the route. *)

\* Deleting a Reader waits for its listener, but not for its periodic task.
Deletable(readers) == Periodic \/ \A r \in readers : pc[r] = "idle"

ActivateReaders ==
  /\ owner = "serving"
  /\ active' = (Readers \ VolatileReaders)
                 \cup (IF volatile THEN VolatileReaders ELSE {})
  /\ active' # active
  /\ UNCHANGED <<queueVars, pushVars, fwdVars, volatile, fwd_stop, owner, fate>>

DeactivateReaders ==
  /\ owner = "serving"
  /\ active # {}
  /\ Deletable(active)
  /\ active' = {}
  /\ UNCHANGED <<queueVars, pushVars, fwdVars, volatile, fwd_stop, owner, fate>>

\* set_volatile_reader: the Reader is deleted before its publisher changes.
SetVolatileReader(present) ==
  /\ owner = "serving"
  /\ present # volatile
  /\ Deletable(active \cap VolatileReaders)
  /\ active' = active \ VolatileReaders
  /\ volatile' = present
  /\ UNCHANGED <<queueVars, pushVars, fwdVars, fwd_stop, owner, fate>>

\* rebuild: the limit follows the new cache size once the Readers are deleted.
Rebuild(l) ==
  /\ owner = "serving"
  /\ active = {}
  /\ l # limit
  /\ limit' = l
  /\ UNCHANGED <<queue, bytes, dropped, pushVars, fwdVars, ownerVars, fate>>

\* Mutant: the Readers outlive the route.
DropReaders_Kept ==
  /\ owner = "serving"
  /\ owner' = "deactivated"
  /\ UNCHANGED <<active, queueVars, pushVars, fwdVars, volatile, fwd_stop, fate>>

\* Drop: the Readers, then the flag, then Stop if the channel has room.
DropReaders ==
  /\ owner = "serving"
  /\ Deletable(active)
  /\ active' = {}
  /\ owner' = "deactivated"
  /\ UNCHANGED <<queueVars, pushVars, fwdVars, volatile, fwd_stop, fate>>

DropFlag ==
  /\ owner = "deactivated"
  /\ fwd_stop' = TRUE
  /\ owner' = "flagged"
  /\ UNCHANGED <<queueVars, pushVars, fwdVars, active, volatile, fate>>

DropStop ==
  /\ owner = "flagged"
  /\ owner' = "dropped"
  /\ IF Len(queue) < FWD_QUEUE_MAX
     THEN /\ queue' = Append(queue, Stop)
          /\ fate' = [fate EXCEPT ![Stop] = "queued"]
     ELSE UNCHANGED <<queue, fate>>
  /\ UNCHANGED <<limit, bytes, dropped, pushVars, fwdVars, active, volatile, fwd_stop>>

Owner ==
  \/ ActivateReaders \/ DeactivateReaders
  \/ \E present \in BOOLEAN : SetVolatileReader(present)
  \/ \E l \in Limits : Rebuild(l)
  \/ DropReaders \/ DropFlag \/ DropStop

\* The channel goes with its last user: a periodic task drops its callback when it
\* finds its Reader deleted, the callback of a listener is never freed.
ChannelFreed ==
  /\ Periodic
  /\ owner = "dropped"
  /\ fwd = "ended"
  /\ \A r \in Readers : pc[r] = "idle"
  /\ queue # <<>>
  /\ queue' = <<>>
  /\ bytes' = 0
  /\ fate' = [i \in Ids |-> IF \E k \in DOMAIN queue : Id(queue[k]) = i
                            THEN "freed" ELSE fate[i]]
  /\ UNCHANGED <<limit, dropped, pushVars, fwdVars, ownerVars>>

\* The only state in which nothing more happens; any other one is a deadlock.
Terminated ==
  /\ owner = "dropped"
  /\ fwd = "ended"
  /\ \A r \in Readers : pc[r] = "idle"
  /\ UNCHANGED vars

Next ==
  \/ \E r \in Readers : PushBegin(r) \/ Push(r)
  \/ Forwarder
  \/ Owner
  \/ ChannelFreed
  \/ Terminated

Spec == Init /\ [][Next]_vars

\* Nothing in push waits; the forwarder waits for the channel, for 10 s, and for
\* puts that return; a Drop that has begun goes on.
Fairness ==
  /\ \A r \in Readers : WF_vars(Push(r))
  /\ WF_vars(Forwarder)
  /\ WF_vars(DropFlag \/ DropStop)
  /\ WF_vars(ChannelFreed)

FairSpec == Spec /\ Fairness

-----------------------------------------------------------------------------
(* Properties *)

\* The channel is never over its capacity, no count is negative, and every callback and
\* thread is at a step of push or of the forwarder's loop.
TypeOK ==
  /\ queue \in Seq(Sample \cup {Stop})
  /\ Len(queue) <= FWD_QUEUE_MAX
  /\ limit \in Limits
  /\ bytes \in Nat
  /\ dropped \in Nat
  /\ active \subseteq Readers
  /\ volatile \in BOOLEAN
  /\ pc \in [Readers -> {"idle", "length", "empty", "bytes", "evict", "evicted", "add",
                         "send", "full", "count"}]
  /\ sample \in [Readers -> Sample \cup {None}]
  /\ popped \in [Readers -> Sample \cup {None, Stop}]
  /\ evicted \in [Readers -> Nat]
  /\ fwd \in {"recv", "received", "pick", "put", "drain", "drained", "ended"}
  /\ held \in Sample \cup {None}
  /\ fwd_stop \in BOOLEAN
  /\ owner \in {"serving", "deactivated", "flagged", "dropped"}
  /\ fate \in [Ids -> {"none", "pushed", "queued", "held", "forwarded", "failed", "skipped",
                       "evicted", "freed"}]

Size(m) == IF m = Stop THEN 0 ELSE m.len
QueuedBytes == SumFunction([i \in DOMAIN queue |-> Size(queue[i])])
Messages == {i \in DOMAIN queue : queue[i] # Stop}

\* What the callbacks and the forwarder have still to subtract from the byte count,
\* or have added to it before they send.
PendingBytes ==
  SumFunction([r \in Readers |-> CASE pc[r] \in {"send", "full"} -> sample[r].len
                                   [] pc[r] = "evicted" -> popped[r].len
                                   [] OTHER -> 0])
    + (IF fwd \in {"received", "drained"} THEN held.len ELSE 0)

\* The byte count is the bytes of the queue and of the samples that are being moved:
\* it never wraps below zero and never drifts, whatever the interleaving of the
\* pushes, the evictions of push and the pops of the forwarder.
BytesExact == bytes = QueuedBytes + PendingBytes

\* Every sample evicted by push, or refused by the channel, is counted once by
\* dropped_msg_count, at the end of the push that evicted it.
DroppedExact ==
  dropped + SumFunction(evicted)
    = Cardinality({i \in Ids : fate[i] = "evicted"})

\* Both counts of the queue are exact between any two accesses to it.
CountsExact == BytesExact /\ DroppedExact

\* Concurrent pushes check the limit before any of them sends: the queue they leave
\* exceeds it by less than the number of Readers, also once a rebuild has lowered it.
WithinLimit == Cardinality(Messages') < limit + Cardinality(Readers)

\* Nor does the payload queued after a push exceed the budget by more than what the
\* other Readers were about to send, unless nothing else is queued than one sample of
\* each Reader ("keeps a sample larger than the budget").
WithinBudget ==
  \/ QueuedBytes' <= FWD_QUEUE_BYTES + (Cardinality(Readers) - 1) * Max(Lens)
  \/ Cardinality(Messages') <= Cardinality(Readers)

\* A push that sends leaves the queue within both bounds.
QueueBounded ==
  [][\A r \in Readers :
       pc[r] = "send" /\ pc'[r] = "count" => WithinLimit /\ WithinBudget]_vars

\* The queued samples of a Reader are in the order it pushed them, and the ones that
\* were already taken from the queue are older: eviction "does not replay stale data".
InOrder ==
  \A i, j \in Messages : queue[i].reader = queue[j].reader =>
    /\ i < j => queue[i].n < queue[j].n
    /\ held # None /\ held.reader = queue[i].reader => held.n < queue[i].n

\* The thread of a dropped route frees every sample, so that a Reader callback that
\* still holds the channel keeps no payload: the Readers' listeners have returned
\* before the flag and Stop can end the thread.
NothingRetained == fwd = "ended" => Messages = {}

\* The forwarder of a dropped route ends, even if Stop found the channel full or was
\* evicted by a callback that had still a sample to push.
ForwarderEnds == owner # "serving" ~> fwd = "ended"

\* No sample is forgotten: what was pushed is at last put, evicted, skipped or freed.
SamplesSettle ==
  \A i \in Ids \ {Stop} :
    fate[i] \in {"pushed", "queued", "held"} ~>
      fate[i] \in {"forwarded", "failed", "skipped", "evicted", "freed"}

=============================================================================
