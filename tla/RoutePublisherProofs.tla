------------------------- MODULE RoutePublisherProofs -------------------------
(***************************************************************************)
(* Theorems about a publisher route, for any QoS that the local Writers    *)
(* may have, any remote subscribers and any number of failures.            *)
(*                                                                         *)
(* The manager and the matching callback share the Readers, and only the   *)
(* manager undeclares the listener.  The argument is about who may create  *)
(* Readers: a callback runs only while the listener is declared, which it  *)
(* is only while the Readers' QoS is the publishers'; without a listener   *)
(* the manager creates none, for is_matching is then FALSE wherever the    *)
(* manager may read it.                                                    *)
(*                                                                         *)
(* What a route comes to when nothing is left to do about it, whatever has *)
(* failed and been retried, is proved for each stage of the manager: what  *)
(* a stage has established stays true until the event is handled, unless   *)
(* the Writers change again (another event comes) or a call fails (a retry *)
(* comes).                                                                 *)
(***************************************************************************)
EXTENDS RoutePublisher, FoldTheorems, TLAPS

\* A value for each of the two Readers of a route.
IsPair(x) == x = [main |-> x.main, volatile |-> x.volatile]

\* The shape of the variables that hold a pair.
Shape ==
  /\ IsPair(reader_qos)
  /\ IsPair(publisher)
  /\ IsPair(readers)
  /\ IsPair(old_qos)

\* Between the undeclaration of a listener and what follows from it the manager
\* does nothing else.
Unlistened == {"deactivate", "swap", "listen", "dropping", "dropped"}

\* A callback needs a declared listener.
CallbackListens == callback # "idle" => listener

\* While there is a listener, the publishers are the ones of the Readers' QoS.
ListenerFits == listener => pc \notin Unlistened /\ reader_qos = publisher

\* A failed rebuild leaves a route without a listener, which has no Readers and will
\* not create any.
DeafIsInactive ==
  ~listener /\ pc \notin Unlistened =>
    readers = None /\ ~is_matching /\ pc # "activate"

\* The stages of a rebuild and of the Drop at which the Readers are gone already; the new
\* listener is declared for the new QoS.
StagesInactive ==
  /\ pc \in {"swap", "listen", "dropped"} => readers = None
  /\ pc = "listen" => ~is_matching /\ reader_qos = publisher

IInv ==
  /\ Shape
  /\ CallbackListens
  /\ ListenerFits
  /\ DeafIsInactive
  /\ StagesInactive
  /\ ReadersFit

\* The QoS derived from local Writers is one for each Reader.
LEMMA DesiredIsPair ==
  ASSUME NEW p
  PROVE  IsPair(Desired(p))
BY DEF Desired, readers_qos_for_local_writers, SplitInTwo, IsPair

\* The route starts with its listener and without Readers.
LEMMA InitIInv == Init => IInv
<1> SUFFICES ASSUME Init PROVE IInv
  OBVIOUS
<1>1. IsPair(reader_qos) /\ reader_qos = publisher
  BY DEF Init, IsPair, None
<1>2. pc \in {"add", "volatile"}
  BY DEF Init
<1> QED
  BY <1>1, <1>2 DEF Init, IInv, Shape, IsPair, None, CallbackListens, ListenerFits,
     Unlistened, DeafIsInactive, StagesInactive, ReadersFit

\* activate_dds_readers leaves the existing Readers alone and creates others with the
\* QoS that the route has.
LEMMA ActivatedFit ==
  ASSUME Shape, ReadersFit, reader_qos = publisher, activate_dds_readers,
         reader_qos' = reader_qos, publisher' = publisher
  PROVE  IsPair(readers') /\ ReadersFit'
<1>1. PICK created \in SUBSET {i \in {"main", "volatile"} :
                                 readers[i] = NoQos /\ reader_qos[i] # NoQos} :
        readers' = [i \in {"main", "volatile"} |->
                      IF i \in created THEN reader_qos[i] ELSE readers[i]]
  BY DEF activate_dds_readers
<1>2. IsPair(readers')
  BY <1>1 DEF IsPair
<1>3. \A i \in {"main", "volatile"} : readers'[i] = reader_qos[i] \/ readers'[i] = readers[i]
  BY <1>1
<1> QED
  BY <1>2, <1>3 DEF ReadersFit

-----------------------------------------------------------------------------
(* Each action keeps the invariant. *)

\* What the invariant is about besides the stage of the manager.
sharedVars == <<reader_qos, publisher, old_qos, readers, listener, is_matching, callback>>

\* The steps of the manager that touch neither Readers nor listener.
Ordinary ==
  /\ UNCHANGED sharedVars
  /\ pc \notin Unlistened
  /\ pc' \notin Unlistened \cup {"activate"}

\* Such a step keeps the invariant.
LEMMA OrdinaryKeeps ==
  ASSUME IInv, Ordinary
  PROVE  IInv'
BY DEF Ordinary, sharedVars, IInv, Shape, IsPair, CallbackListens, ListenerFits, DeafIsInactive,
   StagesInactive, ReadersFit, Unlistened, None

\* So does one that leaves the stage alone, too.
LEMMA StutterKeeps ==
  ASSUME IInv, UNCHANGED sharedVars, UNCHANGED pc
  PROVE  IInv'
BY DEF sharedVars, IInv, Shape, IsPair, CallbackListens, ListenerFits, DeafIsInactive,
   StagesInactive, ReadersFit, Unlistened, None

\* The announcements, the comparisons and the declarations of new publishers are
\* ordinary steps, whether they fail or not.
LEMMA UpdatesOrdinary ==
  ASSUME Announce \/ AnnounceVolatile \/ Compare \/ Rebuild
  PROVE  Ordinary
<1>1. UNCHANGED sharedVars
  BY DEF Announce, AnnounceVolatile, Compare, Rebuild, sharedVars, routeVars, matchVars, failVars
<1>2. pc \in {"announce", "announce_volatile", "compare", "rebuild"}
  BY DEF Announce, AnnounceVolatile, Compare, Rebuild
<1>3. pc' \in {"announce_volatile", "compare", "rebuild", "volatile", "unlisten", "idle", "add",
               "drop"}
  <2>1. ASSUME Error \/ Done
        PROVE  pc' \in {"idle", "add", "drop"}
    BY <2>1 DEF Error, Done, Goto
  <2>2. CASE Announce
    BY <2>1, <2>2 DEF Announce, Goto
  <2>3. CASE AnnounceVolatile
    BY <2>1, <2>3 DEF AnnounceVolatile, Goto
  <2>4. CASE Compare
    BY <2>1, <2>4 DEF Compare, Goto
  <2>5. CASE Rebuild
    BY <2>1, <2>5 DEF Rebuild, Goto
  <2> QED
    BY <2>2, <2>3, <2>4, <2>5
<1> QED
  BY <1>1, <1>2, <1>3 DEF Ordinary, Unlistened

\* The events of the manager only choose where its work begins; the departure of a
\* bridge is another matter.
LEMMA EventsOrdinary ==
  ASSUME \/ NodeDiscovered \/ NodeUndiscovered \/ WritersChanged \/ Add
         \/ \E z \in Zids : SubscriberAnnounced(z)
         \/ \E k \in retry : Retry(k)
  PROVE  Ordinary
<1>1. UNCHANGED sharedVars
  BY DEF NodeDiscovered, NodeUndiscovered, WritersChanged, Add, SubscriberAnnounced, Retry, Begin,
     sharedVars, routeVars, matchVars
<1>2. pc \in {"idle", "add"}
  BY DEF NodeDiscovered, NodeUndiscovered, WritersChanged, Add, SubscriberAnnounced, Retry, Begin
<1>3. pc' \in {"idle", "add", "announce", "check", "drop"}
  BY DEF NodeDiscovered, NodeUndiscovered, WritersChanged, Add, SubscriberAnnounced, Retry, Begin,
     Goto
<1> QED
  BY <1>1, <1>2, <1>3 DEF Ordinary, Unlistened

\* A callback is called only by a declared listener.
LEMMA CallbackBeginKeeps ==
  ASSUME IInv, CallbackBegin
  PROVE  IInv'
BY DEF CallbackBegin, taskVars, routeVars, IInv, Shape, IsPair, CallbackListens, ListenerFits,
   DeafIsInactive, StagesInactive, ReadersFit, Unlistened

\* Its Readers have the QoS of the publishers, for the listener is declared.
LEMMA CallbackBodyKeeps ==
  ASSUME IInv, CallbackBody
  PROVE  IInv'
<1>1. listener /\ reader_qos = publisher /\ pc \notin Unlistened
  BY DEF CallbackBody, IInv, CallbackListens, ListenerFits
<1>2. /\ UNCHANGED <<reader_qos, publisher, old_qos, listener, pc>>
      /\ callback' = "idle"
  BY DEF CallbackBody, routeVars, taskVars
<1>3. IsPair(readers') /\ ReadersFit'
  <2>1. CASE activate_dds_readers
    BY <2>1, <1>1, <1>2, ActivatedFit DEF IInv
  <2>2. CASE readers' = None
    BY <2>2 DEF IsPair, None, ReadersFit
  <2> QED
    BY <2>1, <2>2 DEF CallbackBody
<1> QED
  BY <1>1, <1>2, <1>3 DEF IInv, Shape, IsPair, CallbackListens, ListenerFits, DeafIsInactive,
     StagesInactive, Unlistened

\* The manager creates Readers only after it has seen a match, hence with a listener.
LEMMA ActivateKeeps ==
  ASSUME IInv, Activate
  PROVE  IInv'
<1>1. listener /\ reader_qos = publisher
  BY DEF Activate, IInv, DeafIsInactive, ListenerFits, Unlistened
<1>2. /\ UNCHANGED <<reader_qos, publisher, old_qos, listener, callback, is_matching>>
      /\ pc' \in {"add", "idle"}
  BY DEF Activate, routeVars, Done, Goto
<1>3. IsPair(readers') /\ ReadersFit'
  BY <1>1, <1>2, ActivatedFit DEF IInv, Activate
<1> QED
  BY <1>1, <1>2, <1>3 DEF IInv, Shape, IsPair, CallbackListens, ListenerFits, DeafIsInactive,
     StagesInactive, Unlistened

\* Without a listener the flag is FALSE: nothing is activated.
LEMMA CheckKeeps ==
  ASSUME IInv, Check
  PROVE  IInv'
BY DEF Check, Done, Goto, routeVars, matchVars, IInv, Shape, IsPair, CallbackListens, ListenerFits,
   DeafIsInactive, StagesInactive, ReadersFit, Unlistened, None

\* The VOLATILE Reader goes before its QoS and its publisher change.
LEMMA SetVolatileReaderKeeps ==
  ASSUME IInv, SetVolatileReader
  PROVE  IInv'
<1> DEFINE desired == Desired(writers).volatile
<1>1. /\ pc = "volatile"
      /\ pc' \in {"check", "idle", "drop"}
      /\ UNCHANGED <<old_qos, listener, callback, is_matching>>
  BY DEF SetVolatileReader, Goto, Error
<1>2. CASE UNCHANGED <<readers, reader_qos, publisher>>
  BY <1>1, <1>2, OrdinaryKeeps DEF Ordinary, sharedVars, Unlistened
<1>3. CASE /\ readers' = [readers EXCEPT !.volatile = NoQos]
           /\ reader_qos' = [reader_qos EXCEPT !.volatile = desired]
           /\ publisher' = [publisher EXCEPT !.volatile = desired]
  <2>1. /\ readers' = [main |-> readers.main, volatile |-> NoQos]
        /\ reader_qos' = [main |-> reader_qos.main, volatile |-> desired]
        /\ publisher' = [main |-> publisher.main, volatile |-> desired]
    BY <1>3 DEF IInv, Shape, IsPair
  <2>2. Shape'
    BY <2>1, <1>1 DEF IInv, Shape, IsPair
  <2>3. ReadersFit'
    BY <2>1 DEF IInv, ReadersFit
  <2>4. ListenerFits' /\ CallbackListens'
    BY <2>1, <1>1 DEF IInv, ListenerFits, CallbackListens, Unlistened
  <2>5. DeafIsInactive' /\ StagesInactive'
    BY <2>1, <1>1 DEF IInv, DeafIsInactive, StagesInactive, Unlistened, None
  <2> QED
    BY <2>2, <2>3, <2>4, <2>5 DEF IInv
<1> QED
  BY <1>2, <1>3 DEF SetVolatileReader

\* The stages of a rebuild, from the undeclared listener to the new one.
LEMMA RebuildKeeps ==
  ASSUME IInv, Unlisten \/ Deactivate \/ Swap \/ Listen
  PROVE  IInv'
<1> USE DEF routeVars, Goto, IInv, Shape, CallbackListens, ListenerFits, DeafIsInactive,
        StagesInactive, Unlistened, None
<1>1. CASE Unlisten
  BY <1>1 DEF Unlisten, Undeclared, IsPair, ReadersFit
<1>2. CASE Deactivate
  BY <1>2 DEF Deactivate, IsPair, ReadersFit
<1>3. CASE Swap
  <2>1. IsPair(Desired(writers))
    BY DesiredIsPair
  <2> QED
    BY <1>3, <2>1 DEF Swap, IsPair, ReadersFit
<1>4. CASE Listen
  <2>1. /\ pc = "listen" /\ ~listener /\ callback = "idle"
        /\ UNCHANGED <<old_qos, publisher, readers, is_matching, callback>>
    BY <1>4 DEF Listen
  <2>2. ReadersFit'
    BY <2>1 DEF ReadersFit
  <2>3. CASE pc' = "check" /\ listener' = TRUE /\ UNCHANGED reader_qos
    BY <2>1, <2>2, <2>3 DEF IsPair
  <2>4. CASE pc' \in {"idle", "drop"} /\ UNCHANGED listener /\ reader_qos' = old_qos
    BY <2>1, <2>2, <2>4 DEF IsPair
  <2> QED
    BY <1>4, <2>3, <2>4 DEF Listen, Error
<1> QED
  BY <1>1, <1>2, <1>3, <1>4

\* A bridge that leaves takes the Readers with it or leaves them alone; the Drop
\* undeclares the listener before it deletes them.
LEMMA DeparturesKeep ==
  ASSUME IInv, (\E z \in Zids : RemoteLeaves(z)) \/ DropListener \/ DropReaders
  PROVE  IInv'
<1> USE DEF Goto, IInv, Shape, CallbackListens, ListenerFits, DeafIsInactive, StagesInactive,
        Unlistened, None
<1>1. CASE \E z \in Zids : RemoteLeaves(z)
  BY <1>1 DEF RemoteLeaves, IsPair, ReadersFit
<1>2. CASE DropListener
  BY <1>2 DEF DropListener, Undeclared, routeVars, IsPair, ReadersFit
<1>3. CASE DropReaders
  BY <1>3 DEF DropReaders, routeVars, IsPair, ReadersFit
<1> QED
  BY <1>1, <1>2, <1>3

\* Every step of the manager, the callback and their surroundings keeps the invariant.
LEMMA NextIInv == IInv /\ [Next]_vars => IInv'
<1> SUFFICES ASSUME IInv, [Next]_vars PROVE IInv'
  OBVIOUS
<1>1. CASE Environment \/ Dropped \/ UNCHANGED vars
  <2>1. UNCHANGED sharedVars /\ UNCHANGED pc
    BY <1>1 DEF Environment, ChangeWriters, ChangeSubscribers, Dropped, vars, sharedVars, taskVars,
       routeVars, matchVars
  <2> QED
    BY <2>1, StutterKeeps
<1>2. CASE CallbackBegin \/ CallbackBody
  BY <1>2, CallbackBeginKeeps, CallbackBodyKeeps
<1>3. CASE Update
  BY <1>3, UpdatesOrdinary, OrdinaryKeeps, SetVolatileReaderKeeps, RebuildKeeps, CheckKeeps,
     ActivateKeeps DEF Update
<1>4. CASE Manager /\ ~Update
  BY <1>4, EventsOrdinary, OrdinaryKeeps, DeparturesKeep DEF Manager
<1> QED
  BY <1>1, <1>2, <1>3, <1>4 DEF Next

-----------------------------------------------------------------------------
(* The theorems. *)

\* The inductive invariant holds in every reachable state of a publisher route.
THEOREM Invariant == Spec => []IInv
BY InitIInv, NextIInv, PTL DEF Spec

\* A DDS Reader has the QoS of its route and feeds a publisher declared for it, whatever
\* callbacks, rebuilds, replacements and failures there were (activation_lock and the
\* order of the steps of rebuild).
THEOREM ReadersAreCurrent == Spec => []ReadersFit
<1>1. IInv => ReadersFit
  BY DEF IInv
<1> QED
  BY Invariant, <1>1, PTL

\* No callback creates a Reader for a route that was dropped (the order of the steps of
\* Drop and wait_callbacks).
THEOREM NothingAfterDrop == Spec => []NoReaderAfterDrop
<1>1. IInv => NoReaderAfterDrop
  BY DEF IInv, NoReaderAfterDrop, StagesInactive, CallbackListens, ListenerFits, Unlistened
<1> QED
  BY Invariant, <1>1, PTL

\* Both together: the DDS Readers are the route's own.
THEOREM ReadersAreOwned == Spec => []ReadersOwned
BY ReadersAreCurrent, NothingAfterDrop, PTL DEF ReadersOwned


-----------------------------------------------------------------------------
(* A matching bridge is served. *)

\* A route loses its listener in a rebuild or the Drop only, or when none can be
\* declared.
ListenerKept == ~listener => broken \/ pc \in Unlistened

\* The flag is the status that was reported last, once the callback has treated it.
StatusTreated ==
  listener => /\ callback = "idle" => (is_matching <=> reported)
              /\ callback # "idle" => (reported <=> callback = "matching")

\* A route that was told of a match reads the topic for its bridges, or is about to.
MatchServed ==
  listener /\ is_matching /\ remote # {} /\ ~broken => Active \/ pc \in {"check", "activate"}

ServedInv == ListenerKept /\ StatusTreated /\ MatchServed

\* Readers that could all be created are all there.
LEMMA ActivatedActive ==
  ASSUME ReadersFit, activate_dds_readers, UNCHANGED reader_qos, ~broken'
  PROVE  Active' /\ ~broken
<1> DEFINE missing == {i \in {"main", "volatile"} : readers[i] = NoQos /\ reader_qos[i] # NoQos}
<1>1. /\ readers' = [i \in {"main", "volatile"} |->
                       IF i \in missing THEN reader_qos[i] ELSE readers[i]]
      /\ ~broken
  BY DEF activate_dds_readers
<1>2. \A i \in {"main", "volatile"} : readers'[i] = reader_qos[i]
  BY <1>1 DEF ReadersFit
<1> QED
  BY <1>1, <1>2 DEF Active

\* The steps that leave the Readers' side of the route alone.
LEMMA ServedStutters ==
  ASSUME ServedInv, UNCHANGED <<readers, reader_qos, matchVars, broken>>,
         remote' \subseteq remote,
         pc \notin Unlistened \cup {"check", "activate"}
  PROVE  ServedInv'
BY DEF ServedInv, ListenerKept, StatusTreated, MatchServed, Active, matchVars, Unlistened

\* The events of the manager and the announcements: a new bridge is checked for.
LEMMA EventsServe ==
  ASSUME ServedInv,
         \/ NodeDiscovered \/ NodeUndiscovered \/ WritersChanged \/ Add
         \/ \E z \in Zids : SubscriberAnnounced(z)
         \/ \E k \in retry : Retry(k)
         \/ Announce \/ AnnounceVolatile \/ Compare \/ Rebuild
  PROVE  ServedInv'
<1>1. UNCHANGED <<readers, reader_qos, matchVars, broken>>
  BY DEF NodeDiscovered, NodeUndiscovered, WritersChanged, Add, SubscriberAnnounced, Retry,
         Begin, Announce, AnnounceVolatile, Compare, Rebuild, routeVars, matchVars, failVars
<1>2. pc \notin Unlistened \cup {"check", "activate"}
  BY DEF NodeDiscovered, NodeUndiscovered, WritersChanged, Add, SubscriberAnnounced, Retry,
         Begin, Announce, AnnounceVolatile, Compare, Rebuild, Unlistened
<1>3. remote' = remote \/ pc' = "check"
  BY DEF NodeDiscovered, NodeUndiscovered, WritersChanged, Add, SubscriberAnnounced, Retry,
         Begin, Announce, AnnounceVolatile, Compare, Rebuild, routeVars, Goto
<1>4. CASE remote' = remote
  BY <1>1, <1>2, <1>4, ServedStutters
<1>5. CASE pc' = "check"
  BY <1>1, <1>2, <1>5
     DEF ServedInv, ListenerKept, StatusTreated, MatchServed, matchVars, Unlistened
<1> QED
  BY <1>3, <1>4, <1>5

\* The callback creates the Readers when it is told of a match.
LEMMA CallbackServes ==
  ASSUME IInv, ServedInv, CallbackBegin \/ CallbackBody
  PROVE  ServedInv'
<1>1. CASE CallbackBegin
  BY <1>1 DEF CallbackBegin, routeVars, taskVars, failVars, ServedInv, ListenerKept,
              StatusTreated, MatchServed, Active
<1>2. CASE CallbackBody
  <2>1. /\ callback # "idle"
        /\ callback' = "idle"
        /\ is_matching' = (callback = "matching")
        /\ UNCHANGED <<listener, reported, reader_qos, remote, pc>>
        /\ listener
    BY <1>2 DEF CallbackBody, routeVars, taskVars, IInv, CallbackListens
  <2>2. StatusTreated' /\ ListenerKept'
    BY <2>1 DEF ServedInv, StatusTreated, ListenerKept
  <2>3. MatchServed'
    <3>1. CASE callback = "matching"
      BY <1>2, <2>1, <3>1, ActivatedActive DEF CallbackBody, IInv, MatchServed
    <3>2. CASE callback # "matching"
      BY <2>1, <3>2 DEF MatchServed
    <3> QED
      BY <3>1, <3>2
  <2> QED
    BY <2>2, <2>3 DEF ServedInv
<1> QED
  BY <1>1, <1>2

\* The manager checks for a match after each step that takes Readers away.
LEMMA UpdateServes ==
  ASSUME IInv, ServedInv,
         \/ SetVolatileReader \/ Check \/ Activate
         \/ Unlisten \/ Deactivate \/ Swap \/ Listen
  PROVE  ServedInv'
<1> USE DEF Goto, routeVars, matchVars, failVars
<1>1. CASE SetVolatileReader
  <2>1. /\ UNCHANGED <<listener, is_matching, callback, reported, remote, broken>>
        /\ pc = "volatile"
    BY <1>1 DEF SetVolatileReader
  <2>2. CASE pc' = "check"
    BY <2>1, <2>2 DEF ServedInv, ListenerKept, StatusTreated, MatchServed, Unlistened
  <2>3. CASE UNCHANGED <<readers, reader_qos>>
    BY <2>1, <2>3, ServedStutters DEF Unlistened
  <2> QED
    BY <1>1, <2>2, <2>3 DEF SetVolatileReader
<1>2. CASE Check
  BY <1>2 DEF Check, Done, ServedInv, ListenerKept, StatusTreated, MatchServed, Active,
              Unlistened
<1>3. CASE Activate
  <2>1. /\ UNCHANGED <<listener, is_matching, callback, reported, reader_qos, remote>>
        /\ pc = "activate"
        /\ activate_dds_readers
        /\ broken => broken'
    BY <1>3 DEF Activate, activate_dds_readers
  <2>2. ~broken' => Active'
    BY <2>1, ActivatedActive DEF IInv
  <2> QED
    BY <2>1, <2>2 DEF ServedInv, ListenerKept, StatusTreated, MatchServed, Unlistened
<1>4. CASE Unlisten \/ Deactivate
  BY <1>4 DEF Unlisten, Deactivate, Undeclared, ServedInv, ListenerKept, StatusTreated,
              MatchServed, IInv, ListenerFits, Unlistened
<1>5. CASE Swap
  BY <1>5 DEF Swap, ServedInv, ListenerKept, StatusTreated, MatchServed, IInv, ListenerFits,
              Unlistened
<1>6. CASE Listen
  <2>1. /\ pc = "listen"
        /\ ~listener
        /\ ~is_matching
        /\ callback = "idle"
        /\ UNCHANGED <<is_matching, callback>>
    BY <1>6 DEF Listen, IInv, ListenerFits, CallbackListens, StagesInactive, Unlistened
  <2>2. CASE listener' /\ ~reported' /\ pc' = "check"
    BY <2>1, <2>2 DEF ServedInv, ListenerKept, StatusTreated, MatchServed
  <2>3. CASE broken' /\ ~listener'
    BY <2>1, <2>3 DEF ServedInv, ListenerKept, StatusTreated, MatchServed
  <2>4. (listener' /\ ~reported' /\ pc' = "check") \/ (broken' /\ ~listener')
    BY <1>6, <2>1 DEF Listen
  <2> QED
    BY <2>2, <2>3, <2>4
<1> QED
  BY <1>1, <1>2, <1>3, <1>4, <1>5, <1>6

\* The last bridge takes the Readers with it, and the Drop everything.
LEMMA DeparturesServe ==
  ASSUME IInv, ServedInv, (\E z \in Zids : RemoteLeaves(z)) \/ DropListener \/ DropReaders
  PROVE  ServedInv'
<1> USE DEF Goto, routeVars, failVars, ServedInv, ListenerKept, StatusTreated, MatchServed,
        Unlistened
<1>1. ASSUME NEW z \in Zids, RemoteLeaves(z) PROVE ServedInv'
  <2>1. remote' = {} \/ UNCHANGED readers
    BY <1>1 DEF RemoteLeaves
  <2> QED
    BY <1>1, <2>1 DEF RemoteLeaves, Active
<1>2. CASE DropListener \/ DropReaders
  BY <1>2 DEF DropListener, DropReaders, Undeclared, IInv, ListenerFits
<1> QED
  BY <1>1, <1>2

\* Every step keeps what is known of a matching bridge.
LEMMA ServedKept == IInv /\ ServedInv /\ [Next]_vars => ServedInv'
<1> SUFFICES ASSUME IInv, ServedInv, [Next]_vars PROVE ServedInv'
  OBVIOUS
<1>1. CASE Environment \/ Dropped \/ UNCHANGED vars
  <2>1. UNCHANGED <<matchVars, failVars, routeVars, pc>>
    BY <1>1 DEF Environment, ChangeWriters, ChangeSubscribers, Dropped, vars, taskVars
  <2> QED
    BY <2>1 DEF ServedInv, ListenerKept, StatusTreated, MatchServed, Active, matchVars,
                failVars, routeVars
<1> QED
  BY <1>1, EventsServe, CallbackServes, UpdateServes, DeparturesServe DEF Next, Manager, Update

\* A route that serves a remote bridge and has a matching subscriber reads the topic when
\* nothing is left to do about it, in whatever order bridges, matching statuses, rebuilds
\* and Writers came; only a Reader or listener that cannot be created prevents it.
THEOREM ServedRoutesRead == Spec => []NotListedButDead
<1>1. Init => ServedInv
  BY DEF Init, ServedInv, ListenerKept, StatusTreated, MatchServed
<1>2. IInv /\ ServedInv => NotListedButDead
  BY DEF ServedInv, ListenerKept, StatusTreated, MatchServed, NotListedButDead, Settled,
         Unlistened
<1> QED
  BY Invariant, ServedKept, <1>1, <1>2, PTL DEF Spec

-----------------------------------------------------------------------------
(* The QoS follows the Writers. *)

TokenFits(i) == token.main # NoQos => same_qos(token[i], Announced(writers)[i], FALSE)
ReaderFits(i) == same_qos(reader_qos[i], Desired(writers)[i], TRUE)

\* What the event has to adapt, or what is left of the route, is not looked at yet or any
\* more.
Unadapted == pc \in {"announce", "drop", "dropping", "dropped"} \/ (pc = "add" /\ task \notin Zids)

Comparing == {"announce_volatile", "compare", "rebuild", "unlisten", "deactivate", "swap"}

\* The manager knows the Writers that are there, unless it will be told of others.
WritersKnown == ~changed => writers = local

\* What an event has adapted so far stays so, unless there are new Writers to adapt it to
\* or a call has failed.
AdaptedSoFar ==
  ~changed /\ retry = {} /\ writers # <<>> /\ ~Unadapted =>
    /\ TokenFits("main")
    /\ pc # "announce_volatile" => TokenFits("volatile")
    /\ pc \notin Comparing => ReaderFits("main")
    /\ pc \notin Comparing \cup {"volatile"} => ReaderFits("volatile")

FollowInv == IsPair(token) /\ WritersKnown /\ AdaptedSoFar

\* A QoS is the same as itself.
LEMMA SameReflexive ==
  ASSUME NEW q, NEW reader
  PROVE  same_qos(q, q, reader)
BY DEF same_qos, same_route_qos

\* A failed event is tried again, or the new route is dropped.
LEMMA ErrorRetries == Error => retry' # {} \/ pc' = "drop"
BY DEF Error, Goto

\* The first stage of a route.
LEMMA FollowStarts == Init => FollowInv
<1> SUFFICES ASSUME Init PROVE FollowInv
  OBVIOUS
<1>1. /\ token.main = NoQos
      /\ reader_qos.main = Desired(writers).main
      /\ reader_qos.volatile = NoQos
      /\ pc = IF Desired(writers).volatile = NoQos THEN "add" ELSE "volatile"
  BY DEF Init, None
<1>2. ReaderFits("main")
  BY <1>1, SameReflexive DEF ReaderFits
<1>3. pc # "volatile" => ReaderFits("volatile")
  BY <1>1, SameReflexive DEF ReaderFits
<1> QED
  BY <1>1, <1>2, <1>3
     DEF Init, None, FollowInv, IsPair, WritersKnown, AdaptedSoFar, TokenFits

\* An event reads the Writers before it does anything; the event of a subscriber changes
\* nothing of what was adapted.
LEMMA EventsFollow ==
  ASSUME FollowInv,
         \/ NodeDiscovered \/ NodeUndiscovered \/ WritersChanged
         \/ \E z \in Zids : SubscriberAnnounced(z) \/ RemoteLeaves(z)
         \/ \E k \in retry : Retry(k)
  PROVE  FollowInv'
<1> USE DEF Goto, Begin, routeVars, envVars
<1>1. CASE NodeDiscovered \/ NodeUndiscovered \/ WritersChanged \/ \E k \in retry : Retry(k)
  <2>1. IsPair(token')
    BY <1>1 DEF NodeDiscovered, NodeUndiscovered, WritersChanged, Retry, FollowInv, IsPair, None
  <2>2. writers' = local'
    BY <1>1 DEF NodeDiscovered, NodeUndiscovered, WritersChanged, Retry
  <2>3. Unadapted' \/ writers' = <<>>
    BY <1>1, RoutePublisherAssumption
       DEF NodeDiscovered, NodeUndiscovered, WritersChanged, Retry, Unadapted
  <2> QED
    BY <2>1, <2>2, <2>3 DEF FollowInv, IsPair, WritersKnown, AdaptedSoFar
<1>2. ASSUME NEW z \in Zids, SubscriberAnnounced(z) PROVE FollowInv'
  BY <1>2 DEF SubscriberAnnounced, FollowInv, IsPair, WritersKnown, AdaptedSoFar, TokenFits,
              ReaderFits, Unadapted, Comparing
<1>3. ASSUME NEW z \in Zids, RemoteLeaves(z) PROVE FollowInv'
  BY <1>3 DEF RemoteLeaves, FollowInv, IsPair, WritersKnown, AdaptedSoFar, TokenFits,
              ReaderFits, Unadapted, Comparing
<1> QED
  BY <1>1, <1>2, <1>3

\* The node and its announcements.
LEMMA AnnouncementsFollow ==
  ASSUME FollowInv, Add \/ Announce \/ AnnounceVolatile
  PROVE  FollowInv'
<1> USE DEF Goto, routeVars, envVars
<1>1. CASE Add
  <2>1. UNCHANGED <<changed, local, retry, writers, reader_qos, task>> /\ pc = "add"
    BY <1>1 DEF Add
  <2>2. CASE task \in Zids
    <3>1. UNCHANGED token /\ pc' = "check"
      BY <1>1, <2>2 DEF Add
    <3> QED
      BY <2>1, <2>2, <3>1 DEF FollowInv, IsPair, WritersKnown, AdaptedSoFar, TokenFits,
                              ReaderFits, Unadapted, Comparing
  <2>3. CASE task \notin Zids
    <3>1. IsPair(token')
      BY <1>1, <2>3 DEF Add, FollowInv, IsPair
    <3>2. pc' = "announce"
      BY <1>1, <2>3 DEF Add
    <3> QED
      BY <2>1, <3>1, <3>2 DEF FollowInv, WritersKnown, AdaptedSoFar, Unadapted
  <2> QED
    BY <2>2, <2>3
<1>2. CASE Announce
  <2> DEFINE desired == Announced(writers).main
             change == /\ writers # <<>>
                       /\ token.main # NoQos
                       /\ ~same_qos(token.main, desired, FALSE)
  <2>1. /\ pc = "announce"
        /\ UNCHANGED <<changed, local, writers, reader_qos, task>>
        /\ \/ /\ pc' = IF writers # <<>> /\ token.main # NoQos THEN "announce_volatile"
                       ELSE "compare"
              /\ token' = IF change THEN [token EXCEPT !.main = desired] ELSE token
              /\ retry' = retry
           \/ Error /\ token' = token
    BY <1>2 DEF Announce
  <2>2. IsPair(token')
    BY <2>1 DEF FollowInv, IsPair
  <2>3. CASE Error /\ token' = token
    BY <2>1, <2>2, <2>3, ErrorRetries DEF FollowInv, WritersKnown, AdaptedSoFar, Unadapted
  <2>4. CASE /\ pc' = IF writers # <<>> /\ token.main # NoQos THEN "announce_volatile"
                      ELSE "compare"
             /\ token' = IF change THEN [token EXCEPT !.main = desired] ELSE token
             /\ retry' = retry
    <3>1. change => token'.main = desired
      BY <2>4 DEF FollowInv, IsPair
    <3>2. writers # <<>> => TokenFits("main")'
      BY <2>1, <2>4, <3>1, SameReflexive DEF TokenFits
    <3>3. writers # <<>> /\ pc' # "announce_volatile" => token'.main = NoQos
      BY <2>4
    <3>4. pc' \in Comparing
      BY <2>4 DEF Comparing
    <3>5. WritersKnown'
      BY <2>1 DEF FollowInv, WritersKnown
    <3>6. AdaptedSoFar'
      <4>1. CASE pc' = "announce_volatile"
        BY <2>1, <3>2, <3>4, <4>1 DEF AdaptedSoFar
      <4>2. CASE pc' # "announce_volatile"
        <5>1. writers # <<>> => TokenFits("volatile")'
          BY <3>3, <4>2 DEF TokenFits
        <5> QED
          BY <2>1, <3>2, <3>4, <5>1 DEF AdaptedSoFar
      <4> QED
        BY <4>1, <4>2
    <3> QED
      BY <2>2, <3>5, <3>6 DEF FollowInv
  <2> QED
    BY <2>1, <2>3, <2>4
<1>3. CASE AnnounceVolatile
  <2> DEFINE desired == Announced(writers).volatile
             change == desired # NoQos /\ ~same_qos(token.volatile, desired, FALSE)
             replaced == change \/ desired = NoQos
  <2>1. /\ pc = "announce_volatile"
        /\ UNCHANGED <<changed, local, writers, reader_qos, task>>
        /\ \/ /\ pc' = "compare"
              /\ token' = [token EXCEPT !.volatile =
                             IF replaced THEN desired ELSE token.volatile]
              /\ retry' = retry
           \/ Error /\ token' = [token EXCEPT !.volatile = NoQos]
    BY <1>3 DEF AnnounceVolatile
  <2>2. IsPair(token') /\ token'.main = token.main
    BY <2>1 DEF FollowInv, IsPair
  <2>3. CASE Error
    BY <2>1, <2>2, <2>3, ErrorRetries DEF FollowInv, WritersKnown, AdaptedSoFar, Unadapted
  <2>4. CASE /\ pc' = "compare"
             /\ token' = [token EXCEPT !.volatile =
                            IF replaced THEN desired ELSE token.volatile]
             /\ retry' = retry
    <3>1. token'.volatile = IF replaced THEN desired ELSE token.volatile
      BY <2>4 DEF FollowInv, IsPair
    <3>2. same_qos(token'.volatile, desired, FALSE)
      BY <3>1, SameReflexive
    <3>3. TokenFits("volatile")'
      BY <2>1, <3>2 DEF TokenFits
    <3>4. TokenFits("main")' <=> TokenFits("main")
      BY <2>1, <2>2 DEF TokenFits
    <3> QED
      BY <2>1, <2>2, <2>4, <3>3, <3>4
         DEF FollowInv, WritersKnown, AdaptedSoFar, Unadapted, Comparing
  <2> QED
    BY <2>1, <2>3, <2>4
<1> QED
  BY <1>1, <1>2, <1>3

\* The Readers' QoS: kept if it fits, else replaced by what the Writers ask for.
LEMMA UpdatesFollow ==
  ASSUME IInv, FollowInv,
         \/ Compare \/ SetVolatileReader
         \/ Rebuild \/ Unlisten \/ Deactivate \/ Swap \/ Listen
         \/ Check \/ Activate
  PROVE  FollowInv'
<1> USE DEF Goto, routeVars, envVars, Done
<1>1. /\ UNCHANGED <<changed, local, writers, token, task>>
      /\ retry' = retry \/ Error
      /\ pc \notin {"idle", "add", "announce", "announce_volatile", "drop", "dropping",
                    "dropped"}
  BY DEF Compare, SetVolatileReader, Rebuild, Unlisten, Deactivate, Swap, Listen, Check,
         Activate, Undeclared
<1>2. /\ IsPair(token')
      /\ WritersKnown'
      /\ \A i : TokenFits(i)' <=> TokenFits(i)
  BY <1>1 DEF FollowInv, IsPair, WritersKnown, TokenFits
<1>3. CASE Error
  BY <1>1, <1>2, <1>3, ErrorRetries DEF FollowInv, AdaptedSoFar, Unadapted
<1>4. SUFFICES ASSUME retry' = retry, ~Error,
                      ~changed, retry = {}, writers # <<>>
               PROVE  /\ pc' \notin Comparing => ReaderFits("main")'
                      /\ pc' \notin Comparing \cup {"volatile"} => ReaderFits("volatile")'
  BY <1>1, <1>2, <1>3 DEF FollowInv, AdaptedSoFar, Unadapted
<1>5. /\ pc \notin Comparing => ReaderFits("main")
      /\ pc \notin Comparing \cup {"volatile"} => ReaderFits("volatile")
  BY <1>1, <1>4 DEF FollowInv, AdaptedSoFar, Unadapted
<1>6. CASE Compare
  <2>1. UNCHANGED <<reader_qos, writers>>
    BY <1>6 DEF Compare
  <2>2. /\ pc' \notin Comparing => ReaderFits("main")
        /\ pc' \notin Comparing \cup {"volatile"} => ReaderFits("volatile")
    BY <1>6 DEF Compare, Comparing, ReaderFits
  <2> QED
    BY <2>1, <2>2 DEF ReaderFits
<1>7. CASE SetVolatileReader
  <2>1. /\ pc = "volatile"
        /\ reader_qos' = [reader_qos EXCEPT !.volatile = Desired(writers).volatile]
    BY <1>4, <1>7 DEF SetVolatileReader
  <2>2. /\ reader_qos'.main = reader_qos.main
        /\ reader_qos'.volatile = Desired(writers).volatile
    BY <2>1 DEF IInv, Shape, IsPair
  <2>3. ReaderFits("main")'
    BY <1>1, <1>5, <2>1, <2>2 DEF ReaderFits, Comparing
  <2>4. ReaderFits("volatile")'
    BY <1>1, <2>2, SameReflexive DEF ReaderFits
  <2> QED
    BY <2>3, <2>4
<1>8. CASE Rebuild \/ Unlisten \/ Deactivate
  BY <1>4, <1>8 DEF Rebuild, Unlisten, Deactivate, Undeclared, Comparing
<1>9. CASE Swap
  <2>1. reader_qos' = Desired(writers)
    BY <1>9 DEF Swap
  <2> QED
    BY <1>1, <2>1, SameReflexive DEF ReaderFits
<1>10. CASE Listen \/ Check \/ Activate
  <2>1. UNCHANGED reader_qos /\ pc \notin Comparing \cup {"volatile"}
    BY <1>4, <1>10 DEF Listen, Check, Activate, Comparing
  <2> QED
    BY <1>1, <1>5, <2>1 DEF ReaderFits
<1> QED
  BY <1>6, <1>7, <1>8, <1>9, <1>10

\* Every step keeps what was adapted.
LEMMA FollowKept == IInv /\ FollowInv /\ [Next]_vars => FollowInv'
<1> SUFFICES ASSUME IInv, FollowInv, [Next]_vars PROVE FollowInv'
  OBVIOUS
<1>1. CASE DropListener \/ DropReaders
  BY <1>1 DEF DropListener, DropReaders, Undeclared, Goto, routeVars, envVars, FollowInv,
              IsPair, WritersKnown, AdaptedSoFar, Unadapted
<1>2. CASE CallbackBegin \/ CallbackBody \/ Environment \/ Dropped \/ UNCHANGED vars
  <2>1. /\ UNCHANGED <<retry, writers, token, reader_qos, pc, task>>
        /\ changed' \/ UNCHANGED <<changed, local>>
    BY <1>2 DEF CallbackBegin, CallbackBody, Environment, ChangeWriters, ChangeSubscribers,
                Dropped, vars, taskVars, envVars, routeVars
  <2> QED
    BY <2>1 DEF FollowInv, IsPair, WritersKnown, AdaptedSoFar, TokenFits, ReaderFits,
                Unadapted
<1> QED
  BY <1>1, <1>2, EventsFollow, AnnouncementsFollow, UpdatesFollow DEF Next, Manager, Update

\* When nothing is left to do, the QoS of the Readers and of the announcements is the one
\* derived from the Writers that are there, whichever calls have failed and were retried.
THEOREM QosFollowsWriters == Spec => []FollowsWriters
<1>1. IInv /\ FollowInv => FollowsWriters
  <2> SUFFICES ASSUME FollowInv, Settled, local # <<>>
               PROVE  \A i \in {"main", "volatile"} :
                        /\ same_qos(reader_qos[i], Desired(local)[i], TRUE)
                        /\ token.main # NoQos => same_qos(token[i], Announced(local)[i], FALSE)
    BY DEF FollowsWriters
  <2>1. ~changed /\ retry = {} /\ writers = local /\ pc = "idle"
    BY DEF FollowInv, WritersKnown, Settled
  <2>2. \A i \in {"main", "volatile"} : TokenFits(i) /\ ReaderFits(i)
    BY <2>1 DEF FollowInv, AdaptedSoFar, Unadapted, Comparing
  <2> QED
    BY <2>1, <2>2 DEF TokenFits, ReaderFits
<1> QED
  BY Invariant, FollowStarts, FollowKept, <1>1, PTL DEF Spec

-----------------------------------------------------------------------------
(* The types of the QoS that are derived. *)

\* The records of the histories are told apart by their kinds.
LEMMA HistoryTypes ==
  /\ UnsetHistory \in Histories
  /\ \A d \in Int : KeepLast(d) \in Histories /\ KeepAll(d) \in Histories
  /\ \A r \in {"none", "unset", "BEST_EFFORT", "RELIABLE"}, t \in BOOLEAN, h \in Histories,
        s \in Histories : Qos(r, t, h, s) \in Qoses
  /\ NoQos \in Qoses /\ NoQos \notin EntityQoses
  /\ \A q \in EntityQoses : q \in Qoses /\ q # NoQos
BY DEF UnsetHistory, Histories, KeepLast, KeepAll, Qos, Qoses, NoQos, EntityQoses

\* The history of a QoS is set.
LEMMA HistoryOfType ==
  ASSUME NEW q \in Qoses
  PROVE  /\ history_of(q) \in Histories
         /\ history_of(q).kind \in {"KEEP_LAST", "KEEP_ALL"}
         /\ history_of(q).kind = "KEEP_LAST" =>
              history_of(q).depth \in Nat /\ history_of(q).depth >= 1
<1>1. q.history \in Histories /\ q.history.kind \in {"unset", "KEEP_LAST", "KEEP_ALL"}
      /\ q.history.depth \in Int
  BY DEF Qoses, Histories
<1>2. \A d \in Int : Greatest(d, 1) \in Nat /\ Greatest(d, 1) >= 1
  BY DEF Greatest
<1>3. CASE q.history.kind = "unset"
  <2>1. history_of(q) = KeepLast(1)
    BY <1>3 DEF history_of
  <2> QED
    BY <2>1, HistoryTypes DEF KeepLast
<1>4. CASE q.history.kind = "KEEP_LAST"
  <2>1. history_of(q) = KeepLast(Greatest(q.history.depth, 1))
    BY <1>4 DEF history_of
  <2> QED
    BY <1>1, <1>2, <2>1, HistoryTypes DEF KeepLast
<1>5. CASE q.history.kind = "KEEP_ALL"
  <2>1. history_of(q) = q.history
    BY <1>5 DEF history_of
  <2> QED
    BY <1>1, <1>5, <2>1
<1> QED
  BY <1>1, <1>3, <1>4, <1>5

\* The elements of a sequence have a finite domain.
LEMMA SequenceDomain ==
  ASSUME NEW S, NEW s \in Seq(S)
  PROVE  /\ DOMAIN s = 1 .. Len(s) /\ Len(s) \in Nat
         /\ IsFiniteSet(DOMAIN s) /\ \A set \in SUBSET DOMAIN s : IsFiniteSet(set)
         /\ \A i \in DOMAIN s : s[i] \in S
         /\ s = <<>> <=> DOMAIN s = {}
<1>1. DOMAIN s = 1 .. Len(s) /\ Len(s) \in Nat /\ \A i \in DOMAIN s : s[i] \in S
  OBVIOUS
<1>2. IsFiniteSet(DOMAIN s)
  BY <1>1, FS_Interval
<1>3. \A set \in SUBSET DOMAIN s : IsFiniteSet(set)
  BY <1>2, FS_Subset
<1>4. s = <<>> <=> DOMAIN s = {}
  OBVIOUS
<1> QED
  BY <1>1, <1>2, <1>3, <1>4

\* The strongest of the histories is one.
LEMMA MaxHistoryType ==
  ASSUME NEW qoses \in Seq(Qoses)
  PROVE  /\ max_history(qoses) \in Histories
         /\ max_history(qoses).kind \in {"KEEP_LAST", "KEEP_ALL"}
         /\ max_history(qoses).kind = "KEEP_LAST" => max_history(qoses).depth \in Nat
<1> DEFINE keep_all == {i \in DOMAIN qoses : history_of(qoses[i]).kind = "KEEP_ALL"}
           depths == {history_of(qoses[i]).depth : i \in DOMAIN qoses}
<1>1. \A i \in DOMAIN qoses : qoses[i] \in Qoses
  BY SequenceDomain
<1>2. CASE qoses = <<>>
  <2>1. max_history(qoses) = KeepLast(1)
    BY <1>2 DEF max_history
  <2> QED
    BY <2>1, HistoryTypes DEF KeepLast
<1>3. CASE qoses # <<>> /\ keep_all # {}
  <2>1. max_history(qoses) = history_of(qoses[Min(keep_all)])
    BY <1>3 DEF max_history
  <2>2. Min(keep_all) \in keep_all
    <3>1. keep_all \subseteq Nat
      BY SequenceDomain
    <3>2. \E i \in keep_all : \A j \in keep_all : i <= j
      <4> HIDE DEF keep_all
      <4> QED
        BY <1>3, <3>1, LeastNatural
    <3> QED
      BY <3>2 DEF Min
  <2> QED
    BY <1>1, <2>1, <2>2, HistoryOfType
<1>4. CASE qoses # <<>> /\ keep_all = {}
  <2>1. max_history(qoses) = KeepLast(Max(depths))
    BY <1>4 DEF max_history
  <2>2. depths \subseteq Nat
    BY <1>1, <1>4, HistoryOfType
  <2>3. IsFiniteSet(depths)
    <3> DEFINE depth == [i \in DOMAIN qoses |-> history_of(qoses[i]).depth]
    <3>1. IsFiniteSet(DOMAIN qoses)
      BY SequenceDomain
    <3>2. depth \in Surjection(DOMAIN qoses, depths)
      BY DEF Surjection, Range
    <3> QED
      BY <3>1, <3>2, FS_Surjection
  <2>4. depths # {}
    <3>1. PICK i \in DOMAIN qoses : TRUE
      BY <1>4, SequenceDomain
    <3>2. history_of(qoses[i]).depth \in depths
      OBVIOUS
    <3> QED
      BY <3>2
  <2>5. Max(depths) \in Nat
    <3> HIDE DEF depths
    <3> QED
      BY <2>2, <2>3, <2>4, MaxOfFinite
  <2> QED
    BY <2>1, <2>5, HistoryTypes DEF KeepLast
<1> QED
  BY <1>2, <1>3, <1>4

\* The history of a route is set.
LEMMA RouteHistoryType ==
  ASSUME NEW qoses \in Seq(Qoses), NEW multiplier \in Nat
  PROVE  route_history(qoses, multiplier) \in Histories
<1> DEFINE strongest == max_history(qoses)
           tl == {i \in DOMAIN qoses : is_transient_local(qoses[i])}
           depth == [i \in tl |-> history_of(qoses[i]).depth]
           sum == SumFunctionOnSet(depth, tl)
           factor == IF Cardinality(tl) > 1 THEN Greatest(multiplier, 1) ELSE 1
<1>1. route_history(qoses, multiplier) =
        IF strongest.kind = "KEEP_ALL" \/ tl = {} THEN strongest
        ELSE KeepLast(Least(sum * factor, MAX_TL_DEPTH))
  BY DEF route_history
<1>2. strongest \in Histories
  BY MaxHistoryType
<1>3. sum \in Int
  <2>1. IsFiniteSet(tl) /\ \A i \in tl : qoses[i] \in Qoses
    BY SequenceDomain
  <2>2. \A i \in tl : depth[i] \in Int
    BY <2>1, HistoryOfType DEF Histories
  <2> HIDE DEF tl, depth
  <2> QED
    BY <2>1, <2>2, SumType
<1>4. factor \in Nat
  BY DEF Greatest
<1>5. \A i, j \in Int : i * j \in Int
  OBVIOUS
<1>6. Least(sum * factor, MAX_TL_DEPTH) \in Int
  <2>1. sum * factor \in Int
    <3> HIDE DEF sum, factor
    <3> QED
      BY <1>3, <1>4, <1>5
  <2> HIDE DEF sum, factor
  <2> QED
    BY <2>1, QosAssumption DEF Least
<1> HIDE DEF strongest, tl, sum, factor
<1> QED
  BY <1>1, <1>2, <1>6, HistoryTypes

\* The QoS that are derived are QoS of DDS entities.
LEMMA DerivedTypes ==
  ASSUME NEW qoses \in Seq(EntityQoses)
  PROVE  /\ reader_qos_for_local_writers(qoses) \in EntityQoses
         /\ announced_qos_for_local_writers(qoses) \in EntityQoses
         /\ writer_qos_for_remote_writers(qoses) \in EntityQoses
<1>1. qoses \in Seq(Qoses)
  <2>1. EntityQoses \subseteq Qoses
    BY DEF EntityQoses
  <2> QED
    BY <2>1, SequenceDomain, IsASeq
<1>2. /\ route_history(qoses, tl_cache_multiplier) \in Histories
      /\ route_history(qoses, 1) \in Histories
  BY <1>1, RouteHistoryType, QosAssumption
<1>3. \A t : Rel(t) \in {"RELIABLE", "BEST_EFFORT"}
  BY DEF Rel
<1>4. \A r \in {"RELIABLE", "BEST_EFFORT"}, t \in BOOLEAN, h \in Histories, s \in Histories :
        Qos(r, t, h, s) \in EntityQoses
  BY DEF Qos, EntityQoses, Qoses
<1>5. qoses # <<>> => Head(qoses).ds \in Histories
  <2>1. qoses # <<>> => Head(qoses) \in EntityQoses
    OBVIOUS
  <2> QED
    BY <2>1 DEF EntityQoses, Qoses
<1>6. UnsetHistory \in Histories
  BY HistoryTypes
<1>7. reader_qos_for_local_writers(qoses) \in EntityQoses
  <2> DEFINE rel == Rel(qoses # <<>> /\ \A i \in DOMAIN qoses : is_reliable(qoses[i]))
             tl == qoses # <<>> /\ \A i \in DOMAIN qoses : is_transient_local(qoses[i])
             history == route_history(qoses, tl_cache_multiplier)
  <2>1. reader_qos_for_local_writers(qoses) = Qos(rel, tl, history, UnsetHistory)
    BY DEF reader_qos_for_local_writers, Every
  <2>2. tl \in BOOLEAN /\ rel \in {"RELIABLE", "BEST_EFFORT"}
    BY <1>3
  <2> HIDE DEF rel, tl
  <2> QED
    BY <1>2, <1>4, <1>6, <2>1, <2>2
<1>8. announced_qos_for_local_writers(qoses) \in EntityQoses
  <2> DEFINE rel == Rel(\E i \in DOMAIN qoses : is_reliable(qoses[i]))
             tl == \E i \in DOMAIN qoses : is_transient_local(qoses[i])
             history == route_history(qoses, tl_cache_multiplier)
             ds == IF qoses = <<>> THEN UnsetHistory ELSE Head(qoses).ds
  <2>1. announced_qos_for_local_writers(qoses) = Qos(rel, tl, history, ds)
    BY DEF announced_qos_for_local_writers, Some
  <2>2. tl \in BOOLEAN /\ rel \in {"RELIABLE", "BEST_EFFORT"} /\ ds \in Histories
    BY <1>3, <1>5, <1>6
  <2> HIDE DEF rel, tl, ds
  <2> QED
    BY <1>2, <1>4, <2>1, <2>2
<1>9. writer_qos_for_remote_writers(qoses) \in EntityQoses
  BY <1>2, <1>4, <1>6 DEF writer_qos_for_remote_writers, Some
<1> QED
  BY <1>7, <1>8, <1>9

\* The Writers of one durability are a sequence of Writers.
LEMMA SplitTypes ==
  ASSUME NEW ws \in Seq(EntityQoses)
  PROVE  TransientLocal(ws) \in Seq(EntityQoses) /\ Volatile(ws) \in Seq(EntityQoses)
BY SubsequenceElements DEF TransientLocal, Volatile

\* What the Readers and the announcements of a route are to be: a QoS for all Writers, or
\* one for those of each durability.
LEMMA PairTypes ==
  ASSUME NEW p \in Profiles
  PROVE  Desired(p) \in Pairs /\ Announced(p) \in Pairs
<1>1. p \in Seq(EntityQoses)
  BY RoutePublisherAssumption
<1>2. TransientLocal(p) \in Seq(EntityQoses) /\ Volatile(p) \in Seq(EntityQoses)
  BY <1>1, SplitTypes
<1>3. \A ws \in Seq(EntityQoses) :
        /\ reader_qos_for_local_writers(ws) \in EntityQoses
        /\ announced_qos_for_local_writers(ws) \in EntityQoses
  BY DerivedTypes
<1>4. Desired(p) \in Pairs
  <2>1. CASE mixed_durability(p)
    <3>1. Desired(p) = [main |-> reader_qos_for_local_writers(TransientLocal(p)),
                        volatile |-> reader_qos_for_local_writers(Volatile(p))]
      BY <2>1 DEF Desired, readers_qos_for_local_writers, SplitInTwo
    <3> QED
      BY <1>2, <1>3, <3>1 DEF Pairs
  <2>2. CASE ~mixed_durability(p)
    <3>1. Desired(p) = [main |-> reader_qos_for_local_writers(p), volatile |-> NoQos]
      BY <2>2 DEF Desired, readers_qos_for_local_writers, SplitInTwo
    <3> QED
      BY <1>1, <1>3, <3>1 DEF Pairs
  <2> QED
    BY <2>1, <2>2
<1>5. Announced(p) \in Pairs
  <2>1. CASE mixed_durability(p)
    <3>1. Announced(p) = [main |-> announced_qos_for_local_writers(TransientLocal(p)),
                          volatile |-> announced_qos_for_local_writers(Volatile(p))]
      BY <2>1 DEF Announced, announced_qoses_for_local_writers, SplitInTwo
    <3> QED
      BY <1>2, <1>3, <3>1 DEF Pairs
  <2>2. CASE ~mixed_durability(p)
    <3>1. Announced(p) = [main |-> announced_qos_for_local_writers(p), volatile |-> NoQos]
      BY <2>2 DEF Announced, announced_qoses_for_local_writers, SplitInTwo
    <3> QED
      BY <1>1, <1>3, <3>1 DEF Pairs
  <2> QED
    BY <2>1, <2>2
<1> QED
  BY <1>4, <1>5

-----------------------------------------------------------------------------
(* Type correctness. *)

\* Replacing one of the QoS of a pair gives a pair.
LEMMA PairReplaced ==
  ASSUME NEW x \in Pairs, NEW q \in EntityQoses \cup {NoQos}
  PROVE  /\ [x EXCEPT !.main = q] \in Pairs /\ [x EXCEPT !.volatile = q] \in Pairs
         /\ x.main \in EntityQoses \cup {NoQos} /\ x.volatile \in EntityQoses \cup {NoQos}
BY DEF Pairs

\* No QoS at all is a pair.
LEMMA NoneIsPair == None \in Pairs
BY DEF None, Pairs

\* A call that fails is counted, up to the bound.
LEMMA FailuresBounded ==
  ASSUME failures \in 0 .. MaxFailures, NEW bad \in BOOLEAN, Fails(bad)
  PROVE  failures' \in 0 .. MaxFailures
BY RoutePublisherAssumption DEF Fails

\* The created Readers have the QoS of the route.
LEMMA ActivatedTypes ==
  ASSUME TypeOK, activate_dds_readers
  PROVE  readers' \in Pairs /\ broken' \in BOOLEAN /\ failures' \in 0 .. MaxFailures
<1> DEFINE missing == {i \in {"main", "volatile"} : readers[i] = NoQos /\ reader_qos[i] # NoQos}
<1>1. PICK created \in SUBSET missing :
        /\ readers' = [i \in {"main", "volatile"} |->
                         IF i \in created THEN reader_qos[i] ELSE readers[i]]
        /\ broken' = (broken \/ created # missing)
        /\ Fails(created # missing)
  BY DEF activate_dds_readers
<1>2. \A i \in {"main", "volatile"} :
        reader_qos[i] \in EntityQoses \cup {NoQos} /\ readers[i] \in EntityQoses \cup {NoQos}
  BY DEF TypeOK, Pairs
<1>3. readers' = [main |-> readers'.main, volatile |-> readers'.volatile]
      /\ readers'.main \in EntityQoses \cup {NoQos}
      /\ readers'.volatile \in EntityQoses \cup {NoQos}
  BY <1>1, <1>2
<1>4. readers' \in Pairs
  BY <1>3 DEF Pairs
<1>5. broken' \in BOOLEAN
  BY <1>1 DEF TypeOK
<1>6. failures' \in 0 .. MaxFailures
  BY <1>1, FailuresBounded DEF TypeOK
<1> QED
  BY <1>4, <1>5, <1>6

\* The initial state of a route is of its types.
LEMMA InitTypes == Init => TypeOK
<1> SUFFICES ASSUME Init PROVE TypeOK
  OBVIOUS
<1>1. Desired(local) \in Pairs /\ None \in Pairs
  BY PairTypes, NoneIsPair DEF Init
<1>2. reader_qos \in Pairs
  BY <1>1, PairReplaced DEF Init
<1>3. /\ token \in Pairs /\ publisher \in Pairs /\ readers \in Pairs /\ old_qos \in Pairs
  BY <1>1, <1>2 DEF Init
<1>4. pc \in {"add", "volatile"} /\ task \in {"discovered"} \cup Zids
  BY DEF Init
<1>5. changes \in 0 .. MaxChanges /\ failures \in 0 .. MaxFailures
  BY RoutePublisherAssumption DEF Init
<1> QED
  BY <1>2, <1>3, <1>4, <1>5 DEF Init, TypeOK

\* The types of the variables that the manager's work on the QoS changes.
UpdateTypes ==
  /\ pc \in {"idle", "add", "announce_volatile", "compare", "volatile", "rebuild", "unlisten",
             "deactivate", "swap", "listen", "check", "activate", "drop"}
  /\ retry \subseteq {"node", "writers"}
  /\ {token, reader_qos, publisher, readers, old_qos} \subseteq Pairs
  /\ listener \in BOOLEAN
  /\ is_matching \in BOOLEAN
  /\ reported \in BOOLEAN
  /\ failures \in 0 .. MaxFailures
  /\ broken \in BOOLEAN

\* The end of an update that succeeds or fails.
LEMMA EndsTyped ==
  ASSUME TypeOK
  PROVE  /\ Done => pc' \in {"add", "idle"}
         /\ Error => pc' \in {"drop", "idle"} /\ retry' \subseteq {"node", "writers"}
         /\ Fails(TRUE) => failures' \in 0 .. MaxFailures
BY FailuresBounded DEF TypeOK, Done, Error, Goto, RetryKey

\* The announcements are replaced by ones that are derived.
LEMMA AnnouncementsTyped ==
  ASSUME TypeOK, Announce \/ AnnounceVolatile
  PROVE  UpdateTypes'
<1>1. Announced(writers) \in Pairs
  BY PairTypes DEF TypeOK
<1>2. /\ Announced(writers).main \in EntityQoses \cup {NoQos}
      /\ Announced(writers).volatile \in EntityQoses \cup {NoQos}
      /\ NoQos \in EntityQoses \cup {NoQos}
      /\ token \in Pairs /\ token.volatile \in EntityQoses \cup {NoQos}
  BY <1>1, PairReplaced DEF TypeOK
<1>3. /\ UNCHANGED <<reader_qos, publisher, readers, old_qos, listener, is_matching, reported,
                     broken>>
      /\ token' \in Pairs
      /\ pc' \in {"announce_volatile", "compare", "drop", "idle"}
      /\ retry' \subseteq {"node", "writers"}
      /\ failures' \in 0 .. MaxFailures
  <2>1. CASE Announce
    <3>1. token' \in {[token EXCEPT !.main = Announced(writers).main], token}
      BY <2>1 DEF Announce
    <3>2. token' \in Pairs
      BY <1>2, <3>1, PairReplaced
    <3>3. \/ /\ Error /\ Fails(TRUE)
          \/ /\ pc' \in {"announce_volatile", "compare"}
             /\ UNCHANGED <<retry, failures>>
      BY <2>1 DEF Announce, Goto
    <3>4. UNCHANGED <<reader_qos, publisher, readers, old_qos, listener, is_matching, reported,
                      broken>>
      BY <2>1 DEF Announce, matchVars
    <3> QED
      BY <3>2, <3>3, <3>4, EndsTyped DEF TypeOK
  <2>2. CASE AnnounceVolatile
    <3>1. \E q \in {Announced(writers).volatile, token.volatile, NoQos} :
            token' = [token EXCEPT !.volatile = q]
      BY <2>2 DEF AnnounceVolatile
    <3>2. token' \in Pairs
      BY <1>2, <3>1, PairReplaced
    <3>3. \/ /\ Error /\ Fails(TRUE)
          \/ /\ pc' = "compare"
             /\ UNCHANGED <<retry, failures>>
      BY <2>2 DEF AnnounceVolatile, Goto
    <3>4. UNCHANGED <<reader_qos, publisher, readers, old_qos, listener, is_matching, reported,
                      broken>>
      BY <2>2 DEF AnnounceVolatile, matchVars
    <3> QED
      BY <3>2, <3>3, <3>4, EndsTyped DEF TypeOK
  <2> QED
    BY <2>1, <2>2
<1> QED
  BY <1>3 DEF TypeOK, UpdateTypes

\* The VOLATILE Reader takes the QoS that is derived for it.
LEMMA SetVolatileReaderTyped ==
  ASSUME TypeOK, SetVolatileReader
  PROVE  UpdateTypes'
<1>1. Desired(writers).volatile \in EntityQoses \cup {NoQos} /\ NoQos \in EntityQoses \cup {NoQos}
  BY PairTypes, PairReplaced DEF TypeOK
<1>2. readers' \in Pairs /\ reader_qos' \in Pairs /\ publisher' \in Pairs
  <2>1. /\ readers' \in {[readers EXCEPT !.volatile = NoQos], readers}
        /\ reader_qos' \in {[reader_qos EXCEPT !.volatile = Desired(writers).volatile],
                            reader_qos}
        /\ publisher' \in {[publisher EXCEPT !.volatile = Desired(writers).volatile],
                           publisher}
    BY DEF SetVolatileReader
  <2>2. readers \in Pairs /\ reader_qos \in Pairs /\ publisher \in Pairs
    BY DEF TypeOK
  <2> QED
    BY <1>1, <2>1, <2>2, PairReplaced
<1>3. \/ Error /\ Fails(TRUE)
      \/ pc' = "check" /\ UNCHANGED <<retry, failures>>
  BY DEF SetVolatileReader, Goto
<1>4. UNCHANGED <<token, old_qos, listener, is_matching, reported, broken>>
  BY DEF SetVolatileReader
<1> QED
  BY <1>2, <1>3, <1>4, EndsTyped DEF TypeOK, UpdateTypes

\* So do the Readers in a rebuild; a failure brings back the QoS of before.
LEMMA RebuildTyped ==
  ASSUME TypeOK, Compare \/ Rebuild \/ Unlisten \/ Deactivate \/ Swap \/ Listen \/ Check
  PROVE  UpdateTypes'
<1>1. Desired(writers) \in Pairs /\ None \in Pairs
  BY PairTypes, NoneIsPair DEF TypeOK
<1> USE DEF TypeOK, UpdateTypes, Goto, routeVars, matchVars, failVars
<1>2. CASE Compare \/ Check
  BY <1>2, EndsTyped DEF Compare, Check
<1>3. CASE Rebuild
  BY <1>3, EndsTyped DEF Rebuild
<1>4. CASE Unlisten
  BY <1>4 DEF Unlisten, Undeclared
<1>5. CASE Deactivate
  BY <1>1, <1>5 DEF Deactivate
<1>6. CASE Swap
  BY <1>1, <1>6 DEF Swap
<1>7. CASE Listen
  BY <1>7, EndsTyped DEF Listen
<1> QED
  BY <1>2, <1>3, <1>4, <1>5, <1>6, <1>7

\* An update changes nothing else.
LEMMA UpdateTyped ==
  ASSUME TypeOK, Update
  PROVE  TypeOK'
<1>1. UpdateTypes'
  <2>1. CASE Activate
    <3>1. readers' \in Pairs /\ broken' \in BOOLEAN /\ failures' \in 0 .. MaxFailures
      BY <2>1, ActivatedTypes DEF Activate
    <3>2. pc' \in {"add", "idle"}
      BY <2>1, EndsTyped DEF Activate
    <3>3. UNCHANGED <<retry, token, reader_qos, publisher, old_qos, listener, is_matching,
                      reported>>
      BY <2>1 DEF Activate, routeVars
    <3> QED
      BY <3>1, <3>2, <3>3 DEF TypeOK, UpdateTypes
  <2> QED
    BY <2>1, AnnouncementsTyped, SetVolatileReaderTyped, RebuildTyped DEF Update
<1>2. UNCHANGED <<local, writers, changed, changes, subscribers, task, creating, node, remote,
                  callback>>
  BY DEF Update, Announce, AnnounceVolatile, Compare, SetVolatileReader, Rebuild, Unlisten,
     Deactivate, Swap, Listen, Check, Activate, envVars, routeVars, matchVars
<1> QED
  BY <1>1, <1>2 DEF TypeOK, UpdateTypes

\* The events of the manager read Writers and begin their work.
LEMMA EventsTyped ==
  ASSUME TypeOK,
         \/ NodeDiscovered \/ WritersChanged
         \/ \E z \in Zids : SubscriberAnnounced(z)
         \/ \E k \in retry : Retry(k)
  PROVE  TypeOK'
<1>1. /\ pc' \in {"idle", "add", "announce"}
      /\ task' \in {"discovered", "undiscovered", "writers"} \cup Zids
      /\ retry' \subseteq {"node", "writers"}
      /\ writers' = local
      /\ changed' \in BOOLEAN
  BY DEF TypeOK, NodeDiscovered, WritersChanged, SubscriberAnnounced, Retry, Begin, Goto, envVars
<1>2. UNCHANGED <<local, changes, subscribers, creating, old_qos, routeVars, matchVars,
                  failVars>>
  BY DEF NodeDiscovered, WritersChanged, SubscriberAnnounced, Retry, Begin, envVars
<1> QED
  BY <1>1, <1>2 DEF TypeOK, routeVars, matchVars, failVars

\* Nodes and bridges come and go; the first node announces the route.
LEMMA UsersTyped ==
  ASSUME TypeOK, Add \/ NodeUndiscovered \/ \E z \in Zids : RemoteLeaves(z)
  PROVE  TypeOK'
<1>1. None \in Pairs
  BY NoneIsPair
<1>2. CASE Add
  <2>1. UNCHANGED <<task, writers, old_qos, retry, reader_qos, publisher, envVars, matchVars,
                    broken>> /\ creating' = FALSE
    BY <1>2 DEF Add
  <2>2. pc' \in {"check", "announce"} /\ remote' \subseteq Zids /\ node' \in BOOLEAN
    BY <1>2 DEF Add, Goto, TypeOK
  <2>3. failures' \in 0 .. MaxFailures
    BY <1>2, FailuresBounded DEF Add, TypeOK
  <2>4. token' \in Pairs
    <3>1. token' \in {token, [token EXCEPT !.main = Announced(writers).main]}
      BY <1>2 DEF Add
    <3>2. token \in Pairs /\ Announced(writers).main \in EntityQoses \cup {NoQos}
      BY PairTypes, PairReplaced DEF TypeOK
    <3> QED
      BY <3>1, <3>2, PairReplaced
  <2> QED
    BY <2>1, <2>2, <2>3, <2>4 DEF TypeOK, envVars, matchVars
<1>3. CASE NodeUndiscovered
  BY <1>1, <1>3 DEF NodeUndiscovered, Goto, TypeOK, envVars, matchVars, failVars
<1>4. CASE \E z \in Zids : RemoteLeaves(z)
  BY <1>1, <1>4 DEF RemoteLeaves, Goto, TypeOK, envVars, failVars
<1> QED
  BY <1>2, <1>3, <1>4

\* The Drop ends listener and Readers; the callback creates Readers or deletes them.
LEMMA OthersTyped ==
  ASSUME TypeOK,
         \/ DropListener \/ DropReaders
         \/ CallbackBegin \/ CallbackBody \/ Environment \/ Dropped \/ UNCHANGED vars
  PROVE  TypeOK'
<1>1. None \in Pairs
  BY NoneIsPair
<1> USE DEF envVars, taskVars, routeVars, failVars
<1>2. CASE DropListener \/ DropReaders
  BY <1>1, <1>2 DEF DropListener, DropReaders, Undeclared, Goto, TypeOK
<1>3. CASE CallbackBegin
  BY <1>3 DEF CallbackBegin, Matching, TypeOK
<1>4. CASE CallbackBody
  <2>1. readers' \in Pairs /\ broken' \in BOOLEAN /\ failures' \in 0 .. MaxFailures
    BY <1>1, <1>4, ActivatedTypes DEF CallbackBody, TypeOK
  <2> QED
    BY <1>4, <2>1 DEF CallbackBody, TypeOK
<1>5. CASE Environment
  <2>1. CASE \E p \in Profiles : ChangeWriters(p)
    BY <2>1, RoutePublisherAssumption DEF ChangeWriters, TypeOK, matchVars
  <2>2. CASE \E s \in Zids \cup Plain : ChangeSubscribers(s)
    BY <2>2 DEF ChangeSubscribers, TypeOK, matchVars
  <2> QED
    BY <1>5, <2>1, <2>2 DEF Environment
<1>6. CASE Dropped \/ UNCHANGED vars
  <2>1. UNCHANGED vars
    BY <1>6 DEF Dropped
  <2>2. UNCHANGED <<local, changed, changes, subscribers, task, pc, creating, writers, old_qos,
                    retry>>
    BY <2>1 DEF vars
  <2>3. UNCHANGED <<node, remote, token, reader_qos, publisher, readers, listener, is_matching,
                    callback, reported, failures, broken>>
    BY <2>1 DEF vars, matchVars
  <2> QED
    BY <2>2, <2>3 DEF TypeOK
<1> QED
  BY <1>2, <1>3, <1>4, <1>5, <1>6

\* Every QoS of a route is one that a DDS entity may have, or none; stages, queued retries
\* and users are what the manager knows of, after any events and failures.
THEOREM TypeCorrect == Spec => []TypeOK
<1>1. TypeOK /\ [Next]_vars => TypeOK'
  BY UpdateTyped, EventsTyped, UsersTyped, OthersTyped DEF Next, Manager
<1> QED
  BY InitTypes, <1>1, PTL DEF Spec

=============================================================================
