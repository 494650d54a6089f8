-------------------------- MODULE ServiceRoutesProofs --------------------------
(***************************************************************************)
(* Theorems about the routing of a service, for any calls, request ids,    *)
(* servers, bridges and bounds: every step of the two routes is one that   *)
(* ServiceCall allows, or none.                                            *)
(*                                                                         *)
(* The argument follows a request: what waits on the server's side for a   *)
(* reply to a client's request waits under the id of that request, so what *)
(* comes back to a client has been answered under its id; and the client's *)
(* side lets one reply through.                                            *)
(***************************************************************************)
EXTENDS ServiceRoutes, TLAPS

-----------------------------------------------------------------------------
(* The calls. *)

CallRecord ==
  [open : BOOLEAN, writer : Nat, reply_received : BOOLEAN, replies : Nat, over : BOOLEAN]

CallsType ==
  /\ calls \in [Calls -> CallRecord]
  /\ req_reader \in Nat
  /\ activations \in Nat

\* A call that has not begun has got nothing, and one reply at most counts.
OneReply ==
  \A c \in Calls :
    /\ ~calls[c].open => ~calls[c].reply_received /\ ~calls[c].over
    /\ ~calls[c].reply_received => calls[c].replies = 0
    /\ calls[c].replies \in {0, 1}

\* What is on its way belongs to calls that have begun.
OnTheWay ==
  /\ \A c \in queries : c \in Calls /\ calls[c].open
  /\ \A id \in DOMAIN queries_in_progress :
       /\ queries_in_progress[id] \in Calls
       /\ calls[queries_in_progress[id]].open
  /\ \A r \in zenoh_replies : r.call \in Calls /\ calls[r.call].open

\* A client's request waits under its own id.
OwnId ==
  \A id \in DOMAIN queries_in_progress :
    queries_in_progress[id] \in RosCalls => id = IdOf[queries_in_progress[id]]

\* A reply is one of a server that was asked under the id.
RepliesAnswered ==
  /\ \A x \in dds_replies : x[2] \in answered
  /\ \A r \in zenoh_replies : r.call \in RosCalls /\ r.valid => IdOf[r.call] \in answered

CallInv == CallsType /\ OneReply /\ OnTheWay /\ OwnId /\ RepliesAnswered

\* The phase of each call, as ServiceCall sees it.
Phases == [c \in RosCalls |-> Phase(c)]

\* The same call in the same state is in the same phase.
LEMMA PhaseKept ==
  ASSUME NEW c \in Calls, calls'[c] = calls[c]
  PROVE  Phase(c)' = Phase(c)
BY DEF Phase

\* Nothing of a call changes in the steps of the routes that leave the messages alone.
LEMMA RouteStepsKeepCalls ==
  ASSUME CallInv,
         UNCHANGED callVars,
         queries_in_progress' \in {queries_in_progress, <<>>},
         req_reader' \in Nat, activations' \in Nat
  PROVE  CallInv' /\ UNCHANGED <<Phases, answered>>
<1>1. UNCHANGED <<calls, queries, requests, dds_replies, zenoh_replies, answered>>
  BY DEF callVars
<1>2. DOMAIN <<>> = {}
  OBVIOUS
<1>3. CallsType' /\ OneReply' /\ RepliesAnswered'
  BY <1>1 DEF CallInv, CallsType, OneReply, RepliesAnswered
<1>4. OnTheWay' /\ OwnId'
  BY <1>1, <1>2 DEF CallInv, OnTheWay, OwnId
<1>5. UNCHANGED Phases
  BY <1>1 DEF Phases, Phase
<1> QED
  BY <1>1, <1>3, <1>4, <1>5 DEF CallInv

\* The entities are numbered.
LEMMA EntitiesNumbered ==
  ASSUME CallInv, activate \/ deactivate
  PROVE  req_reader' \in Nat /\ activations' \in Nat
BY DEF CallInv, CallsType, activate, deactivate, DDS_ENTITY_NULL

\* The steps of the routes are of that kind.
LEMMA RoutesLeaveCalls ==
  ASSUME CallInv,
         \/ MatchingCallback \/ AddActivates \/ DropCli \/ DropDeactivates
         \/ \E b \in scenario.bridges : \/ add_remote_route(b) \/ remove_remote_route(b)
                                        \/ prune_remote_routes_with_prefix(b)
         \/ CreateSrv \/ DropSrv \/ OtherComes \/ Push
         \/ \E n \in scenario.servers : add_local_node(n) \/ remove_local_node(n)
         \/ \E c \in Calls : Ages(c)
         \/ UNCHANGED vars
  PROVE  CallInv' /\ UNCHANGED <<Phases, answered>>
<1>1. UNCHANGED callVars /\ queries_in_progress' \in {queries_in_progress, <<>>}
  BY DEF MatchingCallback, AddActivates, DropCli, DropDeactivates, add_remote_route,
         remove_remote_route, prune_remote_routes_with_prefix, CreateSrv, DropSrv, OtherComes,
         Push, add_local_node, remove_local_node, Ages, vars, srvVars
<1>2. UNCHANGED <<req_reader, activations>> \/ activate \/ deactivate
  BY DEF MatchingCallback, AddActivates, DropCli, DropDeactivates, add_remote_route,
         remove_remote_route, prune_remote_routes_with_prefix, CreateSrv, DropSrv, OtherComes,
         Push, add_local_node, remove_local_node, Ages, vars, cliVars
<1>3. req_reader' \in Nat /\ activations' \in Nat
  BY <1>2, EntitiesNumbered DEF CallInv, CallsType
<1> QED
  BY <1>1, <1>3, RouteStepsKeepCalls

\* One call begins: it is asked.
LEMMA CallBegins ==
  ASSUME CallInv, NEW c \in Calls,
         route_dds_request_to_zenoh(c) \/ OthersAsk(c)
  PROVE  /\ CallInv'
         /\ c \in RosCalls => Call!Ask(c)
         /\ c \notin RosCalls => UNCHANGED <<Phases, answered>>
<1>1. /\ ~calls[c].open
      /\ queries' = queries \cup {c}
      /\ UNCHANGED <<req_reader, activations, queries_in_progress, dds_replies,
                     zenoh_replies, answered>>
      /\ \/ calls' = [calls EXCEPT ![c].open = TRUE, ![c].writer = req_reader]
         \/ calls' = [calls EXCEPT ![c].open = TRUE]
  BY DEF route_dds_request_to_zenoh, OthersAsk, cliVars, srvVars
<1>2. /\ calls' \in [Calls -> CallRecord]
      /\ \A d \in Calls \ {c} : calls'[d] = calls[d]
      /\ calls'[c].open
      /\ calls'[c].reply_received = calls[c].reply_received
      /\ calls'[c].replies = calls[c].replies
      /\ calls'[c].over = calls[c].over
  <2>1. calls \in [Calls -> CallRecord] /\ req_reader \in Nat
    BY DEF CallInv, CallsType
  <2>2. CASE calls' = [calls EXCEPT ![c].open = TRUE]
    BY <2>1, <2>2 DEF CallRecord
  <2>3. CASE calls' = [calls EXCEPT ![c].open = TRUE, ![c].writer = req_reader]
    <3>1. calls'[c] = [calls[c] EXCEPT !.open = TRUE, !.writer = req_reader]
      BY <2>1, <2>3
    <3>2. calls'[c] \in CallRecord
      BY <2>1, <3>1 DEF CallRecord
    <3>3. DOMAIN calls' = Calls /\ \A d \in Calls \ {c} : calls'[d] = calls[d]
      BY <2>1, <2>3
    <3>4. calls' = [d \in Calls |-> calls'[d]]
      BY <2>1, <2>3
    <3>5. calls' \in [Calls -> CallRecord]
      BY <2>1, <3>2, <3>3, <3>4
    <3> QED
      BY <2>1, <3>1, <3>3, <3>5 DEF CallRecord
  <2> QED
    BY <1>1, <2>2, <2>3
<1>3. CallInv'
  BY <1>1, <1>2 DEF CallInv, CallsType, OneReply, OnTheWay, OwnId, RepliesAnswered
<1>4. ~calls[c].over
  BY <1>1 DEF CallInv, OneReply
<1>5. CASE c \in RosCalls
  <2>1. Phase(c) = "idle" /\ Phase(c)' = "asked"
    BY <1>1, <1>2, <1>4 DEF Phase, CallInv, OneReply
  <2>2. \A d \in RosCalls \ {c} : Phase(d)' = Phase(d)
    BY <1>2, PhaseKept, ServiceRoutesAssumption DEF Calls
  <2> QED
    BY <1>1, <1>3, <1>5, <2>1, <2>2 DEF Call!Ask
<1>6. CASE c \notin RosCalls
  <2>1. \A d \in RosCalls : Phase(d)' = Phase(d)
    BY <1>2, <1>6, PhaseKept DEF Calls
  <2> QED
    BY <1>1, <1>3, <1>6, <2>1 DEF Phases
<1> QED
  BY <1>5, <1>6

\* The queries wait under their ids, the servers answer, and the answers go to the calls.
LEMMA ServersAnswerCalls ==
  ASSUME CallInv,
         \/ \E c \in Calls : \/ route_zenoh_request_to_dds(c) \/ RequestInvalid(c)
                             \/ \E valid \in BOOLEAN : OtherReplies(c, valid)
         \/ \E x \in writing : RequestWritten(x[1], x[2]) \/ WriteFails(x[1], x[2])
         \/ \E x \in requests : ServerAnswers(x[1], x[2], x[3])
         \/ \E x \in dds_replies : route_dds_reply_to_zenoh(x)
  PROVE  CallInv' /\ UNCHANGED Phases /\ answered \subseteq answered'
<1> USE DEF cliVars, srvVars, callVars
<1>1. UNCHANGED <<calls, req_reader, activations>>
  BY DEF route_zenoh_request_to_dds, RequestInvalid, OtherReplies, RequestWritten, WriteFails,
         ServerAnswers, route_dds_reply_to_zenoh
<1>2. CallsType' /\ OneReply' /\ UNCHANGED Phases
  BY <1>1 DEF CallInv, CallsType, OneReply, Phases, Phase
<1>3. ASSUME NEW c \in Calls, route_zenoh_request_to_dds(c)
      PROVE  OnTheWay' /\ OwnId' /\ RepliesAnswered' /\ answered \subseteq answered'
  <2> DEFINE id == RequestId(c)
             kept == {i \in DOMAIN queries_in_progress : queries_in_progress[i] \notin aged}
  <2>1. /\ c \in queries
        /\ queries' = queries \ {c}
        /\ queries_in_progress' = Remembered(id, c)
        /\ UNCHANGED <<dds_replies, zenoh_replies, answered>>
    BY <1>3 DEF route_zenoh_request_to_dds
  <2>2. c \in RosCalls => id = IdOf[c]
    BY ServiceRoutesAssumption DEF RequestId
  <2>3. \A i \in DOMAIN queries_in_progress' :
          \/ i = id /\ queries_in_progress'[i] = c
          \/ i \in DOMAIN queries_in_progress /\ queries_in_progress'[i] = queries_in_progress[i]
    <3>1. queries_in_progress' =
            [i \in kept \cup {id} |-> IF i = id THEN c ELSE queries_in_progress[i]]
      BY <2>1 DEF Remembered
    <3> QED
      BY <3>1
  <2>4. OnTheWay'
    <3>1. calls[c].open
      BY <2>1 DEF CallInv, OnTheWay
    <3>2. \A i \in DOMAIN queries_in_progress' :
            /\ queries_in_progress'[i] \in Calls
            /\ calls[queries_in_progress'[i]].open
      BY <2>3, <3>1 DEF CallInv, OnTheWay
    <3> QED
      BY <1>1, <2>1, <3>2 DEF CallInv, OnTheWay
  <2>5. OwnId'
    <3> HIDE DEF id
    <3> QED
      BY <2>2, <2>3 DEF CallInv, OwnId
  <2> QED
    BY <2>1, <2>4, <2>5 DEF CallInv, RepliesAnswered
<1>4. ASSUME NEW c \in Calls, RequestInvalid(c)
      PROVE  OnTheWay' /\ OwnId' /\ RepliesAnswered' /\ answered \subseteq answered'
  BY <1>1, <1>4 DEF RequestInvalid, CallInv, OnTheWay, OwnId, RepliesAnswered
<1>5. ASSUME NEW c \in Calls, NEW valid \in BOOLEAN, OtherReplies(c, valid)
      PROVE  OnTheWay' /\ OwnId' /\ RepliesAnswered' /\ answered \subseteq answered'
  <2>1. /\ c \in RosCalls
        /\ calls[c].open
        /\ zenoh_replies' = zenoh_replies \cup {[call |-> c, from |-> "other", valid |-> valid]}
        /\ answered' = IF valid THEN answered \cup {IdOf[c]} ELSE answered
        /\ UNCHANGED <<queries, queries_in_progress, dds_replies>>
    BY <1>5 DEF OtherReplies
  <2> QED
    BY <1>1, <2>1 DEF CallInv, OnTheWay, OwnId, RepliesAnswered
<1>6. ASSUME NEW x \in writing, RequestWritten(x[1], x[2]) \/ WriteFails(x[1], x[2])
      PROVE  OnTheWay' /\ OwnId' /\ RepliesAnswered' /\ answered \subseteq answered'
  <2>1. /\ UNCHANGED <<queries, dds_replies, zenoh_replies, answered>>
        /\ \A i \in DOMAIN queries_in_progress' :
             i \in DOMAIN queries_in_progress /\ queries_in_progress'[i] = queries_in_progress[i]
    BY <1>6 DEF RequestWritten, WriteFails, Restrict
  <2> QED
    BY <1>1, <2>1 DEF CallInv, OnTheWay, OwnId, RepliesAnswered
<1>7. ASSUME NEW x \in requests, ServerAnswers(x[1], x[2], x[3])
      PROVE  OnTheWay' /\ OwnId' /\ RepliesAnswered' /\ answered \subseteq answered'
  BY <1>1, <1>7 DEF ServerAnswers, CallInv, OnTheWay, OwnId, RepliesAnswered
<1>8. ASSUME NEW x \in dds_replies, route_dds_reply_to_zenoh(x)
      PROVE  OnTheWay' /\ OwnId' /\ RepliesAnswered' /\ answered \subseteq answered'
  <2>1. /\ dds_replies' = dds_replies \ {x}
        /\ zenoh_replies' = zenoh_replies
             \cup {[call |-> queries_in_progress[i], from |-> x[1], valid |-> TRUE] :
                     i \in {x[2]} \cap DOMAIN queries_in_progress}
        /\ UNCHANGED <<queries, answered>>
        /\ \A i \in DOMAIN queries_in_progress' :
             i \in DOMAIN queries_in_progress /\ queries_in_progress'[i] = queries_in_progress[i]
    BY <1>8 DEF route_dds_reply_to_zenoh, Restrict
  <2>2. \A r \in zenoh_replies' \ zenoh_replies :
          /\ x[2] \in DOMAIN queries_in_progress
          /\ r.call = queries_in_progress[x[2]]
    BY <2>1
  <2> QED
    BY <1>1, <2>1, <2>2 DEF CallInv, OnTheWay, OwnId, RepliesAnswered
<1> QED
  BY <1>2, <1>3, <1>4, <1>5, <1>6, <1>7, <1>8 DEF CallInv

\* A reply comes: the first one is the call's, or the call gets none.
LEMMA CallEnds ==
  ASSUME CallInv, NEW c \in Calls,
         \/ QueryFinal(c)
         \/ \E r \in zenoh_replies : r.call = c /\ route_zenoh_reply_to_dds(r)
  PROVE  /\ CallInv'
         /\ \/ UNCHANGED <<Phases, answered>>
            \/ c \in RosCalls /\ (Call!Reply(c) \/ Call!GiveUp(c))
<1> USE DEF cliVars, srvVars
<1>1. calls \in [Calls -> CallRecord]
  BY DEF CallInv, CallsType
<1>2. /\ calls[c].open
      /\ queries' \subseteq queries
      /\ zenoh_replies' \subseteq zenoh_replies
      /\ UNCHANGED <<req_reader, activations, queries_in_progress, dds_replies, answered>>
  BY DEF QueryFinal, route_zenoh_reply_to_dds, CallInv, OnTheWay
<1>3. \/ UNCHANGED calls
      \/ ~calls[c].over /\ calls' = [calls EXCEPT ![c].over = TRUE]
      \/ \E r \in zenoh_replies :
           /\ r.call = c /\ ~calls[c].over /\ ~calls[c].reply_received
           /\ calls' = [calls EXCEPT ![c].reply_received = TRUE,
                          ![c].replies = IF r.valid /\ calls[c].writer = rep_writer
                                         THEN @ + 1 ELSE @]
  BY DEF QueryFinal, route_zenoh_reply_to_dds
<1>4. CASE UNCHANGED calls
  BY <1>2, <1>4 DEF CallInv, CallsType, OneReply, OnTheWay, OwnId, RepliesAnswered, Phases, Phase
<1>5. CASE ~calls[c].over /\ calls' = [calls EXCEPT ![c].over = TRUE]
  <2>1. /\ calls' \in [Calls -> CallRecord]
        /\ \A d \in Calls \ {c} : calls'[d] = calls[d]
        /\ calls'[c].open
        /\ calls'[c].reply_received = calls[c].reply_received
        /\ calls'[c].replies = calls[c].replies
        /\ calls'[c].over
    BY <1>1, <1>2, <1>5 DEF CallRecord
  <2>2. CallInv'
    BY <1>2, <2>1 DEF CallInv, CallsType, OneReply, OnTheWay, OwnId, RepliesAnswered
  <2>3. \A d \in RosCalls \ {c} : Phase(d)' = Phase(d)
    BY <2>1, PhaseKept DEF Calls
  <2>4. Phase(c)' = Phase(c) \/ (Phase(c) = "asked" /\ Phase(c)' = "given_up")
    BY <1>2, <1>5, <2>1 DEF Phase, CallInv, OneReply
  <2>5. CASE Phase(c)' = Phase(c) \/ c \notin RosCalls
    BY <1>2, <2>2, <2>3, <2>5 DEF Phases
  <2>6. CASE c \in RosCalls /\ Phase(c) = "asked" /\ Phase(c)' = "given_up"
    BY <1>2, <2>2, <2>3, <2>6 DEF Call!GiveUp
  <2> QED
    BY <2>4, <2>5, <2>6
<1>6. ASSUME NEW r \in zenoh_replies, r.call = c, ~calls[c].over, ~calls[c].reply_received,
             calls' = [calls EXCEPT ![c].reply_received = TRUE,
                         ![c].replies = IF r.valid /\ calls[c].writer = rep_writer
                                        THEN @ + 1 ELSE @]
      PROVE  /\ CallInv'
             /\ \/ UNCHANGED <<Phases, answered>>
                \/ c \in RosCalls /\ (Call!Reply(c) \/ Call!GiveUp(c))
  <2> DEFINE written == r.valid /\ calls[c].writer = rep_writer
  <2>1. calls[c].replies = 0
    BY <1>6 DEF CallInv, OneReply
  <2>2. calls'[c] = [calls[c] EXCEPT !.reply_received = TRUE,
                       !.replies = IF written THEN @ + 1 ELSE @]
    BY <1>1, <1>6
  <2>3. /\ calls'[c] \in CallRecord
        /\ calls'[c].open
        /\ calls'[c].reply_received
        /\ calls'[c].replies = IF written THEN 1 ELSE 0
        /\ ~calls'[c].over
    <3> DEFINE n == IF written THEN 1 ELSE 0
    <3>1. calls'[c] = [calls[c] EXCEPT !.reply_received = TRUE, !.replies = n]
      BY <2>1, <2>2
    <3>2. n \in Nat /\ calls[c] \in CallRecord
      BY <1>1
    <3> HIDE DEF n
    <3>3. /\ calls'[c] \in CallRecord
          /\ calls'[c].open = calls[c].open
          /\ calls'[c].reply_received
          /\ calls'[c].replies = n
          /\ calls'[c].over = calls[c].over
      BY <3>1, <3>2 DEF CallRecord
    <3> QED
      BY <1>2, <1>6, <3>3 DEF n
  <2>4. DOMAIN calls' = Calls /\ \A d \in Calls \ {c} : calls'[d] = calls[d]
    BY <1>1, <1>6
  <2>5. calls' = [d \in Calls |-> calls'[d]]
    BY <1>1, <1>6
  <2>6. calls' \in [Calls -> CallRecord]
    BY <1>1, <2>3, <2>4, <2>5
  <2>7. CallInv'
    BY <1>2, <2>3, <2>4, <2>6 DEF CallInv, CallsType, OneReply, OnTheWay, OwnId, RepliesAnswered
  <2>8. \A d \in RosCalls \ {c} : Phase(d)' = Phase(d)
    BY <2>4, PhaseKept DEF Calls
  <2>9. Phase(c) = "asked" /\ Phase(c)' = IF written THEN "replied" ELSE "given_up"
    BY <1>2, <1>6, <2>1, <2>3 DEF Phase
  <2>10. CASE c \notin RosCalls
    BY <1>2, <2>7, <2>8, <2>10 DEF Phases
  <2>11. CASE c \in RosCalls /\ written
    <3>1. IdOf[c] \in answered
      BY <1>6, <2>11 DEF CallInv, RepliesAnswered
    <3> QED
      BY <1>2, <2>7, <2>8, <2>9, <2>11, <3>1 DEF Call!Reply
  <2>12. CASE c \in RosCalls /\ ~written
    BY <1>2, <2>7, <2>8, <2>9, <2>12 DEF Call!GiveUp
  <2> QED
    BY <2>10, <2>11, <2>12
<1> QED
  BY <1>3, <1>4, <1>5, <1>6

\* Every step of the routes is a step of ServiceCall, or none.
LEMMA StepsKeepCalls == CallInv /\ [Next]_vars => CallInv' /\ [Call!Next]_(Call!vars)
<1> SUFFICES ASSUME CallInv, [Next]_vars PROVE CallInv' /\ [Call!Next]_(Call!vars)
  OBVIOUS
<1>1. ASSUME CallInv' /\ UNCHANGED <<Phases, answered>>
      PROVE  CallInv' /\ [Call!Next]_(Call!vars)
  BY <1>1 DEF Call!vars, Phases
<1>2. ASSUME NEW c \in Calls, route_dds_request_to_zenoh(c) \/ OthersAsk(c)
      PROVE  CallInv' /\ [Call!Next]_(Call!vars)
  <2>1. CASE c \in RosCalls
    BY <1>2, <2>1, CallBegins DEF Call!Next
  <2>2. CASE c \notin RosCalls
    BY <1>1, <1>2, <2>2, CallBegins
  <2> QED
    BY <2>1, <2>2
<1>3. ASSUME CallInv' /\ UNCHANGED Phases /\ answered \subseteq answered'
      PROVE  CallInv' /\ [Call!Next]_(Call!vars)
  BY <1>3 DEF Call!Next, Call!Answer, Phases
<1>4. ASSUME NEW c \in Calls,
             \/ QueryFinal(c)
             \/ \E r \in zenoh_replies : r.call = c /\ route_zenoh_reply_to_dds(r)
      PROVE  CallInv' /\ [Call!Next]_(Call!vars)
  BY <1>1, <1>4, CallEnds DEF Call!Next
<1>5. \A r \in zenoh_replies : r.call \in Calls
  BY DEF CallInv, OnTheWay
<1> QED
  BY <1>1, <1>2, <1>3, <1>4, <1>5, RoutesLeaveCalls, ServersAnswerCalls DEF Next

\* A call of a client gets at most one reply, only after a server has answered a request
\* with its id, and none once it was given up, for any calls that share ids, reuse them or
\* come without, any number of servers and replies, and any activations of the routes.
THEOREM ImplementsCall == Spec => Call!Safety
<1>1. Init => CallInv
  BY DEF Init, CallInv, CallsType, CallRecord, OneReply, OnTheWay, OwnId, RepliesAnswered,
         DDS_ENTITY_NULL
<1>2. Init => Call!Init
  BY DEF Init, Call!Init, Phase, Calls
<1> QED
  BY <1>1, <1>2, StepsKeepCalls, PTL DEF Spec, Call!Safety

-----------------------------------------------------------------------------
(* The queries in progress. *)

\* What may end the wait of the query under an id.
Ended(id) ==
  \/ \E x \in dds_replies \ dds_replies' : x[2] = id
  \/ <<id, queries_in_progress[id]>> \in writing \ writing'
  \/ queries_in_progress[id] \in aged
  \/ ~exists'

\* No query in progress is given up for another one's sake: not by a reply to it, nor by
\* the failed write of an earlier query that had the same id.
THEOREM QueriesAreKept == Spec => QueryKept
<1>1. ASSUME [Next]_vars, NEW id \in DOMAIN queries_in_progress
      PROVE  id \in DOMAIN queries_in_progress' \/ Ended(id)
  <2>1. CASE UNCHANGED queries_in_progress
    BY <2>1
  <2>2. CASE DropSrv
    BY <2>2 DEF DropSrv, Ended
  <2>3. ASSUME NEW c \in Calls, route_zenoh_request_to_dds(c)
        PROVE  id \in DOMAIN queries_in_progress' \/ Ended(id)
    BY <2>3 DEF route_zenoh_request_to_dds, Remembered, Ended
  <2>4. ASSUME NEW x \in writing, WriteFails(x[1], x[2])
        PROVE  id \in DOMAIN queries_in_progress' \/ Ended(id)
    <3>1. CASE id = x[1] /\ queries_in_progress[id] = x[2]
      BY <2>4, <3>1 DEF WriteFails, Ended
    <3>2. CASE ~(id = x[1] /\ queries_in_progress[id] = x[2])
      BY <2>4, <3>2 DEF WriteFails, Restrict
    <3> QED
      BY <3>1, <3>2
  <2>5. ASSUME NEW x \in dds_replies, route_dds_reply_to_zenoh(x)
        PROVE  id \in DOMAIN queries_in_progress' \/ Ended(id)
    BY <2>5 DEF route_dds_reply_to_zenoh, Restrict, Ended
  <2>6. \/ UNCHANGED queries_in_progress
        \/ DropSrv
        \/ \E c \in Calls : route_zenoh_request_to_dds(c)
        \/ \E x \in writing : WriteFails(x[1], x[2])
        \/ \E x \in dds_replies : route_dds_reply_to_zenoh(x)
    <3> USE DEF srvVars
    <3>1. CASE MatchingCallback \/ AddActivates \/ DropCli \/ DropDeactivates \/ CreateSrv
               \/ OtherComes \/ Push \/ UNCHANGED vars
      BY <3>1 DEF MatchingCallback, AddActivates, DropCli, DropDeactivates, CreateSrv,
                  OtherComes, Push, vars
    <3>2. CASE \E b \in scenario.bridges : \/ add_remote_route(b) \/ remove_remote_route(b)
                                           \/ prune_remote_routes_with_prefix(b)
      BY <3>2 DEF add_remote_route, remove_remote_route, prune_remote_routes_with_prefix
    <3>3. CASE \E c \in Calls :
                 \/ route_dds_request_to_zenoh(c) \/ OthersAsk(c) \/ RequestInvalid(c)
                 \/ QueryFinal(c) \/ Ages(c)
                 \/ \E valid \in BOOLEAN : OtherReplies(c, valid)
      BY <3>3 DEF route_dds_request_to_zenoh, OthersAsk, RequestInvalid, QueryFinal, Ages,
                  OtherReplies
    <3>4. CASE \/ \E x \in writing : RequestWritten(x[1], x[2])
               \/ \E x \in requests : ServerAnswers(x[1], x[2], x[3])
               \/ \E r \in zenoh_replies : route_zenoh_reply_to_dds(r)
               \/ \E n \in scenario.servers : add_local_node(n) \/ remove_local_node(n)
      BY <3>4 DEF RequestWritten, ServerAnswers, route_zenoh_reply_to_dds, add_local_node,
                  remove_local_node
    <3> QED
      BY <1>1, <3>1, <3>2, <3>3, <3>4 DEF Next
  <2> QED
    BY <2>1, <2>2, <2>3, <2>4, <2>5, <2>6
<1>2. [Next]_vars =>
        [\A id \in DOMAIN queries_in_progress :
           LET c == queries_in_progress[id]
           IN  \/ id \in DOMAIN queries_in_progress'
               \/ \E x \in dds_replies \ dds_replies' : x[2] = id
               \/ <<id, c>> \in writing \ writing'
               \/ c \in aged
               \/ ~exists']_vars
  BY <1>1 DEF Ended
<1> QED
  BY <1>2, PTL DEF Spec, QueryKept

-----------------------------------------------------------------------------
(* The two routes. *)

\* The entities come in pairs, numbered, and are published; failures are counted.
EntitiesInv ==
  /\ scenario \in Scenarios
  /\ failures \in Nat
  /\ activations \in Nat
  /\ activations <= scenario.activations
  /\ req_reader \in 0 .. activations
  /\ rep_writer = req_reader
  /\ InfoTypeOK
  /\ Entities(req_reader) \subseteq info
  /\ failures = 0 => info = Entities(req_reader) /\ InfoCurrent

\* A server route that does not exist has nothing.
ServerInv == ~exists => queries_in_progress = <<>> /\ ~zenoh_queryable /\ writing = {}

\* The last status that the listener will be told of is the one that there is.
EventsInv ==
  /\ matching_events \in Seq(BOOLEAN)
  /\ listener /\ matching_events # <<>> => matching_events[Len(matching_events)] = Matching

\* A route that should be active is, or will be told so.
ActivityInv ==
  /\ listener /\ ~adding /\ failures = 0 /\ remote_routes # {} /\ Matching /\ ~IsActive =>
       matching_events # <<>>
  /\ dropped => ~listener /\ ~IsActive
  /\ ~listener => ~adding

RouteInv == EntitiesInv /\ ServerInv /\ EventsInv /\ ActivityInv

\* The entities of an activation are published before its number is known, and deleted
\* before they are unpublished: unless something failed both agree.
LEMMA EntitiesKept ==
  ASSUME EntitiesInv, activate \/ deactivate, UNCHANGED scenario
  PROVE  EntitiesInv'
<1> USE DEF EntitiesInv, InfoTypeOK, InfoCurrent, DDS_ENTITY_NULL, infoVars, Succeeds
<1>1. Entities(0) = {}
  BY DEF Entities
<1>2. CASE activate
  <2>1. CASE UNCHANGED <<req_reader, rep_writer, activations, infoVars>>
    <3>1. failures' = failures \/ failures' = failures + 1
      BY <1>2 DEF activate, Fails
    <3> QED
      BY <2>1, <3>1 DEF Entities
  <2>2. CASE /\ req_reader = 0
             /\ activations < scenario.activations
             /\ failures' = failures
             /\ activations' = activations + 1
             /\ rep_writer' = activations'
             /\ req_reader' = activations'
             /\ add_gids(Entities(activations'))
    <3>1. Entities(activations') \subseteq Gids
      BY <2>2, ServiceRoutesAssumption DEF Entities
    <3>2. info' = info \cup Entities(activations') /\ has_changed' = TRUE /\ published' = published
      BY <2>2 DEF add_gids
    <3>3. /\ activations' \in Nat /\ activations' <= scenario'.activations
          /\ req_reader' \in 0 .. activations'
          /\ rep_writer' = req_reader'
          /\ scenario' \in Scenarios /\ failures' \in Nat
      <4>1. scenario.activations \in Nat
        BY ServiceRoutesAssumption
      <4> QED
        BY <2>2, <4>1
    <3>4. InfoTypeOK' /\ Entities(req_reader)' \subseteq info'
      BY <2>2, <3>1, <3>2
    <3>5. failures' = 0 => info' = Entities(req_reader)' /\ InfoCurrent'
      BY <1>1, <2>2, <3>2
    <3> QED
      BY <3>3, <3>4, <3>5
  <2> QED
    BY <1>2, <2>1, <2>2 DEF activate, IsActive
<1>3. CASE deactivate
  <2>1. /\ req_reader' = 0 /\ rep_writer' = 0
        /\ UNCHANGED activations
    BY <1>3 DEF deactivate
  <2>2. PICK told \in SUBSET Entities(req_reader) :
          /\ IF told = Entities(req_reader) THEN failures' = failures
             ELSE failures' = failures + 1
          /\ IF told = {} THEN UNCHANGED infoVars ELSE remove_gids(told)
    BY <1>3 DEF deactivate, Fails
  <2>3. InfoTypeOK' /\ info' = info \ told /\ (told # {} => has_changed')
    BY <2>2 DEF remove_gids
  <2>4. told = {} => UNCHANGED infoVars
    BY <2>2
  <2> QED
    BY <1>1, <2>1, <2>2, <2>3, <2>4
<1> QED
  BY <1>2, <1>3

\* Events are taken from the front.
LEMMA TailOfEvents ==
  ASSUME NEW s \in Seq(BOOLEAN), s # <<>>
  PROVE  /\ Tail(s) \in Seq(BOOLEAN)
         /\ Len(Tail(s)) = Len(s) - 1
         /\ \A i \in 1 .. Len(Tail(s)) : Tail(s)[i] = s[i + 1]
         /\ Head(s) = s[1]
         /\ Len(s) \in Nat \ {0}
OBVIOUS

\* The server route and the applications tell the listener of a change.
LEMMA NotifyTells ==
  ASSUME EventsInv, Notify, UNCHANGED listener
  PROVE  /\ EventsInv'
         /\ matching_events # <<>> => matching_events' # <<>>
         /\ listener /\ Matching' # Matching => matching_events' # <<>>
<1> DEFINE now == Matching'
<1>1. now \in BOOLEAN /\ Matching \in BOOLEAN
  BY DEF Matching
<1>2. matching_events \in Seq(BOOLEAN)
  BY DEF EventsInv
<1>3. matching_events' = IF now # Matching /\ listener
                         THEN Append(matching_events, now) ELSE matching_events
  BY DEF Notify
<1> HIDE DEF now
<1>4. CASE now # Matching /\ listener
  <2>1. /\ matching_events' \in Seq(BOOLEAN)
        /\ matching_events' # <<>>
        /\ matching_events'[Len(matching_events')] = now
    BY <1>1, <1>2, <1>3, <1>4
  <2> QED
    BY <2>1 DEF EventsInv, now
<1>5. CASE ~(now # Matching /\ listener)
  BY <1>2, <1>3, <1>5 DEF EventsInv, now
<1> QED
  BY <1>4, <1>5

\* The steps that change the server route or the application's Queryable.
LEMMA ServerStepsKeep ==
  ASSUME RouteInv,
         \/ CreateSrv \/ DropSrv \/ OtherComes
         \/ \E n \in scenario.servers : add_local_node(n) \/ remove_local_node(n)
  PROVE  RouteInv'
<1>1. /\ UNCHANGED <<infoVars, cliVars, scenario>>
      /\ failures' = failures \/ failures' = failures + 1
  BY DEF CreateSrv, DropSrv, OtherComes, add_local_node, remove_local_node, boundVars, Fails,
         Succeeds
<1>2. EntitiesInv'
  BY <1>1 DEF RouteInv, EntitiesInv, infoVars, cliVars, InfoTypeOK, InfoCurrent, Entities
<1>3. ServerInv'
  BY DEF CreateSrv, DropSrv, OtherComes, add_local_node, remove_local_node, RouteInv, ServerInv
<1>4. Notify \/ UNCHANGED <<matching_events, zenoh_queryable, other>>
  BY DEF CreateSrv, DropSrv, OtherComes, add_local_node, remove_local_node, matchVars
<1>5. EventsInv' /\ ActivityInv'
  <2>1. CASE Notify
    BY <1>1, <2>1, NotifyTells DEF RouteInv, EntitiesInv, ActivityInv, cliVars, IsActive
  <2>2. CASE UNCHANGED <<matching_events, zenoh_queryable, other>>
    BY <1>1, <2>2 DEF RouteInv, EntitiesInv, EventsInv, ActivityInv, cliVars, IsActive, Matching
  <2> QED
    BY <1>4, <2>1, <2>2
<1> QED
  BY <1>2, <1>3, <1>5 DEF RouteInv

\* A route that becomes active, or fails to.
LEMMA Activates ==
  ASSUME EntitiesInv, activate
  PROVE  IsActive' \/ failures' # 0
BY DEF EntitiesInv, activate, IsActive, DDS_ENTITY_NULL, Fails

\* The steps of the client route.
LEMMA ClientStepsKeep ==
  ASSUME RouteInv,
         \/ MatchingCallback \/ AddActivates \/ DropCli \/ DropDeactivates
         \/ \E b \in scenario.bridges : \/ add_remote_route(b) \/ remove_remote_route(b)
                                        \/ prune_remote_routes_with_prefix(b)
  PROVE  RouteInv'
<1>1. /\ UNCHANGED <<srvVars, other, scenario>>
      /\ \/ activate \/ deactivate
         \/ UNCHANGED <<req_reader, rep_writer, activations, infoVars, failures>>
  BY DEF MatchingCallback, AddActivates, DropCli, DropDeactivates, add_remote_route,
         remove_remote_route, prune_remote_routes_with_prefix, boundVars, matchVars
<1>2. EntitiesInv'
  <2>1. CASE activate \/ deactivate
    BY <1>1, <2>1, EntitiesKept DEF RouteInv
  <2>2. CASE UNCHANGED <<req_reader, rep_writer, activations, infoVars, failures>>
    BY <1>1, <2>2 DEF RouteInv, EntitiesInv, infoVars, InfoTypeOK, InfoCurrent, Entities
  <2> QED
    BY <1>1, <2>1, <2>2
<1>3. ServerInv' /\ Matching' = Matching
  BY <1>1 DEF RouteInv, ServerInv, srvVars, Matching
<1>4. failures' = 0 => failures = 0
  <2>1. failures \in Nat /\ (failures' = failures \/ failures' = failures + 1)
    BY <1>1 DEF RouteInv, EntitiesInv, activate, deactivate, Fails, Succeeds
  <2> QED
    BY <2>1
<1>5. CASE MatchingCallback
  <2>1. /\ listener /\ matching_events # <<>>
        /\ matching_events' = Tail(matching_events)
        /\ IF Head(matching_events) THEN activate ELSE deactivate
        /\ UNCHANGED <<remote_routes, listener, dropped, adding>>
    BY <1>5 DEF MatchingCallback
  <2>2. /\ matching_events \in Seq(BOOLEAN)
        /\ matching_events[Len(matching_events)] = Matching
    BY <2>1 DEF RouteInv, EventsInv
  <2>3. /\ matching_events' \in Seq(BOOLEAN)
        /\ matching_events' # <<>> =>
             matching_events'[Len(matching_events')] = matching_events[Len(matching_events)]
        /\ matching_events' = <<>> => Head(matching_events) = Matching
    <3>1. /\ matching_events' \in Seq(BOOLEAN)
          /\ Len(matching_events') = Len(matching_events) - 1
          /\ \A i \in 1 .. Len(matching_events') : matching_events'[i] = matching_events[i + 1]
          /\ Head(matching_events) = matching_events[1]
          /\ Len(matching_events) \in Nat \ {0}
      BY <2>1, <2>2, TailOfEvents
    <3>2. matching_events' # <<>> => Len(matching_events') >= 1
      BY <3>1
    <3>3. matching_events' = <<>> => Len(matching_events) = 1
      BY <3>1
    <3>4. ASSUME matching_events' # <<>>
          PROVE  matching_events'[Len(matching_events')] = matching_events[Len(matching_events)]
      <4>1. /\ Len(matching_events') \in 1 .. Len(matching_events')
            /\ Len(matching_events') + 1 = Len(matching_events)
        BY <3>1, <3>2, <3>4
      <4> DEFINE last == Len(matching_events')
      <4>2. matching_events'[last] = matching_events[last + 1]
        BY <3>1, <4>1
      <4> QED
        BY <4>1, <4>2
    <3> QED
      BY <2>2, <3>1, <3>3, <3>4
  <2>4. EventsInv'
    BY <1>3, <2>2, <2>3 DEF EventsInv
  <2>5. ActivityInv'
    BY <1>3, <2>1, <2>3, Activates DEF RouteInv, ActivityInv
  <2> QED
    BY <1>2, <1>3, <2>4, <2>5 DEF RouteInv
<1>6. CASE AddActivates
  BY <1>2, <1>3, <1>6, Activates
     DEF AddActivates, RouteInv, EventsInv, ActivityInv, matchVars
<1>7. CASE DropCli
  BY <1>2, <1>3, <1>7 DEF DropCli, RouteInv, EventsInv, ActivityInv, matchVars, IsActive
<1>8. CASE DropDeactivates
  BY <1>2, <1>3, <1>8
     DEF DropDeactivates, deactivate, RouteInv, EventsInv, ActivityInv, matchVars, IsActive
<1>9. ASSUME NEW b \in scenario.bridges, add_remote_route(b) PROVE RouteInv'
  BY <1>2, <1>3, <1>9
     DEF add_remote_route, RouteInv, EventsInv, ActivityInv, matchVars, boundVars, IsActive
<1>10. ASSUME NEW b \in scenario.bridges, remove_remote_route(b) PROVE RouteInv'
  <2>1. CASE remote_routes' = {}
    BY <1>2, <1>3, <1>10, <2>1
       DEF remove_remote_route, deactivate, RouteInv, EventsInv, ActivityInv, matchVars, IsActive
  <2>2. CASE remote_routes' # {}
    BY <1>2, <1>3, <1>10, <2>2
       DEF remove_remote_route, RouteInv, EventsInv, ActivityInv, matchVars, IsActive
  <2> QED
    BY <2>1, <2>2
<1> QED
  BY <1>5, <1>6, <1>7, <1>8, <1>9, <1>10 DEF prune_remote_routes_with_prefix

\* The ros_discovery_info is published, or the write fails and nothing repeats it.
LEMMA PushKeeps ==
  ASSUME RouteInv, Push
  PROVE  RouteInv'
<1>1. /\ UNCHANGED <<cliVars, matchVars, srvVars, scenario>>
      /\ UNCHANGED info
      /\ published' \in {info, published}
      /\ has_changed' = FALSE
      /\ (published' = info /\ failures' = failures) \/ failures' = failures + 1
  BY DEF Push, PushInfo, Succeeds, Fails
<1>2. UNCHANGED <<req_reader, rep_writer, activations, Entities(req_reader)>>
  BY <1>1 DEF cliVars, Entities
<1>3. InfoTypeOK' /\ (failures' = 0 => failures = 0 /\ InfoCurrent')
  <2>1. failures \in Nat
    BY DEF RouteInv, EntitiesInv
  <2>2. failures' = 0 => failures = 0 /\ published' = info
    BY <1>1, <2>1
  <2>3. InfoTypeOK'
    BY <1>1 DEF RouteInv, EntitiesInv, InfoTypeOK
  <2> QED
    BY <1>1, <2>2, <2>3 DEF InfoCurrent
<1>4. EntitiesInv'
  BY <1>1, <1>2, <1>3 DEF RouteInv, EntitiesInv
<1> QED
  BY <1>1, <1>3, <1>4 DEF RouteInv, ServerInv, EventsInv, ActivityInv, cliVars,
                    matchVars, srvVars, Matching, IsActive

\* The calls leave the routes alone, but for the queries in progress.
LEMMA CallStepsKeep ==
  ASSUME RouteInv,
         \/ \E c \in Calls :
              \/ route_dds_request_to_zenoh(c) \/ OthersAsk(c)
              \/ route_zenoh_request_to_dds(c) \/ RequestInvalid(c)
              \/ QueryFinal(c) \/ Ages(c)
              \/ \E valid \in BOOLEAN : OtherReplies(c, valid)
         \/ \E x \in writing : RequestWritten(x[1], x[2]) \/ WriteFails(x[1], x[2])
         \/ \E x \in requests : ServerAnswers(x[1], x[2], x[3])
         \/ \E x \in dds_replies : route_dds_reply_to_zenoh(x)
         \/ \E r \in zenoh_replies : route_zenoh_reply_to_dds(r)
         \/ UNCHANGED vars
  PROVE  RouteInv'
<1> USE DEF srvVars
<1>1. /\ UNCHANGED <<infoVars, cliVars, matchVars, scenario, exists, zenoh_queryable>>
      /\ failures' = failures \/ failures' = failures + 1
      /\ exists \/ UNCHANGED <<queries_in_progress, writing>>
  <2>1. ASSUME NEW c \in Calls,
               \/ route_dds_request_to_zenoh(c) \/ OthersAsk(c)
               \/ route_zenoh_request_to_dds(c) \/ RequestInvalid(c)
               \/ QueryFinal(c) \/ Ages(c)
               \/ \E valid \in BOOLEAN : OtherReplies(c, valid)
        PROVE  /\ UNCHANGED <<infoVars, cliVars, matchVars, scenario, exists, zenoh_queryable>>
               /\ failures' = failures
               /\ exists \/ UNCHANGED <<queries_in_progress, writing>>
    BY <2>1 DEF route_dds_request_to_zenoh, OthersAsk, route_zenoh_request_to_dds,
                RequestInvalid, QueryFinal, Ages, OtherReplies, boundVars, RouteInv, ServerInv
  <2>2. ASSUME NEW x \in writing, RequestWritten(x[1], x[2]) \/ WriteFails(x[1], x[2])
        PROVE  /\ UNCHANGED <<infoVars, cliVars, matchVars, scenario, exists, zenoh_queryable>>
               /\ failures' = failures \/ failures' = failures + 1
               /\ exists
    BY <2>2 DEF RequestWritten, WriteFails, boundVars, Fails, RouteInv, ServerInv
  <2>3. CASE \/ \E x \in requests : ServerAnswers(x[1], x[2], x[3])
             \/ \E x \in dds_replies : route_dds_reply_to_zenoh(x)
             \/ \E r \in zenoh_replies : route_zenoh_reply_to_dds(r)
             \/ UNCHANGED vars
    BY <2>3 DEF ServerAnswers, route_dds_reply_to_zenoh, route_zenoh_reply_to_dds, boundVars, vars
  <2> QED
    BY <2>1, <2>2, <2>3
<1>2. EntitiesInv'
  BY <1>1 DEF RouteInv, EntitiesInv, infoVars, InfoTypeOK, InfoCurrent, cliVars, Entities
<1>3. EventsInv' /\ ActivityInv'
  BY <1>1 DEF RouteInv, EntitiesInv, EventsInv, ActivityInv, cliVars, matchVars, Matching, IsActive
<1> QED
  BY <1>1, <1>2, <1>3 DEF RouteInv, ServerInv

\* The invariant of the two routes.
THEOREM RoutesInvariant == Spec => []RouteInv
<1>1. Init => RouteInv
  <2> SUFFICES ASSUME Init PROVE RouteInv
    OBVIOUS
  <2>1. Entities(0) = {} /\ scenario.activations \in Nat
    BY ServiceRoutesAssumption DEF Init, Entities, DDS_ENTITY_NULL
  <2>2. EntitiesInv
    BY <2>1 DEF Init, EntitiesInv, InfoInit, InfoTypeOK, InfoCurrent, DDS_ENTITY_NULL
  <2> QED
    BY <2>2 DEF Init, RouteInv, ServerInv, EventsInv, ActivityInv, IsActive, DDS_ENTITY_NULL
<1>2. RouteInv /\ [Next]_vars => RouteInv'
  BY ServerStepsKeep, ClientStepsKeep, PushKeeps, CallStepsKeep DEF Next
<1> QED
  BY <1>1, <1>2, PTL DEF Spec

\* The invariant of the calls.
THEOREM CallsInvariant == Spec => []CallInv
<1>1. Init => CallInv
  BY DEF Init, CallInv, CallsType, CallRecord, OneReply, OnTheWay, OwnId, RepliesAnswered,
         DDS_ENTITY_NULL
<1> QED
  BY <1>1, StepsKeepCalls, PTL DEF Spec

\* The entities of a client route exist and are published in pairs, in whatever order its
\* activations, failures and ends come; a server route that is gone has no query left.
THEOREM TypeCorrect == Spec => []TypeOK
<1>1. CallInv /\ RouteInv => TypeOK
  BY DEF CallInv, OnTheWay, RouteInv, EntitiesInv, ServerInv, EventsInv, TypeOK, Range
<1> QED
  BY <1>1, CallsInvariant, RoutesInvariant, PTL

\* A client route with remote servers that match is active once it was told of all
\* changes, and a dropped one has no entities, for any order of the changes.
THEOREM RoutesSettle == Spec => []RouteSettles
<1>1. RouteInv => RouteSettles
  BY DEF RouteInv, ActivityInv, RouteSettles
<1> QED
  BY <1>1, RoutesInvariant, PTL

=============================================================================
