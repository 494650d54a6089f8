---------------------------- MODULE ServiceRoutes ----------------------------
(***************************************************************************)
(* The routing of a ROS service (route_service_cli.rs and                  *)
(* route_service_srv.rs): the client route of the bridge near the clients, *)
(* whose DDS Reader and Writer exist while a remote Queryable matches, and *)
(* the server route of the bridge near the servers, with its Queryable and *)
(* its queries in progress.                                                *)
(*                                                                         *)
(* The client route is changed by the main loop (remote routes), by the    *)
(* matching callback of Zenoh and by its Drop, one at a time under         *)
(* activation_lock, while callbacks of DDS and Zenoh carry requests and    *)
(* replies through both routes.                                            *)
(***************************************************************************)
EXTENDS RosDiscoveryInfo, Naturals, SequencesExt

CONSTANTS
  RosCalls,       \* the requests of ROS clients that the client route takes
  OtherCalls,     \* queries of others: of another bridge, or of Zenoh applications
  IdOf,           \* the request id of each call; NoId if the query carries none
  NoId,
  Scenarios       \* small systems: the calls that come, the ROS servers, the bridges that
                  \* announce the service, and the bounds: how often the client route is
                  \* activated, servers, their route and applications change, calls fail

DDS_ENTITY_NULL == 0
Calls == RosCalls \cup OtherCalls

ASSUME ServiceRoutesAssumption ==
  /\ RosCalls \cap OtherCalls = {}
  /\ \A c \in RosCalls : IdOf[c] # NoId
  /\ Scenarios \subseteq [calls : SUBSET Calls, servers : SUBSET STRING, bridges : SUBSET STRING,
                   activations : Nat, changes : Nat, failures : Nat]
  /\ \A s \in Scenarios : {"reader", "writer"} \X (1 .. s.activations) \subseteq Gids

VARIABLES
  \* the client route: the DDS entities are numbered by activation
  remote_routes, req_reader, rep_writer, activations, listener, dropped,
  adding,           \* add_remote_route has found the route inactive and matching
  matching_events,  \* the changes of the matching status to be reported
  other,            \* an application has a Queryable, too
  \* the server route, while it exists with its DDS Writer and Reader
  exists, local_nodes, zenoh_queryable, sequence_number, queries_in_progress,
  writing,          \* the queries that are written to DDS
  aged,             \* the queries that are older than QUERY_GC_TIMEOUT
  \* the calls, and what is on its way
  calls, queries, requests, dds_replies, zenoh_replies, answered,
  scenario, changes, failures

cliVars == <<remote_routes, req_reader, rep_writer, activations, listener, dropped, adding>>
matchVars == <<matching_events, other>>
srvVars == <<exists, local_nodes, zenoh_queryable, sequence_number, queries_in_progress,
             writing, aged>>
callVars == <<calls, queries, requests, dds_replies, zenoh_replies, answered>>
boundVars == <<scenario, changes, failures>>
vars == <<infoVars, cliVars, matchVars, srvVars, callVars, boundVars>>

Init ==
  /\ InfoInit
  /\ remote_routes = {}
  /\ req_reader = DDS_ENTITY_NULL /\ rep_writer = DDS_ENTITY_NULL
  /\ activations = 0
  /\ listener = TRUE /\ dropped = FALSE /\ adding = FALSE
  /\ matching_events = <<>> /\ other = FALSE
  /\ exists = FALSE /\ local_nodes = {} /\ zenoh_queryable = FALSE /\ sequence_number = 0
  /\ queries_in_progress = <<>>
  /\ writing = {} /\ aged = {}
  /\ calls = [c \in Calls |-> [open |-> FALSE, writer |-> DDS_ENTITY_NULL,
                               reply_received |-> FALSE, replies |-> 0, over |-> FALSE]]
  /\ queries = {} /\ requests = {} /\ dds_replies = {} /\ zenoh_replies = {}
  /\ answered = {}
  /\ scenario \in Scenarios /\ changes = 0 /\ failures = 0

Fails ==
  /\ failures < scenario.failures
  /\ failures' = failures + 1
Succeeds == UNCHANGED failures

-----------------------------------------------------------------------------
(* The client route: activation. *)

Matching == zenoh_queryable \/ other
IsActive == req_reader # DDS_ENTITY_NULL

Entities(n) == IF n = DDS_ENTITY_NULL THEN {} ELSE {<<"reader", n>>, <<"writer", n>>}

\* All or nothing: the entities are kept, and published, only once both are there.
activate ==
  \/ /\ IsActive
     /\ Succeeds
     /\ UNCHANGED <<req_reader, rep_writer, activations, infoVars>>
  \/ /\ ~IsActive
     /\ activations < scenario.activations
     /\ Succeeds
     /\ activations' = activations + 1
     /\ rep_writer' = activations'
     /\ req_reader' = activations'
     /\ add_gids(Entities(activations'))
  \/ /\ ~IsActive
     /\ Fails
     /\ UNCHANGED <<req_reader, rep_writer, activations, infoVars>>

\* Mutant: the entities are deleted, and remain published.
deactivate_KeepsGids ==
  /\ req_reader' = DDS_ENTITY_NULL
  /\ rep_writer' = DDS_ENTITY_NULL
  /\ Succeeds
  /\ UNCHANGED <<activations, infoVars>>

\* An entity remains published if its gid cannot be told.
deactivate ==
  /\ req_reader' = DDS_ENTITY_NULL
  /\ rep_writer' = DDS_ENTITY_NULL
  /\ UNCHANGED activations
  /\ \E told \in SUBSET Entities(req_reader) :
       /\ IF told = Entities(req_reader) THEN Succeeds ELSE Fails
       /\ IF told = {} THEN UNCHANGED infoVars ELSE remove_gids(told)

\* The matching listener is told of a change.
MatchingCallback ==
  /\ listener
  /\ matching_events # <<>>
  /\ matching_events' = Tail(matching_events)
  /\ IF Head(matching_events) THEN activate ELSE deactivate
  /\ UNCHANGED <<remote_routes, listener, dropped, adding, other, srvVars, callVars,
                 scenario, changes>>

\* Mutant: only the matching listener activates the route.
add_remote_route_NoStatus(b) ==
  /\ listener /\ ~adding
  /\ remote_routes' = remote_routes \cup {b}
  /\ UNCHANGED <<req_reader, rep_writer, activations, listener, dropped, adding,
                 infoVars, matchVars, srvVars, callVars, boundVars>>

\* The main loop looks at the status before it takes the lock.
add_remote_route(b) ==
  /\ listener /\ ~adding
  /\ remote_routes' = remote_routes \cup {b}
  /\ adding' = (~IsActive /\ Matching)
  /\ UNCHANGED <<req_reader, rep_writer, activations, listener, dropped,
                 infoVars, matchVars, srvVars, callVars, boundVars>>

AddActivates ==
  /\ adding
  /\ adding' = FALSE
  /\ activate
  /\ UNCHANGED <<remote_routes, listener, dropped, matchVars, srvVars, callVars, scenario, changes>>

\* A remote route was retired, known or not.
remove_remote_route(b) ==
  /\ listener /\ ~adding
  /\ remote_routes' = remote_routes \ {b}
  /\ IF remote_routes' = {} THEN deactivate
     ELSE UNCHANGED <<req_reader, rep_writer, activations, infoVars, failures>>
  /\ UNCHANGED <<listener, dropped, adding, matchVars, srvVars, callVars, scenario, changes>>

\* Its bridge is gone.
prune_remote_routes_with_prefix(b) ==
  /\ b \in remote_routes
  /\ remove_remote_route(b)

\* The listener is undeclared first; a callback that is running ends before.
DropCli ==
  /\ listener /\ ~adding
  /\ listener' = FALSE
  /\ UNCHANGED <<remote_routes, req_reader, rep_writer, activations, dropped, adding,
                 infoVars, matchVars, srvVars, callVars, boundVars>>

DropDeactivates ==
  /\ ~listener /\ ~dropped
  /\ dropped' = TRUE
  /\ remote_routes' = {}
  /\ deactivate
  /\ UNCHANGED <<listener, adding, matchVars, srvVars, callVars, scenario, changes>>

-----------------------------------------------------------------------------
(* A request, from the client to the servers. *)

\* The callback of the DDS Reader sends the query; it holds the Writer of its activation.
route_dds_request_to_zenoh(c) ==
  /\ c \in RosCalls \cap scenario.calls
  /\ ~calls[c].open
  /\ IsActive
  /\ calls' = [calls EXCEPT ![c].open = TRUE, ![c].writer = req_reader]
  /\ queries' = queries \cup {c}
  /\ UNCHANGED <<infoVars, cliVars, matchVars, srvVars, boundVars,
                 requests, dds_replies, zenoh_replies, answered>>

\* Another bridge or an application queries the service (external).
OthersAsk(c) ==
  /\ c \in OtherCalls \cap scenario.calls
  /\ ~calls[c].open
  /\ calls' = [calls EXCEPT ![c].open = TRUE]
  /\ queries' = queries \cup {c}
  /\ UNCHANGED <<infoVars, cliVars, matchVars, srvVars, boundVars,
                 requests, dds_replies, zenoh_replies, answered>>

\* The request id comes with the query, or is created.
RequestId(c) == IF IdOf[c] # NoId THEN IdOf[c] ELSE <<"created", sequence_number>>

\* The query is added to the ones that are not too old.
Remembered(id, c) ==
  LET kept == {i \in DOMAIN queries_in_progress : queries_in_progress[i] \notin aged}
  IN  [i \in kept \cup {id} |-> IF i = id THEN c ELSE queries_in_progress[i]]

\* The Queryable is called: the query is remembered before it is written to DDS.
route_zenoh_request_to_dds(c) ==
  /\ c \in queries
  /\ zenoh_queryable
  /\ queries' = queries \ {c}
  /\ LET id == RequestId(c)
     IN  /\ queries_in_progress' = Remembered(id, c)
         /\ writing' = writing \cup {<<id, c>>}
         /\ sequence_number' = IF IdOf[c] = NoId THEN sequence_number + 1 ELSE sequence_number
  /\ aged' = {}
  /\ UNCHANGED <<infoVars, cliVars, matchVars, exists, local_nodes, zenoh_queryable, boundVars,
                 calls, requests, dds_replies, zenoh_replies, answered>>

\* It is no request: the query is dropped, once it has an id.
RequestInvalid(c) ==
  /\ c \in queries \cap OtherCalls
  /\ zenoh_queryable
  /\ queries' = queries \ {c}
  /\ sequence_number' = IF IdOf[c] = NoId THEN sequence_number + 1 ELSE sequence_number
  /\ UNCHANGED <<infoVars, cliVars, matchVars, exists, local_nodes, zenoh_queryable,
                 queries_in_progress, writing, aged, boundVars,
                 calls, requests, dds_replies, zenoh_replies, answered>>

RequestWritten(id, c) ==
  /\ <<id, c>> \in writing
  /\ writing' = writing \ {<<id, c>>}
  /\ requests' = requests \cup {<<s, id, c>> : s \in scenario.servers}
  /\ UNCHANGED <<infoVars, cliVars, matchVars, exists, local_nodes, zenoh_queryable,
                 sequence_number, queries_in_progress, aged, boundVars,
                 calls, queries, dds_replies, zenoh_replies, answered>>

\* Mutant: the entry is removed, whoever's it is now.
WriteFails_AnyEntry(id, c) ==
  /\ <<id, c>> \in writing
  /\ Fails
  /\ writing' = writing \ {<<id, c>>}
  /\ queries_in_progress' = Restrict(queries_in_progress, DOMAIN queries_in_progress \ {id})
  /\ UNCHANGED <<infoVars, cliVars, matchVars, exists, local_nodes, zenoh_queryable,
                 sequence_number, aged, scenario, changes, callVars>>

\* The entry is removed, unless a query with the same id has replaced it.
WriteFails(id, c) ==
  /\ <<id, c>> \in writing
  /\ Fails
  /\ writing' = writing \ {<<id, c>>}
  /\ queries_in_progress' =
       Restrict(queries_in_progress,
                {i \in DOMAIN queries_in_progress : i # id \/ queries_in_progress[i] # c})
  /\ UNCHANGED <<infoVars, cliVars, matchVars, exists, local_nodes, zenoh_queryable,
                 sequence_number, aged, scenario, changes, callVars>>

-----------------------------------------------------------------------------
(* Its reply, on the way back. *)

\* A server answers (external).
ServerAnswers(s, id, c) ==
  /\ <<s, id, c>> \in requests
  /\ requests' = requests \ {<<s, id, c>>}
  /\ dds_replies' = dds_replies \cup {<<s, id, c>>}
  /\ answered' = answered \cup {id}
  /\ UNCHANGED <<infoVars, cliVars, matchVars, srvVars, boundVars, calls, queries, zenoh_replies>>

\* The callback of the reply Reader: the reply goes to the query that waits for its id.
route_dds_reply_to_zenoh(x) ==
  LET id == x[2]
  IN  /\ exists
      /\ x \in dds_replies
      /\ dds_replies' = dds_replies \ {x}
      /\ queries_in_progress' = Restrict(queries_in_progress, DOMAIN queries_in_progress \ {id})
      /\ zenoh_replies' = zenoh_replies
           \cup {[call |-> queries_in_progress[i], from |-> x[1], valid |-> TRUE] :
                   i \in {id} \cap DOMAIN queries_in_progress}
      /\ UNCHANGED <<infoVars, cliVars, matchVars, exists, local_nodes, zenoh_queryable,
                     sequence_number, writing, aged, boundVars,
                     calls, queries, requests, answered>>

\* The Queryable of the application replies, with a reply, or with an error or something
\* that is none (external).
OtherReplies(c, valid) ==
  LET reply == [call |-> c, from |-> "other", valid |-> valid]
  IN  /\ other
      /\ c \in RosCalls
      /\ calls[c].open /\ ~calls[c].over
      /\ "other" \notin {r.from : r \in {q \in zenoh_replies : q.call = c}}
      /\ zenoh_replies' = zenoh_replies \cup {reply}
      /\ answered' = IF valid THEN answered \cup {IdOf[c]} ELSE answered
      /\ UNCHANGED <<infoVars, cliVars, matchVars, srvVars, boundVars,
                     calls, queries, requests, dds_replies>>

\* Mutant: every reply is written.
route_zenoh_reply_to_dds_Every(r) ==
  LET c == r.call
  IN  /\ r \in zenoh_replies
      /\ zenoh_replies' = zenoh_replies \ {r}
      /\ IF calls[c].over
         THEN UNCHANGED calls
         ELSE calls' = [calls EXCEPT ![c].reply_received = TRUE,
                          ![c].replies = IF r.valid /\ calls[c].writer = rep_writer
                                         THEN @ + 1 ELSE @]
      /\ UNCHANGED <<infoVars, cliVars, matchVars, srvVars, boundVars,
                     queries, requests, dds_replies, answered>>

\* Only the first reply counts, whatever it is; it is written by the Writer that the route
\* had when the request came.
route_zenoh_reply_to_dds(r) ==
  LET c == r.call
  IN  /\ r \in zenoh_replies
      /\ zenoh_replies' = zenoh_replies \ {r}
      /\ IF calls[c].over \/ calls[c].reply_received
         THEN UNCHANGED calls
         ELSE calls' = [calls EXCEPT ![c].reply_received = TRUE,
                          ![c].replies = IF r.valid /\ calls[c].writer = rep_writer
                                         THEN @ + 1 ELSE @]
      /\ UNCHANGED <<infoVars, cliVars, matchVars, srvVars, boundVars,
                     queries, requests, dds_replies, answered>>

\* The query is final: all replies have come, or its timeout has.  Nobody tells the client.
QueryFinal(c) ==
  /\ calls[c].open /\ ~calls[c].over
  /\ calls' = [calls EXCEPT ![c].over = TRUE]
  /\ queries' = queries \ {c}
  /\ UNCHANGED <<infoVars, cliVars, matchVars, srvVars, boundVars,
                 requests, dds_replies, zenoh_replies, answered>>

\* A query that is final for long is kept until the next one comes.
Ages(c) ==
  /\ calls[c].over
  /\ c \in Range(queries_in_progress) \ aged
  /\ aged' = aged \cup {c}
  /\ UNCHANGED <<infoVars, cliVars, matchVars, exists, local_nodes, zenoh_queryable,
                 sequence_number, queries_in_progress, writing, callVars, boundVars>>

-----------------------------------------------------------------------------
(* The server route, and the servers near it. *)

Notify ==
  matching_events' = IF Matching' # Matching /\ listener
                     THEN Append(matching_events, Matching') ELSE matching_events

\* The route is created once its Writer and its Reader are, for a remote client or a node.
CreateSrv ==
  /\ ~exists
  /\ changes < scenario.changes
  /\ changes' = changes + 1
  /\ exists' = TRUE
  /\ UNCHANGED <<infoVars, cliVars, matchVars, local_nodes, zenoh_queryable, sequence_number,
                 queries_in_progress, writing, aged, callVars, scenario, failures>>

\* The first node declares the Queryable; that may fail, and so may the announcement after.
add_local_node(n) ==
  /\ exists
  /\ n \notin local_nodes
  /\ changes < scenario.changes
  /\ changes' = changes + 1
  /\ local_nodes' = local_nodes \cup {n}
  /\ IF local_nodes = {}
     THEN \/ Succeeds /\ zenoh_queryable' = TRUE
          \/ Fails /\ zenoh_queryable' \in BOOLEAN
     ELSE Succeeds /\ UNCHANGED zenoh_queryable
  /\ UNCHANGED other
  /\ Notify
  /\ UNCHANGED <<infoVars, cliVars, exists, sequence_number, queries_in_progress, writing, aged,
                 callVars, scenario>>

\* The last one undeclares it; the queries in progress stay.
remove_local_node(n) ==
  /\ n \in local_nodes
  /\ local_nodes' = local_nodes \ {n}
  /\ zenoh_queryable' = (zenoh_queryable /\ local_nodes' # {})
  /\ UNCHANGED other
  /\ Notify
  /\ UNCHANGED <<infoVars, cliVars, exists, sequence_number, queries_in_progress, writing, aged,
                 callVars, boundVars>>

\* A route that is unused, or whose bridge stops, takes its entities and its queries with
\* it; a request that is being written fails.  The ids that the next route creates are new
\* because its Writer is.
DropSrv ==
  /\ exists
  /\ exists' = FALSE
  /\ local_nodes' = {}
  /\ zenoh_queryable' = FALSE
  /\ queries_in_progress' = <<>>
  /\ writing' = {} /\ aged' = {}
  /\ UNCHANGED other
  /\ Notify
  /\ UNCHANGED <<infoVars, cliVars, sequence_number, callVars, boundVars>>

\* An application declares a Queryable on the key of the service (external).
OtherComes ==
  /\ ~other
  /\ changes < scenario.changes
  /\ changes' = changes + 1
  /\ other' = TRUE
  /\ UNCHANGED zenoh_queryable
  /\ Notify
  /\ UNCHANGED <<infoVars, cliVars, exists, local_nodes, sequence_number, queries_in_progress,
                 writing, aged, callVars, scenario, failures>>

Push ==
  /\ PushInfo
  /\ IF published' = info THEN Succeeds ELSE Fails
  /\ UNCHANGED <<cliVars, matchVars, srvVars, callVars, scenario, changes>>

Next ==
  \/ MatchingCallback \/ AddActivates \/ DropCli \/ DropDeactivates
  \/ \E b \in scenario.bridges : \/ add_remote_route(b) \/ remove_remote_route(b)
                                 \/ prune_remote_routes_with_prefix(b)
  \/ \E c \in Calls :
       \/ route_dds_request_to_zenoh(c) \/ OthersAsk(c)
       \/ route_zenoh_request_to_dds(c) \/ RequestInvalid(c)
       \/ QueryFinal(c) \/ Ages(c)
       \/ \E valid \in BOOLEAN : OtherReplies(c, valid)
  \/ \E x \in writing : RequestWritten(x[1], x[2]) \/ WriteFails(x[1], x[2])
  \/ \E x \in requests : ServerAnswers(x[1], x[2], x[3])
  \/ \E x \in dds_replies : route_dds_reply_to_zenoh(x)
  \/ \E r \in zenoh_replies : route_zenoh_reply_to_dds(r)
  \/ CreateSrv \/ DropSrv
  \/ \E n \in scenario.servers : add_local_node(n) \/ remove_local_node(n)
  \/ OtherComes
  \/ Push

Spec == Init /\ [][Next]_vars

\* Zenoh ends a query with its timeout.
FairSpec == Spec /\ \A c \in Calls : WF_vars(QueryFinal(c))

-----------------------------------------------------------------------------
(* Properties *)

\* The entities exist in pairs and are published, and but for failures nothing else is;
\* only a route that exists has queries in progress.
TypeOK ==
  /\ InfoTypeOK
  /\ Entities(req_reader) \subseteq info
  /\ failures = 0 => info = Entities(req_reader) /\ InfoCurrent
  /\ rep_writer = req_reader
  /\ req_reader \in 0 .. activations
  /\ Range(queries_in_progress) \subseteq Calls
  /\ ~exists => queries_in_progress = <<>> /\ ~zenoh_queryable
  /\ matching_events \in Seq(BOOLEAN)

Phase(c) ==
  CASE ~calls[c].open -> "idle"
    [] calls[c].open /\ ~calls[c].reply_received /\ ~calls[c].over -> "asked"
    [] calls[c].open /\ calls[c].replies = 1 -> "replied"
    [] calls[c].open /\ calls[c].replies > 1 -> "replied_again"
    [] OTHER -> "given_up"

Call == INSTANCE ServiceCall WITH
  Calls <- RosCalls,
  IdOf <- IdOf,
  phase <- [c \in RosCalls |-> Phase(c)],
  answered <- answered

\* A call of a ROS client gets at most one reply, that of a request with its id, whoever
\* else replies or uses the id, and whatever the routes do meanwhile.
CallsKept == Call!Spec

\* A query in progress is given up by nobody but its own reply, its own failed write, its
\* age, the end of its route, or another query with its id: the failed write of an earlier
\* query with the same id leaves it.
QueryKept ==
  [][\A id \in DOMAIN queries_in_progress :
       LET c == queries_in_progress[id]
       IN  \/ id \in DOMAIN queries_in_progress'
           \/ \E x \in dds_replies \ dds_replies' : x[2] = id
           \/ <<id, c>> \in writing \ writing'
           \/ c \in aged
           \/ ~exists']_vars

\* When nothing failed and all changes were reported, a route of remote servers that
\* match has its entities, and a dropped one has none and will get none.
RouteSettles ==
  /\ (matching_events = <<>> /\ ~adding /\ failures = 0 /\ listener) =>
       (Matching /\ remote_routes # {} => IsActive)
  /\ dropped => ~IsActive

=============================================================================
