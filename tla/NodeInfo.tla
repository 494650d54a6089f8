------------------------------- MODULE NodeInfo -------------------------------
(***************************************************************************)
(* What the discovery knows of one ROS node (node_info.rs): its publishers *)
(* and subscribers, the services and actions it serves and calls, and the  *)
(* endpoints it declares that DDS has not announced yet.                   *)
(*                                                                         *)
(* The operators are pure and have the names of the methods.  A method     *)
(* that may return events yields a record of the node it leaves and of the *)
(* events, in order.                                                       *)
(*                                                                         *)
(* The name of a DDS topic is given as its parts: the prefix, the name of  *)
(* the ROS interface and the suffix.                                       *)
(***************************************************************************)
EXTENDS Naturals, SequencesExt

CONSTANTS
  BadNames  \* interface names that are no ROS names: check_ros_name refuses them

NOT_DISCOVERED == "NOT_DISCOVERED"

\* The DDS endpoints of each kind of service and action.
ServiceSrvEntities == {"req_reader", "rep_writer"}
ServiceCliEntities == {"req_writer", "rep_reader"}
ActionSrvEntities ==
  {"send_goal_req_reader", "send_goal_rep_writer", "cancel_goal_req_reader",
   "cancel_goal_rep_writer", "get_result_req_reader", "get_result_rep_writer",
   "status_writer", "feedback_writer"}
ActionCliEntities ==
  {"send_goal_req_writer", "send_goal_rep_reader", "cancel_goal_req_writer",
   "cancel_goal_rep_reader", "get_result_req_writer", "get_result_rep_reader",
   "status_reader", "feedback_reader"}

MsgKinds == {"msg_pub", "msg_sub"}
CallKinds == <<"service_srv", "service_cli", "action_srv", "action_cli">>
Entities(kind) ==
  CASE kind = "service_srv" -> ServiceSrvEntities
    [] kind = "service_cli" -> ServiceCliEntities
    [] kind = "action_srv" -> ActionSrvEntities
    [] kind = "action_cli" -> ActionCliEntities

AllEnds == UNION {Entities(CallKinds[k]) : k \in DOMAIN CallKinds}
ReaderEnds ==
  {"req_reader", "rep_reader", "send_goal_req_reader", "cancel_goal_req_reader",
   "get_result_req_reader", "send_goal_rep_reader", "cancel_goal_rep_reader",
   "get_result_rep_reader", "status_reader", "feedback_reader"}

is_complete(v) == \A end \in DOMAIN v.ends : v.ends[end] # NOT_DISCOVERED

\* The type of an action whose first endpoint says nothing of it.
Untyped == ""

create(fullname) ==
  [fullname |-> fullname,
   msg_pub |-> <<>>, msg_sub |-> <<>>,
   service_srv |-> <<>>, service_cli |-> <<>>, action_srv |-> <<>>, action_cli |-> <<>>,
   undiscovered_reader |-> {}, undiscovered_writer |-> {}]

Event(ev, node, kind, name) ==
  [ev |-> ev, node |-> node.fullname, kind |-> kind, name |-> name]

Ignored(node) == [node |-> node, evts |-> <<>>]

\* HashMap::insert.
Inserted(map, key, value) == [k \in DOMAIN map \cup {key} |-> IF k = key THEN value ELSE map[k]]

-----------------------------------------------------------------------------
(* A declared endpoint is found. *)

\* A publisher or a subscriber is all the Writers or Readers of the node on a topic;
\* only the first one is an event, and another type is ignored.
update_msg(node, kind, name, typ, gid) ==
  LET known == name \in DOMAIN node[kind]
      gids == IF known THEN node[kind][name].gids ELSE {}
      new == [typ |-> typ, gids |-> gids \cup {gid}]
  IN  IF name \in BadNames \/ (known /\ node[kind][name].typ # typ)
      THEN Ignored(node)
      ELSE [node |-> [node EXCEPT ![kind] = Inserted(node[kind], name, new)],
            evts |-> IF known THEN <<>> ELSE <<Event("Discovered", node, kind, name)>>]

update_msg_pub(node, name, typ, writer) == update_msg(node, "msg_pub", name, typ, writer)
update_msg_sub(node, name, typ, reader) == update_msg(node, "msg_sub", name, typ, reader)

\* An endpoint of a service or an action, which is an event when the interface is
\* complete and this has changed it.  A found type replaces the one that was known.
update_call(node, kind, name, typ, end, gid) ==
  LET known == name \in DOMAIN node[kind]
      old == IF known THEN node[kind][name]
             ELSE [typ |-> typ, ends |-> [e \in Entities(kind) |-> NOT_DISCOVERED]]
      new == [typ |-> IF typ = Untyped THEN old.typ ELSE typ,
              ends |-> [e \in DOMAIN old.ends |-> IF e = end THEN gid ELSE old.ends[e]]]
  IN  IF name \in BadNames
      THEN Ignored(node)
      ELSE [node |-> [node EXCEPT ![kind] = Inserted(node[kind], name, new)],
            evts |-> IF known /\ new # old /\ is_complete(new)
                     THEN <<Event("Discovered", node, kind, name)>> ELSE <<>>]

update_service_srv_req_reader(node, name, typ, reader) ==
  update_call(node, "service_srv", name, typ, "req_reader", reader)
update_service_srv_rep_writer(node, name, typ, writer) ==
  update_call(node, "service_srv", name, typ, "rep_writer", writer)
update_service_cli_rep_reader(node, name, typ, reader) ==
  update_call(node, "service_cli", name, typ, "rep_reader", reader)
update_service_cli_req_writer(node, name, typ, writer) ==
  update_call(node, "service_cli", name, typ, "req_writer", writer)

update_action_srv_send_req_reader(node, name, typ, reader) ==
  update_call(node, "action_srv", name, typ, "send_goal_req_reader", reader)
update_action_srv_send_rep_writer(node, name, typ, writer) ==
  update_call(node, "action_srv", name, typ, "send_goal_rep_writer", writer)
update_action_srv_cancel_req_reader(node, name, reader) ==
  update_call(node, "action_srv", name, Untyped, "cancel_goal_req_reader", reader)
update_action_srv_cancel_rep_writer(node, name, writer) ==
  update_call(node, "action_srv", name, Untyped, "cancel_goal_rep_writer", writer)
update_action_srv_result_req_reader(node, name, typ, reader) ==
  update_call(node, "action_srv", name, typ, "get_result_req_reader", reader)
update_action_srv_result_rep_writer(node, name, typ, writer) ==
  update_call(node, "action_srv", name, typ, "get_result_rep_writer", writer)
update_action_srv_status_writer(node, name, writer) ==
  update_call(node, "action_srv", name, Untyped, "status_writer", writer)
update_action_srv_feedback_writer(node, name, typ, writer) ==
  update_call(node, "action_srv", name, typ, "feedback_writer", writer)

update_action_cli_send_rep_reader(node, name, typ, reader) ==
  update_call(node, "action_cli", name, typ, "send_goal_rep_reader", reader)
update_action_cli_send_req_writer(node, name, typ, writer) ==
  update_call(node, "action_cli", name, typ, "send_goal_req_writer", writer)
update_action_cli_cancel_rep_reader(node, name, reader) ==
  update_call(node, "action_cli", name, Untyped, "cancel_goal_rep_reader", reader)
update_action_cli_cancel_req_writer(node, name, writer) ==
  update_call(node, "action_cli", name, Untyped, "cancel_goal_req_writer", writer)
update_action_cli_result_rep_reader(node, name, typ, reader) ==
  update_call(node, "action_cli", name, typ, "get_result_rep_reader", reader)
update_action_cli_result_req_writer(node, name, typ, writer) ==
  update_call(node, "action_cli", name, typ, "get_result_req_writer", writer)
update_action_cli_status_reader(node, name, reader) ==
  update_call(node, "action_cli", name, Untyped, "status_reader", reader)
update_action_cli_feedback_reader(node, name, typ, reader) ==
  update_call(node, "action_cli", name, typ, "feedback_reader", reader)

\* The interface of an endpoint follows from the prefix and the suffix of its topic.
update_with_reader(node, entity) ==
  LET On(prefix, suffix) == entity.topic.prefix = prefix /\ entity.topic.suffix = suffix
      name == entity.topic.name
      typ == entity.typ
      key == entity.key
  IN CASE On("rt", "status") -> update_action_cli_status_reader(node, name, key)
       [] On("rt", "feedback") -> update_action_cli_feedback_reader(node, name, typ, key)
       [] On("rt", "msg") -> update_msg_sub(node, name, typ, key)
       [] On("rq", "send_goal") -> update_action_srv_send_req_reader(node, name, typ, key)
       [] On("rq", "cancel_goal") -> update_action_srv_cancel_req_reader(node, name, key)
       [] On("rq", "get_result") -> update_action_srv_result_req_reader(node, name, typ, key)
       [] On("rq", "call") -> update_service_srv_req_reader(node, name, typ, key)
       [] On("rr", "send_goal") -> update_action_cli_send_rep_reader(node, name, typ, key)
       [] On("rr", "cancel_goal") -> update_action_cli_cancel_rep_reader(node, name, key)
       [] On("rr", "get_result") -> update_action_cli_result_rep_reader(node, name, typ, key)
       [] On("rr", "call") -> update_service_cli_rep_reader(node, name, typ, key)
       [] OTHER -> Ignored(node)

update_with_writer(node, entity) ==
  LET On(prefix, suffix) == entity.topic.prefix = prefix /\ entity.topic.suffix = suffix
      name == entity.topic.name
      typ == entity.typ
      key == entity.key
  IN CASE On("rt", "status") -> update_action_srv_status_writer(node, name, key)
       [] On("rt", "feedback") -> update_action_srv_feedback_writer(node, name, typ, key)
       [] On("rt", "msg") -> update_msg_pub(node, name, typ, key)
       [] On("rq", "send_goal") -> update_action_cli_send_req_writer(node, name, typ, key)
       [] On("rq", "cancel_goal") -> update_action_cli_cancel_req_writer(node, name, key)
       [] On("rq", "get_result") -> update_action_cli_result_req_writer(node, name, typ, key)
       [] On("rq", "call") -> update_service_cli_req_writer(node, name, typ, key)
       [] On("rr", "send_goal") -> update_action_srv_send_rep_writer(node, name, typ, key)
       [] On("rr", "cancel_goal") -> update_action_srv_cancel_rep_writer(node, name, key)
       [] On("rr", "get_result") -> update_action_srv_result_rep_writer(node, name, typ, key)
       [] On("rr", "call") -> update_service_srv_rep_writer(node, name, typ, key)
       [] OTHER -> Ignored(node)

-----------------------------------------------------------------------------
(* An endpoint, or the node, is gone. *)

Undiscover(node, kind, name) ==
  [node |-> [node EXCEPT ![kind] = Restrict(node[kind], DOMAIN node[kind] \ {name})],
   evts |-> <<Event("Undiscovered", node, kind, name)>>]

\* A publisher or subscriber goes with its last endpoint, a service or an action
\* with any of them, complete or not.
remove_endpoint(node, msg, ends, gid) ==
  LET Without(m) == [typ |-> m.typ, gids |-> m.gids \ {gid}]
      left == [node EXCEPT ![msg] = [n \in DOMAIN node[msg] |-> Without(node[msg][n])]]
      emptied == {n \in DOMAIN node[msg] : node[msg][n].gids = {gid}}
      Using(kind) == {n \in DOMAIN node[kind] :
                        \E end \in Entities(kind) \cap ends : node[kind][n].ends[end] = gid}
      used == {k \in DOMAIN CallKinds : Using(CallKinds[k]) # {}}
      first == CallKinds[Min(used)]
  IN  IF emptied # {} THEN Undiscover(left, msg, CHOOSE n \in emptied : TRUE)
      ELSE IF used # {} THEN Undiscover(left, first, CHOOSE n \in Using(first) : TRUE)
      ELSE Ignored(left)

Forget(result, list, gid) ==
  IF result.evts = <<>>
  THEN Ignored([result.node EXCEPT ![list] = result.node[list] \ {gid}])
  ELSE result

remove_reader(node, reader) ==
  Forget(remove_endpoint(node, "msg_sub", ReaderEnds, reader), "undiscovered_reader", reader)

remove_writer(node, writer) ==
  Forget(remove_endpoint(node, "msg_pub", AllEnds \ ReaderEnds, writer),
         "undiscovered_writer", writer)

\* Mutant: the services of the node are forgotten without an event.
remove_all_entities_NoServices(node) ==
  UNION {{Event("Undiscovered", node, kind, n) : n \in DOMAIN node[kind]} :
           kind \in {"msg_pub", "msg_sub", "action_srv", "action_cli"}}

\* The events of a node that is gone: each about another interface, in any order.
remove_all_entities(node) ==
  UNION {{Event("Undiscovered", node, kind, n) : n \in DOMAIN node[kind]} :
           kind \in MsgKinds \cup Range(CallKinds)}

=============================================================================
