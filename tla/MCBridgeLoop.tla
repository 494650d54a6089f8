---------------------------- MODULE MCBridgeLoop ----------------------------
(***************************************************************************)
(* Small instances of the main loop.  A configuration chooses the local    *)
(* interfaces, the remote tokens, the namespace and the bounds.            *)
(***************************************************************************)
EXTENDS BridgeLoop

CONSTANTS z1, z2, q1, q2, noQos, n1, n2, matchedKey

MCSegments == {"bot1", "a", "b"}

\* "/", and "/bot1"
RootNamespace == <<>>
BotNamespace == <<"bot1">>

NameA == <<"a">>
NameB == <<"b">>
KeyBotA == <<"bot1", "a">>

RootNames == {NameA, NameB}
\* Under "/bot1" the key expression "bot1/a" is that of the name "/a", and so is "a", which
\* a bridge without namespace announces.
BotNames == {NameA}
BotKeyExprs == {KeyBotA, NameA}

AllAllowed == RouteIds
AllButSubscribers == {r \in RouteIds : r[1] # "MsgSub"}

Iface(kind, name, node) == [kind |-> kind, name |-> name, node |-> node]
Token(kind, zid, ke, qos) == [kind |-> kind, zid |-> zid, ke |-> ke, qos |-> qos]

None == {}
TopicA == {NameA}

\* A topic with a local subscriber and a remote publisher of two QoS.
LocalSubscriber == {Iface("MsgSub", NameA, n1)}
Publisher(ke) == {Token("MsgPub", z1, ke, q1), Token("MsgPub", z1, ke, q2)}
BotPublishers == Publisher(KeyBotA) \cup {Token("MsgPub", z2, NameA, q1)}

\* A topic that two local nodes publish, a service, and what a remote bridge has of
\* the topic.
LocalPublisher == {Iface("MsgPub", NameA, n1)}
LocalTopicAndService ==
  LocalPublisher \cup {Iface("MsgPub", NameA, n2), Iface("ServiceSrv", NameA, n1)}
RemoteTopics == {Token("MsgPub", z1, NameA, q1), Token("MsgSub", z1, NameA, noQos)}

=============================================================================
