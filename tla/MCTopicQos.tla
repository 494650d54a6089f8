------------------------------ MODULE MCTopicQos ------------------------------
(***************************************************************************)
(* Small systems of one topic.  Each behaviour is about one of them.       *)
(***************************************************************************)
EXTENDS TopicQos, TLC

CONSTANTS b1, b2

WriterQos(rel, tl, history) == Qos(rel, tl, history, UnsetHistory)

\* A static transform, a latched best-effort topic, two VOLATILE Writers.
FourWriters ==
  <<WriterQos("RELIABLE", TRUE, KeepLast(2)),
    WriterQos("BEST_EFFORT", FALSE, KeepLast(0)),
    WriterQos("BEST_EFFORT", TRUE, KeepLast(3)),
    WriterQos("RELIABLE", FALSE, KeepAll(0))>>

\* All of them near one bridge, or a TRANSIENT_LOCAL and a VOLATILE one near each.
MCSystems ==
  {(b1 :> 1 .. 4) @@ (b2 :> {}), (b1 :> {1, 4}) @@ (b2 :> {1, 4})}

\* Every request of a Reader.
AllReaders ==
  {Qos(rel, tl, KeepLast(1), UnsetHistory) :
     rel \in {"RELIABLE", "BEST_EFFORT"}, tl \in BOOLEAN}

=============================================================================
