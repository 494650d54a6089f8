--------------------------- MODULE RosDiscoveryInfo ---------------------------
(***************************************************************************)
(* What the bridge publishes of itself on ros_discovery_info               *)
(* (RosDiscoveryInfoMgr of ros_discovery.rs): the Writers and Readers of   *)
(* its node, published by a periodic task when they have changed.          *)
(***************************************************************************)
CONSTANT Gids

VARIABLES
  info,         \* the gids of the bridge's own node
  has_changed,  \* and whether they were changed since they were published
  published     \* what the ROS nodes have been told

infoVars == <<info, has_changed, published>>

\* The node itself is to be published.
InfoInit ==
  /\ info = {}
  /\ has_changed = TRUE
  /\ published = {}

add_gids(gids) ==
  /\ info' = info \cup gids
  /\ has_changed' = TRUE
  /\ UNCHANGED published

remove_gids(gids) ==
  /\ info' = info \ gids
  /\ has_changed' = TRUE
  /\ UNCHANGED published

\* One tick of the push timer.  A write that fails is logged, and nothing repeats it.
PushInfo ==
  /\ has_changed
  /\ published' \in {info, published}
  /\ has_changed' = FALSE
  /\ UNCHANGED info

InfoTypeOK ==
  /\ info \subseteq Gids
  /\ has_changed \in BOOLEAN
  /\ published \subseteq Gids

\* What is published is what there is, or is about to be.
InfoCurrent == ~has_changed => published = info

=============================================================================
