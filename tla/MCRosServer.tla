---------------------------- MODULE MCRosServer ----------------------------
(* The lidar's measurements go to two integrators, before a name that is   *)
(* not registered ends the list.                                           *)
EXTENDS RosServer

LidarNames == [t \in Topic |-> <<"near", "far", "missing">>]

PublishOnly == <<"publish_map">>

Every0 == [o \in OpType |-> 0]
=============================================================================
