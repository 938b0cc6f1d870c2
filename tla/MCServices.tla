----------------------------- MODULE MCServices -----------------------------
(***************************************************************************)
(* The nodes, one part at a time: the server's executor with measurements, *)
(* services and crashes, the server's construction from a configuration    *)
(* file, the Livox driver's from its launch and configuration files.       *)
(***************************************************************************)
EXTENDS RosServer, MCSetup, LivoxStartup

\* The lidar's measurements go to two integrators, before a name that is not
\* registered ends the list.
LidarNames == [t \in Topic |-> <<"near", "far", "missing">>]
PublishOnly == <<"publish_map">>
Every1 == [o \in OpType |-> 1]

(***************************************************************************)
(* Launch files with one topic or many, with each format, with numbers     *)
(* that do not fit a byte, and without a source or an output in ROS; files *)
(* without devices, with an entry that is not valid, with a device twice.  *)
(***************************************************************************)
Launches == {<<>>, [multi_topic |-> 1, xfer_format |-> 1],
             [multi_topic |-> 256, xfer_format |-> 256, publish_freq |-> 1],
             [data_src |-> 1], [multi_topic |-> 1, output_data_type |-> 1]}
Summary == [lidar_summary_info |-> [lidar_type |-> 8]]
Lidar(ip, type, x) == [ip |-> ip, pcl_data_type |-> type,
                       extrinsic_parameter |-> [x |-> x]]
ConfigFiles ==
  {<<>>, Summary,
   Summary @@ [lidar_configs |->
     <<[pcl_data_type |-> 1], Lidar("front", 1, 57), Lidar("left", 2, -1234),
       [ip |-> "front", pattern_mode |-> 0]>>]}

VARIABLE part

nodeVars == <<part, serverVars, setupVars, startupVars>>

OnExecutor(A) == part = "executor" /\ A /\ UNCHANGED <<part, setupVars, startupVars>>
OnSetup(A) == part = "setup" /\ A /\ UNCHANGED <<part, serverVars, startupVars>>
OnStartup(A) == part = "startup" /\ A /\ UNCHANGED <<part, serverVars, setupVars>>

NodeInit == /\ part \in {"executor", "setup", "startup"}
            /\ part # "setup" => yaml = [null |-> "config_file"] /\ host = "server"
            /\ part # "startup" => launch = <<>> /\ config_file = <<>>
            /\ ServerInit /\ SetupInit /\ StartupInit

NodeNext == OnExecutor(ServerNext) \/ OnSetup(SetupNext) \/ OnStartup(StartupNext)

\* The fairness of ServerFairSpec.
NodeFairSpec == /\ NodeInit /\ [][NodeNext]_nodeVars
                /\ WF_nodeVars(OnExecutor(ExecutorStep))
=============================================================================
