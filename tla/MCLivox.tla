------------------------------- MODULE MCLivox -------------------------------
(***************************************************************************)
(* The queues and the devices of the Livox driver, one at a time: a        *)
(* behaviour is one of LivoxQueues in which the devices rest, or one of    *)
(* LivoxDevices in which the queues rest.                                  *)
(***************************************************************************)
EXTENDS LivoxQueues, LivoxDevices

(***************************************************************************)
(* Two lidars whose rings hold one frame; one lidar with a ring of two;    *)
(* the format that is not supported; IMU samples of two lidars.            *)
(***************************************************************************)
Setup(p, format, size, lidars) ==
  [path |-> p, transfer_format |-> format, queue_size |-> size,
   senders |-> lidars]

DriverSetups == {Setup("points", "pointcloud2", 1, Lidar),
                 Setup("points", "pointcloud2", 2, {1}),
                 Setup("points", "pclxyzi", 1, {1}),
                 Setup("imu", "pointcloud2", 1, Lidar)}

\* The file configures one of the devices that are in the network.
DriverConfigs ==
  <<[handle |-> "front", items |-> {"data_type", "scan_pattern"}]>>

VARIABLE focus  \* what the behaviour is about

vars == <<focus, livoxVars, deviceVars>>

OnQueues(A) == focus = "queues" /\ A /\ UNCHANGED <<focus, deviceVars>>
OnDevices(A) == focus = "devices" /\ A /\ UNCHANGED <<focus, livoxVars>>

Init == /\ QueueInit /\ DevicesInit
        /\ \/ focus = "queues"
           \/ focus = "devices" /\ setup = CHOOSE s \in Setups : TRUE

Next == OnQueues(QueueNext) \/ OnDevices(DevicesNext)

\* The fairness of QueueFairSpec and DevicesFairSpec.
FairSpec ==
  /\ Init /\ [][Next]_vars
  /\ WF_vars(OnQueues(StoreStep))
  /\ WF_vars(OnQueues(PollStep))
  /\ WF_vars(OnQueues(Destruction))
  /\ \A h \in Handle :
       /\ WF_vars(OnDevices(DriverStep(h)))
       /\ WF_vars(OnDevices(\E r \in Request : Succeeds(h, r)))

=============================================================================
