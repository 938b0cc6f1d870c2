----------------------------- MODULE LivoxQueues -----------------------------
(***************************************************************************)
(* The Livox driver between the threads that receive and the threads that  *)
(* publish (lds.cpp, lddc.cpp, comm/ldq.cpp, comm/semaphore.cpp and        *)
(* driver_node.cpp): one queue per lidar, a semaphore that is signalled    *)
(* only when its count is read as zero, a poll thread, and the destructor  *)
(* of the node.  There are two such paths, alike but for the queue: rings  *)
(* of frames, and locked lists of IMU samples.                             *)
(*                                                                         *)
(* A step is one access to a shared variable or a critical section.  The   *)
(* indices of a ring and the count of the semaphore are volatile but not   *)
(* atomic; their accesses are taken in program order, as on x86.           *)
(***************************************************************************)
EXTENDS Integers, Sequences, FiniteSets

CONSTANTS LidarCount,  \* Lds::lidar_count_
          Setups,      \* the ways in which the driver may be set up
          Laps,        \* rounds of a ring after which its indices wrap
          FrameMod,    \* frames are numbered modulo FrameMod
          MaxImu       \* bound on the samples in an IMU queue

Lidar == 1..LidarCount
Frame == 0..(FrameMod - 1)

\* Which of the two paths is looked at, the format of the launch file, the
\* size asked of InitQueue, and the lidars that may send.
SetupType == [path : {"points", "imu"},
              transfer_format : {"pointcloud2", "pclxyzi"},
              queue_size : Nat \ {0},
              senders : SUBSET Lidar]

ASSUME QueueAssumption ==
  /\ LidarCount \in Nat \ {0}
  /\ Setups \subseteq SetupType
  /\ Laps \in Nat /\ Laps >= 2
  /\ FrameMod \in Nat \ {0}
  /\ MaxImu \in Nat

VARIABLES setup,         \* one of Setups
          slots,         \* storage_packet, <<>> before InitQueue
          rd_idx, wr_idx,
          imu_queue,     \* imu_data_queue_
          sampling,      \* lidars with connect_state kConnectStateSampling
          count,         \* of pcd_semaphore_ or imu_semaphore_
          request_exit,  \* Lds::request_exit_
          exit_signal,   \* DriverNode::exit_signal_ has its value
          spc, slidar,   \* the storing thread: where it is, for which lidar
          ppc, plidar, pkg, \* the poll thread: where, lidar, frame it holds
          dpc,           \* the thread that destroys the node
          next,          \* number of the next frame
          passed         \* history: lidars passed over while not sampling

queueVars == <<slots, rd_idx, wr_idx, imu_queue>>
storeVars == <<spc, slidar, next>>
pollVars == <<ppc, plidar, pkg, passed>>
exitVars == <<request_exit, exit_signal, dpc>>
livoxVars == <<setup, queueVars, sampling, count, exitVars, storeVars, pollVars>>

NoFrame == FrameMod

path == setup.path
transfer_format == setup.transfer_format

\* The smallest power of 2 that is not below size.
RoundupPowerOf2(size) ==
  CHOOSE p \in size..(2 * size) :
    /\ \E e \in 0..size : p = 2^e
    /\ \A e \in 0..size : 2^e >= size => 2^e >= p

\* LidarDataQueue::size, of which mask is one less, and the number of values
\* of rd_idx and wr_idx, 2^32 in the code.
Size == RoundupPowerOf2(setup.queue_size)
IndexMod == Laps * Size
Index == 0..(IndexMod - 1)

\* A ring has slots, whatever is asked for.
ASSUME SizeAssumption == \A s \in Setups : RoundupPowerOf2(s.queue_size) \in Nat \ {0}

Mask(i) == i % Size
Used(l) == (wr_idx[l] - rd_idx[l]) % IndexMod
IsFull(l) == Used(l) > Size - 1
IsEmpty(l) == IF path = "imu" THEN imu_queue[l] = <<>>
                              ELSE rd_idx[l] = wr_idx[l]

QueueInit ==
  /\ setup \in Setups
  /\ slots = [l \in Lidar |-> <<>>]
  /\ rd_idx = [l \in Lidar |-> 0] /\ wr_idx = [l \in Lidar |-> 0]
  /\ imu_queue = [l \in Lidar |-> <<>>]
  /\ sampling = {}
  /\ count = 0
  /\ request_exit = FALSE /\ exit_signal = FALSE
  /\ spc = "idle" /\ slidar = 1
  /\ ppc = "check" /\ plidar = 1 /\ pkg = NoFrame
  /\ dpc = "alive"
  /\ next = 0
  /\ passed = {}

-----------------------------------------------------------------------------
(* Storing: PushLidarData in the thread of PubHandler, StorageImuData in   *)
(* the threads of the SDK.  They run until the SDK is shut down.           *)

\* Mutant: a full ring is written over.
FrameOverwrites(l) ==
  /\ path = "points" /\ spc = "idle" /\ dpc # "closed"
  /\ slots' = IF slots[l] # <<>> THEN slots
              ELSE [slots EXCEPT ![l] = [i \in 0..(Size - 1) |-> NoFrame]]
  /\ slidar' = l
  /\ spc' = "write"
  /\ UNCHANGED <<setup, rd_idx, wr_idx, imu_queue, sampling, count, next,
                 exitVars, pollVars>>

\* The first frame of a lidar makes its ring.  A frame that meets a full
\* ring is dropped, and the poll thread is reminded.
FrameArrives(l) ==
  /\ path = "points" /\ spc = "idle" /\ dpc # "closed"
  /\ slots' = IF slots[l] # <<>> THEN slots
              ELSE [slots EXCEPT ![l] = [i \in 0..(Size - 1) |-> NoFrame]]
  /\ slidar' = l
  /\ IF IsFull(l)
       THEN /\ spc' = "count"
            /\ next' = (next + 1) % FrameMod
       ELSE /\ spc' = "write"
            /\ UNCHANGED next
  /\ UNCHANGED <<setup, rd_idx, wr_idx, imu_queue, sampling, count,
                 exitVars, pollVars>>

WriteSlot ==
  /\ spc = "write"
  /\ slots' = [slots EXCEPT ![slidar][Mask(wr_idx[slidar])] = next]
  /\ spc' = "advance"
  /\ UNCHANGED <<setup, rd_idx, wr_idx, imu_queue, sampling, count,
                 exitVars, slidar, next, pollVars>>

AdvanceWrite ==
  /\ spc = "advance"
  /\ wr_idx' = [wr_idx EXCEPT ![slidar] = (@ + 1) % IndexMod]
  /\ next' = (next + 1) % FrameMod
  /\ spc' = "empty"
  /\ UNCHANGED <<setup, slots, rd_idx, imu_queue, sampling, count,
                 exitVars, slidar, pollVars>>

\* LidarImuDataQueue::Push, under the mutex of the queue.
SampleArrives(l) ==
  /\ path = "imu" /\ spc = "idle" /\ dpc # "closed"
  /\ Len(imu_queue[l]) < MaxImu
  /\ imu_queue' = [imu_queue EXCEPT ![l] = Append(@, next)]
  /\ next' = (next + 1) % FrameMod
  /\ slidar' = l
  /\ spc' = "empty"
  /\ UNCHANGED <<setup, slots, rd_idx, wr_idx, sampling, count, exitVars,
                 pollVars>>

\* Mutant: the semaphore is signalled when the queue is empty.
TestEmptyInverted ==
  /\ spc = "empty"
  /\ spc' = IF IsEmpty(slidar) THEN "count" ELSE "idle"
  /\ UNCHANGED <<setup, queueVars, sampling, count, exitVars, slidar, next,
                 pollVars>>

\* Unless the poll thread has emptied the queue already, it is to be woken.
TestEmpty ==
  /\ spc = "empty"
  /\ spc' = IF IsEmpty(slidar) THEN "idle" ELSE "count"
  /\ UNCHANGED <<setup, queueVars, sampling, count, exitVars, slidar, next,
                 pollVars>>

\* GetCount, without the mutex of the semaphore.
TestCount ==
  /\ spc = "count"
  /\ spc' = IF count <= 0 THEN "signal" ELSE "idle"
  /\ UNCHANGED <<setup, queueVars, sampling, count, exitVars, slidar, next,
                 pollVars>>

SignalSemaphore ==
  /\ spc = "signal"
  /\ count' = count + 1
  /\ spc' = "idle"
  /\ UNCHANGED <<setup, queueVars, sampling, exitVars, slidar, next,
                 pollVars>>

StoreStep == \/ WriteSlot \/ AdvanceWrite \/ TestEmpty \/ TestCount
             \/ SignalSemaphore
Arrival == \E l \in setup.senders : FrameArrives(l) \/ SampleArrives(l)

-----------------------------------------------------------------------------
(* The poll thread: PointCloudDataPollThread or ImuDataPollThread with the *)
(* Distribute and Polling functions of Lddc.                               *)

PollGoes(where) == /\ ppc' = where
                   /\ UNCHANGED <<setup, sampling, exitVars, storeVars>>

CheckExit ==
  /\ ppc = "check"
  /\ PollGoes(IF request_exit THEN "future" ELSE "wait")
  /\ UNCHANGED <<queueVars, count, plidar, pkg, passed>>

SemaphoreWait ==
  /\ ppc = "wait"
  /\ count > 0
  /\ count' = count - 1
  /\ plidar' = 1
  /\ PollGoes("visit")
  /\ UNCHANGED <<queueVars, pkg, passed>>

NextLidar == IF plidar < LidarCount
               THEN plidar' = plidar + 1 /\ PollGoes("visit")
               ELSE plidar' = plidar /\ PollGoes("future")

VisitLidar ==
  /\ ppc = "visit"
  /\ plidar \in sampling
  /\ passed' = passed \ {plidar}
  /\ PollGoes("poll")
  /\ UNCHANGED <<queueVars, count, plidar, pkg>>

\* Mutant: the first lidar that is not sampling ends the round.
PassAllLidars ==
  /\ ppc = "visit"
  /\ plidar \notin sampling
  /\ PollGoes("future")
  /\ UNCHANGED <<queueVars, count, plidar, pkg, passed>>

PassLidar ==
  /\ ppc = "visit"
  /\ plidar \notin sampling
  /\ passed' = IF IsEmpty(plidar) THEN passed \ {plidar}
                                  ELSE passed \cup {plidar}
  /\ NextLidar
  /\ UNCHANGED <<queueVars, count, pkg>>

\* Mutant: the loop over a queue is not ended by a request to exit.
PollOverWhenEmpty ==
  /\ ppc = "poll"
  /\ IsEmpty(plidar)
  /\ NextLidar
  /\ UNCHANGED <<queueVars, count, pkg, passed>>

PollOver ==
  /\ ppc = "poll"
  /\ request_exit \/ IsEmpty(plidar)
  /\ NextLidar
  /\ UNCHANGED <<queueVars, count, pkg, passed>>

PollAgain ==
  /\ ppc = "poll"
  /\ ~request_exit /\ ~IsEmpty(plidar)
  /\ PollGoes(IF path = "imu" THEN "take" ELSE
               IF transfer_format = "pclxyzi" THEN "unsupported" ELSE "drain")
  /\ UNCHANGED <<queueVars, count, plidar, pkg, passed>>

\* PublishPclMsg only prints in ROS 2.
PublishPclMsg ==
  /\ ppc = "unsupported"
  /\ PollGoes("poll")
  /\ UNCHANGED <<queueVars, count, plidar, pkg, passed>>

\* QueuePrePop of the loops in PublishPointcloud2 and PublishCustomPointcloud.
CopyFrame ==
  /\ ppc = "drain" /\ ~IsEmpty(plidar)
  /\ pkg' = slots[plidar][Mask(rd_idx[plidar])]
  /\ PollGoes("copied")
  /\ UNCHANGED <<queueVars, count, plidar, passed>>

\* QueuePopUpdate
AdvanceRead ==
  /\ ppc = "copied"
  /\ rd_idx' = [rd_idx EXCEPT ![plidar] = (@ + 1) % IndexMod]
  /\ PollGoes("publish")
  /\ UNCHANGED <<slots, wr_idx, imu_queue, count, plidar, pkg, passed>>

\* The copy is turned into a message and published.
Publish ==
  /\ ppc = "publish"
  /\ pkg' = NoFrame
  /\ PollGoes(IF path = "imu" THEN "poll" ELSE "drain")
  /\ UNCHANGED <<queueVars, count, plidar, passed>>

DrainOver ==
  /\ ppc = "drain" /\ IsEmpty(plidar)
  /\ PollGoes("poll")
  /\ UNCHANGED <<queueVars, count, plidar, pkg, passed>>

\* LidarImuDataQueue::Pop under its mutex, in PublishImuData.
TakeSample ==
  /\ ppc = "take" /\ ~IsEmpty(plidar)
  /\ pkg' = Head(imu_queue[plidar])
  /\ imu_queue' = [imu_queue EXCEPT ![plidar] = Tail(@)]
  /\ PollGoes("publish")
  /\ UNCHANGED <<slots, rd_idx, wr_idx, count, plidar, passed>>

\* future_.wait_for(0)
TestSignal ==
  /\ ppc = "future"
  /\ PollGoes(IF exit_signal THEN "exited" ELSE "check")
  /\ UNCHANGED <<queueVars, count, plidar, pkg, passed>>

PollStep == \/ CheckExit \/ SemaphoreWait \/ VisitLidar \/ PassLidar
            \/ PollOver \/ PollAgain \/ PublishPclMsg
            \/ CopyFrame \/ AdvanceRead \/ DrainOver
            \/ TakeSample \/ Publish \/ TestSignal

-----------------------------------------------------------------------------
(* The configuration answers arrive (module LivoxDevices), and the node is *)
(* destroyed: ~DriverNode, and the PrepareExit of its member's destructor. *)

BeginSampling(l) ==
  /\ l \notin sampling
  /\ sampling' = sampling \cup {l}
  /\ UNCHANGED <<setup, queueVars, count, exitVars, storeVars, pollVars>>

DestructorGoes(from, to) ==
  /\ dpc = from /\ dpc' = to
  /\ UNCHANGED <<setup, queueVars, sampling, count, storeVars, pollVars>>

RequestExit == /\ DestructorGoes("alive", "requested")
               /\ request_exit' = TRUE
               /\ UNCHANGED exit_signal

SetExitSignal == /\ DestructorGoes("requested", "joining")
                 /\ exit_signal' = TRUE
                 /\ UNCHANGED request_exit

JoinPollThread == /\ ppc = "exited"
                  /\ DestructorGoes("joining", "joined")
                  /\ UNCHANGED <<request_exit, exit_signal>>

\* The SDK is shut down and Lddc::lds_ is cleared.
PrepareExit == /\ DestructorGoes("joined", "closed")
               /\ UNCHANGED <<request_exit, exit_signal>>

Destruction == SetExitSignal \/ JoinPollThread \/ PrepareExit

QueueNext == \/ Arrival \/ StoreStep \/ PollStep
             \/ \E l \in setup.senders : BeginSampling(l)
             \/ RequestExit \/ Destruction

QueueSpec == QueueInit /\ [][QueueNext]_livoxVars

\* The threads are scheduled.  Lidars need not send anything.
QueueFairSpec == /\ QueueSpec
                 /\ WF_livoxVars(StoreStep)
                 /\ WF_livoxVars(PollStep)
                 /\ WF_livoxVars(Destruction)

-----------------------------------------------------------------------------
(* Properties *)

StorePC == {"idle", "write", "advance", "empty", "count", "signal"}
PollPC == {"check", "wait", "visit", "poll", "unsupported", "drain", "copied",
           "take", "publish", "future", "exited"}
DestructorPC == {"alive", "requested", "joining", "joined", "closed"}

\* Types of the shared variables and the threads; a ring never counts more
\* frames than it has slots, and the semaphore never more than one signal.
QueueTypeOK ==
  /\ setup \in Setups
  /\ slots \in [Lidar -> {<<>>} \cup [0..(Size - 1) -> Frame \cup {NoFrame}]]
  /\ imu_queue \in [Lidar -> Seq(Frame)]
  /\ \A l \in Lidar : Used(l) <= Size
  /\ rd_idx \in [Lidar -> Index] /\ wr_idx \in [Lidar -> Index]
  /\ sampling \subseteq Lidar /\ passed \subseteq Lidar
  /\ count \in {0, 1}
  /\ request_exit \in BOOLEAN /\ exit_signal \in BOOLEAN
  /\ spc \in StorePC /\ slidar \in Lidar /\ next \in Frame
  /\ ppc \in PollPC /\ plidar \in Lidar /\ pkg \in Frame \cup {NoFrame}
  /\ dpc \in DestructorPC

\* The poll thread is awake and has yet to look at the queue of l.
WillVisit(l) ==
  /\ ppc \in {"visit", "poll", "unsupported", "drain", "copied", "take",
              "publish"}
  /\ plidar <= l

(***************************************************************************)
(* No wakeup is lost, although the count of the semaphore is read without  *)
(* its mutex and the semaphore is not signalled for every frame            *)
(* (lds.cpp:187): if the queue of a sampling lidar holds a frame, the      *)
(* semaphore is or is about to be signalled, or the poll thread is on its  *)
(* way to that lidar.  Excepted are frames that were passed over before    *)
(* the lidar was sampling.                                                 *)
(***************************************************************************)
NoFrameStuck ==
  \A l \in sampling \ passed :
    ~IsEmpty(l) /\ ~request_exit =>
      \/ count > 0
      \/ spc \in {"count", "signal"}
      \/ spc = "empty" /\ slidar = l
      \/ WillVisit(l)

\* The SDK is not shut down, and Lddc::lds_ not cleared, under a poll thread
\* that may still use them (driver_node.cpp:37, lddc.cpp:196).
NoPollAfterExit == dpc \in {"joined", "closed"} => ppc = "exited"

(***************************************************************************)
(* The queues are channels: nothing is overwritten, reordered, published   *)
(* twice or lost, except that a frame that meets a full ring is dropped.   *)
(***************************************************************************)
Channel == INSTANCE LivoxChannel
  WITH capacity <- Size,
       out <- IF ppc = "publish" THEN <<plidar, pkg>> ELSE <<>>,
       channel <- [l \in Lidar |->
                     IF path = "imu" THEN imu_queue[l]
                     ELSE [i \in 1..Used(l) |->
                             slots[l][Mask((rd_idx[l] + i - 1) % IndexMod)]]]

ImplementsChannel == Channel!Spec

KeepArriving == []<><<Arrival>>_livoxVars

\* The poll thread publishes faster than frames come in: it gets to the end
\* of its loops again and again.
LeavesOften(loop) == []<>(ppc \notin loop)

(***************************************************************************)
(* As long as frames of some lidar keep coming, a sampling lidar whose     *)
(* queue holds frames gets one of them published, the ones included that   *)
(* came before it was sampling (lddc.cpp:133).                             *)
(***************************************************************************)
FramesFlow ==
  KeepArriving /\ LeavesOften(PollPC \ {"check"}) =>
    \A l \in Lidar :
      l \in sampling /\ ~IsEmpty(l) ~>
        (ppc = "publish" /\ plidar = l) \/ request_exit

(***************************************************************************)
(* The destructor of the node returns if frames keep coming until the SDK  *)
(* is shut down: a poll thread asleep in Semaphore::Wait is woken by       *)
(* nobody else (driver_node.cpp:37).  It does so for the transfer format   *)
(* as well for which nothing is ever taken from the queues.                *)
(***************************************************************************)
DestructorReturns ==
  KeepArriving /\ LeavesOften({"drain", "copied", "publish"}) =>
    (dpc = "requested" ~> dpc = "joined")
=============================================================================
