------------------------------ MODULE RosServer ------------------------------
(***************************************************************************)
(* The wavemap server node: sensor inputs that wait for a pose and run the *)
(* pipeline, the map operations that follow each measurement, and the      *)
(* reset_map, save_map and load_map services (ros_server.cc, pipeline.cc,  *)
(* the topic inputs, tf_transformer.cc, the map operations).               *)
(*                                                                         *)
(* rclcpp::spin runs all callbacks on one thread; the TF listener fills    *)
(* its buffer from a thread of its own, and messages and requests arrive   *)
(* at any time.  The process may crash and be restarted at any step.       *)
(*                                                                         *)
(* The map is represented by one of its blocks: the updates integrated     *)
(* into it since it was last erased, and whether its values may exceed the *)
(* log-odds bounds.  A tick of the clock is transform_lookup_retry_period_.*)
(***************************************************************************)
EXTENDS Integers, Sequences, FiniteSets

CONSTANTS Topic,        \* the inputs, each with its topic
          Names,          \* measurement_integrator_names of each input
          Integrator,     \* the integrators that addIntegrator accepted
          Ops,            \* the map operations in the order of the config
          Transferable,   \* whether the map's type has messages and streams
          OnceEvery,      \* once_every of each operation
          QueueLength,    \* topic_queue_length
          MaxTries,       \* transform_lookup_max_time_, in retry periods
          MaxWork,        \* bound on the duration of a measurement's update
          CacheTime,      \* history kept by the TF buffer
          MaxClock,       \* bound on the modelled time
          HitTimes,       \* bound: stamps of measurements that affect the block
          Calls,          \* bound: the services that are called
          MayCrash        \* bound: whether the process may crash

Time == 1..MaxClock
OpType == {"publish_map", "publish_pointcloud", "crop_map"}
Service == {"reset_map", "save_map", "load_map"}

ASSUME ServerAssumption ==
  /\ Topic \cap Service = {}
  /\ Calls \subseteq Service
  /\ MayCrash \in BOOLEAN /\ Transferable \in BOOLEAN
  /\ QueueLength \in Nat \ {0}
  /\ MaxTries \in Nat /\ MaxWork \in Nat /\ CacheTime \in Nat
  /\ MaxClock \in Nat \ {0} /\ HitTimes \subseteq Time
  /\ Ops \in Seq(OpType)
  /\ IsFiniteSet(Topic)
  /\ Names \in [Topic -> Seq(STRING)]
  /\ OnceEvery \in [OpType -> Nat]

VARIABLES clock,        \* the ROS time
          inbox,        \* stamps of the messages queued for each subscription
          used,         \* history: stamp of each input's last update of the block
          requests,     \* service requests that have not been answered
          ready,        \* callbacks the executor found ready and has yet to run
          tf,           \* stamps the TF buffer covers: oldest and newest
          pc,           \* where the executor's thread is
          msg,          \* the measurement being processed
          step,         \* retries made, integrators or operations run
          maps,         \* the map objects: the pipeline's, and the one last loaded
          server,       \* RosServer::occupancy_map_, a pointer to a map or null
          lastRun,      \* last_run_timestamp_ of each operation
          ranAt,        \* history: when the operations last ran
          published,    \* the map last received by subscribers, and when
          file          \* the file that save_map writes and load_map reads

inputVars == <<inbox, requests>>
execVars == <<ready, pc, msg, step>>
serverMaps == <<maps, server>>
opVars == <<lastRun, ranAt, published>>
serverVars == <<clock, inputVars, execVars, tf, serverMaps, opVars, file, used>>

EmptyMap == [updates |-> {}, raw |-> FALSE]
Thresholded(m) == [m EXCEPT !.raw = FALSE]
NoMsg == [topic |-> "none", stamp |-> 0, hit |-> FALSE]
NoFile == [state |-> "none", map |-> EmptyMap]
TruncatedFile == [state |-> "truncated", map |-> EmptyMap]

Later(duration) == IF clock + duration > MaxClock THEN MaxClock ELSE clock + duration
Covered(stamp) == tf.oldest <= stamp /\ stamp <= tf.newest

\* What a new process starts with.
FreshNode ==
  [ready |-> {}, pc |-> "idle", msg |-> NoMsg, step |-> 0,
   maps |-> [m \in {"pipeline", "loaded"} |-> EmptyMap], server |-> "pipeline",
   lastRun |-> [o \in OpType |-> 0], tf |-> [oldest |-> 1, newest |-> 0]]

ServerInit == /\ clock = 1
        /\ inbox = [t \in Topic |-> <<>>]
        /\ used = [t \in Topic |-> 0]
        /\ requests = {}
        /\ ready = FreshNode.ready
        /\ tf = FreshNode.tf
        /\ pc = FreshNode.pc
        /\ msg = FreshNode.msg
        /\ step = FreshNode.step
        /\ maps = FreshNode.maps
        /\ server = FreshNode.server
        /\ lastRun = FreshNode.lastRun
        /\ ranAt = 0
        /\ published = [map |-> EmptyMap, at |-> 0]
        /\ file = NoFile

-----------------------------------------------------------------------------
(* The environment *)

\* A best-effort subscription keeps the last QueueLength messages.
Enqueue(queue, stamp) ==
  LET longer == Append(queue, stamp)
  IN  IF Len(longer) > QueueLength THEN Tail(longer) ELSE longer

\* Sensors send at any time, and any number of messages within a tick.
Measure(t) ==
  /\ inbox' = [inbox EXCEPT ![t] = Enqueue(@, clock)]
  /\ UNCHANGED <<clock, requests, execVars, tf, serverMaps, opVars, file, used>>

Call(r) ==
  /\ r \in Calls \ requests
  /\ requests' = requests \cup {r}
  /\ UNCHANGED <<clock, inbox, execVars, tf, serverMaps, opVars, file, used>>

\* The TF listener's thread: poses arrive late, but in order and one per tick.
\* The buffer forgets what is older than the newest by more than CacheTime.
TfArrives ==
  \E stamp \in Time :
    /\ stamp <= clock
    /\ IF tf.newest = 0
       THEN tf' = [oldest |-> stamp, newest |-> stamp]
       ELSE /\ stamp = tf.newest + 1
            /\ tf' = [oldest |-> IF tf.oldest < stamp - CacheTime
                                 THEN stamp - CacheTime ELSE tf.oldest,
                      newest |-> stamp]
    /\ UNCHANGED <<clock, inputVars, execVars, serverMaps, opVars, file, used>>

\* Time passes while the executor's thread has nothing to run.
Idle == pc = "idle" /\ ready = {} /\ requests = {} /\ \A t \in Topic : inbox[t] = <<>>

Tick == /\ Idle
        /\ clock < MaxClock
        /\ clock' = clock + 1
        /\ UNCHANGED <<inputVars, execVars, tf, serverMaps, opVars, file, used>>

\* The process dies, and a new one starts.  What was sent to it is lost; the
\* file and the subscribers' copy of the map are not.
Crash ==
  /\ MayCrash
  /\ inbox' = [t \in Topic |-> <<>>]
  /\ requests' = {}
  /\ ready' = FreshNode.ready /\ pc' = FreshNode.pc
  /\ msg' = FreshNode.msg /\ step' = FreshNode.step
  /\ tf' = FreshNode.tf
  /\ maps' = FreshNode.maps /\ server' = FreshNode.server
  /\ lastRun' = FreshNode.lastRun
  /\ UNCHANGED <<clock, ranAt, published, file, used>>

-----------------------------------------------------------------------------
(* The executor: it collects the callbacks that are ready, runs those of    *)
(* subscriptions before those of services, and only then collects again.    *)

WithData == {t \in Topic : inbox[t] # <<>>} \cup requests

\* Mutant: the callbacks are collected anew before each of them.
CollectAnytime ==
  /\ pc = "idle"
  /\ WithData # {}
  /\ ready' = WithData
  /\ UNCHANGED <<clock, inputVars, pc, msg, step, tf, serverMaps, opVars, file, used>>

Collect ==
  /\ pc = "idle"
  /\ ready = {}
  /\ WithData # {}
  /\ ready' = WithData
  /\ UNCHANGED <<clock, inputVars, pc, msg, step, tf, serverMaps, opVars, file, used>>

Runnable(callback) ==
  /\ pc = "idle"
  /\ callback \in ready
  /\ callback \in Topic \/ ready \cap Topic = {}

\* An input's callback begins.  Whether the measurement will affect the block
\* is its data's affair; an empty pointcloud is skipped at once.
\* Bound: in the ticks of HitTimes, one of the measurements affects the block.
TakeMessage(t) ==
  /\ Runnable(t)
  /\ ready' = ready \ {t}
  /\ inbox' = [inbox EXCEPT ![t] = Tail(@)]
  /\ \/ UNCHANGED <<pc, msg, step, used>>
     \/ /\ \E hit \in BOOLEAN :
             /\ hit => Head(inbox[t]) \in HitTimes /\ used[t] < Head(inbox[t])
             /\ msg' = [topic |-> t, stamp |-> Head(inbox[t]), hit |-> hit]
             /\ used' = IF hit THEN [used EXCEPT ![t] = Head(inbox[t])] ELSE used
        /\ step' = 0
        /\ pc' = "wait"
  /\ UNCHANGED <<clock, requests, tf, serverMaps, opVars, file>>

-----------------------------------------------------------------------------
(* waitForTransform and lookupTransform: three separate looks at the buffer *)

Goto(next) == pc' = next /\ step' = 0
Return == Goto("idle") /\ msg' = NoMsg

WaitSucceeds ==
  /\ pc = "wait"
  /\ step < MaxTries
  /\ Covered(msg.stamp)
  /\ Goto("available")
  /\ UNCHANGED <<clock, inputVars, ready, msg, tf, serverMaps, opVars, file, used>>

\* Mutant: the retries are not counted.
WaitUncounted ==
  /\ pc = "wait"
  /\ ~Covered(msg.stamp)
  /\ clock' = Later(1)
  /\ UNCHANGED <<inputVars, ready, pc, msg, step, tf, serverMaps, opVars, file, used>>

\* The thread sleeps for one retry period; TF messages go on arriving.
WaitRetries ==
  /\ pc = "wait"
  /\ step < MaxTries
  /\ ~Covered(msg.stamp)
  /\ step' = step + 1
  /\ clock' = Later(1)
  /\ UNCHANGED <<inputVars, ready, pc, msg, tf, serverMaps, opVars, file, used>>

WaitTimesOut ==
  /\ pc = "wait"
  /\ step >= MaxTries
  /\ Return
  /\ UNCHANGED <<clock, inputVars, ready, tf, serverMaps, opVars, file, used>>

CheckAvailable ==
  /\ pc = "available"
  /\ IF Covered(msg.stamp) THEN Goto("lookup") /\ UNCHANGED msg ELSE Return
  /\ UNCHANGED <<clock, inputVars, ready, tf, serverMaps, opVars, file, used>>

\* tf2 throws when the buffer no longer covers the stamp, and nothing catches
\* it.  A depth image of an unsupported type is only refused now.
Lookup ==
  /\ pc = "lookup"
  /\ \/ Goto(IF Covered(msg.stamp) THEN "integrate" ELSE "terminated") /\ UNCHANGED msg
     \/ Covered(msg.stamp) /\ Return
  /\ UNCHANGED <<clock, inputVars, ready, tf, serverMaps, opVars, file, used>>

-----------------------------------------------------------------------------
(* runPipeline *)

integrators == Names[msg.topic]

\* runIntegrators returns at the first name that is not registered; what was
\* integrated before stays in the map.
Integrate ==
  /\ pc = "integrate"
  /\ step < Len(integrators)
  /\ integrators[step + 1] \in Integrator
  /\ maps' = IF msg.hit
             THEN [maps EXCEPT !["pipeline"] =
                     [updates |-> @.updates \cup {<<msg.topic, msg.stamp, integrators[step + 1]>>},
                      raw     |-> TRUE]]
             ELSE maps
  /\ step' = step + 1
  /\ \E work \in 0..MaxWork : clock' = Later(IF step = 0 THEN work ELSE 0)
  /\ UNCHANGED <<inputVars, ready, pc, msg, tf, server, opVars, file, used>>

IntegrateEnds ==
  /\ pc = "integrate"
  /\ step < Len(integrators) => integrators[step + 1] \notin Integrator
  /\ Goto("operations")
  /\ ranAt' = clock
  /\ UNCHANGED <<clock, inputVars, ready, msg, tf, serverMaps, lastRun, published, file, used>>

sinceLastRun(op) == clock - lastRun[op]
Due(op) == IF op = "publish_map" THEN sinceLastRun(op) > OnceEvery[op]
                                 ELSE sinceLastRun(op) >= OnceEvery[op]

NextOp(op) == pc = "operations" /\ step < Len(Ops) /\ Ops[step + 1] = op /\ step' = step + 1

OpNotDue ==
  /\ \E op \in OpType : NextOp(op) /\ ~Due(op)
  /\ UNCHANGED <<clock, inputVars, ready, pc, msg, tf, serverMaps, opVars, file, used>>

Stamped(op) == lastRun' = [lastRun EXCEPT ![op] = clock]

\* Mutant: an empty map counts as published.
PublishEmptyStamps ==
  /\ NextOp("publish_map") /\ Due("publish_map")
  /\ maps["pipeline"].updates = {}
  /\ Stamped("publish_map")
  /\ UNCHANGED <<clock, inputVars, ready, pc, msg, tf, serverMaps, ranAt, published, file, used>>

PublishEmpty ==
  /\ NextOp("publish_map") /\ Due("publish_map")
  /\ maps["pipeline"].updates = {}
  /\ UNCHANGED <<clock, inputVars, ready, pc, msg, tf, serverMaps, opVars, file, used>>

\* A map whose type has no message is not sent, and the operation stamped all
\* the same.
PublishMap ==
  /\ NextOp("publish_map") /\ Due("publish_map")
  /\ maps["pipeline"].updates # {}
  /\ maps' = [maps EXCEPT !["pipeline"] = Thresholded(@)]
  /\ published' = IF Transferable THEN [map |-> maps'["pipeline"], at |-> clock]
                   ELSE published
  /\ Stamped("publish_map")
  /\ UNCHANGED <<clock, inputVars, ready, pc, msg, tf, server, ranAt, file, used>>

\* The centers of the occupied leaves; the operation stamps itself even if
\* nobody subscribed.
PublishPointcloud ==
  /\ NextOp("publish_pointcloud") /\ Due("publish_pointcloud")
  /\ Stamped("publish_pointcloud")
  /\ UNCHANGED <<clock, inputVars, ready, pc, msg, tf, serverMaps, ranAt, published, file, used>>

\* The stamp is set before the robot's pose is looked up, which may fail.
CropMap ==
  /\ NextOp("crop_map") /\ Due("crop_map")
  /\ Stamped("crop_map")
  /\ \/ UNCHANGED maps
     \/ tf.newest > 0 /\ maps' = [maps EXCEPT !["pipeline"] = EmptyMap]
  /\ UNCHANGED <<clock, inputVars, ready, pc, msg, tf, server, ranAt, published, file, used>>

PipelineReturns ==
  /\ pc = "operations"
  /\ step = Len(Ops)
  /\ Return
  /\ UNCHANGED <<clock, inputVars, ready, tf, serverMaps, opVars, file, used>>

-----------------------------------------------------------------------------
(* The services.  maps[server] is the map that occupancy_map_ points to.     *)

\* Mutant: services are served while an input's callback is under way.
ServeAnytime(r) == pc # "save" /\ r \in ready /\ ready' = ready \ {r}

Serve(r) == Runnable(r) /\ ready' = ready \ {r}
Answer(r) == requests' = requests \ {r}

ResetMap ==
  /\ Serve("reset_map") /\ Answer("reset_map")
  /\ maps' = IF server = "null" THEN maps ELSE [maps EXCEPT ![server] = EmptyMap]
  /\ UNCHANGED <<clock, inbox, pc, msg, step, tf, server, opVars, file, used>>

\* Opening the file for writing truncates it.
SaveMap ==
  /\ Serve("save_map")
  /\ server # "null"
  /\ maps' = [maps EXCEPT ![server] = Thresholded(@)]
  /\ file' = TruncatedFile
  /\ pc' = "save"
  /\ UNCHANGED <<clock, inputVars, msg, step, tf, server, opVars, used>>

\* The map's type may have no stream, and writing may fail: the file is left
\* as it is.
SaveMapWrites ==
  /\ pc = "save"
  /\ \/ Transferable /\ file' = [state |-> "complete", map |-> maps[server]]
     \/ UNCHANGED file
  /\ Answer("save_map")
  /\ pc' = "idle"
  /\ UNCHANGED <<clock, inbox, ready, msg, step, tf, serverMaps, opVars, used>>

\* There is no map, or the file cannot be opened.
SaveMapFails ==
  /\ Serve("save_map") /\ Answer("save_map")
  /\ maps' = IF server = "null" THEN maps ELSE [maps EXCEPT ![server] = Thresholded(@)]
  /\ UNCHANGED <<clock, inbox, pc, msg, step, tf, server, opVars, file, used>>

\* The file is not there, or breaks off after its first bytes.
LoadMapFails ==
  /\ Serve("load_map") /\ Answer("load_map")
  /\ file.state # "complete"
  /\ UNCHANGED <<clock, inbox, pc, msg, step, tf, serverMaps, opVars, file, used>>

\* The file does not even tell its type: the server's pointer becomes null,
\* and a map that was loaded before is gone.
LoadMapForgets ==
  /\ Serve("load_map") /\ Answer("load_map")
  /\ file.state = "truncated"
  /\ server' = "null"
  /\ maps' = [maps EXCEPT !["loaded"] = EmptyMap]
  /\ UNCHANGED <<clock, inbox, pc, msg, step, tf, opVars, file, used>>

\* A new map object, which only the server's own pointer refers to.
LoadMap ==
  /\ Serve("load_map") /\ Answer("load_map")
  /\ file.state = "complete"
  /\ maps' = [maps EXCEPT !["loaded"] = file.map]
  /\ server' = "loaded"
  /\ UNCHANGED <<clock, inbox, pc, msg, step, tf, opVars, file, used>>

-----------------------------------------------------------------------------
RunInput ==
  \/ \E t \in Topic : TakeMessage(t)
  \/ WaitSucceeds \/ WaitRetries \/ WaitTimesOut \/ CheckAvailable \/ Lookup

RunPipeline ==
  \/ Integrate \/ IntegrateEnds
  \/ OpNotDue \/ PublishEmpty \/ PublishMap \/ PublishPointcloud \/ CropMap
  \/ PipelineReturns

RunService ==
  \/ ResetMap \/ SaveMap \/ SaveMapWrites \/ SaveMapFails
  \/ LoadMapFails \/ LoadMapForgets \/ LoadMap

ExecutorStep == Collect \/ RunInput \/ RunPipeline \/ RunService

ServerNext == \/ \E t \in Topic : Measure(t)
        \/ \E r \in Service : Call(r)
        \/ TfArrives \/ Tick \/ Crash
        \/ ExecutorStep

ServerSpec == ServerInit /\ [][ServerNext]_serverVars

\* The executor's thread is scheduled.  Nothing is assumed of TF or the sensors.
ServerFairSpec == ServerSpec /\ WF_serverVars(ExecutorStep)

-----------------------------------------------------------------------------
(* Properties *)

MapObject == [updates : SUBSET (Topic \X Time \X Integrator), raw : BOOLEAN]

ServerTypeOK ==
  /\ clock \in Time
  /\ inbox \in [Topic -> Seq(Time)]
  /\ \A t \in Topic : Len(inbox[t]) <= QueueLength
  /\ used \in [Topic -> 0..MaxClock]
  /\ requests \subseteq Service
  /\ ready \subseteq Topic \cup Service
  /\ tf \in [oldest : Int, newest : 0..MaxClock]
  /\ pc \in {"idle", "wait", "available", "lookup", "integrate", "operations",
             "save", "terminated"}
  /\ msg \in [topic : Topic \cup {"none"}, stamp : 0..MaxClock, hit : BOOLEAN]
  /\ step \in Nat
  /\ maps \in [{"pipeline", "loaded"} -> MapObject]
  /\ server \in {"pipeline", "loaded", "null"}
  /\ lastRun \in [OpType -> 0..MaxClock]
  /\ ranAt \in 0..MaxClock
  /\ published \in [map : MapObject, at : 0..MaxClock]
  /\ file \in [state : {"none", "truncated", "complete"}, map : MapObject]

\* The integrators that a measurement of input t reaches.
Reached(t) == {Names[t][i] : i \in {j \in 1..Len(Names[t]) :
                                      \A k \in 1..j : Names[t][k] \in Integrator}}

WholeMeasurements(m) ==
  \A u \in m.updates : \A i \in Reached(u[1]) : <<u[1], u[2], i>> \in m.updates

(***************************************************************************)
(* The map that subscribers receive, the one in the file and the one that  *)
(* was loaded hold each measurement with all of its integrators or not at  *)
(* all, and no value that was not yet thresholded, whenever publishing,    *)
(* saving, resetting, loading and crashing fell.                           *)
(***************************************************************************)
SnapshotsAreWhole ==
  \A m \in {published.map, file.map, maps["loaded"]} : WholeMeasurements(m) /\ ~m.raw

(***************************************************************************)
(* Whenever the operations have run and left subscribers without an update *)
(* of the map, the last map was sent to them at most once_every before:    *)
(* throttling holds an update back for one period, and no publication that *)
(* is due is skipped.  Only measurements make the operations run, so that  *)
(* what the last one left unpublished remains so.                          *)
(***************************************************************************)
PublishingKeepsUp ==
  (/\ Transferable
   /\ pc = "idle"
   /\ ~(maps["pipeline"].updates \subseteq published.map.updates))
    => ranAt - published.at <= OnceEvery["publish_map"]

(***************************************************************************)
(* The lookup of a pose that was available a moment ago never throws: the  *)
(* time a measurement may wait in the queue and for its pose is covered by *)
(* the history of the TF buffer, which goes on moving meanwhile.           *)
(***************************************************************************)
LookupNeverThrows == pc # "terminated"

(***************************************************************************)
(* Every service request is answered or the process crashes, even when no  *)
(* pose ever arrives and measurements never cease: the next one is there   *)
(* whenever the executor is done with one.                                 *)
(***************************************************************************)
RequestsAreAnswered == \A r \in Service : r \in requests ~> r \notin requests

(***************************************************************************)
(* What the test plan expects of load_map: the map that the node goes on   *)
(* to update and publish is the one in the file.                           *)
(***************************************************************************)
LoadRestoresMap == [][LoadMap => maps'["pipeline"] = file.map]_serverVars

=============================================================================
