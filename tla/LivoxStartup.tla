---------------------------- MODULE LivoxStartup ----------------------------
(***************************************************************************)
(* The Livox driver from its launch arguments and its configuration file   *)
(* to its topics (livox_ros_driver2.cpp, lds_lidar.cpp, parse_cfg_file and *)
(* lddc.cpp): the constructor of the node runs step by step while the SDK  *)
(* announces devices and delivers frames, and the poll threads create a    *)
(* publisher when the first frame of a device needs it.                    *)
(*                                                                         *)
(* The handshake with a device is module LivoxDevices, the queues and      *)
(* semaphores are LivoxQueues, the assembly of frames is LivoxFrames: here *)
(* a device asked to configure itself starts sampling at some time, and a  *)
(* frame is one packet.  Of the extrinsics the translation along x stands  *)
(* for all, in millimetres.                                                *)
(***************************************************************************)
EXTENDS Integers, Sequences, FiniteSetsExt

CONSTANTS Address,      \* the devices in the network
          Launch,       \* arguments of the launch file, by name
          ConfigFile,   \* contents of the file at user_config_path
          MaxSources,   \* kMaxSourceLidar
          MaxWaiting    \* bound on the frames that wait in a queue

Source == 0..(MaxSources - 1)
Stream == {"lidar", "imu"}
Unset == "0.0.0.0"  \* the handle of a LidarDevice that is not filled in

\* LivoxLidarPointDataType
High == 1
Low == 2

Given(object, name, default) ==
  IF name \in DOMAIN object THEN object[name] ELSE default

\* What an entry of the file gives as the translation.
Translation(entry) == Given(Given(entry, "extrinsic_parameter", <<>>), "x", 0)

ASSUME StartupAssumption ==
  /\ Unset \notin Address
  /\ MaxSources \in Nat
  /\ MaxWaiting \in Nat \ {0}
  /\ \A f \in ConfigFile :
       /\ DOMAIN f \subseteq {"lidar_summary_info", "lidar_configs"}
       /\ "lidar_configs" \in DOMAIN f =>
            /\ DOMAIN f.lidar_configs = 1..Len(f.lidar_configs)
            /\ Len(f.lidar_configs) \in Nat
            /\ \A n \in DOMAIN f.lidar_configs : Translation(f.lidar_configs[n]) \in Int

VARIABLES launch, config_file,  \* what the driver is started with
          phase,          \* what the constructor of the node does next
          parameters,
          user_configs,   \* what InitLivoxLidar has yet to fill in
          listening,      \* the callbacks that are set
          polling,        \* the poll threads have been started
          index_of,       \* CacheIndex
          lidars,         \* lidars_, without queue and state
          lidar_extrinsics,
          asked,          \* devices that are asked to configure themselves
          in_sampling,    \* sources in the state kConnectStateSampling
          waiting,        \* frames in the queues
          publishers,     \* private_pub_, global_pub_ and those for the IMU
          last_message       \* history: the last message, if any

launchVars == <<launch, config_file>>
constructorVars == <<launchVars, phase, parameters, user_configs>>
deviceState == <<index_of, lidars, lidar_extrinsics, asked, in_sampling>>
startupVars == <<constructorVars, listening, polling, deviceState, waiting,
                 publishers, last_message>>

\* f with v for key.
Assign(f, key, v) == [k \in DOMAIN f \cup {key} |-> IF k = key THEN v ELSE f[k]]

\* What static storage holds before a device is filled in.
ZeroConfig == [handle |-> Unset, pcl_data_type |-> 0, pattern_mode |-> 0,
               blind_spot_set |-> 0, dual_emit_en |-> 0, x |-> 0]

StartupInit ==
  /\ launch \in Launch /\ config_file \in ConfigFile
  /\ phase = "parameters"
  /\ parameters = <<>>
  /\ user_configs = <<>>
  /\ listening = {}
  /\ polling = FALSE
  /\ index_of = <<>>
  /\ lidars = [i \in Source |-> ZeroConfig]
  /\ lidar_extrinsics = <<>>
  /\ asked = {} /\ in_sampling = {}
  /\ waiting = [s \in Stream \X Source |-> <<>>]
  /\ publishers = <<>>
  /\ last_message = {}

-----------------------------------------------------------------------------
(* DriverNode::DriverNode *)

\* Frequencies are in tenths of a Hertz.
DefaultArguments == [xfer_format |-> 0, multi_topic |-> 0, data_src |-> 0,
                     publish_freq |-> 100, output_data_type |-> 0]
Argument(name) == Given(launch, name, DefaultArguments[name])

Clamp(frequency) == IF frequency > 1000 THEN 1000
                    ELSE IF frequency < 5 THEN 5 ELSE frequency

\* Lddc keeps the format and the flags in a uint8_t.
Byte(n) == n % 256

DeclareParameters ==
  /\ phase = "parameters"
  /\ parameters' = [transfer_format |-> Byte(Argument("xfer_format")),
                    use_multi_topic |-> Byte(Argument("multi_topic")) # 0,
                    publish_freq |-> Clamp(Argument("publish_freq")),
                    output_type |-> Byte(Argument("output_data_type"))]
  /\ phase' = IF Argument("data_src") = 0 THEN "summary" ELSE "threads"
  /\ UNCHANGED <<launchVars, user_configs, listening, polling, deviceState, waiting,
                 publishers, last_message>>

\* ParseSummaryInfo: of the file only the members that have the right type
\* are in `file', which is empty if it cannot be opened or parsed.
\* Bit 3 of lidar_type is kLivoxLidarType.
ParseSummary ==
  /\ phase = "summary"
  /\ phase' = IF "lidar_type" \notin DOMAIN Given(config_file, "lidar_summary_info", <<>>)
                THEN "threads"
              ELSE IF (Byte(config_file.lidar_summary_info.lidar_type) \div 8) % 2 = 1
                THEN "sdk"
              ELSE "callbacks"
  /\ UNCHANGED <<launchVars, parameters, user_configs, listening, polling,
                 deviceState, waiting, publishers, last_message>>

\* ParseUserConfigs: an item that is missing is -1, a translation 0.
UserConfig(entry) ==
  [handle |-> entry.ip,
   pcl_data_type |-> Given(entry, "pcl_data_type", -1),
   pattern_mode |-> Given(entry, "pattern_mode", -1),
   blind_spot_set |-> Given(entry, "blind_spot_set", -1),
   dual_emit_en |-> Given(entry, "dual_emit_en", -1),
   x |-> Translation(entry)]

UserConfigs ==
  LET entries == Given(config_file, "lidar_configs", <<>>)
      valid[n \in 0..Len(entries)] ==
        IF n = 0 THEN <<>>
        ELSE IF "ip" \in DOMAIN entries[n] THEN Append(valid[n - 1], UserConfig(entries[n]))
        ELSE valid[n - 1]
  IN  valid[Len(entries)]

\* No valid configuration is only reported; it is the SDK, which reads the
\* same file, that may fail.
InitSdk ==
  /\ phase = "sdk"
  /\ \/ phase' = "devices" /\ user_configs' = UserConfigs
     \/ phase' = "threads" /\ user_configs' = <<>>
  /\ UNCHANGED <<launchVars, parameters, listening, polling, deviceState, waiting,
                 publishers, last_message>>

FreeSources == Source \ {index_of[h] : h \in DOMAIN index_of}

IndexFor(h) == IF h \in DOMAIN index_of THEN {index_of[h]}
               ELSE {Min(S) : S \in {FreeSources} \ {{}}}

\* Division of integers truncates.
Tenth(n) == IF n < 0 THEN -(-n \div 10) ELSE n \div 10

\* Mutant: the translation of points in centimetres is not scaled.
ExtrinsicsUnscaled(c) == c.x

\* Points of the data type Low are in centimetres.
Extrinsics(c) == IF c.pcl_data_type = Low THEN Tenth(c.x) ELSE c.x

FillDevice ==
  /\ phase = "devices" /\ user_configs # <<>>
  /\ LET c == Head(user_configs)
     IN  \/ /\ IndexFor(c.handle) = {}
            /\ UNCHANGED <<index_of, lidars, lidar_extrinsics>>
         \/ \E i \in IndexFor(c.handle) :
              /\ index_of' = Assign(index_of, c.handle, i)
              /\ lidars' = [lidars EXCEPT ![i] = c]
              /\ lidar_extrinsics' = Assign(lidar_extrinsics, c.handle, Extrinsics(c))
  /\ user_configs' = Tail(user_configs)
  /\ UNCHANGED <<launchVars, phase, parameters, listening, polling, asked, in_sampling,
                 waiting, publishers, last_message>>

SetCallback(name, from, to) ==
  /\ phase = from
  /\ listening' = listening \cup {name}
  /\ phase' = to
  /\ UNCHANGED <<launchVars, parameters, user_configs, polling, deviceState, waiting,
                 publishers, last_message>>

SetInfoChange == user_configs = <<>> /\ SetCallback("info", "devices", "callbacks")

\* SetLidarPubHandle.  Packets wait for the thread that SetPointCloudConfig
\* starts, IMU samples only for their callback.
SetPubHandle == \/ SetCallback("observer", "callbacks", "imu")
                \/ SetCallback("imu", "imu", "thread")
                \/ SetCallback("lidar", "thread", "threads")

StartPollThreads ==
  /\ phase = "threads"
  /\ polling' = TRUE
  /\ phase' = "done"
  /\ UNCHANGED <<launchVars, parameters, user_configs, listening, deviceState, waiting,
                 publishers, last_message>>

-----------------------------------------------------------------------------
(* The threads of the SDK *)

\* LidarInfoChangeCallback: a device that the file does not configure gets
\* an index, but no handle; announced again, it is asked for what its zero
\* configuration says.
AnnounceDevice(h) ==
  /\ "info" \in listening
  /\ \/ /\ h \in DOMAIN index_of
        /\ asked' = asked \cup {h}
        /\ UNCHANGED index_of
     \/ /\ h \notin DOMAIN index_of
        /\ \E i \in IndexFor(h) : index_of' = Assign(index_of, h, i)
        /\ UNCHANGED asked
  /\ UNCHANGED <<constructorVars, listening, polling, lidars, lidar_extrinsics,
                 in_sampling, waiting, publishers, last_message>>

Asks(c) == {c.pcl_data_type, c.pattern_mode, c.blind_spot_set, c.dual_emit_en} # {-1}

\* The last answer, if there is anything to ask for.
StartSampling(h) ==
  /\ h \in asked /\ Asks(lidars[index_of[h]])
  /\ in_sampling' = in_sampling \cup {index_of[h]}
  /\ UNCHANGED <<constructorVars, listening, polling, index_of, lidars, lidar_extrinsics,
                 asked, waiting, publishers, last_message>>

\* ProcessCartesianHighPoint and ProcessCartesianLowPoint: how far the points
\* are moved.  lidar_extrinsics is complete before the first packet.
Moved(h, data_type) ==
  Given(lidar_extrinsics, h, 0) * (IF data_type = Low THEN 10 ELSE 1)

\* StoragePointData and StorageImuData, whatever the state of the device.
DataArrives(stream, h, data_type) ==
  /\ {"observer", stream} \subseteq listening
  /\ h \in DOMAIN index_of
  /\ Len(waiting[<<stream, index_of[h]>>]) < MaxWaiting
  /\ waiting' = [waiting EXCEPT ![<<stream, index_of[h]>>] =
       Append(@, [source |-> h, data_type |-> data_type, moved |-> Moved(h, data_type)])]
  /\ UNCHANGED <<constructorVars, listening, polling, deviceState, publishers, last_message>>

-----------------------------------------------------------------------------
(* The poll threads (Lddc) *)

MessageType(stream) ==
  IF stream = "imu" THEN "imu" ELSE <<"pointcloud2", "custom">>[parameters.transfer_format + 1]

\* Mutant: one publisher serves all devices, named after the first.
PublisherSlotShared(stream, i) == <<stream, "global">>

\* private_pub_ and private_imu_pub_, or global_pub_ and global_imu_pub_.
PublisherSlot(stream, i) == <<stream, IF parameters.use_multi_topic THEN i ELSE "global">>

\* GetCurrentPublisher and GetCurrentImuPublisher: the publisher of a slot is
\* created when it is first used, with a topic named after the handle that
\* its source has then.
CurrentPublisher(stream, i) ==
  LET multi == parameters.use_multi_topic
  IN  Given(publishers, PublisherSlot(stream, i),
            [topic |-> IF multi THEN <<stream, lidars[i].handle>> ELSE <<stream>>,
             type |-> MessageType(stream),
             queue_size |-> IF multi THEN 64 ELSE 256])

\* With any other format the queue is never popped (module LivoxQueues).
Supported(stream) == stream = "imu" \/ parameters.transfer_format \in {0, 1}

\* Only messages of Livox's own type say whose they are.
MessageOn(publisher, stream, i) ==
  LET frame == Head(waiting[<<stream, i>>])
  IN  [topic |-> publisher.topic, type |-> publisher.type,
       lidar_id |-> IF publisher.type = "custom" THEN {lidars[i].handle} ELSE {},
       stream |-> stream, frame |-> frame]

PublishFrame(stream, i) ==
  /\ polling /\ Supported(stream)
  /\ i \in in_sampling
  /\ waiting[<<stream, i>>] # <<>>
  /\ waiting' = [waiting EXCEPT ![<<stream, i>>] = Tail(@)]
  /\ LET publisher == CurrentPublisher(stream, i)
     IN  /\ publishers' = Assign(publishers, PublisherSlot(stream, i), publisher)
         /\ last_message' = IF parameters.output_type = 0
                            THEN {MessageOn(publisher, stream, i)} ELSE {}
  /\ UNCHANGED <<constructorVars, listening, polling, deviceState>>

StartupNext ==
  \/ DeclareParameters \/ ParseSummary \/ InitSdk \/ FillDevice \/ SetInfoChange
  \/ SetPubHandle \/ StartPollThreads
  \/ \E h \in Address :
       \/ AnnounceDevice(h) \/ StartSampling(h)
       \/ \E t \in {High, Low} : DataArrives("lidar", h, t)
       \/ DataArrives("imu", h, High)
  \/ \E stream \in Stream, i \in Source : PublishFrame(stream, i)

StartupSpec == StartupInit /\ [][StartupNext]_startupVars

-----------------------------------------------------------------------------
(* Properties *)

\* What the file says of a device: its last entry counts.
EntriesOf(h) == {n \in DOMAIN UserConfigs : UserConfigs[n].handle = h}
ConfigOf(h) == UserConfigs[Max(EntriesOf(h))]

Near(a, b) == a - b < 10 /\ b - a < 10

(***************************************************************************)
(* A message of a device that the file configures goes to the topic of     *)
(* that device and bears its identity, in the format asked for, and its    *)
(* points are moved by the translation that the last entry of the device   *)
(* gives, but for less than a centimetre, once it sends the data type it   *)
(* is set to (lddc.cpp:654, lds_lidar.cpp:147).  No device that the file   *)
(* does not configure appears on the topic of one that it does.            *)
(***************************************************************************)
MessagesAreTheirOwn ==
  \A m \in last_message :
    LET h == m.frame.source
        multi == Byte(Given(launch, "multi_topic", 0)) # 0
    IN  /\ m.type = IF m.stream = "imu" THEN "imu"
                    ELSE <<"pointcloud2", "custom">>[Byte(Given(launch, "xfer_format", 0)) + 1]
        /\ ~multi => m.topic = <<m.stream>>
        /\ EntriesOf(h) = {} =>
             /\ multi => m.topic[2] \notin Address
             /\ m.lidar_id \cap Address = {}
        /\ EntriesOf(h) # {} =>
             /\ multi => m.topic = <<m.stream, h>>
             /\ m.lidar_id \subseteq {h}
             /\ \/ m.stream = "imu"
                \/ ConfigOf(h).pcl_data_type \notin {-1, m.frame.data_type}
                \/ ConfigOf(h).pcl_data_type = -1 /\ m.frame.data_type = Low
                \/ Near(m.frame.moved, ConfigOf(h).x)
=============================================================================
