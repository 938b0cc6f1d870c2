----------------------------- MODULE LivoxDevices -----------------------------
(***************************************************************************)
(* The devices of the Livox driver (lds_lidar.cpp, comm/cache_index.cpp    *)
(* and call_back/livox_lidar_callback.cpp): each gets an index, and, when  *)
(* the SDK announces it, is sent its configuration in asynchronous         *)
(* requests, which may succeed, time out or fail.  A device whose frames   *)
(* are to be published is in the state kConnectStateSampling.              *)
(*                                                                         *)
(* The SDK is external.  Its callbacks run in its threads: those about one *)
(* device one after the other, those about different devices at once.      *)
(***************************************************************************)
EXTENDS Integers, Sequences, FiniteSetsExt, Functions

CONSTANTS Handle,       \* the devices in the network
          Configs,      \* lidar_configs of the file: a device and the items
                        \* that are set for it
          IndexCount,   \* kMaxSourceLidar
          MaxAnnounced  \* bound on the announcements of all devices

\* Bits of set_bits: data type, scan pattern, blind spot and dual emit.
Item == {"data_type", "scan_pattern", "blind_spot", "dual_emit"}
DeviceIndex == 0..(IndexCount - 1)

\* Besides these, the driver asks for the work mode Normal.  What it asks of
\* the attitude and the IMU is left out: their answers change nothing.
Request == Item \cup {"work_mode"}

ASSUME DeviceAssumption ==
  /\ Configs \in Seq([handle : Handle, items : SUBSET Item])
  /\ IndexCount \in Nat
  /\ MaxAnnounced \in Nat

VARIABLES configs,      \* what InitLivoxLidar has yet to fill in
          started,      \* the callback for announcements is set
          map_index,    \* map_index_, from devices to indices
          index_cache,  \* the indices that index_cache_ marks as used
          items,        \* per index, what livox_config sets
          set_bits,     \* per index
          connect_state,
          icb,          \* per device, where LidarInfoChangeCallback is
          pending,      \* requests without an answer: how many of each
          announced,    \* how many announcements there have been
          acknowledged, \* history: items of each index that succeeded
          failed,       \* history: devices with an item that failed
          normal        \* history: devices in work mode Normal

indexVars == <<map_index, index_cache>>
lidarVars == <<items, set_bits, connect_state, acknowledged>>
deviceVars == <<configs, started, indexVars, lidarVars, icb, pending, announced,
                failed, normal>>

NoRequests == [h \in Handle |-> [r \in Request |-> 0]]

\* LidarDevice is in static storage, so that livox_config is zero before it is
\* filled in; an item is left alone only if it is -1.
DevicesInit ==
  /\ configs = Configs
  /\ started = FALSE
  /\ map_index = <<>>
  /\ index_cache = {}
  /\ items = [i \in DeviceIndex |-> Item]
  /\ set_bits = [i \in DeviceIndex |-> {}]
  /\ connect_state = [i \in DeviceIndex |-> "off"]
  /\ icb = [h \in Handle |-> "idle"]
  /\ pending = NoRequests
  /\ announced = 0
  /\ acknowledged = [i \in DeviceIndex |-> {}]
  /\ failed = {}
  /\ normal = {}

Known(h) == h \in DOMAIN map_index
FreeIndices == DeviceIndex \ index_cache

\* Mutant: the index is not marked as used.
AllocateUnmarked(h) ==
  LET i == Min(FreeIndices)
  IN  /\ index_cache' = index_cache
      /\ map_index' = [k \in DOMAIN map_index \cup {h} |->
                         IF k = h THEN i ELSE map_index[k]]

\* The second critical section of GetFreeIndex, for a device without index.
Allocate(h) ==
  LET i == Min(FreeIndices)
  IN  /\ index_cache' = index_cache \cup {i}
      /\ map_index' = [k \in DOMAIN map_index \cup {h} |->
                         IF k = h THEN i ELSE map_index[k]]

-----------------------------------------------------------------------------
(* InitLivoxLidar, in the thread that constructs the node *)

InitDevice ==
  /\ ~started /\ configs # <<>>
  /\ LET h == Head(configs).handle
     IN  IF ~Known(h) /\ FreeIndices = {}
           THEN UNCHANGED <<indexVars, items>>
           ELSE /\ IF Known(h) THEN UNCHANGED indexVars ELSE Allocate(h)
                /\ items' = [items EXCEPT ![map_index'[h]] = Head(configs).items]
  /\ configs' = Tail(configs)
  /\ UNCHANGED <<started, set_bits, connect_state, acknowledged, icb, pending,
                 announced, failed, normal>>

SetInfoChangeCallback ==
  /\ ~started /\ configs = <<>>
  /\ started' = TRUE
  /\ UNCHANGED <<configs, indexVars, lidarVars, icb, pending, announced, failed,
                 normal>>

-----------------------------------------------------------------------------
(* LidarInfoChangeCallback *)

Goes(h, where) == icb' = [icb EXCEPT ![h] = where]
Send(h, requests) ==
  pending' = [pending EXCEPT ![h] =
                [r \in Request |-> @[r] + IF r \in requests THEN 1 ELSE 0]]

Announce(h) ==
  /\ started /\ icb[h] = "idle"
  /\ announced < MaxAnnounced
  /\ announced' = announced + 1
  /\ Goes(h, IF Known(h) THEN "configure" ELSE "find")
  /\ UNCHANGED <<configs, started, indexVars, lidarVars, pending, failed, normal>>

\* GetFreeIndex finds no entry, and looks for an index in a second section.
FindFree(h) ==
  /\ icb[h] = "find"
  /\ IF FreeIndices = {}
       THEN Goes(h, "idle") /\ UNCHANGED indexVars
       ELSE Goes(h, "command") /\ Allocate(h)
  /\ UNCHANGED <<configs, started, lidarVars, pending, announced, failed, normal>>

\* Mutant: the requests are sent before the bits are set, one item at a time.
ConfigureOneByOne(h) ==
  /\ icb[h] = "configure"
  /\ LET todo == items[map_index[h]] \ set_bits[map_index[h]]
     IN  IF todo = {}
           THEN Goes(h, "command") /\ UNCHANGED <<set_bits, pending>>
           ELSE \E r \in todo :
                  /\ set_bits' = [set_bits EXCEPT ![map_index[h]] = @ \cup {r}]
                  /\ Send(h, {r})
                  /\ Goes(h, "configure")
  /\ UNCHANGED <<configs, started, indexVars, items, connect_state, acknowledged,
                 announced, failed, normal>>

\* The bits of all items are set, and their requests sent, under config_mutex_.
Configure(h) ==
  /\ icb[h] = "configure"
  /\ set_bits' = [set_bits EXCEPT ![map_index[h]] = @ \cup items[map_index[h]]]
  /\ Send(h, items[map_index[h]])
  /\ Goes(h, "command")
  /\ UNCHANGED <<configs, started, indexVars, items, connect_state, acknowledged,
                 announced, failed, normal>>

RequestNormal(h) ==
  /\ icb[h] = "command"
  /\ Send(h, {"work_mode"})
  /\ Goes(h, "idle")
  /\ UNCHANGED <<configs, started, indexVars, lidarVars, announced, failed,
                 normal>>

-----------------------------------------------------------------------------
(* The callbacks of the requests *)

Answered(h, r) == pending' = [pending EXCEPT ![h][r] = @ - 1]

\* SetDataTypeCallback, SetPatternModeCallback, SetBlindSpotCallback and
\* SetDualEmitCallback, under config_mutex_.
ItemSucceeds(h, r) ==
  /\ r \in Item /\ pending[h][r] > 0
  /\ LET i == map_index[h]
     IN  /\ set_bits' = [set_bits EXCEPT ![i] = @ \ {r}]
         /\ connect_state' = IF set_bits[i] \ {r} # {} THEN connect_state
                             ELSE [connect_state EXCEPT ![i] = "sampling"]
         /\ acknowledged' = [acknowledged EXCEPT ![i] = @ \cup {r}]
  /\ Answered(h, r)
  /\ UNCHANGED <<configs, started, indexVars, items, icb, announced, failed,
                 normal>>

\* WorkModeChangedCallback
WorkModeSucceeds(h, r) ==
  /\ r = "work_mode" /\ pending[h][r] > 0
  /\ normal' = normal \cup {h}
  /\ Answered(h, r)
  /\ UNCHANGED <<configs, started, indexVars, lidarVars, icb, announced, failed>>

\* Mutant: the last request is not sent again.
TimeoutDropped(h, r) ==
  /\ pending[h][r] > 0
  /\ Answered(h, r)
  /\ UNCHANGED <<configs, started, indexVars, lidarVars, icb, announced, failed,
                 normal>>

\* All callbacks send a request that timed out again: it stays pending.
RequestTimesOut(h, r) ==
  /\ pending[h][r] > 0
  /\ UNCHANGED deviceVars

\* Any other failure is the end of a request, except for the work mode.
RequestFails(h, r) ==
  /\ pending[h][r] > 0
  /\ IF r = "work_mode" THEN UNCHANGED <<pending, failed>>
     ELSE /\ Answered(h, r)
          /\ failed' = failed \cup {h}
  /\ UNCHANGED <<configs, started, indexVars, lidarVars, icb, announced, normal>>

Succeeds(h, r) == ItemSucceeds(h, r) \/ WorkModeSucceeds(h, r)

DriverStep(h) == FindFree(h) \/ Configure(h) \/ RequestNormal(h)

DevicesNext ==
  \/ InitDevice \/ SetInfoChangeCallback
  \/ \E h \in Handle :
       \/ Announce(h) \/ DriverStep(h)
       \/ \E r \in Request : \/ Succeeds(h, r) \/ RequestTimesOut(h, r)
                             \/ RequestFails(h, r)

DevicesSpec == DevicesInit /\ [][DevicesNext]_deviceVars

\* The threads of the SDK get on, and as long as a device has requests to
\* answer, it accepts one of them in the end.
DevicesFairSpec ==
  /\ DevicesSpec
  /\ \A h \in Handle : /\ WF_deviceVars(DriverStep(h))
                       /\ WF_deviceVars(\E r \in Request : Succeeds(h, r))

-----------------------------------------------------------------------------
(* Properties *)

DevicesTypeOK ==
  /\ configs \in Seq([handle : Handle, items : SUBSET Item])
  /\ started \in BOOLEAN
  /\ DOMAIN map_index \subseteq Handle /\ Range(map_index) \subseteq DeviceIndex
  /\ index_cache \subseteq DeviceIndex
  /\ items \in [DeviceIndex -> SUBSET Item]
  /\ set_bits \in [DeviceIndex -> SUBSET Item]
  /\ connect_state \in [DeviceIndex -> {"off", "sampling"}]
  /\ icb \in [Handle -> {"idle", "find", "configure", "command"}]
  /\ pending \in [Handle -> [Request -> Nat]]
  /\ announced \in 0..MaxAnnounced
  /\ acknowledged \in [DeviceIndex -> SUBSET Item]
  /\ failed \subseteq Handle /\ normal \subseteq Handle

(***************************************************************************)
(* No two devices share an index, so that none sends its frames into the   *)
(* queue of another, although the look for an entry and the allocation are *)
(* two critical sections (cache_index.cpp:51); and the indices marked as   *)
(* used are those that some device has.                                    *)
(***************************************************************************)
IndexPerDevice ==
  /\ \A h, k \in DOMAIN map_index : map_index[h] = map_index[k] => h = k
  /\ Range(map_index) = index_cache

(***************************************************************************)
(* The frames of a device are published only once all that is to be set    *)
(* has been acknowledged, in whatever order the answers and the repeated   *)
(* requests come, and when the device is announced a second time           *)
(* (livox_lidar_callback.cpp:139).                                         *)
(***************************************************************************)
SamplingMeansConfigured ==
  \A i \in DeviceIndex :
    connect_state[i] = "sampling" => items[i] \subseteq acknowledged[i]

Samples(h) == Known(h) /\ connect_state[map_index[h]] = "sampling"

(***************************************************************************)
(* A device that is announced and has an index gets to the work mode       *)
(* Normal, however often the request for it fails, and starts sampling if  *)
(* there is something to set, unless it refuses an item for another reason *)
(* than a time-out (livox_lidar_callback.cpp:115 and 144).                 *)
(***************************************************************************)
ConfiguredDeviceSamples ==
  \A h \in Handle :
    icb[h] = "configure" ~>
      /\ h \in normal
      /\ Samples(h) \/ h \in failed \/ items[map_index[h]] = {}
=============================================================================
