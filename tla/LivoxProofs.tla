---------------------------- MODULE LivoxProofs -----------------------------
(***************************************************************************)
(* The Livox driver.                                                       *)
(*                                                                         *)
(* Indices, configuration and topics of the devices, for every network,    *)
(* every configuration file and every order of announcements and answers.  *)
(*                                                                         *)
(* Queues, semaphores and threads, for every number of lidars, every size  *)
(* of the rings and every number of values of their indices.               *)
(*                                                                         *)
(* Frames, for any lidars, synchronised or not, any interval and any       *)
(* difference between their clocks and the host's.                         *)
(***************************************************************************)
EXTENDS LivoxDevices, LivoxStartup, LivoxQueues, LivoxFrames, NumberLemmas, SequenceTheorems, TLAPS

-----------------------------------------------------------------------------
(* Devices *)

LEMMA LeastIndex ==
  ASSUME NEW S \in SUBSET DeviceIndex, S # {} PROVE Min(S) \in S
BY LeastNumber, DeviceAssumption DEF DeviceIndex

\* Until the callback for announcements is set, no device is spoken to.
RestsUntilStarted ==
  ~started => /\ \A h \in Handle : icb[h] = "idle" /\ \A r \in Request : pending[h][r] = 0
              /\ \A i \in DeviceIndex : connect_state[i] = "off"

\* A device is looked for because it has no index, and asked because it has.
AskedHaveIndex ==
  \A h \in Handle : /\ icb[h] = "find" => ~Known(h)
                    /\ icb[h] \in {"configure", "command"} => Known(h)
                    /\ \A r \in Item : pending[h][r] > 0 => Known(h)

\* What is to be set has its bit until it is acknowledged.
BitOrAcknowledged ==
  \A h \in Handle, r \in Item :
    pending[h][r] > 0 =>
      items[map_index[h]] \subseteq set_bits[map_index[h]] \cup acknowledged[map_index[h]]

IndexInv == RestsUntilStarted /\ AskedHaveIndex /\ IndexPerDevice

DeviceInv == DevicesTypeOK /\ IndexInv /\ BitOrAcknowledged /\ SamplingMeansConfigured

-----------------------------------------------------------------------------
(* Types *)

LEMMA AllocateIndex ==
  ASSUME NEW h \in Handle, ~Known(h), FreeIndices # {}, Allocate(h)
  PROVE  \E i \in FreeIndices :
           /\ index_cache' = index_cache \cup {i}
           /\ DOMAIN map_index' = DOMAIN map_index \cup {h}
           /\ \A k \in DOMAIN map_index : map_index'[k] = map_index[k]
           /\ map_index'[h] = i
           /\ Range(map_index') = Range(map_index) \cup {i}
<1> DEFINE i == Min(FreeIndices)
<1>1. i \in FreeIndices BY LeastIndex DEF FreeIndices
<1>2. /\ map_index' = [k \in DOMAIN map_index \cup {h} |-> IF k = h THEN i ELSE map_index[k]]
      /\ index_cache' = index_cache \cup {i}
  BY DEF Allocate
<1> HIDE DEF i
<1>3. /\ DOMAIN map_index' = DOMAIN map_index \cup {h}
      /\ \A k \in DOMAIN map_index : map_index'[k] = map_index[k]
      /\ map_index'[h] = i
  BY <1>2 DEF Known
<1>4. Range(map_index') = Range(map_index) \cup {i} BY <1>3 DEF Range
<1> QED BY <1>1, <1>2, <1>3, <1>4

LEMMA TypeStep ==
  ASSUME DevicesTypeOK, AskedHaveIndex, [DevicesNext]_deviceVars PROVE DevicesTypeOK'
<1> USE DeviceAssumption DEF DevicesTypeOK
<1>1. CASE InitDevice
  <2>1. Head(configs) \in [handle : Handle, items : SUBSET Item] /\ Tail(configs) \in Seq([handle : Handle, items : SUBSET Item])
    BY <1>1, HeadTailProperties DEF InitDevice
  <2> DEFINE h == Head(configs).handle
  <2>2. h \in Handle /\ Head(configs).items \subseteq Item BY <2>1
  <2>3. /\ DOMAIN map_index' \subseteq Handle /\ Range(map_index') \subseteq DeviceIndex
        /\ index_cache' \subseteq DeviceIndex
    <3>1. CASE UNCHANGED indexVars BY <3>1 DEF indexVars
    <3>2. CASE ~Known(h) /\ FreeIndices # {} /\ Allocate(h)
      <4>1. PICK i \in FreeIndices : /\ index_cache' = index_cache \cup {i}
                                     /\ DOMAIN map_index' = DOMAIN map_index \cup {h}
                                     /\ Range(map_index') = Range(map_index) \cup {i}
        BY <2>2, <3>2, AllocateIndex
      <4> QED BY <2>2, <4>1 DEF FreeIndices
    <3> QED BY <1>1, <3>1, <3>2 DEF InitDevice
  <2>4. items' \in [DeviceIndex -> SUBSET Item] BY <1>1, <2>2 DEF InitDevice
  <2> QED BY <1>1, <2>1, <2>3, <2>4 DEF InitDevice
<1>2. CASE SetInfoChangeCallback
  BY <1>2 DEF SetInfoChangeCallback, indexVars, lidarVars
<1>3. ASSUME NEW h \in Handle, Announce(h) PROVE DevicesTypeOK'
  BY <1>3 DEF Announce, Goes, indexVars, lidarVars
<1>4. ASSUME NEW h \in Handle, FindFree(h) PROVE DevicesTypeOK'
  <2>1. /\ DOMAIN map_index' \subseteq Handle /\ Range(map_index') \subseteq DeviceIndex
        /\ index_cache' \subseteq DeviceIndex
    <3>1. CASE UNCHANGED indexVars BY <3>1 DEF indexVars
    <3>2. CASE ~Known(h) /\ FreeIndices # {} /\ Allocate(h)
      <4>1. PICK i \in FreeIndices : /\ index_cache' = index_cache \cup {i}
                                     /\ DOMAIN map_index' = DOMAIN map_index \cup {h}
                                     /\ Range(map_index') = Range(map_index) \cup {i}
        BY <3>2, AllocateIndex
      <4> QED BY <4>1 DEF FreeIndices
    <3> QED BY <1>4, <3>1, <3>2 DEF FindFree, AskedHaveIndex
  <2> QED BY <1>4, <2>1 DEF FindFree, Goes, lidarVars
<1>5. ASSUME NEW h \in Handle, Configure(h) PROVE DevicesTypeOK'
  <2>1. map_index[h] \in DeviceIndex BY <1>5 DEF Configure, AskedHaveIndex, Known, Range
  <2> QED BY <1>5, <2>1 DEF Configure, Goes, Send, Request, indexVars
<1>6. ASSUME NEW h \in Handle, RequestNormal(h) PROVE DevicesTypeOK'
  BY <1>6 DEF RequestNormal, Goes, Send, indexVars, lidarVars
<1>7. ASSUME NEW h \in Handle, NEW r \in Request,
             ItemSucceeds(h, r) \/ WorkModeSucceeds(h, r) \/ RequestTimesOut(h, r) \/ RequestFails(h, r)
      PROVE  DevicesTypeOK'
  <2>1. Answered(h, r) /\ pending[h][r] > 0 => pending' \in [Handle -> [Request -> Nat]]
    BY DEF Answered
  <2>2. CASE ItemSucceeds(h, r)
    <3>1. map_index[h] \in DeviceIndex BY <2>2 DEF ItemSucceeds, AskedHaveIndex, Known, Range
    <3> QED BY <2>1, <2>2, <3>1 DEF ItemSucceeds, indexVars
  <2>3. CASE WorkModeSucceeds(h, r)
    BY <2>1, <2>3 DEF WorkModeSucceeds, indexVars, lidarVars
  <2>4. CASE RequestTimesOut(h, r)
    BY <2>4 DEF RequestTimesOut, deviceVars, indexVars, lidarVars
  <2>5. CASE RequestFails(h, r)
    BY <2>1, <2>5 DEF RequestFails, indexVars, lidarVars
  <2> QED BY <1>7, <2>2, <2>3, <2>4, <2>5
<1>8. CASE UNCHANGED deviceVars BY <1>8 DEF deviceVars, indexVars, lidarVars
<1> QED BY <1>1, <1>2, <1>3, <1>4, <1>5, <1>6, <1>7, <1>8 DEF DevicesNext, DriverStep, Succeeds

LEMMA TypeInit == ASSUME DevicesInit PROVE DevicesTypeOK
<1>1. DOMAIN map_index = {} BY DEF DevicesInit
<1>2. Range(map_index) = {} BY <1>1 DEF Range
<1>3. pending \in [Handle -> [Request -> Nat]] BY DEF DevicesInit, NoRequests
<1>4. configs \in Seq([handle : Handle, items : SUBSET Item]) BY DeviceAssumption DEF DevicesInit
<1>5. announced \in 0..MaxAnnounced BY DeviceAssumption DEF DevicesInit
<1> QED BY <1>1, <1>2, <1>3, <1>4, <1>5 DEF DevicesInit, DevicesTypeOK

-----------------------------------------------------------------------------
(* Indices *)

\* A step that gives h an index leaves the others theirs.
LEMMA AllocateKeepsIndices ==
  ASSUME IndexPerDevice, AskedHaveIndex, NEW h \in Handle, ~Known(h), FreeIndices # {},
         Allocate(h)
  PROVE  /\ IndexPerDevice'
         /\ DOMAIN map_index' = DOMAIN map_index \cup {h}
<1>1. PICK i \in FreeIndices : /\ index_cache' = index_cache \cup {i}
                               /\ DOMAIN map_index' = DOMAIN map_index \cup {h}
                               /\ \A k \in DOMAIN map_index : map_index'[k] = map_index[k]
                               /\ map_index'[h] = i
                               /\ Range(map_index') = Range(map_index) \cup {i}
  BY AllocateIndex
<1>2. \A k \in DOMAIN map_index : map_index[k] # i
  BY DEF FreeIndices, IndexPerDevice, Range
<1>3. \A k, l \in DOMAIN map_index' : map_index'[k] = map_index'[l] => k = l
  BY <1>1, <1>2 DEF IndexPerDevice
<1> QED BY <1>1, <1>3 DEF IndexPerDevice

\* What may be pending after requests are sent, or one is answered.
LEMMA SendPends ==
  ASSUME DevicesTypeOK, NEW h \in Handle, NEW S \in SUBSET Request, Send(h, S)
  PROVE  \A k \in Handle, r \in Request :
           pending'[k][r] > 0 => pending[k][r] > 0 \/ (k = h /\ r \in S)
<1>1. pending \in [Handle -> [Request -> Nat]] BY DEF DevicesTypeOK
<1>2. \A k \in Handle \ {h} : pending'[k] = pending[k] BY <1>1 DEF Send
<1>3. \A r \in Request : pending'[h][r] = pending[h][r] + IF r \in S THEN 1 ELSE 0
  BY <1>1 DEF Send
<1> SUFFICES ASSUME NEW k \in Handle, NEW r \in Request, pending'[k][r] > 0, k = h => r \notin S
             PROVE  pending[k][r] > 0
  OBVIOUS
<1>4. pending[h][r] \in Nat BY <1>1
<1> QED BY <1>2, <1>3, <1>4

LEMMA AnswerPends ==
  ASSUME DevicesTypeOK, NEW h \in Handle, NEW q \in Request, Answered(h, q)
  PROVE  \A k \in Handle, r \in Request : pending'[k][r] > 0 => pending[k][r] > 0
BY DEF DevicesTypeOK, Answered

LEMMA RestsStep ==
  ASSUME DevicesTypeOK, RestsUntilStarted, [DevicesNext]_deviceVars PROVE RestsUntilStarted'
<1>1. CASE InitDevice
  BY <1>1 DEF InitDevice, RestsUntilStarted
<1>2. CASE SetInfoChangeCallback BY <1>2 DEF SetInfoChangeCallback, RestsUntilStarted
<1>3. ASSUME NEW h \in Handle, Announce(h) PROVE RestsUntilStarted'
  BY <1>3 DEF Announce, RestsUntilStarted
<1>4. ASSUME NEW h \in Handle, DriverStep(h) PROVE started
  BY <1>4 DEF DriverStep, FindFree, Configure, RequestNormal, RestsUntilStarted
<1>5. ASSUME NEW h \in Handle, NEW r \in Request,
             Succeeds(h, r) \/ RequestTimesOut(h, r) \/ RequestFails(h, r)
      PROVE  started
  BY <1>5 DEF DevicesTypeOK, Succeeds, ItemSucceeds, WorkModeSucceeds, RequestTimesOut, RequestFails,
              RestsUntilStarted
<1>6. ASSUME NEW h \in Handle, DriverStep(h) PROVE started' = started
  BY <1>6 DEF DriverStep, FindFree, Configure, RequestNormal
<1>7. ASSUME NEW h \in Handle, NEW r \in Request,
             Succeeds(h, r) \/ RequestTimesOut(h, r) \/ RequestFails(h, r)
      PROVE  started' = started
  BY <1>7 DEF Succeeds, ItemSucceeds, WorkModeSucceeds, RequestTimesOut, RequestFails, deviceVars
<1>8. CASE UNCHANGED deviceVars BY <1>8 DEF deviceVars, lidarVars, RestsUntilStarted
<1> QED
  BY <1>1, <1>2, <1>3, <1>4, <1>5, <1>6, <1>7, <1>8 DEF DevicesNext, RestsUntilStarted

LEMMA IndexStep ==
  ASSUME DevicesTypeOK, IndexInv, [DevicesNext]_deviceVars
  PROVE  AskedHaveIndex' /\ IndexPerDevice'
<1> USE DEF IndexInv
<1>1. CASE InitDevice
  <2> DEFINE h == Head(configs).handle
  <2>1. h \in Handle
    <3>1. Head(configs) \in [handle : Handle, items : SUBSET Item]
      BY <1>1, HeadTailProperties DEF InitDevice, DevicesTypeOK
    <3> QED BY <3>1
  <2>2. IndexPerDevice' /\ DOMAIN map_index \subseteq DOMAIN map_index'
    <3>1. CASE UNCHANGED indexVars BY <3>1 DEF indexVars, IndexPerDevice
    <3>2. CASE ~Known(h) /\ FreeIndices # {} /\ Allocate(h)
      BY <2>1, <3>2, AllocateKeepsIndices
    <3> QED BY <1>1, <3>1, <3>2 DEF InitDevice
  <2>3. AskedHaveIndex'
    BY <1>1, <2>2 DEF InitDevice, AskedHaveIndex, RestsUntilStarted, Request, Known
  <2> QED BY <2>2, <2>3
<1>2. CASE SetInfoChangeCallback
  BY <1>2 DEF SetInfoChangeCallback, indexVars, IndexPerDevice, AskedHaveIndex, Known
<1>3. ASSUME NEW h \in Handle, Announce(h) PROVE AskedHaveIndex' /\ IndexPerDevice'
  BY <1>3 DEF Announce, Goes, indexVars, IndexPerDevice, AskedHaveIndex, Known, DevicesTypeOK
<1>4. ASSUME NEW h \in Handle, FindFree(h) PROVE AskedHaveIndex' /\ IndexPerDevice'
  <2>1. CASE FreeIndices = {}
    BY <1>4, <2>1 DEF FindFree, Goes, indexVars, IndexPerDevice, AskedHaveIndex, Known, DevicesTypeOK
  <2>2. CASE FreeIndices # {}
    <3>1. ~Known(h) /\ Allocate(h) BY <1>4, <2>2 DEF FindFree, AskedHaveIndex
    <3>2. IndexPerDevice' /\ DOMAIN map_index' = DOMAIN map_index \cup {h}
      BY <2>2, <3>1, AllocateKeepsIndices
    <3>3. icb' = [icb EXCEPT ![h] = "command"] /\ UNCHANGED pending
      BY <1>4, <2>2 DEF FindFree, Goes
    <3>4. \A k \in Handle \ {h} : icb'[k] = icb[k] /\ (Known(k)' <=> Known(k))
      BY <3>2, <3>3 DEF DevicesTypeOK, Known
    <3>5. icb'[h] = "command" /\ Known(h)' BY <3>2, <3>3 DEF DevicesTypeOK, Known
    <3>6. AskedHaveIndex' BY <3>3, <3>4, <3>5 DEF AskedHaveIndex
    <3> QED BY <3>2, <3>6
  <2> QED BY <2>1, <2>2
<1>5. ASSUME NEW h \in Handle, Configure(h) PROVE AskedHaveIndex' /\ IndexPerDevice'
  <2>1. Known(h) /\ items[map_index[h]] \subseteq Request
    BY <1>5 DEF Configure, AskedHaveIndex, DevicesTypeOK, Request, Range, Known
  <2>2. \A k \in Handle, r \in Request : pending'[k][r] > 0 => pending[k][r] > 0 \/ k = h
    BY <1>5, <2>1, SendPends DEF Configure
  <2>3. UNCHANGED indexVars /\ icb' = [icb EXCEPT ![h] = "command"] BY <1>5 DEF Configure, Goes
  <2>4. AskedHaveIndex'
    BY <2>1, <2>2, <2>3 DEF AskedHaveIndex, indexVars, Known, DevicesTypeOK, Request
  <2> QED BY <2>3, <2>4 DEF indexVars, IndexPerDevice
<1>6. ASSUME NEW h \in Handle, RequestNormal(h) PROVE AskedHaveIndex' /\ IndexPerDevice'
  <2>1. \A k \in Handle, r \in Item : pending'[k][r] > 0 => pending[k][r] > 0
    BY <1>6, SendPends DEF RequestNormal, Request, Item
  <2>2. UNCHANGED indexVars /\ icb' = [icb EXCEPT ![h] = "idle"] BY <1>6 DEF RequestNormal, Goes
  <2> QED BY <2>1, <2>2 DEF AskedHaveIndex, indexVars, Known, DevicesTypeOK, IndexPerDevice
<1>7. ASSUME NEW h \in Handle, NEW r \in Request,
             Succeeds(h, r) \/ RequestTimesOut(h, r) \/ RequestFails(h, r)
      PROVE  AskedHaveIndex' /\ IndexPerDevice'
  <2>1. UNCHANGED <<indexVars, icb>> /\ (Answered(h, r) \/ UNCHANGED pending)
    BY <1>7 DEF Succeeds, ItemSucceeds, WorkModeSucceeds, RequestTimesOut, RequestFails, deviceVars
  <2>2. \A k \in Handle, q \in Request : pending'[k][q] > 0 => pending[k][q] > 0
    BY <2>1, AnswerPends
  <2> QED BY <2>1, <2>2 DEF AskedHaveIndex, indexVars, Known, IndexPerDevice, Request
<1>8. CASE UNCHANGED deviceVars
  BY <1>8 DEF deviceVars, indexVars, AskedHaveIndex, Known, IndexPerDevice
<1> QED
  BY <1>1, <1>2, <1>3, <1>4, <1>5, <1>6, <1>7, <1>8 DEF DevicesNext, DriverStep

-----------------------------------------------------------------------------
(* Configuration *)

LEMMA ConfigStep ==
  ASSUME DeviceInv, [DevicesNext]_deviceVars
  PROVE  BitOrAcknowledged' /\ SamplingMeansConfigured'
<1> USE DEF DeviceInv, IndexInv
<1>0. DevicesTypeOK OBVIOUS
<1>1. CASE InitDevice
  BY <1>1 DEF InitDevice, RestsUntilStarted, BitOrAcknowledged, SamplingMeansConfigured, Request
<1>2. ASSUME UNCHANGED <<items, set_bits, connect_state, acknowledged>>,
             \A k \in DOMAIN map_index : map_index'[k] = map_index[k],
             \A k \in Handle, r \in Item : pending'[k][r] > 0 => pending[k][r] > 0
      PROVE  BitOrAcknowledged' /\ SamplingMeansConfigured'
  BY <1>2 DEF BitOrAcknowledged, SamplingMeansConfigured, AskedHaveIndex, Known
<1>3. ASSUME NEW h \in Handle, FindFree(h) PROVE BitOrAcknowledged' /\ SamplingMeansConfigured'
  <2>1. \A k \in DOMAIN map_index : map_index'[k] = map_index[k]
    <3>1. CASE UNCHANGED indexVars BY <3>1 DEF indexVars
    <3>2. CASE ~Known(h) /\ FreeIndices # {} /\ Allocate(h) BY <3>2, AllocateIndex
    <3> QED BY <1>3, <3>1, <3>2 DEF FindFree, AskedHaveIndex
  <2> QED BY <1>2, <1>3, <2>1 DEF FindFree, lidarVars
<1>4. ASSUME NEW h \in Handle, Configure(h) PROVE BitOrAcknowledged' /\ SamplingMeansConfigured'
  <2> DEFINE i == map_index[h]
  <2>1. i \in DeviceIndex BY <1>4 DEF Configure, AskedHaveIndex, Known, DevicesTypeOK, Range
  <2>2. items[i] \subseteq Request BY <2>1 DEF DevicesTypeOK, Request
  <2>3. \A k \in Handle, r \in Request : pending'[k][r] > 0 => pending[k][r] > 0 \/ k = h
    BY <1>0, <1>4, <2>2, SendPends DEF Configure
  <2>4. /\ UNCHANGED <<map_index, items, acknowledged, connect_state>>
        /\ set_bits' = [set_bits EXCEPT ![i] = @ \cup items[i]]
    BY <1>4 DEF Configure, indexVars
  <2>5. \A j \in DeviceIndex : set_bits[j] \subseteq set_bits'[j]
    BY <2>4 DEF DevicesTypeOK
  <2>6. items[i] \subseteq set_bits'[i] BY <2>1, <2>4 DEF DevicesTypeOK
  <2>7. BitOrAcknowledged'
    <3> SUFFICES ASSUME NEW k \in Handle, NEW r \in Item, pending'[k][r] > 0
                 PROVE  items[map_index[k]] \subseteq set_bits'[map_index[k]] \cup acknowledged[map_index[k]]
      BY <2>4 DEF BitOrAcknowledged
    <3>1. CASE k = h BY <3>1, <2>6
    <3>2. CASE pending[k][r] > 0
      <4>1. map_index[k] \in DeviceIndex BY <3>2 DEF AskedHaveIndex, Known, DevicesTypeOK, Range
      <4> QED BY <3>2, <4>1, <2>5 DEF BitOrAcknowledged
    <3> QED BY <2>3, <3>1, <3>2 DEF Request
  <2> QED BY <2>4, <2>7 DEF SamplingMeansConfigured
<1>5. ASSUME NEW h \in Handle, RequestNormal(h) PROVE BitOrAcknowledged' /\ SamplingMeansConfigured'
  <2>1. \A k \in Handle, r \in Item : pending'[k][r] > 0 => pending[k][r] > 0
    BY <1>0, <1>5, SendPends DEF RequestNormal, Request, Item
  <2> QED BY <1>2, <1>5, <2>1 DEF RequestNormal, indexVars, lidarVars
<1>6. ASSUME NEW h \in Handle, NEW r \in Request, ItemSucceeds(h, r)
      PROVE  BitOrAcknowledged' /\ SamplingMeansConfigured'
  <2> DEFINE i == map_index[h]
  <2>1. i \in DeviceIndex /\ r \in Item /\ pending[h][r] > 0
    BY <1>6 DEF ItemSucceeds, AskedHaveIndex, Known, DevicesTypeOK, Range
  <2>2. \A k \in Handle, q \in Request : pending'[k][q] > 0 => pending[k][q] > 0
    BY <1>0, <1>6, AnswerPends DEF ItemSucceeds
  <2>3. /\ UNCHANGED <<map_index, items>>
        /\ set_bits' = [set_bits EXCEPT ![i] = @ \ {r}]
        /\ acknowledged' = [acknowledged EXCEPT ![i] = @ \cup {r}]
    BY <1>6 DEF ItemSucceeds, indexVars
  <2>4. \A j \in DeviceIndex : /\ acknowledged[j] \subseteq acknowledged'[j]
                              /\ set_bits[j] \cup acknowledged[j] \subseteq set_bits'[j] \cup acknowledged'[j]
    BY <2>1, <2>3 DEF DevicesTypeOK
  <2>5. items[i] \subseteq set_bits'[i] \cup acknowledged'[i]
    BY <2>1, <2>4 DEF BitOrAcknowledged
  <2>6. BitOrAcknowledged'
    <3> SUFFICES ASSUME NEW k \in Handle, NEW q \in Item, pending[k][q] > 0
                 PROVE  items[map_index[k]] \subseteq set_bits'[map_index[k]] \cup acknowledged'[map_index[k]]
      BY <2>2, <2>3 DEF BitOrAcknowledged, Request
    <3>1. map_index[k] \in DeviceIndex BY DEF AskedHaveIndex, Known, DevicesTypeOK, Range
    <3> QED BY <3>1, <2>4 DEF BitOrAcknowledged
  <2>7. \A j \in DeviceIndex \ {i} : connect_state'[j] = connect_state[j]
    BY <1>6 DEF ItemSucceeds, DevicesTypeOK
  <2>8. connect_state'[i] = connect_state[i] \/ set_bits'[i] = {}
    BY <1>6, <2>1, <2>3 DEF ItemSucceeds, DevicesTypeOK
  <2> QED BY <2>3, <2>4, <2>5, <2>6, <2>7, <2>8 DEF SamplingMeansConfigured
<1>7. ASSUME NEW h \in Handle, NEW r \in Request,
             WorkModeSucceeds(h, r) \/ RequestTimesOut(h, r) \/ RequestFails(h, r)
      PROVE  BitOrAcknowledged' /\ SamplingMeansConfigured'
  <2>1. UNCHANGED <<indexVars, lidarVars>> /\ (Answered(h, r) \/ UNCHANGED pending)
    BY <1>7 DEF WorkModeSucceeds, RequestTimesOut, RequestFails, deviceVars
  <2>2. \A k \in Handle, q \in Request : pending'[k][q] > 0 => pending[k][q] > 0
    BY <1>0, <2>1, AnswerPends
  <2> QED BY <1>2, <2>1, <2>2 DEF indexVars, lidarVars, Request
<1>8. CASE SetInfoChangeCallback BY <1>2, <1>8 DEF SetInfoChangeCallback, indexVars, lidarVars
<1>9. ASSUME NEW h \in Handle, Announce(h) PROVE BitOrAcknowledged' /\ SamplingMeansConfigured'
  BY <1>2, <1>9 DEF Announce, indexVars, lidarVars
<1>10. CASE UNCHANGED deviceVars BY <1>2, <1>10 DEF deviceVars, indexVars, lidarVars
<1> QED
  BY <1>1, <1>3, <1>4, <1>5, <1>6, <1>7, <1>8, <1>9, <1>10 DEF DevicesNext, DriverStep, Succeeds

-----------------------------------------------------------------------------
LEMMA InvInit == ASSUME DevicesInit PROVE DeviceInv
<1>1. DevicesTypeOK BY TypeInit
<1>2. IndexInv
  BY DEF DevicesInit, IndexInv, RestsUntilStarted, AskedHaveIndex, IndexPerDevice, NoRequests,
         Range, Known, Request
<1>3. BitOrAcknowledged /\ SamplingMeansConfigured
  BY DEF DevicesInit, BitOrAcknowledged, SamplingMeansConfigured, NoRequests, Request
<1> QED BY <1>1, <1>2, <1>3 DEF DeviceInv

(***************************************************************************)
(* The inductive invariant of the devices.                                 *)
(***************************************************************************)
THEOREM DevicesInvariant == DevicesSpec => []DeviceInv
<1>1. DeviceInv /\ [DevicesNext]_deviceVars => DeviceInv'
  BY TypeStep, RestsStep, IndexStep, ConfigStep DEF DeviceInv, IndexInv
<1> QED BY <1>1, InvInit, PTL DEF DevicesSpec

(***************************************************************************)
(* No two devices share an index, however the look for an entry and the    *)
(* allocation of different devices interleave (cache_index.cpp:51).        *)
(***************************************************************************)
THEOREM IndicesAreUnique == DevicesSpec => []IndexPerDevice
<1>1. DeviceInv => IndexPerDevice BY DEF DeviceInv, IndexInv
<1> QED BY <1>1, DevicesInvariant, PTL

(***************************************************************************)
(* A device that samples has acknowledged all that is to be set, whatever  *)
(* the order of answers, repetitions and announcements                     *)
(* (livox_lidar_callback.cpp:139).                                         *)
(***************************************************************************)
THEOREM SamplersAreConfigured == DevicesSpec => []SamplingMeansConfigured
<1>1. DeviceInv => SamplingMeansConfigured BY DEF DeviceInv
<1> QED BY <1>1, DevicesInvariant, PTL

-----------------------------------------------------------------------------
(* Startup                                                                 *)
(*                                                                         *)
(* InitLivoxLidar takes the entries of the file one after the other: what  *)
(* it has done after the first ones determines what a device is taken for, *)
(* and nothing of it changes once devices are announced.                   *)

\* How many entries have been filled in.
Processed == Len(UserConfigs) - Len(user_configs)

EntriesLeft ==
  /\ Len(user_configs) \in 0..Len(UserConfigs)
  /\ user_configs = [n \in 1..Len(user_configs) |-> UserConfigs[Processed + n]]

Mentioned(h) == \E n \in 1..Processed : UserConfigs[n].handle = h

\* The last entry of a device so far is the n-th, and that is what it has.
FilledFrom(h, n) ==
  /\ UserConfigs[n].handle = h
  /\ \A m \in 1..Processed : n < m => UserConfigs[m].handle # h
  /\ lidars[index_of[h]] = UserConfigs[n]
  /\ h \in DOMAIN lidar_extrinsics
  /\ lidar_extrinsics[h] = Extrinsics(UserConfigs[n])

\* Devices have the last of their entries, and others none; a device that was
\* left out for want of an index will not get one later.
DevicesFilled ==
  /\ EntriesLeft
  /\ \A h \in DOMAIN index_of :
       IF Mentioned(h) THEN \E n \in 1..Processed : FilledFrom(h, n)
       ELSE lidars[index_of[h]] = ZeroConfig
  /\ \A i \in FreeSources : lidars[i] = ZeroConfig
  /\ \A n \in 1..Processed : UserConfigs[n].handle \notin DOMAIN index_of => FreeSources = {}

StartupTypeOK ==
  /\ launch \in Launch /\ config_file \in ConfigFile
  /\ lidars = [i \in Source |-> lidars[i]]
  /\ \A h \in DOMAIN index_of : index_of[h] \in Source
  /\ \A g, h \in DOMAIN index_of : index_of[g] = index_of[h] => g = h
  /\ \A q \in Stream \X Source :
       waiting[q] \in Seq([source : Address, data_type : {High, Low}, moved : Int])
  /\ waiting = [q \in Stream \X Source |-> waiting[q]]
  /\ \A h \in DOMAIN lidar_extrinsics : lidar_extrinsics[h] \in Int

ParametersRight ==
  phase # "parameters" =>
    /\ parameters.use_multi_topic = (Byte(Given(launch, "multi_topic", 0)) # 0)
    /\ parameters.transfer_format = Byte(Given(launch, "xfer_format", 0))

\* Which steps of the constructor have been taken.
PhasesInOrder ==
  /\ polling => phase = "done"
  /\ phase \in {"parameters", "summary", "sdk", "devices"} => listening = {}
  /\ "info" \in listening => user_configs = <<>>
  /\ phase = "devices" \/ "info" \in listening => DevicesFilled
  /\ phase = "devices" => \A h \in DOMAIN index_of : Mentioned(h)
  /\ phase # "devices" /\ "info" \notin listening =>
       DOMAIN index_of = {} /\ \A i \in Source : lidars[i] = ZeroConfig

\* Frames are those of the device that has the index.
FramesInPlace ==
  \A q \in Stream \X Source : \A n \in 1..Len(waiting[q]) :
    LET frame == waiting[q][n]
    IN  /\ "info" \in listening
        /\ frame.source \in DOMAIN index_of
        /\ index_of[frame.source] = q[2]
        /\ frame.moved = Moved(frame.source, frame.data_type)

PublishersInPlace ==
  /\ phase # "done" => DOMAIN publishers = {}
  /\ phase = "done" => \A s \in Stream, i \in Source :
       PublisherSlot(s, i) \in DOMAIN publishers =>
         /\ publishers[PublisherSlot(s, i)].type = MessageType(s)
         /\ publishers[PublisherSlot(s, i)].topic =
              IF parameters.use_multi_topic THEN <<s, lidars[i].handle>> ELSE <<s>>

StartupInv ==
  /\ StartupTypeOK /\ ParametersRight /\ PhasesInOrder
  /\ FramesInPlace /\ PublishersInPlace /\ MessagesAreTheirOwn

\* The entries that have a device are a sequence, with translations that are numbers.
LEMMA EntriesAreSeq ==
  ASSUME config_file \in ConfigFile
  PROVE  /\ Len(UserConfigs) \in Nat
         /\ DOMAIN UserConfigs = 1..Len(UserConfigs)
         /\ UserConfigs = [n \in 1..Len(UserConfigs) |-> UserConfigs[n]]
         /\ \A n \in 1..Len(UserConfigs) : UserConfigs[n].x \in Int
<1> DEFINE entries == Given(config_file, "lidar_configs", <<>>)
           L == Len(entries)
           E == {UserConfig(entries[n]) : n \in 1..L}
           F(f, n) == IF n = 0 THEN <<>>
                      ELSE IF "ip" \in DOMAIN entries[n] THEN Append(f[n - 1], UserConfig(entries[n]))
                      ELSE f[n - 1]
           Fits(f, m) == f = [n \in 0..m |-> F(f, n)] /\ \A n \in 0..m : f[n] \in Seq(E)
           S == {m \in Nat : m <= L => \E f : Fits(f, m)}
<1>1. L \in Nat /\ DOMAIN entries = 1..L /\ \A n \in 1..L : Translation(entries[n]) \in Int
  <2>1. CASE "lidar_configs" \in DOMAIN config_file BY <2>1, StartupAssumption DEF Given
  <2>2. CASE "lidar_configs" \notin DOMAIN config_file
    <3>1. entries = <<>> BY <2>2 DEF Given
    <3> QED BY <3>1
  <2> QED BY <2>1, <2>2
<1>2. \A c \in E : c.x \in Int BY <1>1 DEF UserConfig
<1> HIDE DEF entries
<1>3. Nat \subseteq S
  <2>1. 0 \in S
    <3> DEFINE g == [n \in 0..0 |-> <<>>]
    <3>1. g = [n \in 0..0 |-> F(g, n)] OBVIOUS
    <3>2. \A n \in 0..0 : g[n] \in Seq(E) BY EmptySeq
    <3> QED BY <3>1, <3>2
  <2>2. ASSUME NEW m \in Nat, m \in S PROVE m + 1 \in S
    <3> HIDE DEF F, Fits, L
    <3> SUFFICES ASSUME m + 1 <= L PROVE \E f : Fits(f, m + 1) OBVIOUS
    <3>0. m <= L BY <1>1
    <3>1. PICK f : Fits(f, m) BY <2>2, <3>0
    <3> USE DEF F, Fits
    <3> DEFINE g == [n \in 0..m + 1 |-> IF n = m + 1 THEN F(f, m + 1) ELSE f[n]]
    <3>2. \A n \in 0..m : g[n] = f[n] OBVIOUS
    <3>3. \A n \in 0..m + 1 : F(g, n) = F(f, n)
      <4> TAKE n \in 0..m + 1
      <4>1. n # 0 => n - 1 \in 0..m OBVIOUS
      <4> HIDE DEF g
      <4> QED BY <3>2, <4>1
    <3>4. \A n \in 0..m : f[n] = F(f, n) BY <3>1
    <3>5. g = [n \in 0..m + 1 |-> F(g, n)]
      <4>1. \A n \in 0..m + 1 : g[n] = F(g, n)
        <5> TAKE n \in 0..m + 1
        <5>1. CASE n = m + 1 BY <5>1, <3>3
        <5>2. CASE n # m + 1
          <6>1. n \in 0..m BY <5>2
          <6> QED BY <6>1, <3>2, <3>3, <3>4
        <5> QED BY <5>1, <5>2
      <4>2. g = [n \in 0..m + 1 |-> g[n]] OBVIOUS
      <4> HIDE DEF g, F
      <4> QED BY <4>1, <4>2
    <3>6. g[m + 1] \in Seq(E)
      <4>1. f[m] \in Seq(E) BY <3>1
      <4>2. UserConfig(entries[m + 1]) \in E BY <1>1
      <4>3. Append(f[m], UserConfig(entries[m + 1])) \in Seq(E) BY <4>1, <4>2, AppendProperties
      <4>4. g[m + 1] = F(f, m + 1) /\ m + 1 # 0 /\ (m + 1) - 1 = m OBVIOUS
      <4> HIDE DEF g
      <4> QED BY <4>1, <4>3, <4>4
    <3>7. \A n \in 0..m + 1 : g[n] \in Seq(E)
      <4>1. \A n \in 0..m + 1 : n = m + 1 \/ n \in 0..m OBVIOUS
      <4> HIDE DEF g
      <4> QED BY <4>1, <3>1, <3>2, <3>6
    <3> HIDE DEF g, F
    <3> QED BY <3>5, <3>7
  <2> HIDE DEF S
  <2> QED BY <2>1, <2>2, NatInductionSet
<1>4. PICK f : Fits(f, L)
  <2> HIDE DEF Fits
  <2> QED BY <1>1, <1>3
<1>5. UserConfigs \in Seq(E)
  <2> DEFINE valid == CHOOSE g : g = [n \in 0..L |-> F(g, n)]
  <2>1. UserConfigs = valid[L] BY SMTT(30) DEF UserConfigs, entries
  <2>2. valid = [n \in 0..L |-> F(valid, n)] BY <1>4
  <2> HIDE DEF valid
  <2> DEFINE R == {m \in Nat : m <= L => valid[m] \in Seq(E)}
  <2>3. 0 \in R
    <3>1. valid[0] = <<>> BY <2>2, <1>1
    <3> QED BY <3>1, EmptySeq
  <2>4. ASSUME NEW m \in Nat, m \in R PROVE m + 1 \in R
    <3> SUFFICES ASSUME m + 1 <= L PROVE valid[m + 1] \in Seq(E) OBVIOUS
    <3>1. valid[m] \in Seq(E) BY <2>4, <1>1
    <3>2. UserConfig(entries[m + 1]) \in E BY <1>1
    <3>3. Append(valid[m], UserConfig(entries[m + 1])) \in Seq(E) BY <3>1, <3>2, AppendProperties
    <3>4. m + 1 \in 0..L /\ m + 1 # 0 /\ (m + 1) - 1 = m BY <1>1
    <3>5. valid[m + 1] = F(valid, m + 1) BY <2>2, <3>4
    <3> QED BY <3>1, <3>3, <3>4, <3>5
  <2> HIDE DEF R
  <2>5. Nat \subseteq R BY <2>3, <2>4, NatInductionSet
  <2> QED BY <2>1, <2>5, <1>1 DEF R
<1>6. Len(UserConfigs) \in Nat /\ DOMAIN UserConfigs = 1..Len(UserConfigs)
      /\ \A n \in 1..Len(UserConfigs) : UserConfigs[n] \in E
  BY <1>5
<1> HIDE DEF E
<1>7. UserConfigs = [n \in 1..Len(UserConfigs) |-> UserConfigs[n]]
  BY <1>5, <1>6
<1> QED BY <1>2, <1>6, <1>7

\* An index that a device can get is its own, or one that is free.
LEMMA IndexChoice ==
  ASSUME StartupTypeOK, NEW h, NEW i \in IndexFor(h)
  PROVE  /\ i \in Source
         /\ h \in DOMAIN index_of => i = index_of[h]
         /\ h \notin DOMAIN index_of => i \in FreeSources
<1>1. Source \subseteq Nat BY StartupAssumption DEF Source
<1>2. CASE h \in DOMAIN index_of BY <1>2 DEF IndexFor, StartupTypeOK
<1>3. CASE h \notin DOMAIN index_of
  <2>1. FreeSources # {} /\ i = Min(FreeSources) BY <1>3 DEF IndexFor
  <2>2. FreeSources \in SUBSET Nat BY <1>1 DEF FreeSources
  <2>3. i \in FreeSources BY <2>1, <2>2, LeastNumber
  <2> QED BY <1>3, <2>3 DEF FreeSources
<1> QED BY <1>2, <1>3

LEMMA NoIndexLeft ==
  ASSUME NEW h, IndexFor(h) = {} PROVE h \notin DOMAIN index_of /\ FreeSources = {}
BY DEF IndexFor

LEMMA EntriesStay ==
  ASSUME UNCHANGED config_file PROVE UserConfigs' = UserConfigs
BY DEF UserConfigs

LEMMA FilledStays ==
  ASSUME DevicesFilled, UNCHANGED <<config_file, user_configs, index_of, lidars, lidar_extrinsics>>
  PROVE  DevicesFilled' /\ \A h : Mentioned(h)' <=> Mentioned(h)
<1>1. UserConfigs' = UserConfigs BY EntriesStay
<1>2. Processed' = Processed BY <1>1 DEF Processed
<1>3. EntriesLeft' BY <1>1, <1>2 DEF DevicesFilled, EntriesLeft
<1>4. \A h : Mentioned(h)' <=> Mentioned(h) BY <1>1, <1>2 DEF Mentioned
<1>5. \A h, n : FilledFrom(h, n)' <=> FilledFrom(h, n)
  BY <1>1, <1>2 DEF FilledFrom, Extrinsics, Tenth, Low
<1>6. FreeSources' = FreeSources BY DEF FreeSources
<1> QED BY <1>1, <1>2, <1>3, <1>4, <1>5, <1>6 DEF DevicesFilled

LEMMA MessagesStay ==
  ASSUME MessagesAreTheirOwn, UNCHANGED <<launch, config_file, last_message>>
  PROVE  MessagesAreTheirOwn'
<1>1. UserConfigs' = UserConfigs BY EntriesStay
<1>2. \A h : EntriesOf(h)' = EntriesOf(h) /\ ConfigOf(h)' = ConfigOf(h)
  BY <1>1 DEF EntriesOf, ConfigOf
<1> QED BY <1>2 DEF MessagesAreTheirOwn

\* What holds of frames holds while devices keep their indices and translations.
LEMMA FramesStay ==
  ASSUME FramesInPlace, UNCHANGED <<index_of, lidar_extrinsics, waiting>>,
         "info" \in listening => "info" \in listening'
  PROVE  FramesInPlace'
BY DEF FramesInPlace, Moved, Given, Low

LEMMA PublishersStay ==
  ASSUME PublishersInPlace, UNCHANGED <<parameters, lidars, publishers, phase>>
  PROVE  PublishersInPlace'
BY DEF PublishersInPlace, PublisherSlot, MessageType

LEMMA StartupBegins == ASSUME StartupInit PROVE StartupInv
<1> USE DEF StartupInit
<1>1. StartupTypeOK
  <2>1. \A q \in Stream \X Source :
          waiting[q] \in Seq([source : Address, data_type : {High, Low}, moved : Int])
    BY EmptySeq
  <2> QED BY <2>1 DEF StartupTypeOK
<1>2. ParametersRight /\ PhasesInOrder BY DEF ParametersRight, PhasesInOrder
<1>3. FramesInPlace
  <2>1. \A q \in Stream \X Source : waiting[q] = <<>> OBVIOUS
  <2> QED BY <2>1 DEF FramesInPlace
<1>4. PublishersInPlace /\ MessagesAreTheirOwn BY DEF PublishersInPlace, MessagesAreTheirOwn
<1> QED BY <1>1, <1>2, <1>3, <1>4 DEF StartupInv

\* Steps of the constructor that leave the devices alone.
LEMMA ConstructorStep ==
  ASSUME StartupInv,
         \/ DeclareParameters \/ ParseSummary \/ InitSdk \/ SetInfoChange
         \/ SetPubHandle \/ StartPollThreads
  PROVE  StartupInv'
<1> DEFINE Unseen == UNCHANGED <<launchVars, deviceState, waiting, publishers, last_message>>
<1>1. Unseen /\ phase # "done"
  BY DEF DeclareParameters, ParseSummary, InitSdk, SetInfoChange, SetPubHandle, SetCallback,
         StartPollThreads, launchVars, deviceState
<1>2. StartupTypeOK'
  BY <1>1 DEF StartupInv, StartupTypeOK, launchVars, deviceState
<1>3. "info" \in listening => "info" \in listening'
  BY DEF DeclareParameters, ParseSummary, InitSdk, SetInfoChange, SetPubHandle, SetCallback,
         StartPollThreads
<1>4. FramesInPlace' BY <1>1, <1>3, FramesStay DEF StartupInv, deviceState
<1>5. MessagesAreTheirOwn' BY <1>1, MessagesStay DEF StartupInv, launchVars
<1>6. PublishersInPlace' BY <1>1 DEF StartupInv, PublishersInPlace
<1>7. ParametersRight'
  <2>1. CASE DeclareParameters
    BY <2>1 DEF DeclareParameters, Argument, DefaultArguments, Given, ParametersRight, launchVars, Byte
  <2>2. CASE ~DeclareParameters
    <3>1. phase # "parameters" /\ UNCHANGED parameters
      BY <2>2 DEF ParseSummary, InitSdk, SetInfoChange, SetPubHandle, SetCallback, StartPollThreads
    <3> QED BY <3>1, <1>1 DEF StartupInv, ParametersRight, launchVars, Given, Byte
  <2> QED BY <2>1, <2>2
<1>8. PhasesInOrder'
  <2> USE DEF StartupInv, launchVars, deviceState
  <2>0. PhasesInOrder BY DEF StartupInv
  <2>1. CASE InitSdk
    <3>1. phase = "sdk" /\ listening = {} /\ DOMAIN index_of = {}
          /\ \A i \in Source : lidars[i] = ZeroConfig
      BY <2>0, <2>1 DEF InitSdk, PhasesInOrder
    <3>2. CASE phase' = "devices"
      <4>1. UserConfigs' = UserConfigs BY <1>1, EntriesStay
      <4>2. user_configs' = UserConfigs BY <2>1, <3>2 DEF InitSdk
      <4>3. Len(UserConfigs) \in Nat BY EntriesAreSeq DEF StartupTypeOK
      <4>4. Len(UserConfigs') - Len(user_configs') = 0
        <5> PICK L : L = Len(UserConfigs) OBVIOUS
        <5> QED BY <4>1, <4>2, <4>3
      <4>5. Processed' = 0 BY <4>4 DEF Processed
      <4>6. EntriesLeft'
        <5>1. Len(user_configs') = Len(UserConfigs') /\ Len(user_configs') \in Nat
          BY <4>1, <4>2, <4>3
        <5>2. Len(user_configs') \in 0..Len(UserConfigs')
          <6> PICK L : L = Len(UserConfigs') OBVIOUS
          <6> QED BY <5>1
        <5>3. \A n \in 1..Len(user_configs') : Processed' + n = n
          <6> PICK L : L = Len(user_configs') OBVIOUS
          <6> QED BY <4>5
        <5>4. user_configs' = [n \in 1..Len(user_configs') |-> UserConfigs'[n]]
          BY <4>1, <4>2, EntriesAreSeq DEF StartupTypeOK
        <5> QED BY <5>2, <5>3, <5>4 DEF EntriesLeft
      <4>7. 1..Processed' = {} BY <4>5
      <4>8. DevicesFilled' BY <1>1, <3>1, <4>6, <4>7 DEF DevicesFilled, FreeSources
      <4>9. listening' = {} /\ ~polling' BY <2>0, <2>1, <3>1 DEF InitSdk, PhasesInOrder
      <4> QED BY <1>1, <3>1, <3>2, <4>8, <4>9 DEF PhasesInOrder
    <3>3. CASE phase' = "threads"
      BY <1>1, <2>0, <2>1, <3>1, <3>3 DEF InitSdk, PhasesInOrder
    <3> QED BY <2>1, <3>2, <3>3 DEF InitSdk
  <2>2. CASE SetInfoChange
    <3>1. phase = "devices" /\ phase' = "callbacks" /\ user_configs' = <<>> /\ user_configs = <<>>
          /\ polling' = polling
      BY <2>2 DEF SetInfoChange, SetCallback
    <3>2. DevicesFilled' BY <1>1, <2>0, <3>1, FilledStays DEF PhasesInOrder
    <3>3. "info" \in listening' BY <2>2 DEF SetInfoChange, SetCallback
    <3> QED BY <2>0, <3>1, <3>2, <3>3 DEF PhasesInOrder
  <2>3. CASE SetPubHandle \/ StartPollThreads
    <3>1. /\ phase \in {"callbacks", "imu", "thread", "threads"}
          /\ phase' \in {"imu", "thread", "threads", "done"}
          /\ user_configs' = user_configs
          /\ "info" \in listening' <=> "info" \in listening
          /\ polling' => phase' = "done"
      BY <2>0, <2>3 DEF SetPubHandle, SetCallback, StartPollThreads, PhasesInOrder
    <3>2. "info" \in listening => DevicesFilled'
      BY <1>1, <2>0, <3>1, FilledStays DEF PhasesInOrder
    <3> QED BY <1>1, <2>0, <3>1, <3>2 DEF PhasesInOrder
  <2>4. CASE DeclareParameters \/ ParseSummary
    <3>1. /\ phase \in {"parameters", "summary"}
          /\ phase' \in {"summary", "threads", "sdk", "callbacks"}
          /\ UNCHANGED <<user_configs, listening, polling>>
      BY <2>4 DEF DeclareParameters, ParseSummary
    <3> QED BY <1>1, <2>0, <3>1 DEF PhasesInOrder
  <2> QED BY <2>1, <2>2, <2>3, <2>4
<1> QED BY <1>2, <1>4, <1>5, <1>6, <1>7, <1>8 DEF StartupInv

\* An entry more is taken, for a device that gets its index or has none to get.
LEMMA FillStep == ASSUME StartupInv, FillDevice PROVE StartupInv'
<1> PICK c, h, P, N : c = Head(user_configs) /\ h = c.handle /\ P = Processed /\ N = Len(UserConfigs)
  OBVIOUS
<1> DEFINE None == IndexFor(h) = {} /\ UNCHANGED <<index_of, lidars, lidar_extrinsics>>
           One(i) == /\ i \in IndexFor(h)
                     /\ index_of' = Assign(index_of, h, i)
                     /\ lidars' = [lidars EXCEPT ![i] = c]
                     /\ lidar_extrinsics' = Assign(lidar_extrinsics, h, Extrinsics(c))
<1>1. /\ phase = "devices" /\ user_configs # <<>>
      /\ user_configs' = Tail(user_configs)
      /\ UNCHANGED <<launch, config_file, phase, parameters, listening, polling, asked, in_sampling,
                     waiting, publishers, last_message>>
      /\ None \/ \E i \in IndexFor(h) : One(i)
  BY DEF FillDevice, launchVars
<1>2. /\ StartupTypeOK /\ ParametersRight /\ PhasesInOrder /\ FramesInPlace
      /\ PublishersInPlace /\ MessagesAreTheirOwn
  BY DEF StartupInv
<1>3. DevicesFilled /\ listening = {} /\ \A g \in DOMAIN index_of : Mentioned(g)
  BY <1>1, <1>2 DEF PhasesInOrder
<1>4. /\ N \in Nat /\ UserConfigs' = UserConfigs
      /\ \A n \in 1..N : UserConfigs[n].x \in Int
  BY <1>1, <1>2, EntriesAreSeq, EntriesStay DEF StartupTypeOK
<1>5. PICK L \in Nat : L = Len(user_configs) /\ L <= N /\ P = N - L
                       /\ user_configs = [n \in 1..L |-> UserConfigs[P + n]]
  <2> PICK L : L = Len(user_configs) OBVIOUS
  <2>1. L \in 0..N /\ user_configs = [n \in 1..L |-> UserConfigs[P + n]]
    BY <1>3 DEF DevicesFilled, EntriesLeft
  <2>2. P = N - L BY DEF Processed
  <2>3. L \in Nat /\ L <= N BY <2>1, <1>4
  <2> QED BY <2>1, <2>2, <2>3
<1>6. L # 0 /\ P \in Nat /\ P + 1 \in 1..N
  <2>1. L = 0 => user_configs = <<>> BY <1>5
  <2> QED BY <1>1, <2>1, <1>4, <1>5
<1>7. c = UserConfigs[P + 1] /\ Len(user_configs') = L - 1
      /\ user_configs' = [n \in 1..(L - 1) |-> UserConfigs[(P + 1) + n]]
  <2> DEFINE E == {UserConfigs[n] : n \in 1..N}
  <2>1. \A n \in 1..L : P + n \in 1..N BY <1>4, <1>5
  <2>2. user_configs \in Seq(E) BY <2>1, <1>5
  <2>3. c = user_configs[1] BY <2>2, <1>1
  <2>4. /\ Tail(user_configs) \in Seq(E) /\ Len(Tail(user_configs)) = L - 1
        /\ \A n \in 1..(L - 1) : Tail(user_configs)[n] = user_configs[n + 1]
    BY <2>2, <1>1, <1>5, HeadTailProperties
  <2>5. \A n \in 1..(L - 1) : user_configs[n + 1] = UserConfigs[(P + 1) + n]
    <3> TAKE n \in 1..(L - 1)
    <3>1. n + 1 \in 1..L /\ P + (n + 1) = (P + 1) + n BY <1>5, <1>6
    <3>2. user_configs[n + 1] = UserConfigs[P + (n + 1)] BY <3>1, <1>5
    <3> QED BY <3>1, <3>2
  <2>6. PICK t \in Seq(E) : t = Tail(user_configs) BY <2>4
  <2>7. t = [n \in 1..(L - 1) |-> UserConfigs[(P + 1) + n]]
    <3>1. t = [n \in 1..Len(t) |-> t[n]] BY <2>6, LenProperties
    <3> QED BY <3>1, <2>4, <2>5, <2>6
  <2>8. 1 \in 1..L /\ c = UserConfigs[P + 1] BY <2>3, <1>5, <1>6
  <2> QED BY <2>4, <2>6, <2>7, <2>8, <1>1
<1>8. Processed' = P + 1
  <2> PICK u : u = user_configs' OBVIOUS
  <2>1. Len(u) = L - 1 BY <1>7
  <2>2. N - Len(u) = P + 1 BY <2>1, <1>4, <1>5, <1>6
  <2> QED BY <2>2, <1>4 DEF Processed
<1>9. EntriesLeft'
  <2> PICK u : u = user_configs' OBVIOUS
  <2>1. Len(u) = L - 1 /\ Len(u) \in 0..N BY <1>4, <1>5, <1>6, <1>7
  <2>2. u = [n \in 1..Len(u) |-> UserConfigs[(P + 1) + n]] BY <2>1, <1>7
  <2> QED BY <2>1, <2>2, <1>4, <1>8 DEF EntriesLeft
<1>10. 1..Processed' = (1..P) \cup {P + 1} /\ \A n \in 1..P : n < P + 1 /\ ~(P + 1 < n)
  BY <1>6, <1>8
<1>11. c.x \in Int BY <1>4, <1>6, <1>7
<1>12. h = UserConfigs[P + 1].handle BY <1>7
<1> HIDE DEF None
<1>13. CASE None
  <2>1. UNCHANGED <<index_of, lidars, lidar_extrinsics>> /\ h \notin DOMAIN index_of /\ FreeSources = {}
    BY <1>13, NoIndexLeft DEF None
  <2>2. \A g \in DOMAIN index_of : Mentioned(g)'
    BY <1>3, <1>4, <1>10 DEF Mentioned
  <2>3. ASSUME NEW g \in DOMAIN index_of PROVE \E n \in 1..Processed' : FilledFrom(g, n)'
    <3>1. PICK n \in 1..P : FilledFrom(g, n) BY <1>3 DEF DevicesFilled
    <3>2. UserConfigs[P + 1].handle # g BY <2>1, <1>12
    <3>3. \A m \in 1..Processed' : n < m => UserConfigs[m].handle # g
      BY <3>1, <3>2, <1>10 DEF FilledFrom
    <3> QED BY <3>1, <3>3, <2>1, <1>4, <1>10 DEF FilledFrom, Extrinsics, Tenth
  <2>4. FreeSources' = {} BY <2>1 DEF FreeSources
  <2>5. DevicesFilled' BY <2>1, <2>2, <2>3, <2>4, <1>9 DEF DevicesFilled
  <2>6. PhasesInOrder' BY <2>1, <2>2, <2>5, <1>1, <1>2, <1>3 DEF PhasesInOrder
  <2>7. StartupTypeOK' BY <2>1, <1>1, <1>2 DEF StartupTypeOK
  <2>8. FramesInPlace' /\ PublishersInPlace' /\ MessagesAreTheirOwn'
    BY <2>1, <1>1, <1>2, FramesStay, PublishersStay, MessagesStay
  <2>9. ParametersRight' BY <1>1, <1>2 DEF ParametersRight, Given, Byte
  <2> QED BY <2>6, <2>7, <2>8, <2>9 DEF StartupInv
<1>14. ASSUME NEW i \in IndexFor(h), One(i) PROVE StartupInv'
  <2>1. /\ i \in Source
        /\ h \in DOMAIN index_of => i = index_of[h]
        /\ h \notin DOMAIN index_of => i \in FreeSources
    BY <1>2, <1>14, IndexChoice
  <2>2. /\ DOMAIN index_of' = DOMAIN index_of \cup {h} /\ index_of'[h] = i
        /\ \A g \in DOMAIN index_of : index_of'[g] = index_of[g]
    <3>1. index_of' = Assign(index_of, h, i) BY <1>14
    <3>2. /\ DOMAIN Assign(index_of, h, i) = DOMAIN index_of \cup {h}
          /\ Assign(index_of, h, i)[h] = i
          /\ \A x \in DOMAIN index_of : x # h => Assign(index_of, h, i)[x] = index_of[x]
      BY DEF Assign
    <3> QED BY <3>1, <3>2, <2>1
  <2>3. /\ DOMAIN lidar_extrinsics' = DOMAIN lidar_extrinsics \cup {h}
        /\ lidar_extrinsics'[h] = Extrinsics(c)
        /\ \A g \in DOMAIN lidar_extrinsics : g # h => lidar_extrinsics'[g] = lidar_extrinsics[g]
    <3>1. lidar_extrinsics' = Assign(lidar_extrinsics, h, Extrinsics(c)) BY <1>14
    <3> QED BY <3>1 DEF Assign
  <2>4. \A g \in DOMAIN index_of : g # h => index_of[g] # i
    BY <2>1, <1>2 DEF StartupTypeOK, FreeSources
  <2>5. /\ lidars' = [j \in Source |-> lidars'[j]] /\ lidars'[i] = c
        /\ \A j \in Source : j # i => lidars'[j] = lidars[j]
    <3> PICK d : d = c OBVIOUS
    <3>1. lidars' = [lidars EXCEPT ![i] = d] BY <1>14
    <3> QED BY <3>1, <2>1, <1>2 DEF StartupTypeOK
  <2>6. Extrinsics(c) \in Int BY <1>11 DEF Extrinsics, Tenth
  <2>7. StartupTypeOK'
    <3>1. \A g \in DOMAIN index_of' : index_of'[g] \in Source BY <2>1, <2>2, <1>2 DEF StartupTypeOK
    <3>2. \A g, k \in DOMAIN index_of' : index_of'[g] = index_of'[k] => g = k
      BY <2>2, <2>4, <1>2 DEF StartupTypeOK
    <3>3. \A g \in DOMAIN lidar_extrinsics' : lidar_extrinsics'[g] \in Int
      BY <2>3, <2>6, <1>2 DEF StartupTypeOK
    <3> QED BY <3>1, <3>2, <3>3, <2>5, <1>1, <1>2 DEF StartupTypeOK
  <2>8. \A g \in DOMAIN index_of' : Mentioned(g)'
    <3>1. \A g \in DOMAIN index_of : Mentioned(g)' BY <1>3, <1>4, <1>10 DEF Mentioned
    <3>2. Mentioned(h)' BY <1>4, <1>10, <1>12 DEF Mentioned
    <3> QED BY <3>1, <3>2, <2>2
  <2>9. ASSUME NEW g \in DOMAIN index_of' PROVE \E n \in 1..Processed' : FilledFrom(g, n)'
    <3>1. CASE g = h
      <4>1. \A m \in 1..Processed' : ~(P + 1 < m) BY <1>6, <1>10
      <4>2. lidars'[index_of'[g]] = UserConfigs[P + 1] BY <3>1, <2>2, <2>5, <1>7
      <4>3. lidar_extrinsics'[g] = Extrinsics(UserConfigs[P + 1]) BY <3>1, <2>3, <1>7
      <4>4. FilledFrom(g, P + 1)'
        BY <3>1, <4>1, <4>2, <4>3, <2>3, <1>4, <1>12 DEF FilledFrom, Extrinsics, Tenth
      <4> QED BY <4>4, <1>10
    <3>2. CASE g # h
      <4>0. g \in DOMAIN index_of BY <3>2, <2>2
      <4>1. PICK n \in 1..P : FilledFrom(g, n) BY <4>0, <1>3 DEF DevicesFilled
      <4>2. UserConfigs[P + 1].handle # g BY <3>2, <1>12
      <4>3. \A m \in 1..Processed' : n < m => UserConfigs[m].handle # g
        BY <4>1, <4>2, <1>10 DEF FilledFrom
      <4>4. lidars'[index_of'[g]] = lidars[index_of[g]]
        BY <3>2, <4>0, <2>2, <2>4, <2>5, <1>2 DEF StartupTypeOK
      <4>5. g \in DOMAIN lidar_extrinsics' /\ lidar_extrinsics'[g] = lidar_extrinsics[g]
        BY <3>2, <4>1, <2>3 DEF FilledFrom
      <4> QED BY <4>1, <4>3, <4>4, <4>5, <1>4, <1>10 DEF FilledFrom, Extrinsics, Tenth
    <3> QED BY <3>1, <3>2
  <2>10. FreeSources' \subseteq FreeSources /\ i \notin FreeSources'
    BY <2>2 DEF FreeSources
  <2>11. DevicesFilled'
    <3>1. \A j \in FreeSources' : lidars'[j] = ZeroConfig
      BY <2>5, <2>10, <1>3 DEF DevicesFilled, FreeSources
    <3>2. ASSUME NEW n \in 1..Processed', UserConfigs[n].handle \notin DOMAIN index_of'
          PROVE  FreeSources' = {}
      <4>1. n \in 1..P BY <3>2, <2>2, <1>10, <1>12
      <4> QED BY <4>1, <3>2, <2>2, <2>10, <1>3 DEF DevicesFilled
    <3> QED BY <3>1, <3>2, <2>8, <2>9, <1>4, <1>9 DEF DevicesFilled, ZeroConfig, Unset
  <2>12. PhasesInOrder' BY <2>8, <2>11, <1>1, <1>2, <1>3 DEF PhasesInOrder
  <2>13. FramesInPlace'
    BY <1>1, <1>2, <1>3 DEF FramesInPlace
  <2>14. PublishersInPlace' BY <1>1, <1>2 DEF PublishersInPlace
  <2>15. MessagesAreTheirOwn' /\ ParametersRight'
    BY <1>1, <1>2, MessagesStay DEF ParametersRight, Given, Byte
  <2> QED BY <2>7, <2>12, <2>13, <2>14, <2>15 DEF StartupInv
<1> QED
  <2> HIDE DEF One
  <2>1. CASE None BY <2>1, <1>13
  <2>2. CASE \E i \in IndexFor(h) : One(i) BY <2>2, <1>14
  <2> QED BY <1>1, <2>1, <2>2 DEF None, One

\* A device that the file does not mention gets an index of its own, which no
\* device of the file has lost.
LEMMA AnnounceStep ==
  ASSUME StartupInv, NEW h \in Address, AnnounceDevice(h) PROVE StartupInv'
<1>1. /\ StartupTypeOK /\ ParametersRight /\ PhasesInOrder /\ FramesInPlace
      /\ PublishersInPlace /\ MessagesAreTheirOwn
  BY DEF StartupInv
<1>2. /\ "info" \in listening
      /\ UNCHANGED <<launch, config_file, phase, parameters, user_configs, listening, polling,
                     lidars, lidar_extrinsics, waiting, publishers, last_message>>
  BY DEF AnnounceDevice, constructorVars, launchVars
<1>3. DevicesFilled /\ user_configs = <<>> /\ phase # "devices"
  BY <1>1, <1>2 DEF PhasesInOrder
<1>4. UserConfigs' = UserConfigs BY <1>2, EntriesStay
<1>5. Processed' = Processed BY <1>2, <1>4 DEF Processed
<1>6. PublishersInPlace' /\ MessagesAreTheirOwn' /\ ParametersRight'
  BY <1>1, <1>2, PublishersStay, MessagesStay DEF ParametersRight, Given, Byte
<1>7. CASE UNCHANGED index_of
  <2>1. DevicesFilled' BY <1>2, <1>3, <1>7, FilledStays
  <2>2. PhasesInOrder' BY <2>1, <1>1, <1>2, <1>3, <1>7 DEF PhasesInOrder
  <2>3. StartupTypeOK' BY <1>1, <1>2, <1>7 DEF StartupTypeOK
  <2>4. FramesInPlace' BY <1>1, <1>2, <1>7, FramesStay
  <2> QED BY <1>6, <2>2, <2>3, <2>4 DEF StartupInv
<1>8. ASSUME h \notin DOMAIN index_of, NEW i \in IndexFor(h), index_of' = Assign(index_of, h, i)
      PROVE  StartupInv'
  <2>1. i \in Source /\ i \in FreeSources BY <1>1, <1>8, IndexChoice
  <2>2. /\ DOMAIN index_of' = DOMAIN index_of \cup {h} /\ index_of'[h] = i
        /\ \A g \in DOMAIN index_of : index_of'[g] = index_of[g] /\ index_of[g] # i
    BY <1>8, <2>1 DEF Assign, FreeSources
  <2>3. StartupTypeOK' BY <1>1, <1>2, <2>1, <2>2 DEF StartupTypeOK
  <2>4. FramesInPlace' BY <1>1, <1>2, <2>2 DEF FramesInPlace, Moved, Given, Low
  <2>5. ~Mentioned(h)
    <3>1. FreeSources # {} BY <2>1
    <3> QED BY <1>3, <1>8, <3>1 DEF Mentioned, DevicesFilled
  <2>6. lidars[i] = ZeroConfig BY <1>3, <2>1 DEF DevicesFilled
  <2>7. \A g : Mentioned(g)' <=> Mentioned(g) BY <1>4, <1>5 DEF Mentioned
  <2>8. \A g \in DOMAIN index_of : \A n : FilledFrom(g, n)' <=> FilledFrom(g, n)
    BY <1>2, <1>4, <1>5, <2>2 DEF FilledFrom, Extrinsics, Tenth, Low
  <2>9. EntriesLeft' BY <1>2, <1>3, <1>4, <1>5 DEF DevicesFilled, EntriesLeft
  <2>10. FreeSources' \subseteq FreeSources BY <2>2 DEF FreeSources
  <2>11. DevicesFilled'
    <3>1. ASSUME NEW g \in DOMAIN index_of'
          PROVE  IF Mentioned(g)' THEN \E n \in 1..Processed' : FilledFrom(g, n)'
                 ELSE lidars'[index_of'[g]] = ZeroConfig
      <4>1. CASE g = h BY <4>1, <2>2, <2>5, <2>6, <2>7, <1>2
      <4>2. CASE g # h
        <5>1. g \in DOMAIN index_of BY <4>2, <2>2
        <5> QED BY <5>1, <2>2, <2>7, <2>8, <1>2, <1>3, <1>5 DEF DevicesFilled
      <4> QED BY <4>1, <4>2
    <3>2. \A j \in FreeSources' : lidars'[j] = ZeroConfig
      BY <1>2, <1>3, <2>10 DEF DevicesFilled
    <3>3. \A n \in 1..Processed' : UserConfigs'[n].handle \notin DOMAIN index_of' => FreeSources' = {}
      BY <1>3, <1>4, <1>5, <2>2, <2>10 DEF DevicesFilled
    <3> QED BY <3>1, <3>2, <3>3, <2>9 DEF DevicesFilled, ZeroConfig, Unset
  <2>12. PhasesInOrder' BY <2>11, <1>1, <1>2, <1>3 DEF PhasesInOrder
  <2> QED BY <1>6, <2>3, <2>4, <2>12 DEF StartupInv
<1> QED BY <1>7, <1>8 DEF AnnounceDevice

LEMMA SamplingStep ==
  ASSUME StartupInv, NEW h \in Address, StartSampling(h) PROVE StartupInv'
<1>1. /\ StartupTypeOK /\ ParametersRight /\ PhasesInOrder /\ FramesInPlace
      /\ PublishersInPlace /\ MessagesAreTheirOwn
  BY DEF StartupInv
<1>2. UNCHANGED <<launch, config_file, phase, parameters, user_configs, listening, polling,
                  index_of, lidars, lidar_extrinsics, waiting, publishers, last_message>>
  BY DEF StartSampling, constructorVars, launchVars
<1>3. PublishersInPlace' /\ MessagesAreTheirOwn' /\ ParametersRight' /\ FramesInPlace'
  BY <1>1, <1>2, PublishersStay, MessagesStay, FramesStay DEF ParametersRight, Given, Byte
<1>4. StartupTypeOK' BY <1>1, <1>2 DEF StartupTypeOK
<1>5. DevicesFilled => DevicesFilled' /\ \A g : Mentioned(g)' <=> Mentioned(g) BY <1>2, FilledStays
<1>6. PhasesInOrder' BY <1>1, <1>2, <1>5 DEF PhasesInOrder
<1> QED BY <1>3, <1>4, <1>6 DEF StartupInv

\* A frame joins the others of its device.
LEMMA ArrivalStep ==
  ASSUME StartupInv, NEW stream \in Stream, NEW h \in Address, NEW t \in {High, Low},
         DataArrives(stream, h, t)
  PROVE  StartupInv'
<1> DEFINE RawFrame == [source : Address, data_type : {High, Low}, moved : Int]
<1>1. /\ StartupTypeOK /\ ParametersRight /\ PhasesInOrder /\ FramesInPlace
      /\ PublishersInPlace /\ MessagesAreTheirOwn
  BY DEF StartupInv
<1>2. UNCHANGED <<launch, config_file, phase, parameters, user_configs, listening, polling,
                  index_of, lidars, lidar_extrinsics, publishers, last_message>>
  BY DEF DataArrives, constructorVars, launchVars, deviceState
<1>3. PublishersInPlace' /\ MessagesAreTheirOwn' /\ ParametersRight'
  BY <1>1, <1>2, PublishersStay, MessagesStay DEF ParametersRight, Given, Byte
<1>4. DevicesFilled => DevicesFilled' /\ \A g : Mentioned(g)' <=> Mentioned(g) BY <1>2, FilledStays
<1>5. PhasesInOrder' BY <1>1, <1>2, <1>4 DEF PhasesInOrder
<1>6. PICK q, f : /\ q = <<stream, index_of[h]>>
                  /\ f = [source |-> h, data_type |-> t, moved |-> Moved(h, t)]
  OBVIOUS
<1>7. h \in DOMAIN index_of /\ waiting' = [waiting EXCEPT ![q] = Append(@, f)]
      /\ "observer" \in listening
  BY <1>6 DEF DataArrives
<1>8. q \in Stream \X Source /\ q[2] = index_of[h] BY <1>1, <1>6, <1>7 DEF StartupTypeOK
<1>9. "info" \in listening BY <1>1, <1>7 DEF PhasesInOrder
<1>10. f \in RawFrame
  <2>1. Moved(h, t) \in Int
    <3>1. Given(lidar_extrinsics, h, 0) \in Int BY <1>1 DEF StartupTypeOK, Given
    <3> QED BY <3>1 DEF Moved
  <2> QED BY <2>1, <1>6
<1>11. waiting[q] \in Seq(RawFrame) BY <1>1, <1>8 DEF StartupTypeOK
<1>12. /\ waiting' = [p \in Stream \X Source |-> waiting'[p]]
       /\ waiting'[q] = Append(waiting[q], f)
       /\ \A p \in Stream \X Source : p # q => waiting'[p] = waiting[p]
  BY <1>1, <1>7, <1>8 DEF StartupTypeOK
<1>13. PICK w : w = waiting[q] OBVIOUS
<1>14. /\ Append(w, f) \in Seq(RawFrame) /\ Len(Append(w, f)) = Len(w) + 1 /\ Len(w) \in Nat
       /\ Append(w, f)[Len(w) + 1] = f
       /\ \A n \in 1..Len(w) : Append(w, f)[n] = w[n]
  <2> HIDE DEF RawFrame
  <2> QED BY <1>10, <1>11, <1>13, AppendProperties, LenProperties
<1>15. \A n \in 1..(Len(w) + 1) : n = Len(w) + 1 \/ n \in 1..Len(w) BY <1>14
<1>16. StartupTypeOK'
  <2>1. \A p \in Stream \X Source : waiting'[p] \in Seq(RawFrame)
    BY <1>1, <1>12, <1>13, <1>14 DEF StartupTypeOK
  <2> QED BY <2>1, <1>1, <1>2, <1>12 DEF StartupTypeOK
<1>17. FramesInPlace'
  <2> SUFFICES ASSUME NEW p \in Stream \X Source, NEW n \in 1..Len(waiting'[p])
               PROVE  /\ "info" \in listening'
                      /\ waiting'[p][n].source \in DOMAIN index_of'
                      /\ index_of'[waiting'[p][n].source] = p[2]
                      /\ waiting'[p][n].moved = Moved(waiting[p][n].source, waiting[p][n].data_type)'
    BY DEF FramesInPlace
  <2>1. CASE p = q /\ n = Len(w) + 1
    <3>1. waiting'[p][n] = f BY <2>1, <1>12, <1>13, <1>14
    <3> QED BY <3>1, <2>1, <1>2, <1>6, <1>7, <1>8, <1>9 DEF Moved, Given, Low
  <2>2. CASE ~(p = q /\ n = Len(w) + 1)
    <3>1. n \in 1..Len(waiting[p]) /\ waiting'[p][n] = waiting[p][n]
      BY <2>2, <1>12, <1>13, <1>14, <1>15
    <3> QED BY <3>1, <1>1, <1>2 DEF FramesInPlace, Moved, Given, Low
  <2> QED BY <2>1, <2>2
<1> QED BY <1>3, <1>5, <1>16, <1>17 DEF StartupInv

\* Translations in tenths of a centimetre are those in the file, but for what
\* the division leaves.
LEMMA TranslationIsNear ==
  ASSUME NEW c, c.x \in Int, NEW t \in {High, Low},
         c.pcl_data_type = t \/ (c.pcl_data_type = -1 /\ t = High)
  PROVE  Near(Extrinsics(c) * (IF t = Low THEN 10 ELSE 1), c.x)
<1>1. CASE t = Low
  <2>1. c.pcl_data_type = Low BY <1>1 DEF High, Low
  <2>2. Extrinsics(c) * (IF t = Low THEN 10 ELSE 1) = Tenth(c.x) * 10 BY <1>1, <2>1 DEF Extrinsics
  <2>3. Near(Tenth(c.x) * 10, c.x)
    <3> PICK x \in Int : x = c.x OBVIOUS
    <3>1. Near(Tenth(x) * 10, x)
      <4>1. CASE x < 0
        <5>1. -x \in Nat BY <4>1
        <5>2. PICK y \in Nat : y = -x BY <5>1
        <5>3. 10 * (y \div 10) <= y /\ y < 10 * (y \div 10) + 10 BY <5>2
        <5> QED BY <4>1, <5>2, <5>3 DEF Tenth, Near
      <4>2. CASE ~(x < 0)
        <5>1. 10 * (x \div 10) <= x /\ x < 10 * (x \div 10) + 10 BY <4>2
        <5> QED BY <4>2, <5>1 DEF Tenth, Near
      <4> QED BY <4>1, <4>2
    <3> QED BY <3>1
  <2> QED BY <2>2, <2>3
<1>2. CASE t # Low
  <2>1. c.pcl_data_type # Low BY <1>2 DEF High, Low
  <2> QED BY <1>2, <2>1 DEF Extrinsics, Near
<1> QED BY <1>1, <1>2

LEMMA LastEntry ==
  ASSUME config_file \in ConfigFile, NEW h, NEW n \in DOMAIN UserConfigs,
         UserConfigs[n].handle = h,
         \A m \in DOMAIN UserConfigs : n < m => UserConfigs[m].handle # h
  PROVE  EntriesOf(h) # {} /\ ConfigOf(h) = UserConfigs[n]
<1>1. DOMAIN UserConfigs \subseteq Nat BY EntriesAreSeq
<1>2. n \in EntriesOf(h) /\ \A m \in EntriesOf(h) : n >= m BY <1>1 DEF EntriesOf
<1>3. EntriesOf(h) \subseteq Nat BY <1>1 DEF EntriesOf
<1>4. Max(EntriesOf(h)) = n
  <2> PICK S : S = EntriesOf(h) OBVIOUS
  <2>1. \A x \in S : (\A y \in S : x >= y) => x = n BY <1>2, <1>3
  <2>2. Max(S) \in S /\ \A y \in S : Max(S) >= y BY <1>2 DEF Max
  <2> QED BY <2>1, <2>2
<1> QED BY <1>2, <1>4 DEF ConfigOf

\* A message is made of what its source was filled with.
LEMMA PublishStep ==
  ASSUME StartupInv, NEW stream \in Stream, NEW i \in Source, PublishFrame(stream, i)
  PROVE  StartupInv'
<1> DEFINE RawFrame == [source : Address, data_type : {High, Low}, moved : Int]
<1>1. /\ StartupTypeOK /\ ParametersRight /\ PhasesInOrder /\ FramesInPlace
      /\ PublishersInPlace /\ MessagesAreTheirOwn
  BY DEF StartupInv
<1>2. UNCHANGED <<launch, config_file, phase, parameters, user_configs, listening, polling,
                  index_of, lidars, lidar_extrinsics>>
  BY DEF PublishFrame, constructorVars, launchVars, deviceState
<1>3. phase = "done" BY <1>1 DEF PublishFrame, PhasesInOrder
<1>4. ParametersRight' BY <1>1, <1>2 DEF ParametersRight, Given, Byte
<1>5. DevicesFilled => DevicesFilled' /\ \A g : Mentioned(g)' <=> Mentioned(g) BY <1>2, FilledStays
<1>6. PhasesInOrder' BY <1>1, <1>2, <1>5 DEF PhasesInOrder
<1>7. PICK q, w : q = <<stream, i>> /\ w = waiting[q] OBVIOUS
<1>8. q \in Stream \X Source /\ q[2] = i /\ w # <<>> /\ waiting' = [waiting EXCEPT ![q] = Tail(w)]
  BY <1>7 DEF PublishFrame
<1>9. w \in Seq(RawFrame) BY <1>1, <1>7, <1>8 DEF StartupTypeOK
<1>10. PICK t : t = Tail(w) OBVIOUS
<1>11. /\ t \in Seq(RawFrame) /\ Len(t) \in Nat /\ Len(w) \in Nat /\ Len(t) = Len(w) - 1
       /\ \A n \in 1..Len(t) : t[n] = w[n + 1]
       /\ Head(w) = w[1] /\ Head(w) \in RawFrame
  <2> HIDE DEF RawFrame
  <2>1. /\ Head(w) \in RawFrame /\ Tail(w) \in Seq(RawFrame) /\ Len(Tail(w)) = Len(w) - 1
        /\ \A n \in 1..Len(Tail(w)) : Tail(w)[n] = w[n + 1]
    BY <1>8, <1>9, HeadTailProperties
  <2>2. Head(w) = w[1] BY <1>9, <1>8
  <2> QED BY <1>9, <1>10, <2>1, <2>2, LenProperties
<1>12. /\ waiting' = [p \in Stream \X Source |-> waiting'[p]]
       /\ waiting'[q] = t
       /\ \A p \in Stream \X Source : p # q => waiting'[p] = waiting[p]
  BY <1>1, <1>8, <1>10 DEF StartupTypeOK
<1>13. StartupTypeOK'
  <2>1. \A p \in Stream \X Source : waiting'[p] \in Seq(RawFrame)
    BY <1>1, <1>11, <1>12 DEF StartupTypeOK
  <2> QED BY <2>1, <1>1, <1>2, <1>12 DEF StartupTypeOK
<1>14. FramesInPlace'
  <2> SUFFICES ASSUME NEW p \in Stream \X Source, NEW n \in 1..Len(waiting'[p])
               PROVE  /\ "info" \in listening'
                      /\ waiting'[p][n].source \in DOMAIN index_of'
                      /\ index_of'[waiting'[p][n].source] = p[2]
                      /\ waiting'[p][n].moved = Moved(waiting[p][n].source, waiting[p][n].data_type)'
    BY DEF FramesInPlace
  <2>1. \E m \in 1..Len(waiting[p]) : waiting'[p][n] = waiting[p][m]
    <3>1. CASE p = q
      <4>1. n \in 1..Len(t) /\ waiting'[p][n] = t[n] BY <3>1, <1>12
      <4>2. n + 1 \in 1..Len(w) BY <4>1, <1>11
      <4> QED BY <3>1, <4>1, <4>2, <1>7, <1>11
    <3>2. CASE p # q BY <3>2, <1>12
    <3> QED BY <3>1, <3>2
  <2> QED BY <2>1, <1>1, <1>2 DEF FramesInPlace, Moved, Given, Low
<1>15. PICK slot, publisher : slot = PublisherSlot(stream, i) /\ publisher = CurrentPublisher(stream, i)
  OBVIOUS
<1>16. /\ publishers' = Assign(publishers, slot, publisher)
       /\ last_message' \subseteq {MessageOn(publisher, stream, i)}
  BY <1>15 DEF PublishFrame
<1>17. /\ publisher.type = MessageType(stream)
       /\ publisher.topic = IF parameters.use_multi_topic THEN <<stream, lidars[i].handle>>
                            ELSE <<stream>>
  <2>1. CASE slot \in DOMAIN publishers
    <3>1. publisher = publishers[slot] BY <2>1, <1>15 DEF CurrentPublisher, Given
    <3> QED BY <3>1, <2>1, <1>1, <1>3, <1>15 DEF PublishersInPlace
  <2>2. CASE slot \notin DOMAIN publishers
    BY <2>2, <1>15 DEF CurrentPublisher, Given
  <2> QED BY <2>1, <2>2
<1>18. PublishersInPlace'
  <2> SUFFICES ASSUME NEW s \in Stream, NEW j \in Source, PublisherSlot(s, j) \in DOMAIN publishers'
               PROVE  /\ publishers'[PublisherSlot(s, j)].type = MessageType(s)
                      /\ publishers'[PublisherSlot(s, j)].topic =
                           IF parameters.use_multi_topic THEN <<s, lidars[j].handle>> ELSE <<s>>
    BY <1>2, <1>3 DEF PublishersInPlace, PublisherSlot, MessageType
  <2>1. CASE PublisherSlot(s, j) = slot
    <3>1. publishers'[slot] = publisher BY <1>16 DEF Assign
    <3>2. s = stream BY <2>1, <1>15 DEF PublisherSlot
    <3>3. parameters.use_multi_topic => j = i BY <2>1, <1>15 DEF PublisherSlot
    <3> QED BY <2>1, <3>1, <3>2, <3>3, <1>17
  <2>2. CASE PublisherSlot(s, j) # slot
    <3>1. PublisherSlot(s, j) \in DOMAIN publishers
          /\ publishers'[PublisherSlot(s, j)] = publishers[PublisherSlot(s, j)]
      BY <2>2, <1>16 DEF Assign
    <3> QED BY <3>1, <1>1, <1>3 DEF PublishersInPlace
  <2> QED BY <2>1, <2>2
<1>19. PICK f : f = Head(w) OBVIOUS
<1>20. /\ f.source \in DOMAIN index_of /\ index_of[f.source] = i
       /\ f.moved = Moved(f.source, f.data_type)
       /\ f.source \in Address /\ f.data_type \in {High, Low}
       /\ "info" \in listening
  <2>1. f = waiting[q][1] /\ 1 \in 1..Len(waiting[q]) BY <1>7, <1>8, <1>9, <1>11, <1>19
  <2> QED BY <2>1, <1>1, <1>8, <1>11, <1>19 DEF FramesInPlace
<1>21. PICK h : h = f.source OBVIOUS
<1>22. PICK m : m = MessageOn(publisher, stream, i) OBVIOUS
<1>23. /\ m.topic = publisher.topic /\ m.type = publisher.type /\ m.stream = stream /\ m.frame = f
       /\ m.lidar_id \subseteq {lidars[i].handle}
  BY <1>7, <1>19, <1>22 DEF MessageOn
<1>24. /\ DevicesFilled /\ user_configs = <<>>
       /\ Len(UserConfigs) \in Nat /\ DOMAIN UserConfigs = 1..Len(UserConfigs)
       /\ \A n \in DOMAIN UserConfigs : UserConfigs[n].x \in Int
  BY <1>1, <1>20, EntriesAreSeq DEF PhasesInOrder, StartupTypeOK
<1>25. 1..Processed = DOMAIN UserConfigs BY <1>24 DEF Processed
<1>26. Mentioned(h) <=> EntriesOf(h) # {} BY <1>25 DEF Mentioned, EntriesOf
<1>27. m.type = IF m.stream = "imu" THEN "imu"
                ELSE <<"pointcloud2", "custom">>[Byte(Given(launch, "xfer_format", 0)) + 1]
  <2>1. parameters.transfer_format = Byte(Given(launch, "xfer_format", 0))
    BY <1>1, <1>3 DEF ParametersRight
  <2> QED BY <2>1, <1>17, <1>23 DEF MessageType
<1>28. parameters.use_multi_topic = (Byte(Given(launch, "multi_topic", 0)) # 0)
  BY <1>1, <1>3 DEF ParametersRight
<1>29. ~parameters.use_multi_topic => m.topic = <<m.stream>> BY <1>17, <1>23
<1>30. ASSUME EntriesOf(h) = {}
       PROVE  /\ parameters.use_multi_topic => m.topic[2] \notin Address
              /\ m.lidar_id \cap Address = {}
  <2>1. lidars[i].handle = Unset /\ Unset \notin Address
    BY <1>20, <1>21, <1>24, <1>26, <1>30, StartupAssumption DEF DevicesFilled, ZeroConfig
  <2> QED BY <2>1, <1>17, <1>23
<1>31. ASSUME EntriesOf(h) # {}
       PROVE  /\ parameters.use_multi_topic => m.topic = <<m.stream, h>>
              /\ m.lidar_id \subseteq {h}
              /\ \/ m.stream = "imu"
                 \/ ConfigOf(h).pcl_data_type \notin {-1, m.frame.data_type}
                 \/ ConfigOf(h).pcl_data_type = -1 /\ m.frame.data_type = Low
                 \/ Near(m.frame.moved, ConfigOf(h).x)
  <2>1. PICK n \in 1..Processed : FilledFrom(h, n)
    BY <1>20, <1>21, <1>24, <1>26, <1>31 DEF DevicesFilled
  <2>2. ConfigOf(h) = UserConfigs[n]
    <3>1. /\ n \in DOMAIN UserConfigs /\ UserConfigs[n].handle = h
          /\ \A k \in DOMAIN UserConfigs : n < k => UserConfigs[k].handle # h
      BY <2>1, <1>25 DEF FilledFrom
    <3> QED BY <3>1, <1>1, LastEntry DEF StartupTypeOK
  <2>3. lidars[i].handle = h BY <2>1, <1>20, <1>21 DEF FilledFrom
  <2>4. PICK c, d : c = UserConfigs[n] /\ d = f.data_type OBVIOUS
  <2>5. c.x \in Int /\ d \in {High, Low} BY <2>1, <2>4, <1>20, <1>24, <1>25
  <2>6. f.moved = Extrinsics(c) * (IF d = Low THEN 10 ELSE 1)
    BY <2>1, <2>4, <1>20, <1>21 DEF FilledFrom, Moved, Given
  <2>7. c.pcl_data_type = d \/ (c.pcl_data_type = -1 /\ d = High) => Near(f.moved, c.x)
    BY <2>5, <2>6, TranslationIsNear
  <2>8. \/ c.pcl_data_type \notin {-1, d}
        \/ c.pcl_data_type = -1 /\ d = Low
        \/ Near(f.moved, c.x)
    BY <2>5, <2>7
  <2> QED BY <2>2, <2>3, <2>4, <2>8, <1>17, <1>23
<1>32. MessagesAreTheirOwn'
  <2>1. UserConfigs' = UserConfigs BY <1>2, EntriesStay
  <2>2. \A g : EntriesOf(g)' = EntriesOf(g) /\ ConfigOf(g)' = ConfigOf(g)
    BY <2>1 DEF EntriesOf, ConfigOf
  <2>3. last_message' \subseteq {m} /\ m.frame.source = h BY <1>16, <1>21, <1>22, <1>23
  <2> QED BY <2>2, <2>3, <1>2, <1>27, <1>28, <1>29, <1>30, <1>31 DEF MessagesAreTheirOwn
<1> QED BY <1>4, <1>6, <1>13, <1>14, <1>18, <1>32 DEF StartupInv

LEMMA StartupStep == StartupInv /\ [StartupNext]_startupVars => StartupInv'
<1> SUFFICES ASSUME StartupInv, [StartupNext]_startupVars PROVE StartupInv' OBVIOUS
<1>1. CASE UNCHANGED startupVars
  <2>1. /\ StartupTypeOK /\ ParametersRight /\ PhasesInOrder /\ FramesInPlace
        /\ PublishersInPlace /\ MessagesAreTheirOwn
    BY DEF StartupInv
  <2>2. UNCHANGED <<launch, config_file, phase, parameters, user_configs, listening, polling,
                    index_of, lidars, lidar_extrinsics, waiting, publishers, last_message>>
    BY <1>1 DEF startupVars, constructorVars, launchVars, deviceState
  <2>3. PublishersInPlace' /\ MessagesAreTheirOwn' /\ ParametersRight' /\ FramesInPlace'
    BY <2>1, <2>2, PublishersStay, MessagesStay, FramesStay DEF ParametersRight, Given, Byte
  <2>4. StartupTypeOK' BY <2>1, <2>2 DEF StartupTypeOK
  <2>5. DevicesFilled => DevicesFilled' /\ \A g : Mentioned(g)' <=> Mentioned(g)
    BY <2>2, FilledStays
  <2>6. PhasesInOrder' BY <2>1, <2>2, <2>5 DEF PhasesInOrder
  <2> QED BY <2>3, <2>4, <2>6 DEF StartupInv
<1>2. CASE StartupNext
  <2>1. "lidar" \in Stream /\ "imu" \in Stream BY DEF Stream
  <2> QED BY <1>2, <2>1, ConstructorStep, FillStep, AnnounceStep, SamplingStep, ArrivalStep,
             PublishStep DEF StartupNext
<1> QED BY <1>1, <1>2

(***************************************************************************)
(* Whatever the configuration file and the launch arguments, and however   *)
(* announcements and frames interleave with the constructor, a message is  *)
(* on the topic of its device, bears its identity and is moved by the last *)
(* translation that the file gives to it (lddc.cpp:654, lds_lidar.cpp:147).*)
(***************************************************************************)
THEOREM MessagesStayOwn == StartupSpec => []MessagesAreTheirOwn
<1>1. StartupInit => StartupInv BY StartupBegins
<1>2. StartupInv => MessagesAreTheirOwn BY DEF StartupInv
<1> QED BY <1>1, <1>2, StartupStep, PTL DEF StartupSpec

-----------------------------------------------------------------------------
(* Remainders *)

LEMMA Product == ASSUME NEW S \in Nat \ {0}, NEW d \in Int, 0 <= S * d, S * d < S PROVE d = 0
<1>1. CASE d >= 1
  <2>1. S * d >= S * 1 BY <1>1
  <2> QED BY <2>1
<1>2. CASE d <= -1
  <2>1. S * d <= S * (-1) BY <1>2
  <2> QED BY <2>1
<1> QED BY <1>1, <1>2

LEMMA UniqueRemainder ==
  ASSUME NEW S \in Nat \ {0}, NEW q \in Int, NEW r \in 0..(S - 1) PROVE (S * q + r) % S = r
<1> DEFINE x == S * q + r
<1>1. x \in Int OBVIOUS
<1>2. x = S * (x \div S) + (x % S) /\ x % S \in 0..(S - 1) /\ x \div S \in Int BY <1>1
<1> HIDE DEF x
<1>3. S * q + r = S * (x \div S) + (x % S) BY <1>2 DEF x
<1> DEFINE e == q - (x \div S)
<1>0. e \in Int BY <1>2
<1>4. S * e = (x % S) - r
  <2>1. S * (q - (x \div S)) = S * q - S * (x \div S) BY <1>2
  <2> QED BY <1>2, <1>3, <2>1
<1> HIDE DEF e
<1>5. CASE x % S >= r
  <2>1. e = 0 BY <1>0, <1>2, <1>4, <1>5, Product
  <2> QED BY <2>1, <1>2, <1>4 DEF x
<1>6. CASE x % S < r
  <2>1. S * (-e) = r - (x % S) BY <1>0, <1>2, <1>4
  <2>3. -e \in Int /\ r - (x % S) \in 0..(S - 1) BY <1>0, <1>2, <1>6
  <2>2. -e = 0 BY <2>3, <2>1, <1>6, Product
  <2> QED BY <2>2, <1>2, <2>1 DEF x
<1> QED BY <1>2, <1>5, <1>6
LEMMA MaskInjective ==
  ASSUME NEW S \in Nat \ {0}, NEW x \in Nat, NEW y \in Nat, x <= y, y - x < S, x % S = y % S PROVE x = y
<1>1. x = S * (x \div S) + (x % S) /\ y = S * (y \div S) + (y % S) /\ x \div S \in Int /\ y \div S \in Int /\ x % S \in Int
  OBVIOUS
<1> DEFINE d == (y \div S) - (x \div S)
<1>2. S * d = y - x
  <2>1. S * ((y \div S) - (x \div S)) = S * (y \div S) - S * (x \div S) BY <1>1
  <2> QED BY <1>1, <2>1
<1>3. d \in Int BY <1>1
<1> HIDE DEF d
<1>4. d = 0 BY <1>2, <1>3, Product
<1> QED BY <1>2, <1>4
LEMMA MaskOfIndex ==
  ASSUME NEW S \in Nat \ {0}, NEW L \in Nat \ {0}, NEW x \in Nat, x < 2 * (L * S)
  PROVE  (x % (L * S)) % S = x % S
<1> DEFINE M == L * S
<1>1. M \in Nat \ {0} OBVIOUS
<1>2. CASE x < M BY <1>1, <1>2
<1>3. CASE x >= M
  <2>1. x % M = x - M BY <1>1, <1>3
  <2>2. x = S * (x \div S) + (x % S) /\ x \div S \in Int /\ x % S \in 0..(S - 1) OBVIOUS
  <2>3. x - M = S * ((x \div S) - L) + (x % S) BY <2>2
  <2> DEFINE q == (x \div S) - L
  <2>5. q \in Int BY <2>2
  <2> HIDE DEF q
  <2>4. (S * q + (x % S)) % S = x % S BY <2>2, <2>5, UniqueRemainder
  <2> QED BY <2>1, <2>3, <2>4 DEF q
<1> QED BY <1>1, <1>2, <1>3
\* How far apart two indices of a ring are, and when one of them advances.
LEMMA Distance ==
  ASSUME NEW M \in Nat \ {0}, NEW w \in 0..(M - 1), NEW r \in 0..(M - 1)
  PROVE  /\ (w - r) % M = IF w >= r THEN w - r ELSE (w - r) + M
         /\ (w - r) % M \in 0..(M - 1)
         /\ (w - r) % M = 0 <=> w = r
         /\ (r + ((w - r) % M)) % M = w
<1>1. CASE w >= r
  <2>1. (w - r) % M = w - r BY <1>1
  <2>2. r + (w - r) = w OBVIOUS
  <2>3. w % M = w OBVIOUS
  <2> QED BY <1>1, <2>1, <2>2, <2>3
<1>2. CASE w < r
  <2>1. (w - r) % M = (w - r) + M BY <1>2
  <2>2. r + ((w - r) + M) = w + M OBVIOUS
  <2>3. (w + M) % M = w OBVIOUS
  <2> QED BY <1>2, <2>1, <2>2, <2>3
<1> QED BY <1>1, <1>2

LEMMA Advance ==
  ASSUME NEW M \in Nat \ {0}, NEW i \in 0..(M - 1)
  PROVE  /\ (i + 1) % M = IF i = M - 1 THEN 0 ELSE i + 1
         /\ (i + 1) % M \in 0..(M - 1)
<1>1. CASE i = M - 1
  <2>1. i + 1 = M BY <1>1
  <2>2. M % M = 0 OBVIOUS
  <2> QED BY <1>1, <2>1, <2>2
<1>2. CASE i # M - 1
  <2>1. i + 1 \in 0..(M - 1) BY <1>2
  <2> QED BY <1>2, <2>1
<1> QED BY <1>1, <1>2

LEMMA AdvanceDistance ==
  ASSUME NEW M \in Nat \ {0}, NEW w \in 0..(M - 1), NEW r \in 0..(M - 1)
  PROVE  /\ (w - r) % M < M - 1 => (((w + 1) % M) - r) % M = ((w - r) % M) + 1
         /\ (w - r) % M > 0 => (w - ((r + 1) % M)) % M = ((w - r) % M) - 1
<1>1. /\ (w + 1) % M = IF w = M - 1 THEN 0 ELSE w + 1
      /\ (w + 1) % M \in 0..(M - 1)
      /\ (r + 1) % M = IF r = M - 1 THEN 0 ELSE r + 1
      /\ (r + 1) % M \in 0..(M - 1)
  BY Advance
<1> DEFINE v == (w + 1) % M
           q == (r + 1) % M
<1>2. (w - r) % M = IF w >= r THEN w - r ELSE (w - r) + M OBVIOUS
<1> HIDE DEF v, q
<1>3. (v - r) % M = IF v >= r THEN v - r ELSE (v - r) + M BY <1>1 DEF v
<1>4. (w - q) % M = IF w >= q THEN w - q ELSE (w - q) + M BY <1>1 DEF q
<1>5. /\ v = IF w = M - 1 THEN 0 ELSE w + 1
      /\ q = IF r = M - 1 THEN 0 ELSE r + 1
  BY <1>1 DEF v, q
<1>6. (w - r) % M < M - 1 => (v - r) % M = ((w - r) % M) + 1 BY <1>2, <1>3, <1>5
<1>7. (w - r) % M > 0 => (w - q) % M = ((w - r) % M) - 1 BY <1>2, <1>4, <1>5
<1> QED BY <1>6, <1>7 DEF v, q

LEMMA AdvanceThenAdd ==
  ASSUME NEW M \in Nat \ {0}, NEW r \in 0..(M - 1), NEW k \in 0..(M - 1)
  PROVE  (((r + 1) % M) + k) % M = (r + (k + 1)) % M
<1>1. (r + 1) % M = IF r = M - 1 THEN 0 ELSE r + 1 BY Advance
<1>2. CASE r = M - 1
  <2>1. r + (k + 1) = k + M BY <1>2
  <2>2. (k + M) % M = k /\ k % M = k OBVIOUS
  <2>3. ((r + 1) % M) + k = k BY <1>1, <1>2
  <2> QED BY <2>1, <2>2, <2>3
<1>3. CASE r # M - 1
  <2>1. ((r + 1) % M) + k = r + (k + 1) BY <1>1, <1>3
  <2> QED BY <2>1
<1> QED BY <1>2, <1>3

-----------------------------------------------------------------------------
(* The inductive invariant *)

\* A frame that is being written has a slot, and a signal is the first.
StoreInv ==
  /\ spc \in {"write", "advance"} => /\ path = "points"
                                     /\ slots[slidar] # <<>>
                                     /\ Used(slidar) < Size
  /\ spc = "advance" => slots[slidar][Mask(wr_idx[slidar])] = next
  /\ spc = "signal" => count = 0

\* The frame that is copied is still in its slot.
PollInv ==
  /\ ppc \in {"drain", "copied"} => path = "points"
  /\ ppc = "take" => path = "imu"
  /\ ppc = "copied" => /\ Used(plidar) > 0
                       /\ pkg = slots[plidar][Mask(rd_idx[plidar])]

\* No ring, no frames; no frames in rings on the other path.
RingInv == \A l \in Lidar : slots[l] = <<>> => Used(l) = 0

\* NoFrameStuck, for lidars that are not sampling as well.
NoneForgotten ==
  \A l \in Lidar \ passed :
    ~IsEmpty(l) /\ ~request_exit =>
      \/ count > 0
      \/ spc \in {"count", "signal"}
      \/ spc = "empty" /\ slidar = l
      \/ WillVisit(l)

QueueInv == QueueTypeOK /\ StoreInv /\ PollInv /\ RingInv /\ NoneForgotten /\ NoPollAfterExit

-----------------------------------------------------------------------------
(* Rings *)

\* The indices of a ring have more values than the ring has slots.
LEMMA SizesAre ==
  ASSUME setup \in Setups
  PROVE  /\ Size \in Nat \ {0} /\ IndexMod \in Nat \ {0}
         /\ Size < IndexMod /\ IndexMod = Laps * Size
<1>1. Size \in Nat \ {0} BY SizeAssumption DEF Size
<1>2. IndexMod = Laps * Size BY DEF IndexMod
<1>3. Laps * Size >= 2 * Size BY <1>1, QueueAssumption
<1> QED BY <1>1, <1>2, <1>3, QueueAssumption

LEMMA SetupStays ==
  ASSUME [QueueNext]_livoxVars
  PROVE  /\ UNCHANGED setup
         /\ path' = path /\ transfer_format' = transfer_format
         /\ Size' = Size /\ IndexMod' = IndexMod
<1>1. UNCHANGED setup
  BY DEF QueueNext, livoxVars, Arrival, FrameArrives, SampleArrives, StoreStep, WriteSlot,
         AdvanceWrite, TestEmpty, TestCount, SignalSemaphore, PollStep, PollGoes, CheckExit,
         SemaphoreWait, NextLidar, VisitLidar, PassLidar, PollOver, PollAgain, PublishPclMsg,
         CopyFrame, AdvanceRead, Publish, DrainOver, TakeSample, TestSignal, BeginSampling,
         DestructorGoes, RequestExit, Destruction, SetExitSignal, JoinPollThread, PrepareExit
<1> QED BY <1>1 DEF path, transfer_format, Size, IndexMod

LEMMA UsedIs ==
  ASSUME QueueTypeOK, NEW l \in Lidar
  PROVE  Used(l) \in Nat /\ (Used(l) = 0 <=> rd_idx[l] = wr_idx[l])
<1>1. IndexMod \in Nat \ {0} BY SizesAre DEF QueueTypeOK
<1>2. rd_idx[l] \in 0..(IndexMod - 1) /\ wr_idx[l] \in 0..(IndexMod - 1)
  BY DEF QueueTypeOK, Index
<1> QED BY <1>1, <1>2 DEF Used

\* When an index advances, and what stays when nothing of a ring changes.
LEMMA WriteAdvances ==
  ASSUME QueueTypeOK, setup' = setup, NEW l \in Lidar, Used(l) < Size,
         wr_idx' = [wr_idx EXCEPT ![l] = (@ + 1) % IndexMod], UNCHANGED rd_idx
  PROVE  /\ wr_idx' \in [Lidar -> Index]
         /\ Used(l)' = Used(l) + 1
         /\ \A k \in Lidar \ {l} : Used(k)' = Used(k)
<1>1. /\ IndexMod \in Nat \ {0} /\ Size \in Nat \ {0} /\ Size < IndexMod /\ IndexMod' = IndexMod
  BY SizesAre DEF QueueTypeOK, IndexMod, Size
<1>2. rd_idx[l] \in 0..(IndexMod - 1) /\ wr_idx[l] \in 0..(IndexMod - 1)
  BY DEF QueueTypeOK, Index
<1>3. /\ wr_idx'[l] = (wr_idx[l] + 1) % IndexMod
      /\ \A k \in Lidar \ {l} : wr_idx'[k] = wr_idx[k]
  BY DEF QueueTypeOK
<1>4. (wr_idx[l] + 1) % IndexMod \in 0..(IndexMod - 1) BY <1>1, <1>2
<1>5. (wr_idx[l] - rd_idx[l]) % IndexMod < IndexMod - 1 BY <1>1, <1>2 DEF Used
<1>6. (((wr_idx[l] + 1) % IndexMod) - rd_idx[l]) % IndexMod = ((wr_idx[l] - rd_idx[l]) % IndexMod) + 1
  BY <1>1, <1>2, <1>5, AdvanceDistance
<1>7. \A k \in Lidar \ {l} : Used(k)' = Used(k) BY <1>1, <1>3 DEF Used
<1>8. wr_idx' \in [Lidar -> Index] BY <1>4 DEF QueueTypeOK, Index
<1> QED BY <1>1, <1>3, <1>6, <1>7, <1>8 DEF Used

LEMMA ReadAdvances ==
  ASSUME QueueTypeOK, setup' = setup, NEW l \in Lidar, Used(l) > 0,
         rd_idx' = [rd_idx EXCEPT ![l] = (@ + 1) % IndexMod], UNCHANGED wr_idx
  PROVE  /\ rd_idx' \in [Lidar -> Index]
         /\ Used(l)' = Used(l) - 1
         /\ \A k \in Lidar \ {l} : Used(k)' = Used(k)
<1>1. /\ IndexMod \in Nat \ {0} /\ IndexMod' = IndexMod
  BY SizesAre DEF QueueTypeOK, IndexMod, Size
<1>2. rd_idx[l] \in 0..(IndexMod - 1) /\ wr_idx[l] \in 0..(IndexMod - 1)
  BY DEF QueueTypeOK, Index
<1>3. /\ rd_idx'[l] = (rd_idx[l] + 1) % IndexMod
      /\ \A k \in Lidar \ {l} : rd_idx'[k] = rd_idx[k]
  BY DEF QueueTypeOK
<1>4. (rd_idx[l] + 1) % IndexMod \in 0..(IndexMod - 1) BY <1>1, <1>2
<1>5. (wr_idx[l] - ((rd_idx[l] + 1) % IndexMod)) % IndexMod = ((wr_idx[l] - rd_idx[l]) % IndexMod) - 1
  BY <1>1, <1>2, AdvanceDistance DEF Used
<1>6. \A k \in Lidar \ {l} : Used(k)' = Used(k) BY <1>1, <1>3 DEF Used
<1>7. rd_idx' \in [Lidar -> Index] BY <1>4 DEF QueueTypeOK, Index
<1> QED BY <1>1, <1>3, <1>5, <1>6, <1>7 DEF Used

LEMMA RingsStay ==
  ASSUME setup' = setup, UNCHANGED <<rd_idx, wr_idx>>
  PROVE  \A l \in Lidar : Used(l)' = Used(l)
BY DEF Used, IndexMod, Size

-----------------------------------------------------------------------------
(* Types *)

LEMMA QueueTypeStep ==
  ASSUME QueueTypeOK, StoreInv, PollInv, RingInv, [QueueNext]_livoxVars PROVE QueueTypeOK'
<1>0. /\ UNCHANGED setup /\ path' = path /\ Size' = Size /\ Index' = Index
  BY SetupStays DEF Index
<1>1. Size \in Nat \ {0} BY SizesAre DEF QueueTypeOK
<1>2. FrameMod \in Nat \ {0} /\ LidarCount \in Nat \ {0} BY QueueAssumption
<1>3. (next + 1) % FrameMod \in Frame BY <1>2 DEF QueueTypeOK, Frame
<1>4. ASSUME NEW l \in setup.senders, FrameArrives(l) PROVE QueueTypeOK'
  <2>1. l \in Lidar BY QueueAssumption DEF QueueTypeOK, SetupType
  <2>2. UNCHANGED <<rd_idx, wr_idx>> BY <1>4 DEF FrameArrives
  <2>3. \A k \in Lidar : Used(k)' = Used(k) BY <1>0, <2>2, RingsStay
  <2>4. \A k \in Lidar : slots'[k] = <<>> \/ slots'[k] \in [0..(Size - 1) -> Frame \cup {NoFrame}]
    BY <1>4, <2>1 DEF FrameArrives, QueueTypeOK
  <2> QED BY <1>0, <1>3, <1>4, <2>1, <2>3, <2>4 DEF FrameArrives, QueueTypeOK, exitVars, pollVars, StorePC
<1>5. CASE WriteSlot
  <2>1. slidar \in Lidar /\ next \in Frame BY DEF QueueTypeOK
  <2>2. wr_idx[slidar] % Size \in 0..(Size - 1)
    BY <1>1, <2>1, SizesAre DEF QueueTypeOK, Index
  <2>3. slots[slidar] \in [0..(Size - 1) -> Frame \cup {NoFrame}]
    BY <1>5, <2>1 DEF WriteSlot, StoreInv, QueueTypeOK
  <2>4. \A k \in Lidar : slots'[k] = <<>> \/ slots'[k] \in [0..(Size - 1) -> Frame \cup {NoFrame}]
    BY <1>5, <2>1, <2>2, <2>3 DEF WriteSlot, Mask, QueueTypeOK
  <2>5. \A k \in Lidar : Used(k)' = Used(k) BY <1>0, <1>5, RingsStay DEF WriteSlot
  <2> QED BY <1>0, <1>5, <2>4, <2>5 DEF WriteSlot, QueueTypeOK, exitVars, pollVars, StorePC
<1>6. CASE AdvanceWrite
  <2>1. PICK s \in Lidar : s = slidar /\ Used(s) < Size
    BY <1>6 DEF AdvanceWrite, StoreInv, QueueTypeOK
  <2>2. /\ wr_idx' \in [Lidar -> Index]
        /\ Used(s)' = Used(s) + 1
        /\ \A k \in Lidar \ {s} : Used(k)' = Used(k)
    BY <1>0, <1>6, <2>1, WriteAdvances DEF AdvanceWrite
  <2>3. \A k \in Lidar : Used(k) \in Nat /\ Used(k) <= Size BY UsedIs DEF QueueTypeOK
  <2>4. \A k \in Lidar : Used(k)' <= Size BY <1>1, <2>1, <2>2, <2>3
  <2> QED BY <1>0, <1>3, <1>6, <2>2, <2>4 DEF AdvanceWrite, QueueTypeOK, exitVars, pollVars, StorePC
<1>7. ASSUME NEW l \in setup.senders, SampleArrives(l) PROVE QueueTypeOK'
  <2>1. l \in Lidar BY QueueAssumption DEF QueueTypeOK, SetupType
  <2>2. \A k \in Lidar : Used(k)' = Used(k) BY <1>0, <1>7, RingsStay DEF SampleArrives
  <2>3. \A k \in Lidar : imu_queue'[k] \in Seq(Frame)
    BY <1>7, <2>1 DEF SampleArrives, QueueTypeOK
  <2> QED BY <1>0, <1>3, <1>7, <2>1, <2>2, <2>3 DEF SampleArrives, QueueTypeOK, exitVars, pollVars, StorePC
<1>8. CASE TestEmpty \/ TestCount
  <2>1. \A k \in Lidar : Used(k)' = Used(k)
    BY <1>0, <1>8, RingsStay DEF TestEmpty, TestCount, queueVars
  <2> QED BY <1>0, <1>8, <2>1 DEF TestEmpty, TestCount, QueueTypeOK, queueVars, exitVars, pollVars, StorePC
<1>9. CASE SignalSemaphore
  <2>1. \A k \in Lidar : Used(k)' = Used(k)
    BY <1>0, <1>9, RingsStay DEF SignalSemaphore, queueVars
  <2> QED BY <1>0, <1>9, <2>1 DEF SignalSemaphore, StoreInv, QueueTypeOK, queueVars, exitVars, pollVars, StorePC
<1>10. CASE \/ CheckExit \/ SemaphoreWait \/ VisitLidar \/ PassLidar \/ PollOver \/ PollAgain
            \/ PublishPclMsg \/ Publish \/ DrainOver \/ TestSignal
  <2>1. UNCHANGED <<slots, rd_idx, wr_idx, imu_queue>>
    BY <1>10 DEF CheckExit, SemaphoreWait, VisitLidar, PassLidar, PollOver, PollAgain,
                 PublishPclMsg, Publish, DrainOver, TestSignal, queueVars
  <2>2. \A k \in Lidar : Used(k)' = Used(k) BY <1>0, <2>1, RingsStay
  <2>3. UNCHANGED <<sampling, exitVars, storeVars>> /\ ppc' \in PollPC
    BY <1>10 DEF CheckExit, SemaphoreWait, VisitLidar, PassLidar, NextLidar, PollOver, PollAgain,
                 PublishPclMsg, Publish, DrainOver, TestSignal, PollGoes, PollPC
  <2>4. count' \in {0, 1}
    BY <1>10 DEF CheckExit, SemaphoreWait, VisitLidar, PassLidar, PollOver, PollAgain,
                 PublishPclMsg, Publish, DrainOver, TestSignal, QueueTypeOK
  <2>5. plidar' \in Lidar
    BY <1>2, <1>10 DEF CheckExit, SemaphoreWait, VisitLidar, PassLidar, NextLidar, PollOver, PollAgain,
                 PublishPclMsg, Publish, DrainOver, TestSignal, QueueTypeOK, Lidar
  <2>6. pkg' \in Frame \cup {NoFrame} /\ passed' \subseteq Lidar
    BY <1>10 DEF CheckExit, SemaphoreWait, VisitLidar, PassLidar, PollOver, PollAgain,
                 PublishPclMsg, Publish, DrainOver, TestSignal, QueueTypeOK
  <2> QED BY <1>0, <2>1, <2>2, <2>3, <2>4, <2>5, <2>6 DEF QueueTypeOK, exitVars, storeVars
<1>11. CASE CopyFrame
  <2>1. \A k \in Lidar : Used(k)' = Used(k)
    BY <1>0, <1>11, RingsStay DEF CopyFrame, queueVars
  <2>2. plidar \in Lidar /\ path = "points" /\ rd_idx[plidar] # wr_idx[plidar]
    BY <1>11 DEF CopyFrame, PollInv, IsEmpty, QueueTypeOK
  <2>3. slots[plidar] \in [0..(Size - 1) -> Frame \cup {NoFrame}]
    <3>1. Used(plidar) # 0 BY <2>2, UsedIs
    <3> QED BY <2>2, <3>1 DEF RingInv, QueueTypeOK
  <2>4. rd_idx[plidar] % Size \in 0..(Size - 1)
    BY <1>1, <2>2, SizesAre DEF QueueTypeOK, Index
  <2>5. pkg' \in Frame \cup {NoFrame} BY <1>11, <2>3, <2>4 DEF CopyFrame, Mask
  <2> QED BY <1>0, <1>11, <2>1, <2>5 DEF CopyFrame, PollGoes, QueueTypeOK, queueVars, exitVars, storeVars, PollPC
<1>12. CASE AdvanceRead
  <2>1. PICK s \in Lidar : s = plidar /\ Used(s) > 0 BY <1>12 DEF AdvanceRead, PollInv, QueueTypeOK
  <2>2. /\ rd_idx' \in [Lidar -> Index]
        /\ Used(s)' = Used(s) - 1
        /\ \A k \in Lidar \ {s} : Used(k)' = Used(k)
    BY <1>0, <1>12, <2>1, ReadAdvances DEF AdvanceRead
  <2>3. \A k \in Lidar : Used(k) \in Nat /\ Used(k) <= Size BY UsedIs DEF QueueTypeOK
  <2>4. \A k \in Lidar : Used(k)' <= Size BY <1>1, <2>1, <2>2, <2>3
  <2> QED BY <1>0, <1>12, <2>2, <2>4 DEF AdvanceRead, PollGoes, QueueTypeOK, exitVars, storeVars, PollPC
<1>13. CASE TakeSample
  <2>1. plidar \in Lidar /\ imu_queue[plidar] \in Seq(Frame) /\ imu_queue[plidar] # <<>>
    BY <1>13 DEF TakeSample, PollInv, IsEmpty, QueueTypeOK
  <2>2. Head(imu_queue[plidar]) \in Frame /\ Tail(imu_queue[plidar]) \in Seq(Frame) BY <2>1
  <2>3. \A k \in Lidar : imu_queue'[k] \in Seq(Frame)
    BY <1>13, <2>1, <2>2 DEF TakeSample, QueueTypeOK
  <2>4. \A k \in Lidar : Used(k)' = Used(k) BY <1>0, <1>13, RingsStay DEF TakeSample
  <2> QED
    BY <1>0, <1>13, <2>2, <2>3, <2>4 DEF TakeSample, PollGoes, QueueTypeOK, exitVars, storeVars, PollPC
<1>14. ASSUME NEW l \in setup.senders, BeginSampling(l) PROVE QueueTypeOK'
  <2>1. l \in Lidar BY QueueAssumption DEF QueueTypeOK, SetupType
  <2>2. \A k \in Lidar : Used(k)' = Used(k)
    BY <1>0, <1>14, RingsStay DEF BeginSampling, queueVars
  <2> QED
    BY <1>0, <1>14, <2>1, <2>2 DEF BeginSampling, QueueTypeOK, queueVars, exitVars, storeVars, pollVars
<1>15. CASE RequestExit \/ Destruction
  <2>1. \A k \in Lidar : Used(k)' = Used(k)
    BY <1>0, <1>15, RingsStay DEF RequestExit, Destruction, SetExitSignal, JoinPollThread, PrepareExit,
                                  DestructorGoes, queueVars
  <2> QED
    BY <1>0, <1>15, <2>1 DEF RequestExit, Destruction, SetExitSignal, JoinPollThread, PrepareExit,
                             DestructorGoes, QueueTypeOK, queueVars, storeVars, pollVars, DestructorPC
<1>16. CASE UNCHANGED livoxVars
  <2>1. \A k \in Lidar : Used(k)' = Used(k) BY <1>0, <1>16, RingsStay DEF livoxVars, queueVars
  <2> QED
    BY <1>0, <1>16, <2>1 DEF livoxVars, QueueTypeOK, queueVars, exitVars, storeVars, pollVars
<1> QED
  BY <1>4, <1>5, <1>6, <1>7, <1>8, <1>9, <1>10, <1>11, <1>12, <1>13, <1>14, <1>15, <1>16
  DEF QueueNext, Arrival, StoreStep, PollStep

-----------------------------------------------------------------------------
(* Slots *)

\* Positions of a ring that are less than a round apart.
LEMMA SlotsDiffer ==
  ASSUME QueueTypeOK, NEW l \in Lidar,
         NEW i \in 0..(Size - 1), NEW j \in 0..(Size - 1), i # j
  PROVE  Mask((rd_idx[l] + i) % IndexMod) # Mask((rd_idx[l] + j) % IndexMod)
<1>1. /\ Size \in Nat \ {0} /\ IndexMod = Laps * Size /\ Size < IndexMod /\ Laps \in Nat \ {0}
  BY SizesAre, QueueAssumption DEF QueueTypeOK
<1>2. rd_idx[l] \in 0..(IndexMod - 1) BY DEF QueueTypeOK, Index
<1>3. ASSUME NEW k \in 0..(Size - 1) PROVE Mask((rd_idx[l] + k) % IndexMod) = (rd_idx[l] + k) % Size
  <2>1. rd_idx[l] + k \in Nat /\ rd_idx[l] + k < 2 * (Laps * Size) BY <1>1, <1>2
  <2> QED BY <1>1, <2>1, MaskOfIndex DEF Mask
<1>4. rd_idx[l] \in Nat BY <1>1, <1>2
<1>5. (rd_idx[l] + i) % Size # (rd_idx[l] + j) % Size
  <2> DEFINE a == rd_idx[l] + i
             b == rd_idx[l] + j
  <2>1. a \in Nat /\ b \in Nat /\ a # b /\ a - b < Size /\ b - a < Size BY <1>1, <1>4
  <2> HIDE DEF a, b
  <2>2. a <= b => a % Size # b % Size BY <1>1, <2>1, MaskInjective
  <2>3. b <= a => a % Size # b % Size BY <1>1, <2>1, MaskInjective
  <2>4. a % Size # b % Size BY <2>1, <2>2, <2>3
  <2> QED BY <2>4 DEF a, b
<1> QED BY <1>3, <1>5

\* The slot that is written next is the one after the last frame.
LEMMA WritePosition ==
  ASSUME QueueTypeOK, NEW l \in Lidar
  PROVE  wr_idx[l] = (rd_idx[l] + Used(l)) % IndexMod
<1>1. IndexMod \in Nat \ {0} BY SizesAre DEF QueueTypeOK
<1>2. rd_idx[l] \in 0..(IndexMod - 1) /\ wr_idx[l] \in 0..(IndexMod - 1)
  BY DEF QueueTypeOK, Index
<1> DEFINE w == wr_idx[l]
           r == rd_idx[l]
<1> HIDE DEF w, r
<1>3. (r + ((w - r) % IndexMod)) % IndexMod = w BY <1>1, <1>2, Distance, ZenonT(60) DEF w, r
<1> QED BY <1>3 DEF w, r, Used

\* Where frame i of a ring is, counted from 0.
SlotOf(l, i) == Mask((rd_idx[l] + i) % IndexMod)

LEMMA WriteIsElsewhere ==
  ASSUME QueueTypeOK, NEW l \in Lidar, Used(l) < Size, NEW i \in 0..(Used(l) - 1)
  PROVE  SlotOf(l, i) # Mask(wr_idx[l])
<1>1. Used(l) \in 0..(Size - 1) /\ i \in 0..(Size - 1) /\ i # Used(l)
  BY UsedIs, SizesAre DEF QueueTypeOK
<1> QED BY <1>1, SlotsDiffer, WritePosition DEF SlotOf

-----------------------------------------------------------------------------
(* The steps of the storing thread and of the poll thread *)

\* A ring that has been made is not <<>>.
LEMMA RingIsMade ==
  ASSUME NEW S \in Nat \ {0}, NEW T, NEW f \in [0..(S - 1) -> T] PROVE f # <<>>
<1>1. 0 \in DOMAIN f OBVIOUS
<1>2. 0 \notin DOMAIN <<>> OBVIOUS
<1> QED BY <1>1, <1>2

LEMMA PathIs == ASSUME QueueTypeOK PROVE path \in {"points", "imu"}
BY QueueAssumption DEF QueueTypeOK, SetupType, path

LEMMA StoreStepInv ==
  ASSUME QueueTypeOK, StoreInv, PollInv, RingInv, [QueueNext]_livoxVars PROVE StoreInv'
<1>0. /\ UNCHANGED setup /\ path' = path /\ Size' = Size /\ \A i : Mask(i)' = Mask(i)
  BY SetupStays DEF Mask
<1>1. Size \in Nat \ {0} BY SizesAre DEF QueueTypeOK
<1>2. ASSUME NEW l \in setup.senders, FrameArrives(l) PROVE StoreInv'
  <2>1. l \in Lidar BY QueueAssumption DEF QueueTypeOK, SetupType
  <2>2. Used(l)' = Used(l) BY <1>0, <1>2, <2>1, RingsStay DEF FrameArrives
  <2>3. slots'[l] # <<>>
    <3> DEFINE ring == [i \in 0..(Size - 1) |-> NoFrame]
    <3>1. ring \in [0..(Size - 1) -> {NoFrame}] OBVIOUS
    <3>2. ring # <<>> BY <1>1, <3>1, RingIsMade
    <3> HIDE DEF ring
    <3>3. slots' = IF slots[l] # <<>> THEN slots ELSE [slots EXCEPT ![l] = ring]
      BY <1>2 DEF FrameArrives, ring
    <3> QED BY <2>1, <3>2, <3>3 DEF QueueTypeOK
  <2>4. Used(l) \in Nat BY <2>1, UsedIs
  <2>5. slidar' = l /\ spc' \in {"count", "write"} /\ (spc' = "write" => ~IsFull(l)) /\ path = "points"
    BY <1>2 DEF FrameArrives
  <2>6. spc' = "write" => Used(l)' < Size BY <1>1, <2>2, <2>4, <2>5 DEF IsFull
  <2> QED BY <1>0, <2>3, <2>5, <2>6 DEF StoreInv
<1>3. CASE WriteSlot
  <2> DEFINE m == Mask(wr_idx[slidar])
  <2>1. PICK s \in Lidar : s = slidar BY DEF QueueTypeOK
  <2>2. slots[s] \in [0..(Size - 1) -> Frame \cup {NoFrame}] /\ path = "points" /\ Used(s) < Size
    BY <1>3, <2>1 DEF WriteSlot, StoreInv, QueueTypeOK
  <2>3. wr_idx[s] % Size \in 0..(Size - 1)
    BY <1>1, <2>1, SizesAre DEF QueueTypeOK, Index
  <2>4. slots' = [slots EXCEPT ![s][Mask(wr_idx[s])] = next] BY <1>3, <2>1 DEF WriteSlot
  <2>5. slots'[s] = [slots[s] EXCEPT ![Mask(wr_idx[s])] = next]
    BY <2>1, <2>4 DEF QueueTypeOK
  <2>6. slots'[s] \in [0..(Size - 1) -> Frame \cup {NoFrame}] /\ slots'[s][Mask(wr_idx[s])] = next
    BY <2>2, <2>3, <2>5 DEF QueueTypeOK, Mask
  <2>7. slots'[s] # <<>> BY <1>1, <2>6, RingIsMade
  <2>8. Used(s)' = Used(s) BY <1>0, <1>3, <2>1, RingsStay DEF WriteSlot
  <2>9. slidar' = s /\ wr_idx' = wr_idx /\ next' = next /\ spc' = "advance" BY <1>3, <2>1 DEF WriteSlot
  <2> QED BY <1>0, <2>2, <2>6, <2>7, <2>8, <2>9 DEF StoreInv
<1>4. CASE AdvanceWrite \/ TestEmpty \/ SignalSemaphore BY <1>4 DEF AdvanceWrite, TestEmpty, SignalSemaphore, StoreInv
<1>5. CASE TestCount BY <1>5 DEF TestCount, StoreInv, QueueTypeOK
<1>6. ASSUME NEW l \in setup.senders, SampleArrives(l) PROVE StoreInv'
  BY <1>6 DEF SampleArrives, StoreInv
<1>7. ASSUME UNCHANGED <<slots, rd_idx, wr_idx, count, storeVars>> PROVE StoreInv'
  <2>1. PICK s \in Lidar : s = slidar BY DEF QueueTypeOK
  <2>2. Used(s)' = Used(s) BY <1>0, <1>7, <2>1, RingsStay
  <2> QED BY <1>0, <1>7, <2>1, <2>2 DEF StoreInv, storeVars
<1>8. CASE SemaphoreWait
  <2>1. PICK s \in Lidar : s = slidar BY DEF QueueTypeOK
  <2>2. UNCHANGED <<slots, rd_idx, wr_idx, storeVars>> /\ count > 0
    BY <1>8 DEF SemaphoreWait, PollGoes, queueVars
  <2>3. Used(s)' = Used(s) BY <1>0, <2>1, <2>2, RingsStay
  <2> QED BY <1>0, <2>1, <2>2, <2>3 DEF StoreInv, storeVars
<1>9. CASE AdvanceRead
  <2>1. PICK s \in Lidar : s = slidar BY DEF QueueTypeOK
  <2>2. PICK p \in Lidar : p = plidar /\ Used(p) > 0 BY <1>9 DEF AdvanceRead, PollInv, QueueTypeOK
  <2>3. /\ Used(p)' = Used(p) - 1
        /\ \A k \in Lidar \ {p} : Used(k)' = Used(k)
    BY <1>0, <1>9, <2>2, ReadAdvances DEF AdvanceRead
  <2>4. Used(s) \in Nat /\ Used(p) \in Nat BY UsedIs
  <2>5. Used(s) < Size => Used(s)' < Size
    <3>1. CASE s = p BY <1>1, <2>3, <2>4, <3>1
    <3>2. CASE s # p BY <2>3, <3>2
    <3> QED BY <3>1, <3>2
  <2> QED BY <1>0, <1>9, <2>1, <2>5 DEF AdvanceRead, PollGoes, StoreInv, storeVars
<1>10. CASE CheckExit \/ VisitLidar \/ PassLidar \/ PollOver \/ PollAgain \/ PublishPclMsg
            \/ CopyFrame \/ DrainOver \/ Publish \/ TestSignal
  <2>1. UNCHANGED <<slots, rd_idx, wr_idx, count, storeVars>>
    BY <1>10 DEF CheckExit, VisitLidar, PassLidar, NextLidar, PollOver, PollAgain, PublishPclMsg,
                 CopyFrame, DrainOver, Publish, TestSignal, PollGoes, queueVars
  <2> QED BY <2>1, <1>7
<1>11. CASE TakeSample BY <1>7, <1>11 DEF TakeSample, PollGoes
<1>12. CASE RequestExit \/ Destruction \/ UNCHANGED livoxVars \/ \E l \in setup.senders : BeginSampling(l)
  <2>1. UNCHANGED <<slots, rd_idx, wr_idx, count, storeVars>>
    BY <1>12 DEF RequestExit, Destruction, SetExitSignal, JoinPollThread, PrepareExit,
                 DestructorGoes, BeginSampling, livoxVars, queueVars
  <2> QED BY <2>1, <1>7
<1> QED
  BY <1>2, <1>3, <1>4, <1>5, <1>6, <1>8, <1>9, <1>10, <1>11, <1>12
  DEF QueueNext, Arrival, StoreStep, PollStep

\* What the storing thread may do to the rings: it makes one, or writes to a
\* slot that holds no frame.
LEMMA SlotsStay ==
  ASSUME QueueTypeOK, StoreInv, RingInv, [QueueNext]_livoxVars,
         NEW l \in Lidar, NEW i \in 0..(Used(l) - 1)
  PROVE  slots'[l][SlotOf(l, i)] = slots[l][SlotOf(l, i)]
<1>1. Used(l) \in Nat /\ Used(l) # 0 /\ slots[l] # <<>> BY UsedIs DEF RingInv
<1>2. ASSUME NEW s \in setup.senders, FrameArrives(s) PROVE slots'[l] = slots[l]
  <2>1. s \in Lidar BY QueueAssumption DEF QueueTypeOK, SetupType
  <2> QED BY <1>1, <1>2, <2>1 DEF FrameArrives, QueueTypeOK
<1>3. CASE WriteSlot
  <2>1. slidar \in Lidar /\ slots' = [slots EXCEPT ![slidar][Mask(wr_idx[slidar])] = next]
    BY <1>3 DEF WriteSlot, QueueTypeOK
  <2>2. CASE l = slidar
    <3>1. Used(l) < Size BY <1>3, <2>2 DEF WriteSlot, StoreInv
    <3>2. SlotOf(l, i) # Mask(wr_idx[l]) BY <3>1, WriteIsElsewhere
    <3>3. slots'[l] = [slots[l] EXCEPT ![Mask(wr_idx[l])] = next] BY <2>1, <2>2 DEF QueueTypeOK
    <3> QED BY <3>2, <3>3
  <2>3. CASE l # slidar BY <2>1, <2>3 DEF QueueTypeOK
  <2> QED BY <2>2, <2>3
<1>4. ASSUME ~WriteSlot, ~\E s \in setup.senders : FrameArrives(s) PROVE slots' = slots
  BY <1>4 DEF QueueNext, Arrival, SampleArrives, StoreStep, AdvanceWrite, TestEmpty, TestCount,
         SignalSemaphore, PollStep, CheckExit, SemaphoreWait, VisitLidar, PassLidar, PollOver,
         PollAgain, PublishPclMsg, CopyFrame, AdvanceRead, DrainOver, TakeSample, Publish,
         TestSignal, BeginSampling, RequestExit, Destruction, SetExitSignal, JoinPollThread,
         PrepareExit, DestructorGoes, queueVars, livoxVars
<1> QED BY <1>2, <1>3, <1>4

\* An index advances in one action each.
LEMMA UsedMoves ==
  ASSUME QueueTypeOK, StoreInv, PollInv, [QueueNext]_livoxVars, NEW l \in Lidar
  PROVE  /\ AdvanceWrite => Used(l)' = IF l = slidar THEN Used(l) + 1 ELSE Used(l)
         /\ AdvanceRead => Used(l)' = IF l = plidar THEN Used(l) - 1 ELSE Used(l)
         /\ ~AdvanceWrite /\ ~AdvanceRead => Used(l)' = Used(l)
<1>0. UNCHANGED setup BY SetupStays
<1>1. CASE AdvanceWrite
  <2>1. PICK s \in Lidar : s = slidar /\ Used(s) < Size
    BY <1>1 DEF AdvanceWrite, StoreInv, QueueTypeOK
  <2>2. /\ Used(s)' = Used(s) + 1
        /\ \A k \in Lidar \ {s} : Used(k)' = Used(k)
    BY <1>0, <1>1, <2>1, WriteAdvances DEF AdvanceWrite
  <2>3. ~AdvanceRead BY <1>1 DEF AdvanceWrite, AdvanceRead, PollGoes, storeVars, QueueTypeOK
  <2>4. l = s \/ l \in Lidar \ {s} OBVIOUS
  <2> QED BY <1>1, <2>1, <2>2, <2>3, <2>4
<1>2. CASE AdvanceRead
  <2>1. PICK p \in Lidar : p = plidar /\ Used(p) > 0
    BY <1>2 DEF AdvanceRead, PollInv, QueueTypeOK
  <2>2. /\ Used(p)' = Used(p) - 1
        /\ \A k \in Lidar \ {p} : Used(k)' = Used(k)
    BY <1>0, <1>2, <2>1, ReadAdvances DEF AdvanceRead
  <2>3. ~AdvanceWrite BY <1>2 DEF AdvanceWrite, AdvanceRead, PollGoes, storeVars, QueueTypeOK
  <2>4. l = p \/ l \in Lidar \ {p} OBVIOUS
  <2> QED BY <1>2, <2>1, <2>2, <2>3, <2>4
<1>3. ASSUME ~AdvanceWrite, ~AdvanceRead PROVE UNCHANGED <<rd_idx, wr_idx>>
  BY <1>3 DEF QueueNext, Arrival, FrameArrives, SampleArrives, StoreStep, WriteSlot, TestEmpty, TestCount,
         SignalSemaphore, PollStep, CheckExit, SemaphoreWait, VisitLidar, PassLidar, PollOver,
         PollAgain, PublishPclMsg, CopyFrame, DrainOver, TakeSample, Publish,
         TestSignal, BeginSampling, RequestExit, Destruction, SetExitSignal, JoinPollThread,
         PrepareExit, DestructorGoes, queueVars, livoxVars
<1> QED BY <1>0, <1>1, <1>2, <1>3, RingsStay

LEMMA PollStepInv ==
  ASSUME QueueTypeOK, StoreInv, PollInv, RingInv, [QueueNext]_livoxVars PROVE PollInv'
<1>0. /\ UNCHANGED setup /\ path' = path /\ Size' = Size /\ \A i : Mask(i)' = Mask(i)
  BY SetupStays DEF Mask
<1>1. Size \in Nat \ {0} /\ IndexMod \in Nat \ {0} BY SizesAre DEF QueueTypeOK
\* A frame that has been copied stays where it is.
<1>2. ASSUME UNCHANGED <<rd_idx, ppc, plidar, pkg>> PROVE PollInv'
  <2>1. PICK p \in Lidar : p = plidar BY DEF QueueTypeOK
  <2>2. ASSUME ppc = "copied" PROVE Used(p)' > 0 /\ pkg = slots'[p][Mask(rd_idx[p])]
    <3>1. Used(p) \in Nat /\ Used(p) > 0 /\ pkg = slots[p][Mask(rd_idx[p])]
      BY <2>1, <2>2, UsedIs DEF PollInv
    <3>2. Used(p)' = Used(p) \/ Used(p)' = Used(p) + 1
      <4>1. ~AdvanceRead BY <1>2, <2>2 DEF AdvanceRead, PollGoes
      <4> QED BY <4>1, UsedMoves
    <3>3. SlotOf(p, 0) = Mask(rd_idx[p])
      <4>1. rd_idx[p] \in 0..(IndexMod - 1) BY DEF QueueTypeOK, Index
      <4>2. (rd_idx[p] + 0) % IndexMod = rd_idx[p] BY <1>1, <4>1
      <4> QED BY <4>2 DEF SlotOf
    <3>4. slots'[p][SlotOf(p, 0)] = slots[p][SlotOf(p, 0)]
      <4>1. 0 \in 0..(Used(p) - 1) BY <3>1
      <4> QED BY <4>1, SlotsStay
    <3> QED BY <3>1, <3>2, <3>3, <3>4
  <2> QED BY <1>0, <1>2, <2>1, <2>2 DEF PollInv
<1>3. ASSUME Arrival \/ StoreStep PROVE PollInv'
  <2>1. UNCHANGED <<rd_idx, ppc, plidar, pkg>>
    BY <1>3 DEF Arrival, FrameArrives, SampleArrives, StoreStep, WriteSlot, AdvanceWrite, TestEmpty,
         TestCount, SignalSemaphore, queueVars, pollVars
  <2> QED BY <1>2, <2>1
<1>4. CASE RequestExit \/ Destruction \/ UNCHANGED livoxVars \/ \E l \in setup.senders : BeginSampling(l)
  <2>1. UNCHANGED <<rd_idx, ppc, plidar, pkg>>
    BY <1>4 DEF RequestExit, Destruction, SetExitSignal, JoinPollThread, PrepareExit,
                 DestructorGoes, BeginSampling, livoxVars, queueVars, pollVars
  <2> QED BY <2>1, <1>2
<1>5. CASE CopyFrame
  <2>1. PICK p \in Lidar : p = plidar BY DEF QueueTypeOK
  <2>2. path = "points" /\ rd_idx[p] # wr_idx[p]
    BY <1>5, <2>1 DEF CopyFrame, PollInv, IsEmpty
  <2>3. Used(p) \in Nat /\ Used(p) # 0 BY <2>2, UsedIs
  <2>4. Used(p)' = Used(p) BY <1>0, <1>5, RingsStay DEF CopyFrame, queueVars
  <2>5. UNCHANGED <<slots, rd_idx, plidar>> /\ pkg' = slots[p][Mask(rd_idx[p])] /\ ppc' = "copied"
    BY <1>5, <2>1 DEF CopyFrame, PollGoes, queueVars
  <2> QED BY <1>0, <2>1, <2>2, <2>3, <2>4, <2>5 DEF PollInv
<1>6. CASE PollAgain \/ PublishPclMsg \/ DrainOver \/ Publish
  BY <1>0, <1>6, PathIs DEF PollAgain, PublishPclMsg, DrainOver, Publish, PollGoes, PollInv
<1>7. CASE \/ CheckExit \/ SemaphoreWait \/ VisitLidar \/ PassLidar \/ PollOver \/ AdvanceRead
           \/ TakeSample \/ TestSignal
  BY <1>7 DEF CheckExit, SemaphoreWait, VisitLidar, PassLidar, NextLidar, PollOver,
              AdvanceRead, TakeSample, TestSignal, PollGoes, PollInv
<1> QED BY <1>3, <1>4, <1>5, <1>6, <1>7 DEF QueueNext, PollStep

LEMMA RingStepInv ==
  ASSUME QueueTypeOK, StoreInv, PollInv, RingInv, [QueueNext]_livoxVars PROVE RingInv'
<1> SUFFICES ASSUME NEW l \in Lidar, slots'[l] = <<>> PROVE Used(l)' = 0
  BY DEF RingInv
<1>1. Used(l) = 0
  <2>1. ASSUME slots[l] # <<>> PROVE FALSE
    <3>1. ASSUME NEW s \in setup.senders, FrameArrives(s) PROVE FALSE
      <4>1. s \in Lidar BY QueueAssumption DEF QueueTypeOK, SetupType
      <4> QED BY <2>1, <3>1, <4>1 DEF FrameArrives, QueueTypeOK
    <3>2. CASE WriteSlot
      <4>1. QueueTypeOK' /\ StoreInv' BY QueueTypeStep, StoreStepInv
      <4>2. l # slidar BY <3>2, <4>1 DEF WriteSlot, StoreInv
      <4> QED BY <2>1, <3>2, <4>2 DEF WriteSlot, QueueTypeOK
    <3>3. ASSUME ~WriteSlot, ~\E s \in setup.senders : FrameArrives(s) PROVE slots' = slots
      BY <3>3 DEF QueueNext, Arrival, SampleArrives, StoreStep, AdvanceWrite, TestEmpty, TestCount,
             SignalSemaphore, PollStep, CheckExit, SemaphoreWait, VisitLidar, PassLidar, PollOver,
             PollAgain, PublishPclMsg, CopyFrame, AdvanceRead, DrainOver, TakeSample, Publish,
             TestSignal, BeginSampling, RequestExit, Destruction, SetExitSignal, JoinPollThread,
             PrepareExit, DestructorGoes, queueVars, livoxVars
    <3> QED BY <2>1, <3>1, <3>2, <3>3
  <2> QED BY <2>1 DEF RingInv
<1>2. ~(AdvanceWrite /\ l = slidar) BY DEF AdvanceWrite, StoreInv
<1>3. ~(AdvanceRead /\ l = plidar) BY <1>1 DEF AdvanceRead, PollInv
<1> QED BY <1>1, <1>2, <1>3, UsedMoves

LEMMA ExitStepInv ==
  ASSUME NoPollAfterExit, [QueueNext]_livoxVars PROVE NoPollAfterExit'
<1>1. ASSUME Arrival \/ StoreStep \/ UNCHANGED livoxVars \/ \E l \in setup.senders : BeginSampling(l)
      PROVE  NoPollAfterExit'
  BY <1>1 DEF Arrival, FrameArrives, SampleArrives, StoreStep, WriteSlot, AdvanceWrite, TestEmpty,
         TestCount, SignalSemaphore, BeginSampling, livoxVars, exitVars, pollVars, NoPollAfterExit
<1>2. CASE PollStep
  BY <1>2 DEF PollStep, CheckExit, SemaphoreWait, VisitLidar, PassLidar, NextLidar, PollOver,
         PollAgain, PublishPclMsg, CopyFrame, AdvanceRead, DrainOver, TakeSample, Publish,
         TestSignal, PollGoes, exitVars, NoPollAfterExit
<1>3. CASE RequestExit \/ Destruction
  BY <1>3 DEF RequestExit, Destruction, SetExitSignal, JoinPollThread, PrepareExit,
              DestructorGoes, pollVars, NoPollAfterExit
<1> QED BY <1>1, <1>2, <1>3 DEF QueueNext

-----------------------------------------------------------------------------
(* Wakeups *)

\* While nothing is put into a queue, an empty one stays empty.
EmptyStays(l) == IsEmpty(l) => IsEmpty(l)'

LEMMA EmptyUnlessStored ==
  ASSUME QueueTypeOK, StoreInv, PollInv, [QueueNext]_livoxVars, NEW l \in Lidar,
         ~(spc' = "empty" /\ slidar' = l)
  PROVE  EmptyStays(l)
<1>0. UNCHANGED setup /\ path' = path BY SetupStays
<1>1. CASE path = "imu"
  <2>1. UNCHANGED imu_queue \/ TakeSample \/ \E s \in setup.senders : SampleArrives(s)
    BY DEF QueueNext, Arrival, FrameArrives, StoreStep, WriteSlot, AdvanceWrite, TestEmpty, TestCount,
         SignalSemaphore, PollStep, CheckExit, SemaphoreWait, VisitLidar, PassLidar, PollOver,
         PollAgain, PublishPclMsg, CopyFrame, AdvanceRead, DrainOver, TakeSample, Publish,
         TestSignal, BeginSampling, RequestExit, Destruction, SetExitSignal, JoinPollThread,
         PrepareExit, DestructorGoes, queueVars, livoxVars
  <2>2. CASE TakeSample
    <3>1. imu_queue[plidar] # <<>> BY <2>2 DEF TakeSample, PollInv, IsEmpty
    <3>2. l # plidar => imu_queue'[l] = imu_queue[l] BY <2>2 DEF TakeSample, QueueTypeOK
    <3> QED BY <1>0, <1>1, <3>1, <3>2 DEF EmptyStays, IsEmpty
  <2>3. ASSUME NEW s \in setup.senders, SampleArrives(s) PROVE EmptyStays(l)
    BY <1>0, <1>1, <2>3 DEF SampleArrives, QueueTypeOK, EmptyStays, IsEmpty
  <2> QED BY <1>0, <1>1, <2>1, <2>2, <2>3 DEF EmptyStays, IsEmpty
<1>2. CASE path # "imu"
  <2>1. /\ IsEmpty(l) <=> Used(l) = 0
        /\ IsEmpty(l)' <=> rd_idx'[l] = wr_idx'[l]
    BY <1>0, <1>2, UsedIs DEF IsEmpty
  <2>2. CASE AdvanceWrite
    <3>1. l # slidar BY <2>2 DEF AdvanceWrite
    <3>2. rd_idx'[l] = rd_idx[l] /\ wr_idx'[l] = wr_idx[l] BY <2>2, <3>1 DEF AdvanceWrite, QueueTypeOK
    <3> QED BY <1>0, <1>2, <3>2 DEF EmptyStays, IsEmpty
  <2>3. CASE AdvanceRead
    <3>1. Used(plidar) > 0 BY <2>3 DEF AdvanceRead, PollInv
    <3>2. l # plidar => rd_idx'[l] = rd_idx[l] /\ wr_idx'[l] = wr_idx[l]
      BY <2>3 DEF AdvanceRead, QueueTypeOK
    <3>3. l = plidar => ~IsEmpty(l) BY <2>1, <3>1
    <3> QED BY <1>0, <1>2, <3>2, <3>3 DEF EmptyStays, IsEmpty
  <2>4. ASSUME ~AdvanceWrite, ~AdvanceRead PROVE UNCHANGED <<rd_idx, wr_idx>>
    BY <2>4 DEF QueueNext, Arrival, FrameArrives, SampleArrives, StoreStep, WriteSlot, TestEmpty, TestCount,
         SignalSemaphore, PollStep, CheckExit, SemaphoreWait, VisitLidar, PassLidar, PollOver,
         PollAgain, PublishPclMsg, CopyFrame, DrainOver, TakeSample, Publish,
         TestSignal, BeginSampling, RequestExit, Destruction, SetExitSignal, JoinPollThread,
         PrepareExit, DestructorGoes, queueVars, livoxVars
  <2> QED BY <1>0, <1>2, <2>2, <2>3, <2>4 DEF EmptyStays, IsEmpty
<1> QED BY <1>1, <1>2

\* Why the poll thread will come, in short.
Woken(l) == \/ count > 0
            \/ spc \in {"count", "signal"}
            \/ spc = "empty" /\ slidar = l
            \/ WillVisit(l)

LEMMA ForgetStep ==
  ASSUME QueueTypeOK, StoreInv, PollInv, NoneForgotten, [QueueNext]_livoxVars
  PROVE  NoneForgotten'
<1> SUFFICES ASSUME NEW l \in Lidar, l \notin passed', ~IsEmpty(l)', ~request_exit'
             PROVE  Woken(l)'
  BY DEF NoneForgotten, Woken
<1>0. UNCHANGED setup /\ path' = path BY SetupStays
<1>1. LidarCount \in Nat \ {0} /\ Lidar = 1..LidarCount BY QueueAssumption DEF Lidar
<1>2. CASE spc' = "empty" /\ slidar' = l BY <1>2 DEF Woken
<1>3. CASE ~(spc' = "empty" /\ slidar' = l)
  <2>1. ~IsEmpty(l) BY <1>3, EmptyUnlessStored DEF EmptyStays
  <2>2. ~request_exit
    BY DEF QueueNext, Arrival, FrameArrives, SampleArrives, StoreStep, WriteSlot, AdvanceWrite, TestEmpty,
         TestCount, SignalSemaphore, PollStep, CheckExit, SemaphoreWait, VisitLidar, PassLidar, NextLidar,
         PollOver, PollAgain, PublishPclMsg, CopyFrame, AdvanceRead, DrainOver, TakeSample, Publish,
         TestSignal, PollGoes, BeginSampling, RequestExit, Destruction, SetExitSignal, JoinPollThread,
         PrepareExit, DestructorGoes, exitVars, livoxVars
  <2>3. l \notin passed => Woken(l) BY <2>1, <2>2 DEF NoneForgotten, Woken
  <2>4. ASSUME UNCHANGED passed, NEW s \in setup.senders, FrameArrives(s) \/ SampleArrives(s) PROVE Woken(l)'
    BY <1>3, <2>3, <2>4 DEF FrameArrives, SampleArrives, pollVars, Woken, WillVisit
  <2>40. ASSUME NEW s \in setup.senders, FrameArrives(s) \/ SampleArrives(s) PROVE UNCHANGED passed
    BY <2>40 DEF FrameArrives, SampleArrives, pollVars
  <2>5. CASE WriteSlot BY <2>3, <2>5 DEF WriteSlot, pollVars, Woken, WillVisit
  <2>6. CASE AdvanceWrite BY <1>3, <2>3, <2>6 DEF AdvanceWrite, pollVars, Woken, WillVisit
  <2>7. CASE TestEmpty
    <3>1. slidar = l => spc' = "count" BY <2>1, <2>7 DEF TestEmpty
    <3> QED BY <2>3, <2>7, <3>1 DEF TestEmpty, pollVars, Woken, WillVisit
  <2>8. CASE TestCount BY <2>3, <2>8 DEF TestCount, pollVars, Woken, WillVisit, QueueTypeOK
  <2>9. CASE SignalSemaphore BY <2>9 DEF SignalSemaphore, Woken, QueueTypeOK
  <2>10. CASE SemaphoreWait
    <3>1. ppc' = "visit" /\ plidar' = 1 BY <2>10 DEF SemaphoreWait, PollGoes
    <3> QED BY <1>1, <3>1 DEF Woken, WillVisit
  <2>11. CASE VisitLidar
    <3>1. ppc' = "poll" /\ plidar' = plidar /\ ppc = "visit" /\ UNCHANGED <<count, spc, slidar>>
      BY <2>11 DEF VisitLidar, PollGoes, storeVars
    <3>2. l = plidar \/ l \notin passed BY <2>11 DEF VisitLidar
    <3>3. CASE l = plidar BY <1>1, <3>1, <3>3 DEF Woken, WillVisit
    <3> QED BY <2>3, <3>1, <3>2, <3>3 DEF Woken, WillVisit
  <2>12. CASE PassLidar
    <3>1. l # plidar /\ l \notin passed BY <2>1, <2>12 DEF PassLidar
    <3>2. plidar \in 1..LidarCount /\ ppc = "visit" BY <1>1, <2>12 DEF PassLidar, QueueTypeOK
    <3>3. \/ plidar' = plidar + 1 /\ ppc' = "visit"
          \/ plidar = LidarCount
      BY <3>2, <1>1, <2>12 DEF PassLidar, NextLidar, PollGoes
    <3>4. UNCHANGED <<count, spc, slidar>> BY <2>12 DEF PassLidar, NextLidar, PollGoes, storeVars
    <3> QED BY <1>1, <2>3, <3>1, <3>2, <3>3, <3>4 DEF Woken, WillVisit
  <2>13. CASE PollOver
    <3>1. l # plidar /\ l \notin passed BY <2>1, <2>2, <2>13 DEF PollOver
    <3>2. plidar \in 1..LidarCount /\ ppc = "poll" BY <1>1, <2>13 DEF PollOver, QueueTypeOK
    <3>3. \/ plidar' = plidar + 1 /\ ppc' = "visit"
          \/ plidar = LidarCount
      BY <3>2, <1>1, <2>13 DEF PollOver, NextLidar, PollGoes
    <3>4. UNCHANGED <<count, spc, slidar>> BY <2>13 DEF PollOver, NextLidar, PollGoes, storeVars
    <3> QED BY <1>1, <2>3, <3>1, <3>2, <3>3, <3>4 DEF Woken, WillVisit
  <2>14. CASE \/ CheckExit \/ PollAgain \/ PublishPclMsg \/ CopyFrame \/ AdvanceRead \/ DrainOver
              \/ TakeSample \/ Publish \/ TestSignal
    BY <2>3, <2>14 DEF CheckExit, PollAgain, PublishPclMsg, CopyFrame, AdvanceRead, DrainOver,
                       TakeSample, Publish, TestSignal, PollGoes, storeVars, Woken, WillVisit
  <2>15. CASE RequestExit \/ Destruction \/ UNCHANGED livoxVars \/ \E s \in setup.senders : BeginSampling(s)
    BY <2>3, <2>15 DEF RequestExit, Destruction, SetExitSignal, JoinPollThread, PrepareExit,
         DestructorGoes, BeginSampling, livoxVars, storeVars, pollVars, Woken, WillVisit
  <2> QED
    BY <2>4, <2>40, <2>5, <2>6, <2>7, <2>8, <2>9, <2>10, <2>11, <2>12, <2>13, <2>14, <2>15
    DEF QueueNext, Arrival, StoreStep, PollStep
<1> QED BY <1>2, <1>3

-----------------------------------------------------------------------------
(* Theorems *)

LEMMA QueueInitInv == ASSUME QueueInit PROVE QueueInv
<1>1. setup \in Setups BY DEF QueueInit
<1>2. Size \in Nat \ {0} /\ IndexMod \in Nat \ {0} BY <1>1, SizesAre
<1>3. FrameMod \in Nat \ {0} /\ LidarCount \in Nat \ {0} BY QueueAssumption
<1>4. 0 \in Index BY <1>2 DEF Index
<1>5. \A l \in Lidar : Used(l) = 0
  <2>1. (0 - 0) % IndexMod = 0 BY <1>2
  <2> QED BY <2>1 DEF QueueInit, Used
<1>6. <<>> \in Seq(Frame) OBVIOUS
<1>7. QueueTypeOK
  <2>1. 0 \in Frame /\ 1 \in Lidar BY <1>3 DEF Frame, Lidar
  <2>2. /\ slots \in [Lidar -> {<<>>} \cup [0..(Size - 1) -> Frame \cup {NoFrame}]]
        /\ imu_queue \in [Lidar -> Seq(Frame)]
    BY <1>6 DEF QueueInit
  <2>3. rd_idx \in [Lidar -> Index] /\ wr_idx \in [Lidar -> Index] BY <1>4 DEF QueueInit
  <2>4. \A l \in Lidar : Used(l) <= Size BY <1>2, <1>5
  <2> QED
    BY <1>1, <2>1, <2>2, <2>3, <2>4 DEF QueueInit, QueueTypeOK, StorePC, PollPC, DestructorPC
<1>8. \A l \in Lidar : IsEmpty(l) BY DEF QueueInit, IsEmpty
<1> QED
  BY <1>5, <1>7, <1>8 DEF QueueInit, QueueInv, StoreInv, PollInv, RingInv, NoneForgotten, NoPollAfterExit

(***************************************************************************)
(* The types of the shared variables of the Livox driver, a ring that      *)
(* never counts more frames than it has slots (comm/ldq.cpp:128) and a     *)
(* semaphore that never counts more than one signal (comm/semaphore.cpp),  *)
(* with all that makes them inductive.                                     *)
(***************************************************************************)
THEOREM QueueInvariant == QueueSpec => []QueueInv
<1>1. QueueInit => QueueInv BY QueueInitInv
<1>2. QueueInv /\ [QueueNext]_livoxVars => QueueInv'
  <2> SUFFICES ASSUME QueueInv, [QueueNext]_livoxVars PROVE QueueInv' OBVIOUS
  <2>1. QueueTypeOK /\ StoreInv /\ PollInv /\ RingInv /\ NoneForgotten /\ NoPollAfterExit
    BY DEF QueueInv
  <2>2. QueueTypeOK' BY <2>1, QueueTypeStep
  <2>3. StoreInv' BY <2>1, StoreStepInv
  <2>4. PollInv' BY <2>1, PollStepInv
  <2>5. RingInv' BY <2>1, RingStepInv
  <2>6. NoneForgotten' BY <2>1, ForgetStep
  <2>7. NoPollAfterExit' BY <2>1, ExitStepInv
  <2> QED BY <2>2, <2>3, <2>4, <2>5, <2>6, <2>7 DEF QueueInv
<1> QED BY <1>1, <1>2, PTL DEF QueueSpec

(***************************************************************************)
(* No wakeup of a poll thread is lost, however its steps and those of the  *)
(* storing thread interleave (lds.cpp:184-194, lddc.cpp:118-177).          *)
(***************************************************************************)
THEOREM NoWakeupIsLost == QueueSpec => []NoFrameStuck
<1>1. QueueInv => NoFrameStuck
  BY DEF QueueInv, QueueTypeOK, NoneForgotten, NoFrameStuck
<1> QED BY <1>1, QueueInvariant, PTL

(***************************************************************************)
(* The SDK is shut down, and the pointer of Lddc to the queues cleared,    *)
(* only after the poll thread has returned (driver_node.cpp:33-39,         *)
(* lddc.cpp:186-199).                                                      *)
(***************************************************************************)
THEOREM ShutdownIsOrderly == QueueSpec => []NoPollAfterExit
<1>1. QueueInv => NoPollAfterExit BY DEF QueueInv
<1> QED BY <1>1, QueueInvariant, PTL

-----------------------------------------------------------------------------
(* Refinement: the frames that are on their way, and the one that is being *)
(* published.                                                              *)

Frames(l) == IF path = "imu" THEN imu_queue[l]
             ELSE [i \in 1..Used(l) |->
                     slots[l][Mask((rd_idx[l] + i - 1) % IndexMod)]]
Chan == [l \in Lidar |-> Frames(l)]
Out == IF ppc = "publish" THEN <<plidar, pkg>> ELSE <<>>

\* The frames of a ring, by their slots.
LEMMA RingFrames ==
  ASSUME QueueTypeOK, path = "points", NEW l \in Lidar
  PROVE  /\ Frames(l) = [i \in 1..Used(l) |-> slots[l][SlotOf(l, i - 1)]]
         /\ Used(l) \in Nat
         /\ \A k \in 1..Used(l) : k - 1 \in 0..(Used(l) - 1)
<1>1. rd_idx[l] \in Int BY SizesAre DEF QueueTypeOK, Index
<1>2. \A i \in 1..Used(l) : rd_idx[l] + i - 1 = rd_idx[l] + (i - 1) BY <1>1, UsedIs
<1>3. Frames(l) = [i \in 1..Used(l) |-> slots[l][Mask((rd_idx[l] + i - 1) % IndexMod)]]
  BY DEF Frames
<1>4. \A i \in 1..Used(l) : Mask((rd_idx[l] + i - 1) % IndexMod) = SlotOf(l, i - 1)
  BY <1>2 DEF SlotOf
<1>5. Used(l) \in Nat BY UsedIs
<1> QED BY <1>3, <1>4, <1>5

\* When neither end of a ring moves, its frames stay.
LEMMA FramesKept ==
  ASSUME QueueInv, [QueueNext]_livoxVars, NEW l \in Lidar,
         ~(AdvanceWrite /\ l = slidar), ~(AdvanceRead /\ l = plidar),
         ~(TakeSample /\ l = plidar), ~SampleArrives(l)
  PROVE  Frames(l)' = Frames(l)
<1>0. QueueTypeOK /\ StoreInv /\ PollInv /\ RingInv BY DEF QueueInv
<1>1. UNCHANGED setup /\ path' = path /\ IndexMod' = IndexMod /\ \A i : Mask(i)' = Mask(i)
  BY SetupStays DEF Mask
<1>2. CASE path = "imu"
  <2>1. UNCHANGED imu_queue \/ TakeSample \/ \E s \in setup.senders : SampleArrives(s)
    BY DEF QueueNext, Arrival, FrameArrives, StoreStep, WriteSlot, AdvanceWrite, TestEmpty, TestCount,
         SignalSemaphore, PollStep, CheckExit, SemaphoreWait, VisitLidar, PassLidar, PollOver,
         PollAgain, PublishPclMsg, CopyFrame, AdvanceRead, DrainOver, TakeSample, Publish,
         TestSignal, BeginSampling, RequestExit, Destruction, SetExitSignal, JoinPollThread,
         PrepareExit, DestructorGoes, queueVars, livoxVars
  <2>2. CASE TakeSample BY <1>0, <1>1, <1>2, <2>2 DEF TakeSample, QueueTypeOK, Frames
  <2>3. ASSUME NEW s \in setup.senders, SampleArrives(s) PROVE Frames(l)' = Frames(l)
    <3>1. s # l BY <2>3
    <3> QED BY <1>0, <1>1, <1>2, <2>3, <3>1 DEF SampleArrives, QueueTypeOK, Frames
  <2> QED BY <1>1, <1>2, <2>1, <2>2, <2>3 DEF Frames
<1>3. CASE path # "imu"
  <2>0. path = "points" /\ path' = "points" /\ QueueTypeOK' BY <1>0, <1>1, <1>3, PathIs, QueueTypeStep
  <2>1. Used(l)' = Used(l)
    <3>1. CASE AdvanceWrite BY <1>0, <3>1, UsedMoves
    <3>2. CASE AdvanceRead BY <1>0, <3>2, UsedMoves
    <3>3. CASE ~AdvanceWrite /\ ~AdvanceRead BY <1>0, <3>3, UsedMoves
    <3> QED BY <3>1, <3>2, <3>3
  <2>2. rd_idx'[l] = rd_idx[l]
    <3>1. UNCHANGED rd_idx \/ AdvanceRead
      BY DEF QueueNext, Arrival, FrameArrives, SampleArrives, StoreStep, WriteSlot, AdvanceWrite,
             TestEmpty, TestCount, SignalSemaphore, PollStep, CheckExit, SemaphoreWait, VisitLidar,
             PassLidar, PollOver, PollAgain, PublishPclMsg, CopyFrame, DrainOver, TakeSample, Publish,
             TestSignal, BeginSampling, RequestExit, Destruction, SetExitSignal, JoinPollThread,
             PrepareExit, DestructorGoes, queueVars, livoxVars
    <3>2. CASE AdvanceRead BY <1>0, <3>2 DEF AdvanceRead, QueueTypeOK
    <3> QED BY <3>1, <3>2
  <2>3. \A i \in 0..(Used(l) - 1) : slots'[l][SlotOf(l, i)] = slots[l][SlotOf(l, i)]
    BY <1>0, SlotsStay
  <2>4. \A i : SlotOf(l, i)' = SlotOf(l, i) BY <1>1, <2>2 DEF SlotOf
  <2>5. /\ Frames(l) = [i \in 1..Used(l) |-> slots[l][SlotOf(l, i - 1)]]
        /\ \A i \in 1..Used(l) : i - 1 \in 0..(Used(l) - 1)
    BY <1>0, <2>0, RingFrames
  <2>6. Frames(l)' = [i \in 1..Used(l) |-> slots'[l][SlotOf(l, i - 1)]]
    <3>1. Frames(l)' = [i \in 1..Used(l)' |-> slots'[l][((rd_idx'[l] + i - 1) % IndexMod') % Size']]
      BY <2>0 DEF Frames, Mask
    <3>2. rd_idx[l] \in Int BY <1>0, SizesAre DEF QueueTypeOK, Index
    <3>3. \A i \in 1..Used(l) : rd_idx[l] + i - 1 = rd_idx[l] + (i - 1) BY <1>0, <3>2, UsedIs
    <3>4. Size' = Size BY SetupStays
    <3> QED BY <1>1, <2>1, <2>2, <3>1, <3>3, <3>4 DEF SlotOf, Mask
  <2> QED BY <2>3, <2>5, <2>6
<1> QED BY <1>2, <1>3

\* What a queue holds is a sequence.
LEMMA FramesAreSeq ==
  ASSUME QueueTypeOK, RingInv, NEW l \in Lidar
  PROVE  /\ Frames(l) \in Seq(Frame \cup {NoFrame})
         /\ path = "points" => Len(Frames(l)) = Used(l)
<1>1. CASE path = "imu"
  <2>1. imu_queue[l] \in Seq(Frame) BY DEF QueueTypeOK
  <2> QED BY <1>1, <2>1, SeqMonotonic DEF Frames
<1>2. CASE path = "points"
  <2> DEFINE T == Frame \cup {NoFrame}
             f == [i \in 1..Used(l) |-> slots[l][SlotOf(l, i - 1)]]
  <2>1. /\ Frames(l) = f /\ Used(l) \in Nat
        /\ \A k \in 1..Used(l) : k - 1 \in 0..(Used(l) - 1)
    BY <1>2, RingFrames
  <2>2. \A k \in 1..Used(l) : slots[l][SlotOf(l, k - 1)] \in T
    <3> SUFFICES ASSUME NEW k \in 1..Used(l) PROVE slots[l][SlotOf(l, k - 1)] \in T OBVIOUS
    <3>1. slots[l] \in [0..(Size - 1) -> T] BY <2>1 DEF RingInv, QueueTypeOK
    <3>2. SlotOf(l, k - 1) \in 0..(Size - 1)
      <4>1. Size \in Nat \ {0} /\ IndexMod \in Nat \ {0} BY SizesAre DEF QueueTypeOK
      <4>2. rd_idx[l] + (k - 1) \in Int BY <2>1, <4>1 DEF QueueTypeOK, Index
      <4>3. (rd_idx[l] + (k - 1)) % IndexMod \in Int BY <4>1, <4>2
      <4> QED BY <4>1, <4>3 DEF SlotOf, Mask
    <3> QED BY <3>1, <3>2
  <2>3. f \in [1..Used(l) -> T] BY <2>2
  <2> HIDE DEF f, T
  <2>4. f \in Seq(T) /\ Len(f) = Used(l) BY <2>1, <2>3
  <2> QED BY <2>1, <2>4 DEF T
<1> QED BY <1>1, <1>2, PathIs

\* Advancing the index for writing appends the frame that was written.
LEMMA FramesWritten ==
  ASSUME QueueInv, [QueueNext]_livoxVars, AdvanceWrite
  PROVE  Frames(slidar)' = Append(Frames(slidar), next)
<1>0. QueueTypeOK /\ StoreInv /\ PollInv /\ RingInv /\ QueueTypeOK' /\ RingInv'
  BY QueueTypeStep, RingStepInv DEF QueueInv
<1>1. PICK s \in Lidar : s = slidar /\ slidar' = s BY <1>0 DEF QueueTypeOK, AdvanceWrite
<1>2. /\ UNCHANGED setup /\ path' = path /\ IndexMod' = IndexMod /\ Size' = Size
      /\ path = "points" /\ path' = "points"
  BY SetupStays DEF AdvanceWrite, QueueInv, StoreInv
<1>3. Used(s)' = Used(s) + 1 /\ Used(s) \in Nat BY <1>0, <1>1, UsedMoves, UsedIs
<1>4. UNCHANGED <<slots, rd_idx>> BY DEF AdvanceWrite
<1>5. slots[s][SlotOf(s, Used(s))] = next
  <2>1. slots[s][Mask(wr_idx[s])] = next BY <1>0, <1>1 DEF AdvanceWrite, StoreInv
  <2> QED BY <1>0, <2>1, WritePosition DEF SlotOf
<1> DEFINE T == Frame \cup {NoFrame}
           F == Frames(s)
           G == Append(F, next)
           H == Frames(s)'
<1>6. /\ F = [i \in 1..Used(s) |-> slots[s][SlotOf(s, i - 1)]]
      /\ F \in Seq(T) /\ Len(F) = Used(s)
  BY <1>0, <1>2, RingFrames, FramesAreSeq
<1>7. H = [i \in 1..(Used(s) + 1) |-> slots[s][SlotOf(s, i - 1)]]
  <2>1. H = [i \in 1..Used(s)' |-> slots'[s][((rd_idx'[s] + i - 1) % IndexMod') % Size']]
    BY <1>2 DEF Frames, Mask
  <2>2. rd_idx[s] \in Int BY <1>0, SizesAre DEF QueueTypeOK, Index
  <2>3. \A i \in 1..(Used(s) + 1) : rd_idx[s] + i - 1 = rd_idx[s] + (i - 1) BY <1>3, <2>2
  <2> QED BY <1>2, <1>3, <1>4, <2>1, <2>3 DEF SlotOf, Mask
<1>8. next \in T BY <1>0 DEF QueueTypeOK
<1> HIDE DEF F, H, T
<1>9. /\ G \in Seq(T) /\ Len(G) = Used(s) + 1
      /\ \A i \in 1..Used(s) : G[i] = F[i]
      /\ G[Used(s) + 1] = next
  <2>1. F \in Seq(T) /\ Len(F) = Used(s) BY <1>6
  <2>2. /\ Append(F, next) \in Seq(T) /\ Len(Append(F, next)) = Len(F) + 1
        /\ \A i \in 1..Len(F) : Append(F, next)[i] = F[i]
        /\ Append(F, next)[Len(F) + 1] = next
    BY <2>1, <1>8, AppendProperties
  <2> QED BY <2>1, <2>2
<1>10. \A i \in 1..(Used(s) + 1) : H[i] = G[i]
  <2>1. \A i \in 1..Used(s) : H[i] = F[i] BY <1>3, <1>6, <1>7
  <2>2. H[Used(s) + 1] = next
    <3>1. (Used(s) + 1) - 1 = Used(s) BY <1>3
    <3>2. Used(s) + 1 \in 1..(Used(s) + 1) BY <1>3
    <3> QED BY <1>5, <1>7, <3>1, <3>2
  <2>3. \A i \in 1..(Used(s) + 1) : i \in 1..Used(s) \/ i = Used(s) + 1 BY <1>3
  <2> QED BY <1>9, <2>1, <2>2, <2>3
<1>11. H \in Seq(T) /\ Len(H) = Used(s) + 1
  <2>1. H \in [1..(Used(s) + 1) -> T]
    <3>1. \A i \in 1..(Used(s) + 1) : G[i] \in T BY <1>9, ElementOfSeq
    <3> QED BY <1>7, <1>10, <3>1
  <2> QED BY <1>3, <2>1
<1> HIDE DEF G
<1>12. H = G BY <1>9, <1>10, <1>11, SeqEqual
<1> QED BY <1>1, <1>12 DEF F, G, H

\* Advancing the index for reading takes the frame that was copied.
LEMMA FramesRead ==
  ASSUME QueueInv, [QueueNext]_livoxVars, AdvanceRead
  PROVE  /\ Frames(plidar) # <<>>
         /\ pkg = Head(Frames(plidar))
         /\ Frames(plidar)' = Tail(Frames(plidar))
<1>0. QueueTypeOK /\ StoreInv /\ PollInv /\ RingInv /\ QueueTypeOK' /\ RingInv'
  BY QueueTypeStep, RingStepInv DEF QueueInv
<1>1. PICK p \in Lidar : p = plidar /\ plidar' = p BY <1>0 DEF QueueTypeOK, AdvanceRead
<1>2. /\ UNCHANGED setup /\ path' = path /\ IndexMod' = IndexMod /\ Size' = Size
      /\ path = "points" /\ path' = "points"
  BY <1>0, SetupStays DEF AdvanceRead, PollInv
<1>3. /\ Used(p)' = Used(p) - 1 /\ Used(p) \in Nat /\ Used(p) > 0 /\ Used(p) <= Size
      /\ pkg = slots[p][Mask(rd_idx[p])]
  BY <1>0, <1>1, UsedMoves, UsedIs DEF AdvanceRead, PollInv, QueueTypeOK
<1>4. slots' = slots /\ rd_idx'[p] = (rd_idx[p] + 1) % IndexMod
  BY <1>0, <1>1 DEF AdvanceRead, QueueTypeOK
<1>5. /\ IndexMod \in Nat \ {0} /\ rd_idx[p] \in 0..(IndexMod - 1)
      /\ Size \in Nat \ {0} /\ Size < IndexMod
  BY <1>0, SizesAre DEF QueueTypeOK, Index
<1> DEFINE T == Frame \cup {NoFrame}
           F == Frames(p)
           H == Frames(p)'
<1>6. /\ F = [i \in 1..Used(p) |-> slots[p][SlotOf(p, i - 1)]]
      /\ F \in Seq(T) /\ Len(F) = Used(p)
  BY <1>0, <1>2, RingFrames, FramesAreSeq
<1>7. H = [i \in 1..(Used(p) - 1) |-> slots[p][SlotOf(p, i)]]
  <2>1. H = [i \in 1..Used(p)' |-> slots'[p][((rd_idx'[p] + i - 1) % IndexMod') % Size']]
    BY <1>2 DEF Frames, Mask
  <2>2. ASSUME NEW i \in 1..(Used(p) - 1)
        PROVE  (rd_idx'[p] + i - 1) % IndexMod = (rd_idx[p] + i) % IndexMod
    <3>1. i - 1 \in 0..(IndexMod - 1) BY <1>3, <1>5
    <3> DEFINE q == (rd_idx[p] + 1) % IndexMod
               k == i - 1
    <3>2. q \in Int /\ i = k + 1 BY <1>5
    <3> HIDE DEF k
    <3>3. (q + k) % IndexMod = (rd_idx[p] + (k + 1)) % IndexMod
      BY <1>5, <3>1, AdvanceThenAdd DEF k
    <3> HIDE DEF q
    <3>4. q + i - 1 = q + k BY <3>2 DEF k
    <3> QED BY <1>4, <3>2, <3>3, <3>4 DEF q
  <2> QED BY <1>2, <1>3, <1>4, <2>1, <2>2 DEF SlotOf, Mask
<1> HIDE DEF F, H, T
<1>8. F # <<>> /\ F[1] = pkg
  <2>1. (rd_idx[p] + 0) % IndexMod = rd_idx[p] BY <1>5
  <2>2. SlotOf(p, 1 - 1) = Mask(rd_idx[p]) BY <2>1 DEF SlotOf
  <2>3. 1 \in 1..Used(p) BY <1>3
  <2>4. F[1] = pkg BY <1>3, <1>6, <2>2, <2>3
  <2>5. Len(F) # 0 BY <1>3, <1>6
  <2> QED BY <2>4, <2>5, <1>6
<1>9. /\ Tail(F) \in Seq(T) /\ Len(Tail(F)) = Used(p) - 1
      /\ \A i \in 1..(Used(p) - 1) : Tail(F)[i] = F[i + 1]
      /\ Head(F) = F[1]
  <2>1. F \in Seq(T) /\ Len(F) = Used(p) /\ F # <<>> BY <1>6, <1>8
  <2>2. /\ Tail(F) \in Seq(T) /\ Len(Tail(F)) = Len(F) - 1
        /\ \A i \in 1..Len(Tail(F)) : Tail(F)[i] = F[i + 1]
    BY <2>1, HeadTailProperties
  <2> QED BY <2>1, <2>2
<1>10. \A i \in 1..(Used(p) - 1) : H[i] = Tail(F)[i]
  <2> SUFFICES ASSUME NEW i \in 1..(Used(p) - 1) PROVE H[i] = Tail(F)[i] OBVIOUS
  <2>1. i + 1 \in 1..Used(p) /\ (i + 1) - 1 = i BY <1>3
  <2>2. F[i + 1] = slots[p][SlotOf(p, i)] BY <1>6, <2>1
  <2> QED BY <1>7, <1>9, <2>2
<1>11. H \in Seq(T) /\ Len(H) = Used(p) - 1
  <2>1. \A i \in 1..(Used(p) - 1) : Tail(F)[i] \in T BY <1>9, ElementOfSeq
  <2>2. H \in [1..(Used(p) - 1) -> T] BY <1>7, <1>10, <2>1
  <2>3. Used(p) - 1 \in Nat BY <1>3
  <2> QED BY <2>2, <2>3
<1>12. H = Tail(F) BY <1>9, <1>10, <1>11, SeqEqual
<1> QED BY <1>1, <1>8, <1>9, <1>12 DEF F, H

\* The steps of the channel, of the queues' frames.
Steps(l) ==
  \/ /\ Chan' = [Chan EXCEPT ![l] = Append(@, next)]
     /\ next' = (next + 1) % FrameMod
     /\ UNCHANGED <<Size, Out>>
  \/ /\ Len(Chan[l]) >= Size
     /\ next' = (next + 1) % FrameMod
     /\ UNCHANGED <<Size, Chan, Out>>
  \/ /\ Chan[l] # <<>>
     /\ Out = <<>>
     /\ Out' = <<l, Head(Chan[l])>>
     /\ Chan' = [Chan EXCEPT ![l] = Tail(@)]
     /\ UNCHANGED <<Size, next>>

LEMMA ChannelChanges ==
  ASSUME NEW l \in Lidar, NEW e, Frames(l)' = e, \A k \in Lidar \ {l} : Frames(k)' = Frames(k)
  PROVE  Chan' = [Chan EXCEPT ![l] = e]
BY DEF Chan

LEMMA ChannelStep ==
  ASSUME QueueInv, [QueueNext]_livoxVars
  PROVE  \/ \E l \in Lidar : Steps(l)
         \/ Out' = <<>> /\ UNCHANGED <<Size, Chan, next>>
         \/ UNCHANGED <<Size, Chan, next, Out>>
<1>0. QueueTypeOK /\ StoreInv /\ PollInv /\ RingInv BY DEF QueueInv
<1>1. UNCHANGED setup /\ path' = path /\ Size' = Size BY SetupStays
<1>2. ASSUME ~AdvanceWrite, ~AdvanceRead, ~TakeSample, ~\E l \in setup.senders : SampleArrives(l),
             ~\E l \in Lidar : SampleArrives(l)
      PROVE  Chan' = Chan
  <2>1. \A l \in Lidar : Frames(l)' = Frames(l) BY <1>2, FramesKept
  <2> QED BY <2>1 DEF Chan
\* Frames and samples that arrive.
<1>3. ASSUME NEW l \in setup.senders, FrameArrives(l) PROVE \E k \in Lidar : Steps(k)
                                                        \/ UNCHANGED <<Size, Chan, next, Out>>
  <2>1. l \in Lidar BY <1>0, QueueAssumption DEF QueueTypeOK, SetupType
  <2>2. Chan' = Chan
    BY <1>2, <1>3 DEF FrameArrives, AdvanceWrite, AdvanceRead, TakeSample, SampleArrives, PollGoes,
                      storeVars, pollVars
  <2>3. Out' = Out BY <1>3 DEF FrameArrives, pollVars, Out
  <2>4. IsFull(l) => Len(Chan[l]) >= Size
    <3>1. path = "points" BY <1>3 DEF FrameArrives
    <3>2. Chan[l] = Frames(l) BY <2>1 DEF Chan
    <3>3. Len(Chan[l]) = Used(l) BY <1>0, <2>1, <3>1, <3>2, FramesAreSeq
    <3>4. Used(l) \in Nat /\ Size \in Nat BY <1>0, <2>1, UsedIs, SizesAre DEF QueueTypeOK
    <3> QED BY <3>3, <3>4 DEF IsFull
  <2>5. \/ IsFull(l) /\ next' = (next + 1) % FrameMod
        \/ UNCHANGED next
    BY <1>3 DEF FrameArrives
  <2> QED BY <1>1, <2>1, <2>2, <2>3, <2>4, <2>5 DEF Steps
<1>4. ASSUME NEW l \in setup.senders, SampleArrives(l) PROVE \E k \in Lidar : Steps(k)
  <2>1. l \in Lidar BY <1>0, QueueAssumption DEF QueueTypeOK, SetupType
  <2>2. path = "imu" /\ path' = "imu" BY <1>1, <1>4 DEF SampleArrives
  <2>3. Frames(l)' = Append(Frames(l), next)
    BY <1>0, <1>4, <2>1, <2>2 DEF SampleArrives, QueueTypeOK, Frames
  <2>4. \A k \in Lidar \ {l} : Frames(k)' = Frames(k)
    BY <1>0, <1>4, <2>1, <2>2 DEF SampleArrives, QueueTypeOK, Frames
  <2>5. Chan' = [Chan EXCEPT ![l] = Append(Frames(l), next)] BY <2>1, <2>3, <2>4, ChannelChanges
  <2>6. Chan' = [Chan EXCEPT ![l] = Append(@, next)] BY <2>1, <2>5 DEF Chan
  <2>7. Out' = Out /\ next' = (next + 1) % FrameMod BY <1>4 DEF SampleArrives, pollVars, Out
  <2> QED BY <1>1, <2>1, <2>6, <2>7 DEF Steps
<1>5. CASE AdvanceWrite
  <2>1. PICK s \in Lidar : s = slidar BY <1>0 DEF QueueTypeOK
  <2>2. slidar' = slidar /\ Out' = Out /\ next' = (next + 1) % FrameMod
    BY <1>5 DEF AdvanceWrite, pollVars, Out
  <2>3. Frames(s)' = Append(Frames(s), next) BY <1>5, <2>1, <2>2, FramesWritten
  <2>4. \A k \in Lidar \ {s} : Frames(k)' = Frames(k)
    <3>1. ~AdvanceRead /\ ~TakeSample /\ \A k \in Lidar : ~SampleArrives(k)
      BY <1>5 DEF AdvanceWrite, AdvanceRead, TakeSample, SampleArrives, PollGoes, storeVars
    <3> QED BY <2>1, <3>1, FramesKept
  <2>5. Chan' = [Chan EXCEPT ![s] = Append(Frames(s), next)] BY <2>3, <2>4, ChannelChanges
  <2>6. Chan' = [Chan EXCEPT ![s] = Append(@, next)] BY <2>5 DEF Chan
  <2> QED BY <1>1, <2>2, <2>6 DEF Steps
\* Frames and samples that are taken.
<1>6. CASE AdvanceRead
  <2>1. PICK p \in Lidar : p = plidar /\ plidar' = p BY <1>0, <1>6 DEF AdvanceRead, QueueTypeOK
  <2>2. Frames(p) # <<>> /\ pkg = Head(Frames(p)) /\ Frames(p)' = Tail(Frames(p))
    BY <1>6, <2>1, FramesRead
  <2>3. \A k \in Lidar \ {p} : Frames(k)' = Frames(k)
    <3>1. ~AdvanceWrite /\ ~TakeSample /\ \A k \in Lidar : ~SampleArrives(k)
      BY <1>6 DEF AdvanceWrite, AdvanceRead, TakeSample, SampleArrives, PollGoes, storeVars
    <3> QED BY <2>1, <3>1, FramesKept
  <2>4. Chan' = [Chan EXCEPT ![p] = Tail(Frames(p))] BY <2>2, <2>3, ChannelChanges
  <2>5. Chan' = [Chan EXCEPT ![p] = Tail(@)] /\ Chan[p] = Frames(p) BY <2>4 DEF Chan
  <2>6. Out = <<>> /\ Out' = <<p, pkg>> /\ next' = next
    BY <1>6, <2>1 DEF AdvanceRead, PollGoes, storeVars, Out
  <2> QED BY <1>1, <2>2, <2>5, <2>6 DEF Steps
<1>7. CASE TakeSample
  <2>1. PICK p \in Lidar : p = plidar /\ plidar' = p BY <1>0, <1>7 DEF TakeSample, QueueTypeOK
  <2>2. path = "imu" /\ path' = "imu" BY <1>0, <1>1, <1>7 DEF TakeSample, PollInv
  <2>3. /\ Frames(p) # <<>> /\ pkg' = Head(Frames(p)) /\ Frames(p)' = Tail(Frames(p))
        /\ \A k \in Lidar \ {p} : Frames(k)' = Frames(k)
    BY <1>0, <1>7, <2>1, <2>2 DEF TakeSample, IsEmpty, QueueTypeOK, Frames
  <2>4. Chan' = [Chan EXCEPT ![p] = Tail(Frames(p))] BY <2>3, ChannelChanges
  <2>5. Chan' = [Chan EXCEPT ![p] = Tail(@)] /\ Chan[p] = Frames(p) BY <2>4 DEF Chan
  <2>6. Out = <<>> /\ Out' = <<p, pkg'>> /\ next' = next
    BY <1>7, <2>1 DEF TakeSample, PollGoes, storeVars, Out
  <2> QED BY <1>1, <2>3, <2>5, <2>6 DEF Steps
<1>8. CASE Publish
  <2>1. Chan' = Chan
    BY <1>2, <1>8 DEF Publish, AdvanceWrite, AdvanceRead, TakeSample, SampleArrives, PollGoes,
                      storeVars
  <2>2. Out' = <<>> /\ next' = next BY <1>8 DEF Publish, PollGoes, storeVars, Out
  <2> QED BY <1>1, <2>1, <2>2
\* The steps that the channel does not see.
<1>9. CASE WriteSlot \/ TestEmpty \/ TestCount \/ SignalSemaphore
  <2>1. Out' = Out /\ next' = next
    BY <1>9 DEF WriteSlot, TestEmpty, TestCount, SignalSemaphore, pollVars, Out
  <2>2. Chan' = Chan
    BY <1>2, <1>9 DEF WriteSlot, TestEmpty, TestCount, SignalSemaphore, AdvanceWrite, AdvanceRead,
                      TakeSample, SampleArrives, PollGoes, storeVars, pollVars, queueVars
  <2> QED BY <1>1, <2>1, <2>2
<1>10. CASE \/ CheckExit \/ SemaphoreWait \/ VisitLidar \/ PassLidar \/ PollOver \/ PollAgain
            \/ PublishPclMsg \/ CopyFrame \/ DrainOver \/ TestSignal
  <2>1. Out' = Out /\ next' = next
    BY <1>10 DEF CheckExit, SemaphoreWait, VisitLidar, PassLidar, NextLidar, PollOver, PollAgain,
         PublishPclMsg, CopyFrame, DrainOver, TestSignal, PollGoes, storeVars, Out
  <2>2. ~AdvanceWrite /\ \A l : ~SampleArrives(l)
    BY <1>0, <1>10 DEF CheckExit, SemaphoreWait, VisitLidar, PassLidar, NextLidar, PollOver, PollAgain,
         PublishPclMsg, CopyFrame, DrainOver, TestSignal, AdvanceWrite, SampleArrives,
         PollGoes, storeVars, QueueTypeOK
  <2>3. ~AdvanceRead /\ ~TakeSample
    BY <1>10 DEF CheckExit, SemaphoreWait, VisitLidar, PassLidar, PollOver, PollAgain,
         PublishPclMsg, CopyFrame, DrainOver, TestSignal, AdvanceRead, TakeSample
  <2>4. Chan' = Chan BY <1>2, <2>2, <2>3
  <2> QED BY <1>1, <2>1, <2>4
<1>11. CASE RequestExit \/ Destruction \/ UNCHANGED livoxVars \/ \E l \in setup.senders : BeginSampling(l)
  <2>1. UNCHANGED <<queueVars, storeVars, ppc, plidar, pkg>>
    BY <1>11 DEF RequestExit, Destruction, SetExitSignal, JoinPollThread, PrepareExit,
         DestructorGoes, BeginSampling, livoxVars, storeVars, pollVars
  <2>2. Out' = Out /\ next' = next BY <2>1 DEF storeVars, Out
  <2>3. /\ ~AdvanceWrite /\ ~AdvanceRead /\ ~TakeSample
        /\ \A l : ~SampleArrives(l)
    BY <2>1 DEF AdvanceWrite, AdvanceRead, TakeSample, SampleArrives, PollGoes, storeVars
  <2>4. Chan' = Chan BY <1>2, <2>3
  <2> QED BY <1>1, <2>2, <2>4
<1> QED
  BY <1>3, <1>4, <1>5, <1>6, <1>7, <1>8, <1>9, <1>10, <1>11 DEF QueueNext, Arrival, StoreStep, PollStep

(***************************************************************************)
(* The queues implement the channels: frames of a lidar are published in   *)
(* the order in which they came and each one once, and one is dropped only *)
(* when it meets a full ring (lds.cpp:180, comm/ldq.cpp:86-148).           *)
(***************************************************************************)
THEOREM QueuesAreChannels == QueueSpec => ImplementsChannel
<1>1. ASSUME QueueInit PROVE Channel!Init
  <2>1. QueueTypeOK /\ RingInv BY <1>1, QueueInitInv DEF QueueInv
  <2>2. \A l \in Lidar : Frames(l) = <<>>
    <3> SUFFICES ASSUME NEW l \in Lidar PROVE Frames(l) = <<>> OBVIOUS
    <3>1. Used(l) = 0 /\ imu_queue[l] = <<>> BY <1>1, <2>1 DEF QueueInit, RingInv
    <3>2. Frames(l) \in Seq(Frame \cup {NoFrame}) /\ (path = "points" => Len(Frames(l)) = 0)
      BY <2>1, <3>1, FramesAreSeq
    <3>3. path = "points" => Frames(l) = <<>> BY <3>2
    <3>4. path = "imu" => Frames(l) = <<>> BY <3>1 DEF Frames
    <3> QED BY <2>1, <3>3, <3>4, PathIs
  <2>3. Chan = [l \in Lidar |-> <<>>] BY <2>2 DEF Chan
  <2>4. Out = <<>> /\ next = 0 BY <1>1 DEF QueueInit, Out
  <2> QED BY <2>3, <2>4 DEF Channel!Init, Chan, Frames, Out
<1>2. QueueInv /\ [QueueNext]_livoxVars
        => [Channel!Next]_<<Size, Chan, next, Out>>
  <2> SUFFICES ASSUME QueueInv, [QueueNext]_livoxVars
               PROVE  [Channel!Next]_<<Size, Chan, next, Out>> BY SMTT(30)
  <2>1. ASSUME NEW l \in Lidar, Steps(l) PROVE Channel!Accept(l) \/ Channel!Drop(l) \/ Channel!Take(l)
    BY <2>1 DEF Steps, Channel!Accept, Channel!Drop, Channel!Take, Channel!Number, Chan, Frames, Out
  <2>2. ASSUME Out' = <<>>, UNCHANGED <<Size, Chan, next>> PROVE Channel!Publish
    BY <2>2 DEF Channel!Publish, Chan, Frames, Out
  <2> QED BY <2>1, <2>2, ChannelStep DEF Channel!Next
<1> QED
  BY <1>1, <1>2, QueueInvariant, PTL
  DEF QueueSpec, ImplementsChannel, Channel!Spec, Chan, Frames, Out

-----------------------------------------------------------------------------
(* Frames                                                                  *)

USE FrameAssumption

-----------------------------------------------------------------------------
(* Types                                                                   *)

\* What the types need, and where the thread can be.
ThreadInv ==
  /\ current = {} \/ \E l \in Sender : current = {l}
  /\ quitted => current = {}
  /\ \A l \in Sender : clouds[l] # <<>> => l \in handlers
  /\ \A l \in current : clouds[l] # <<>>

FramesInv == FramesTypeOK /\ ThreadInv

LEMMA AfterIsNumber == ASSUME NEW n \in Number PROVE After(n) \in Number
BY DEF After, Number

LEMMA StampIsNat == ASSUME now \in 1..MaxNow, NEW l PROVE Stamp(l) \in Nat \ {0}
BY DEF Stamp

LEMMA LastPoint ==
  ASSUME NEW s \in Seq(Point), s # <<>>
  PROVE  /\ Len(s) \in Nat \ {0} /\ Len(s) \in 1..Len(s) /\ 1 \in 1..Len(s)
         /\ s[Len(s)] \in Point /\ s[1] \in Point /\ Head(s) = s[1]
         /\ After(s[Len(s)].number) \in Number
<1>1. Len(s) \in Nat \ {0} BY EmptySeq
<1>2. Len(s) \in 1..Len(s) /\ 1 \in 1..Len(s) BY <1>1
<1>3. s[Len(s)] \in Point /\ s[1] \in Point BY <1>2, ElementOfSeq
<1>4. s[Len(s)].number \in Number BY <1>3 DEF Point
<1> QED BY <1>1, <1>2, <1>3, <1>4, AfterIsNumber, HeadTailProperties

LEMMA PacketArrivesTyped ==
  ASSUME FramesInv, NEW l \in Sender, PacketArrives(l)
  PROVE  /\ [lidar |-> l, stamp |-> Stamp(l), number |-> numbered[l]] \in Packet
         /\ raw_packet_queue' \in Seq(Packet) /\ numbered' \in [Sender -> Number]
<1>1. numbered \in [Sender -> Number] /\ now \in 1..MaxNow /\ raw_packet_queue \in Seq(Packet)
  BY DEF FramesInv, FramesTypeOK
<1>2. Stamp(l) \in Nat BY <1>1, StampIsNat
<1>3. [lidar |-> l, stamp |-> Stamp(l), number |-> numbered[l]] \in Packet
  BY <1>1, <1>2 DEF Packet
<1>4. raw_packet_queue' \in Seq(Packet)
  BY <1>1, <1>3, AppendProperties DEF PacketArrives
<1>5. After(numbered[l]) \in Number BY <1>1, AfterIsNumber
<1> QED BY <1>1, <1>3, <1>4, <1>5 DEF PacketArrives

\* The packet that is processed leaves the queue, and its point ends the cloud
\* of its lidar.
Takes(packet) ==
  LET l == packet.lidar
  IN  /\ packet = raw_packet_queue[1]
      /\ Len(raw_packet_queue) \in Nat \ {0}
      /\ raw_packet_queue' \in Seq(Packet)
      /\ Len(raw_packet_queue') = Len(raw_packet_queue) - 1
      /\ \A i \in 1..Len(raw_packet_queue') : raw_packet_queue'[i] = raw_packet_queue[i + 1]
      /\ current' = {l} /\ handlers' = handlers \cup {l}
      /\ clouds' \in [Sender -> Seq(Point)]
      /\ \A k \in Sender : k # l => clouds'[k] = clouds[k]
      /\ clouds'[l] # <<>>
      /\ Len(clouds'[l]) = Len(clouds[l]) + 1
      /\ \A i \in 1..Len(clouds[l]) : clouds'[l][i] = clouds[l][i]
      /\ clouds'[l][Len(clouds[l]) + 1] = [stamp |-> packet.stamp, number |-> packet.number]

LEMMA ProcessPacketTyped ==
  ASSUME FramesInv, ProcessPacket PROVE \E packet \in Packet : Takes(packet)
<1>1. raw_packet_queue \in Seq(Packet) /\ raw_packet_queue # <<>> /\ clouds \in [Sender -> Seq(Point)]
  BY DEF FramesInv, FramesTypeOK, ProcessPacket
<1>2. PICK packet \in Packet : packet = Head(raw_packet_queue) /\ packet = raw_packet_queue[1]
  <2>1. Len(raw_packet_queue) \in Nat \ {0} BY <1>1, EmptySeq
  <2>2. 1 \in 1..Len(raw_packet_queue) BY <2>1
  <2>3. raw_packet_queue[1] \in Packet BY <1>1, <2>2, ElementOfSeq
  <2> QED BY <1>1, <2>3, HeadTailProperties
<1>3. /\ Len(raw_packet_queue) \in Nat \ {0} /\ raw_packet_queue' \in Seq(Packet)
      /\ Len(raw_packet_queue') = Len(raw_packet_queue) - 1
      /\ \A i \in 1..Len(raw_packet_queue') : raw_packet_queue'[i] = raw_packet_queue[i + 1]
  BY <1>1, EmptySeq, HeadTailProperties DEF ProcessPacket
<1> DEFINE l == packet.lidar
           p == [stamp |-> packet.stamp, number |-> packet.number]
<1>4. l \in Sender /\ p \in Point BY DEF Packet, Point
<1>5. clouds' = [clouds EXCEPT ![l] = @ \o <<p>>] /\ current' = {l} /\ handlers' = handlers \cup {l}
  BY <1>2 DEF ProcessPacket, PointsOf
<1> HIDE DEF p, l
<1>6. clouds[l] \in Seq(Point) BY <1>1, <1>4
<1>7. clouds'[l] = Append(clouds[l], p) BY <1>1, <1>4, <1>5, <1>6, AppendIsConcat
<1>8. /\ Append(clouds[l], p) \in Seq(Point) /\ Append(clouds[l], p) # <<>>
      /\ Len(Append(clouds[l], p)) = Len(clouds[l]) + 1
      /\ \A i \in 1..Len(clouds[l]) : Append(clouds[l], p)[i] = clouds[l][i]
      /\ Append(clouds[l], p)[Len(clouds[l]) + 1] = p
  BY <1>4, <1>6, AppendProperties
<1>9. clouds' \in [Sender -> Seq(Point)] /\ \A k \in Sender : k # l => clouds'[k] = clouds[k]
  <2>1. clouds' = [clouds EXCEPT ![l] = Append(clouds[l], p)]
    BY <1>1, <1>4, <1>5, <1>6, AppendIsConcat
  <2> QED BY <1>1, <1>4, <1>8, <2>1
<1>10. Takes(packet) BY <1>2, <1>3, <1>5, <1>7, <1>8, <1>9 DEF Takes, l, p
<1> QED BY <1>10

\* A frame is closed: the clouds of some lidars, of which each is empty then.
LEMMA CloseFrameTyped ==
  ASSUME FramesInv, NEW who, CloseFrame(who)
  PROVE  /\ clouds' \in [Sender -> Seq(Point)] /\ framed' \in [Sender -> Number]
         /\ \A l \in Sender :
              /\ l \in who => clouds'[l] = <<>>
              /\ l \notin who => clouds'[l] = clouds[l]
              /\ framed'[l] = IF l \in who /\ clouds[l] # <<>>
                              THEN After(clouds[l][Len(clouds[l])].number) ELSE framed[l]
<1>1. clouds \in [Sender -> Seq(Point)] /\ framed \in [Sender -> Number] /\ <<>> \in Seq(Point)
  BY DEF FramesInv, FramesTypeOK
<1>2. ASSUME NEW l \in Sender
      PROVE  (IF l \in who /\ clouds[l] # <<>>
              THEN After(clouds[l][Len(clouds[l])].number) ELSE framed[l]) \in Number
  <2>1. clouds[l] \in Seq(Point) /\ framed[l] \in Number BY <1>1
  <2> QED BY <2>1, LastPoint
<1> QED BY <1>1, <1>2 DEF CloseFrame

LEMMA FramesStepInv == ASSUME FramesInv, [FramesNext]_frameVars PROVE FramesInv'
<1>0. /\ now \in 1..MaxNow /\ raw_packet_queue \in Seq(Packet)
      /\ clouds \in [Sender -> Seq(Point)] /\ framed \in [Sender -> Number]
      /\ handlers \subseteq Sender /\ current \subseteq handlers
  BY DEF FramesInv, FramesTypeOK
<1>1. ASSUME NEW l \in Sender, PacketArrives(l) PROVE FramesInv'
  <2>1. raw_packet_queue' \in Seq(Packet) /\ numbered' \in [Sender -> Number]
    BY <1>1, PacketArrivesTyped
  <2> QED BY <1>1, <2>1 DEF PacketArrives, FramesInv, FramesTypeOK, ThreadInv
<1>2. CASE (\E l \in Sender : ImuPacketArrives(l)) \/ TimePasses \/ Quit \/ RequestQuit
           \/ UNCHANGED frameVars
  <2>1. /\ UNCHANGED <<raw_packet_queue, clouds, handlers, last_pub_time, current, numbered, framed>>
        /\ sentNow' \subseteq Sender /\ (quitted' => current = {})
    BY <1>2 DEF ImuPacketArrives, TimePasses, Quit, RequestQuit, frameVars, FramesInv,
       FramesTypeOK, ThreadInv
  <2>5. is_timestamp_sync' \in BOOLEAN
    <3>1. ASSUME NEW l \in Sender, ImuPacketArrives(l) PROVE is_timestamp_sync' \in BOOLEAN
      BY <3>1 DEF ImuPacketArrives
    <3>2. CASE TimePasses \/ Quit \/ RequestQuit \/ UNCHANGED frameVars
      BY <3>2 DEF TimePasses, Quit, RequestQuit, frameVars, FramesInv, FramesTypeOK
    <3> QED BY <1>2, <3>1, <3>2
  <2>6. is_quit' \in BOOLEAN /\ quitted' \in BOOLEAN
    BY <1>2 DEF ImuPacketArrives, TimePasses, Quit, RequestQuit, frameVars, FramesInv, FramesTypeOK
  <2>2. now' \in 1..MaxNow /\ now <= now'
    BY <1>0, <1>2 DEF ImuPacketArrives, TimePasses, Quit, RequestQuit, frameVars
  <2>3. PICK m : m = now' OBVIOUS
  <2>4. last_pub_time \in 0..m
    BY <2>2, <2>3 DEF FramesInv, FramesTypeOK
  <2> QED BY <2>1, <2>2, <2>3, <2>4, <2>5, <2>6 DEF FramesInv, FramesTypeOK, ThreadInv
<1>3. CASE ProcessPacket
  <2>1. PICK packet \in Packet :
          /\ raw_packet_queue' \in Seq(Packet)
          /\ current' = {packet.lidar} /\ handlers' = handlers \cup {packet.lidar}
          /\ clouds' \in [Sender -> Seq(Point)]
          /\ \A l \in Sender : l # packet.lidar => clouds'[l] = clouds[l]
          /\ clouds'[packet.lidar] # <<>>
    BY <1>3, ProcessPacketTyped DEF Takes
  <2>2. packet.lidar \in Sender BY DEF Packet
  <2>3. ~quitted /\ UNCHANGED <<now, is_timestamp_sync, last_pub_time, is_quit, quitted,
                                sentNow, numbered, framed>>
    BY <1>3 DEF ProcessPacket
  <2>4. FramesTypeOK' BY <2>1, <2>2, <2>3 DEF FramesInv, FramesTypeOK
  <2>5. ThreadInv' BY <2>1, <2>2, <2>3 DEF FramesInv, ThreadInv
  <2> QED BY <2>4, <2>5 DEF FramesInv
<1>4. CASE CheckTimerSynced \/ CheckTimerHost
  <2>1. /\ current' = {} /\ last_pub_time' \in 0..now
        /\ UNCHANGED <<now, is_timestamp_sync, raw_packet_queue, handlers, is_quit,
                       quitted, sentNow, numbered>>
    BY <1>0, <1>4 DEF CheckTimerSynced, CheckTimerHost, FramesInv, FramesTypeOK
  <2>2. CASE \E who : CloseFrame(who)
    <3>1. PICK who : CloseFrame(who) BY <2>2
    <3>2. /\ clouds' \in [Sender -> Seq(Point)] /\ framed' \in [Sender -> Number]
          /\ \A l \in Sender : clouds'[l] # <<>> => clouds'[l] = clouds[l]
      BY <3>1, CloseFrameTyped
    <3> QED BY <2>1, <3>2 DEF FramesInv, FramesTypeOK, ThreadInv
  <2>3. CASE KeepFrame BY <2>1, <2>3 DEF KeepFrame, FramesInv, FramesTypeOK, ThreadInv
  <2> QED BY <1>4, <2>2, <2>3 DEF CheckTimerSynced, CheckTimerHost
<1> QED BY <1>1, <1>2, <1>3, <1>4 DEF FramesNext

LEMMA FramesInitInv == ASSUME FramesInit PROVE FramesInv
<1>1. 0 \in Number BY DEF Number
<1>2. <<>> \in Seq(Packet) /\ <<>> \in Seq(Point) OBVIOUS
<1>3. /\ raw_packet_queue \in Seq(Packet) /\ clouds \in [Sender -> Seq(Point)]
      /\ numbered \in [Sender -> Number] /\ framed \in [Sender -> Number]
  BY <1>1, <1>2 DEF FramesInit
<1>4. now \in 1..MaxNow /\ last_pub_time \in 0..now BY DEF FramesInit
<1>5. FramesTypeOK BY <1>3, <1>4 DEF FramesInit, FramesTypeOK
<1>6. ThreadInv BY DEF FramesInit, ThreadInv
<1> QED BY <1>5, <1>6 DEF FramesInv

(***************************************************************************)
(* The state of PubHandler keeps its types, and what a lidar has collected *)
(* is always in a handler that the thread looks at (pub_handler.cpp).      *)
(***************************************************************************)
THEOREM FramesTypeCorrect == FramesSpec => []FramesInv
BY FramesInitInv, FramesStepInv, PTL DEF FramesSpec

-----------------------------------------------------------------------------
(* Points                                                                  *)

\* What the cloud of a lidar holds: the points after the last one framed.
CloudFollows(l) ==
  /\ clouds[l] # <<>> => clouds[l][1].number = framed[l]
  /\ \A i \in 2..Len(clouds[l]) : clouds[l][i].number = After(clouds[l][i - 1].number)

\* What the queue holds: the points after those of the cloud.
QueueFollows(l) ==
  \A i \in 1..(Len(raw_packet_queue) + 1) : \A j \in 0..(i - 1) :
    IsOf(l, i) /\ LastBefore(l, j, i) => NumberOf(l, i) = NextNumber(l, j)

LEMMA PointsInit == ASSUME FramesInit PROVE EachPointOnce
<1>1. Len(raw_packet_queue) = 0 /\ \A l \in Sender : clouds[l] = <<>> BY DEF FramesInit
<1>2. Len(<<>>) = 0 OBVIOUS
<1> QED BY <1>1, <1>2 DEF FramesInit, EachPointOnce, NumberOf, NextNumber, Collected

\* A packet comes after those of its lidar that have arrived.
LEMMA PointsArrive ==
  ASSUME FramesInv, EachPointOnce, NEW l \in Sender, PacketArrives(l) PROVE EachPointOnce'
<1> DEFINE q == raw_packet_queue
           p == [lidar |-> l, stamp |-> Stamp(l), number |-> numbered[l]]
<1>1. q \in Seq(Packet) /\ Len(q) \in Nat /\ numbered \in [Sender -> Number]
  BY DEF FramesInv, FramesTypeOK
<1>2. /\ raw_packet_queue' = Append(q, p) /\ UNCHANGED <<clouds, framed>>
      /\ numbered' = [numbered EXCEPT ![l] = After(@)]
  BY DEF PacketArrives
<1>3. p \in Packet BY PacketArrivesTyped
<1>4. p.lidar = l /\ p.number = numbered[l] OBVIOUS
<1> HIDE DEF p
<1>5. /\ Len(raw_packet_queue') = Len(q) + 1
      /\ \A i \in 1..Len(q) : raw_packet_queue'[i] = q[i]
      /\ raw_packet_queue'[Len(q) + 1] = p
  BY <1>1, <1>2, <1>3, AppendProperties
<1> HIDE DEF q
<1>6. PICK n \in Nat : n = Len(q) BY <1>1
<1> SUFFICES ASSUME NEW k \in Sender PROVE (CloudFollows(k) /\ QueueFollows(k))'
  BY DEF EachPointOnce, CloudFollows, QueueFollows
<1>7. CloudFollows(k) /\ QueueFollows(k) BY DEF EachPointOnce, CloudFollows, QueueFollows
<1>8. CloudFollows(k)' BY <1>2, <1>7 DEF CloudFollows
<1>9. Collected(k)' = Collected(k) BY <1>2 DEF Collected
<1>10. /\ \A i \in 1..n : IsOf(k, i)' <=> IsOf(k, i)
       /\ \A j \in 0..n : NextNumber(k, j)' = NextNumber(k, j)
       /\ \A i \in 1..n : NumberOf(k, i)' = NumberOf(k, i)
  BY <1>5, <1>6, <1>9 DEF IsOf, NextNumber, NumberOf, q
<1>11. /\ IsOf(k, n + 1)' <=> k = l
       /\ IsOf(k, n + 1) /\ NumberOf(k, n + 1) = numbered[k]
       /\ NumberOf(k, n + 2)' = numbered'[k]
       /\ k = l => NumberOf(k, n + 1)' = numbered[l] /\ NextNumber(k, n + 1)' = After(numbered[l])
  BY <1>4, <1>5, <1>6 DEF IsOf, NumberOf, NextNumber, q
<1>12. ASSUME NEW i \in 1..(n + 2), NEW j \in 0..(i - 1), IsOf(k, i)', LastBefore(k, j, i)'
       PROVE  NumberOf(k, i)' = NextNumber(k, j)'
  <2>1. ASSUME i \in 1..n \/ (i = n + 1 /\ k = l) PROVE NumberOf(k, i)' = NextNumber(k, j)'
    <3>1. i \in 1..(n + 1) /\ j \in 0..n /\ IsOf(k, i) BY <1>10, <1>11, <1>12, <2>1
    <3>2. LastBefore(k, j, i)
      <4>1. \A m \in (j + 1)..(i - 1) : m \in 1..n BY <3>1
      <4>2. j # 0 => j \in 1..n BY <3>1
      <4> QED BY <1>10, <1>12, <4>1, <4>2 DEF LastBefore
    <3>3. NumberOf(k, i) = NextNumber(k, j) BY <1>6, <1>7, <3>1, <3>2 DEF QueueFollows, q
    <3> QED BY <1>10, <1>11, <2>1, <3>1, <3>3
  <2>2. ASSUME i = n + 2, k = l PROVE NumberOf(k, i)' = NextNumber(k, j)'
    <3>1. j = n + 1
      <4>1. CASE j < n + 1
        <5>1. n + 1 \in (j + 1)..(i - 1) BY <2>2, <4>1
        <5> QED BY <1>11, <1>12, <2>2, <5>1 DEF LastBefore
      <4> QED BY <2>2, <4>1
    <3> QED BY <1>1, <1>2, <1>11, <2>2, <3>1
  <2>3. ASSUME i = n + 2, k # l PROVE NumberOf(k, i)' = NextNumber(k, j)'
    <3>1. j \in 0..n
      <4>1. CASE j = n + 1 BY <1>11, <1>12, <2>3, <4>1 DEF LastBefore
      <4> QED BY <2>3, <4>1
    <3>2. LastBefore(k, j, n + 1)
      <4>1. \A m \in (j + 1)..((n + 1) - 1) : m \in 1..n /\ m \in (j + 1)..(i - 1) BY <2>3, <3>1
      <4>2. j # 0 => j \in 1..n BY <3>1
      <4> QED BY <1>10, <1>12, <4>1, <4>2 DEF LastBefore
    <3>3. n + 1 \in 1..(n + 1) /\ j \in 0..((n + 1) - 1) BY <3>1
    <3>4. NumberOf(k, n + 1) = NextNumber(k, j) BY <1>6, <1>7, <1>11, <3>2, <3>3 DEF QueueFollows, q
    <3> QED BY <1>1, <1>2, <1>10, <1>11, <2>3, <3>1, <3>4
  <2>4. i = n + 1 => k = l BY <1>11, <1>12
  <2> QED BY <2>1, <2>2, <2>3, <2>4
<1>13. Len(raw_packet_queue') + 1 = n + 2 BY <1>5, <1>6
<1>14. QueueFollows(k)'
  BY <1>12, <1>13 DEF QueueFollows
<1> QED BY <1>8, <1>14

\* The first packet goes to the end of its lidar's cloud.
LEMMA PointsProcessed ==
  ASSUME FramesInv, EachPointOnce, ProcessPacket PROVE EachPointOnce'
<1>1. PICK packet \in Packet : Takes(packet) BY ProcessPacketTyped
<1>2. PICK l \in Sender : l = packet.lidar BY SMTT(30) DEF Packet
<1> DEFINE q == raw_packet_queue
<1>3. /\ Len(q) \in Nat \ {0} /\ q[1] = packet
      /\ Len(raw_packet_queue') = Len(q) - 1
      /\ \A i \in 1..Len(raw_packet_queue') : raw_packet_queue'[i] = q[i + 1]
      /\ UNCHANGED <<framed, numbered>>
  BY <1>1 DEF Takes, ProcessPacket
<1>4. /\ \A k \in Sender : k # l => clouds'[k] = clouds[k]
      /\ clouds'[l] # <<>>
      /\ Len(clouds'[l]) = Len(clouds[l]) + 1
      /\ \A i \in 1..Len(clouds[l]) : clouds'[l][i] = clouds[l][i]
      /\ clouds'[l][Len(clouds[l]) + 1].number = packet.number
  BY <1>1, <1>2, SMTT(30) DEF Takes
<1>5. PICK n \in Nat : Len(q) = n + 1
  <2>1. Len(q) - 1 \in Nat BY <1>3
  <2> QED BY <2>1, Len(q) = (Len(q) - 1) + 1
<1> HIDE DEF q
<1>6. Len(raw_packet_queue') = n BY <1>3, <1>5
<1> SUFFICES ASSUME NEW k \in Sender PROVE (CloudFollows(k) /\ QueueFollows(k))'
  BY DEF EachPointOnce, CloudFollows, QueueFollows
<1>7. CloudFollows(k) /\ QueueFollows(k) BY DEF EachPointOnce, CloudFollows, QueueFollows
<1>8. IsOf(k, 1) <=> k = l BY <1>2, <1>3, <1>5 DEF IsOf, q
<1>9. k = l => packet.number = Collected(k)
  <2> SUFFICES ASSUME k = l PROVE packet.number = Collected(k) OBVIOUS
  <2>1. 1 \in 1..(Len(q) + 1) /\ 0 \in 0..(1 - 1) BY <1>5
  <2>2. LastBefore(k, 0, 1)
    <3>1. (0 + 1)..(1 - 1) = {} OBVIOUS
    <3> QED BY <3>1 DEF LastBefore
  <2>3. NumberOf(k, 1) = NextNumber(k, 0) BY <1>7, <1>8, <2>1, <2>2 DEF QueueFollows, q
  <2>4. NumberOf(k, 1) = packet.number BY <1>3, <1>5 DEF NumberOf, q
  <2> QED BY <2>3, <2>4 DEF NextNumber
<1>10. CloudFollows(k)'
  <2>1. CASE k # l BY <1>3, <1>4, <1>7, <2>1 DEF CloudFollows
  <2>2. CASE k = l
    <3> DEFINE c == clouds[l]
               d == clouds'[l]
    <3>1. c \in Seq(Point) /\ Len(c) \in Nat BY DEF FramesInv, FramesTypeOK
    <3>2. /\ Len(d) = Len(c) + 1 /\ \A i \in 1..Len(c) : d[i] = c[i]
          /\ d[Len(c) + 1].number = packet.number
      BY <1>4
    <3>3. /\ c # <<>> => c[1].number = framed[l]
          /\ \A i \in 2..Len(c) : c[i].number = After(c[i - 1].number)
      BY <1>7, <2>2 DEF CloudFollows
    <3>4. packet.number = IF c = <<>> THEN framed[l] ELSE After(c[Len(c)].number)
      BY <1>9, <2>2 DEF Collected
    <3> HIDE DEF c, d
    <3>5. c = <<>> => Len(c) = 0 OBVIOUS
    <3>6. c # <<>> => Len(c) \in Nat \ {0} BY <3>1, EmptySeq
    <3>7. d[1].number = framed[l]
      <4>1. CASE c = <<>> BY <3>2, <3>4, <3>5, <4>1
      <4>2. CASE c # <<>>
        <5>1. 1 \in 1..Len(c) BY <3>6, <4>2
        <5> QED BY <3>2, <3>3, <4>2, <5>1
      <4> QED BY <4>1, <4>2
    <3>8. ASSUME NEW i \in 2..Len(d) PROVE d[i].number = After(d[i - 1].number)
      <4>1. CASE i \in 1..Len(c)
        <5>1. i \in 2..Len(c) /\ i - 1 \in 1..Len(c) BY <3>1, <4>1
        <5> QED BY <3>2, <3>3, <5>1
      <4>2. CASE i \notin 1..Len(c)
        <5>1. i = Len(c) + 1 /\ i - 1 = Len(c) /\ Len(c) # 0 BY <3>1, <3>2, <4>2
        <5>2. c # <<>> /\ Len(c) \in 1..Len(c) BY <3>1, <3>5, <5>1
        <5> QED BY <3>2, <3>4, <5>1, <5>2
      <4> QED BY <4>1, <4>2
    <3> QED BY <1>3, <2>2, <3>7, <3>8 DEF CloudFollows, d
  <2> QED BY <2>1, <2>2
<1>11. Collected(k)' = IF k = l THEN After(packet.number) ELSE Collected(k)
  <2>1. CASE k # l BY <1>3, <1>4, <2>1 DEF Collected
  <2>2. CASE k = l BY <1>4, <2>2 DEF Collected
  <2> QED BY <2>1, <2>2
<1>12. /\ \A i \in 1..(n + 1) : IsOf(k, i)' <=> IsOf(k, i + 1)
       /\ \A i \in 1..(n + 1) : NumberOf(k, i)' = NumberOf(k, i + 1)
       /\ \A j \in 1..n : NextNumber(k, j)' = NextNumber(k, j + 1)
  <2>1. \A i \in 1..n : raw_packet_queue'[i] = raw_packet_queue[i + 1] BY <1>3, <1>6 DEF q
  <2>2. \A i \in 1..(n + 1) : (i = n + 1 <=> i + 1 = (n + 1) + 1) /\ (i # n + 1 => i \in 1..n)
    OBVIOUS
  <2>3. \A j \in 1..n : j # 0 /\ j + 1 # 0 OBVIOUS
  <2> QED BY <1>3, <1>5, <1>6, <2>1, <2>2, <2>3 DEF IsOf, NumberOf, NextNumber, q
<1>13. ASSUME NEW i \in 1..(n + 1), NEW j \in 0..(i - 1), IsOf(k, i)', LastBefore(k, j, i)'
       PROVE  NumberOf(k, i)' = NextNumber(k, j)'
  <2>1. i + 1 \in 1..(Len(q) + 1) /\ IsOf(k, i + 1) /\ NumberOf(k, i)' = NumberOf(k, i + 1)
    BY <1>5, <1>12, <1>13
  <2>2. \A m \in (j + 2)..i : ~IsOf(k, m)
    <3> SUFFICES ASSUME NEW m \in (j + 2)..i PROVE ~IsOf(k, m) OBVIOUS
    <3>1. m - 1 \in (j + 1)..(i - 1) /\ m - 1 \in 1..(n + 1) /\ (m - 1) + 1 = m OBVIOUS
    <3>2. ~IsOf(k, m - 1)' BY <1>13, <3>1 DEF LastBefore
    <3> QED BY <1>12, <3>1, <3>2
  <2>3. CASE j # 0
    <3>1. j \in 1..n /\ j \in 1..(n + 1) BY <2>3
    <3>2. IsOf(k, j + 1) BY <1>12, <1>13, <2>3, <3>1 DEF LastBefore
    <3>3. LastBefore(k, j + 1, i + 1)
      <4>1. ((j + 1) + 1)..((i + 1) - 1) = (j + 2)..i BY <3>1
      <4> QED BY <2>2, <3>2, <4>1 DEF LastBefore
    <3>4. j + 1 \in 0..((i + 1) - 1) OBVIOUS
    <3>5. NumberOf(k, i + 1) = NextNumber(k, j + 1)
      BY <1>7, <2>1, <3>3, <3>4 DEF QueueFollows, q
    <3> QED BY <1>12, <2>1, <3>1, <3>5
  <2>4. CASE j = 0 /\ k = l
    <3>1. IsOf(k, 1) BY <1>8, <2>4
    <3>2. LastBefore(k, 1, i + 1)
      <4>1. (1 + 1)..((i + 1) - 1) = (j + 2)..i BY <2>4
      <4> QED BY <2>2, <3>1, <4>1 DEF LastBefore
    <3>3. 1 \in 0..((i + 1) - 1) OBVIOUS
    <3>4. NumberOf(k, i + 1) = NextNumber(k, 1)
      BY <1>7, <2>1, <3>2, <3>3 DEF QueueFollows, q
    <3>5. NextNumber(k, 1) = After(packet.number) BY <1>3 DEF NextNumber, q
    <3>6. NextNumber(k, j)' = Collected(k)' BY <2>4 DEF NextNumber
    <3> QED BY <1>11, <2>1, <2>4, <3>4, <3>5, <3>6
  <2>5. CASE j = 0 /\ k # l
    <3>1. LastBefore(k, 0, i + 1)
      <4>1. \A m \in (0 + 1)..((i + 1) - 1) : m = 1 \/ m \in (j + 2)..i BY <2>5
      <4> QED BY <1>8, <2>2, <2>5, <4>1 DEF LastBefore
    <3>2. 0 \in 0..((i + 1) - 1) OBVIOUS
    <3>3. NumberOf(k, i + 1) = NextNumber(k, 0)
      BY <1>7, <2>1, <3>1, <3>2 DEF QueueFollows, q
    <3>4. NextNumber(k, j)' = Collected(k)' /\ NextNumber(k, 0) = Collected(k)
      BY <2>5 DEF NextNumber
    <3> QED BY <1>11, <2>1, <2>5, <3>3, <3>4
  <2> QED BY <2>3, <2>4, <2>5
<1>14. QueueFollows(k)' BY <1>6, <1>13 DEF QueueFollows
<1> QED BY <1>10, <1>14

\* Closing a frame leaves what comes next as it was.
LEMMA PointsFramed ==
  ASSUME FramesInv, EachPointOnce, UNCHANGED <<raw_packet_queue, numbered>>,
         KeepFrame \/ \E who : CloseFrame(who)
  PROVE  EachPointOnce'
<1>1. CASE KeepFrame
  <2> SUFFICES ASSUME NEW k \in Sender PROVE (CloudFollows(k) /\ QueueFollows(k))'
    BY DEF EachPointOnce, CloudFollows, QueueFollows
  <2>1. CloudFollows(k) /\ QueueFollows(k) BY DEF EachPointOnce, CloudFollows, QueueFollows
  <2>2. CloudFollows(k)' BY <1>1, <2>1 DEF CloudFollows, KeepFrame
  <2>3. Collected(k)' = Collected(k) BY <1>1 DEF Collected, KeepFrame
  <2>4. QueueFollows(k)' BY <2>1, <2>3, ZenonT(60) DEF QueueFollows, IsOf, LastBefore, NumberOf, NextNumber
  <2> QED BY <2>2, <2>4
<1>2. ASSUME NEW who, CloseFrame(who) PROVE EachPointOnce'
  <2> SUFFICES ASSUME NEW k \in Sender PROVE (CloudFollows(k) /\ QueueFollows(k))'
    BY DEF EachPointOnce, CloudFollows, QueueFollows
  <2>1. CloudFollows(k) /\ QueueFollows(k) BY DEF EachPointOnce, CloudFollows, QueueFollows
  <2>2. /\ k \in who => clouds'[k] = <<>>
        /\ k \notin who => clouds'[k] = clouds[k]
        /\ framed'[k] = IF k \in who /\ clouds[k] # <<>>
                        THEN After(clouds[k][Len(clouds[k])].number) ELSE framed[k]
    BY <1>2, CloseFrameTyped
  <2>3. Len(<<>>) = 0 OBVIOUS
  <2>4. CloudFollows(k)' BY <2>1, <2>2, <2>3 DEF CloudFollows
  <2>5. Collected(k)' = Collected(k) BY <2>2 DEF Collected
  <2>6. QueueFollows(k)' BY <2>1, <2>5, ZenonT(60) DEF QueueFollows, IsOf, LastBefore, NumberOf, NextNumber
  <2> QED BY <2>4, <2>6
<1> QED BY <1>1, <1>2

(***************************************************************************)
(* No point is lost, doubled or reordered on its way into the frames of    *)
(* its lidar, however packets of different lidars interleave and whichever *)
(* timer closes a frame (pub_handler.cpp).                                 *)
(***************************************************************************)
THEOREM PointsAreFramedOnce == FramesSpec => []EachPointOnce
<1>1. ASSUME FramesInv, EachPointOnce, [FramesNext]_frameVars PROVE EachPointOnce'
  <2>1. CASE CheckTimerSynced \/ CheckTimerHost
    <3>1. UNCHANGED <<raw_packet_queue, numbered>> /\ (KeepFrame \/ \E who : CloseFrame(who))
      BY <2>1 DEF CheckTimerSynced, CheckTimerHost
    <3> QED BY <1>1, <3>1, PointsFramed
  <2>2. CASE (\E l \in Sender : ImuPacketArrives(l)) \/ TimePasses \/ Quit \/ RequestQuit
             \/ UNCHANGED frameVars
    <3>1. UNCHANGED <<raw_packet_queue, numbered, clouds, framed>>
      BY <2>2 DEF ImuPacketArrives, TimePasses, Quit, RequestQuit, frameVars
    <3> QED BY <1>1, <3>1, PointsFramed DEF KeepFrame
  <2> QED BY <1>1, <2>1, <2>2, PointsArrive, PointsProcessed DEF FramesNext
<1> QED BY <1>1, PointsInit, FramesTypeCorrect, PTL DEF FramesSpec


-----------------------------------------------------------------------------
(* The length of frames                                                    *)

\* A multiple of S that is less than S from zero.
LEMMA SmallProduct ==
  ASSUME NEW S \in Nat \ {0}, NEW d \in Int, 0 <= S * d, S * d < S PROVE d = 0
<1>1. CASE d >= 1
  <2>1. S * d >= S * 1 BY <1>1
  <2> QED BY <2>1
<1>2. CASE d <= -1
  <2>1. S * d <= S * (-1) BY <1>2
  <2> QED BY <2>1
<1> QED BY <1>1, <1>2

LEMMA ProductIsMultiple ==
  ASSUME NEW S \in Nat \ {0}, NEW q \in Int, NEW x \in Int, x = S * q PROVE x % S = 0
<1>1. x = S * (x \div S) + (x % S) /\ x % S \in 0..(S - 1) /\ x \div S \in Int OBVIOUS
<1>2. PICK e \in Int : e = x \div S BY <1>1
<1>3. S * (q - e) = S * q - S * e OBVIOUS
<1>4. S * (q - e) = x % S BY <1>1, <1>2, <1>3
<1>5. PICK d \in Int : d = q - e OBVIOUS
<1>6. S * d = x % S BY <1>4, <1>5
<1>7. d = 0 BY <1>1, <1>6, SmallProduct
<1> QED BY <1>6, <1>7

\* Among any S successive numbers there is a multiple of S, and S later the next.
LEMMA TwoMultiples ==
  ASSUME NEW S \in Nat \ {0}, NEW a \in Nat
  PROVE  \E m \in Nat : /\ m % S = 0 /\ (m + S) % S = 0
                        /\ a <= m /\ m <= a + (S - 1)
<1>1. a = S * (a \div S) + (a % S) /\ a % S \in 0..(S - 1) /\ a \div S \in Int OBVIOUS
<1>2. PICK q \in Int : q = a \div S BY <1>1
<1>3. PICK p \in Int : p = S * q BY <1>2
<1>4. a = p + (a % S) BY <1>1, <1>2, <1>3
<1>5. S * (q + 1) = p + S /\ S * (q + 2) = p + S + S BY <1>3
<1>6. p % S = 0 /\ (p + S) % S = 0 /\ (p + S + S) % S = 0
  BY <1>3, <1>5, ProductIsMultiple
<1>7. CASE a % S = 0
  <2>1. p = a BY <1>1, <1>4, <1>7
  <2> QED BY <1>6, <2>1
<1>8. CASE a % S # 0
  <2>1. a % S \in 1..(S - 1) BY <1>1, <1>8
  <2>2. PICK r \in 1..(S - 1) : r = a % S BY <2>1
  <2>3. PICK m \in Int : m = p + S OBVIOUS
  <2>4. m \in Nat /\ a <= m /\ m <= a + (S - 1) BY <1>4, <2>2, <2>3
  <2>5. m % S = 0 /\ (m + S) % S = 0 BY <1>6, <2>3
  <2> QED BY <2>4, <2>5
<1> QED BY <1>7, <1>8

\* How far the clock of a lidar is ahead of the host's.
Ahead(l) == IF l \in Synced THEN Shift ELSE 0

\* The stamps of what waits and of what is collected are not from the future,
\* and what is queued or in hand is from this millisecond.
TimeInv ==
  /\ ~quitted => \A i \in 1..Len(raw_packet_queue) :
                   raw_packet_queue[i].stamp = Stamp(raw_packet_queue[i].lidar)
  /\ \A l \in Sender : clouds[l] # <<>> => BaseTime(l) >= 1 /\ RecentTime(l) <= Stamp(l)
  /\ \A l \in current : RecentTime(l) = Stamp(l)

\* A moment at which the frame of l was to be closed by its stamps, and was not.
IsMissed(l, m) ==
  /\ m % Interval = 0
  /\ BaseTime(l) + Tolerance <= m
  /\ m < RecentTime(l) \/ (m = RecentTime(l) /\ l \notin current)

\* At such a moment the flag was off, so the thread looked at the host's clock,
\* less than the interval after the last time it closed a frame by it.  It has
\* closed none since.
MissedByHost(l) ==
  clouds[l] # <<>> /\ Gapless(l) =>
    \A m \in Nat : IsMissed(l, m) =>
      /\ last_pub_time >= 1
      /\ (m - Ahead(l)) - Interval < last_pub_time
      /\ last_pub_time <= m - Ahead(l)

LengthInv == TimeInv /\ \A l \in Sender : MissedByHost(l)

LEMMA StampIsAhead == ASSUME now \in 1..MaxNow, NEW l PROVE Stamp(l) = now + Ahead(l) /\ Ahead(l) \in Nat
BY DEF Stamp, Ahead

LEMMA CloudTimes ==
  ASSUME FramesInv, NEW l \in Sender
  PROVE  /\ BaseTime(l) \in Nat /\ RecentTime(l) \in Nat
         /\ clouds[l] # <<>> => /\ BaseTime(l) = clouds[l][1].stamp
                                /\ RecentTime(l) = clouds[l][Len(clouds[l])].stamp
<1>1. clouds[l] \in Seq(Point) BY DEF FramesInv, FramesTypeOK
<1>2. CASE clouds[l] = <<>> BY <1>2 DEF BaseTime, RecentTime
<1>3. CASE clouds[l] # <<>>
  <2>1. /\ clouds[l][Len(clouds[l])] \in Point /\ clouds[l][1] \in Point
        /\ Head(clouds[l]) = clouds[l][1]
    BY <1>1, <1>3, LastPoint
  <2>2. clouds[l][Len(clouds[l])].stamp \in Nat /\ clouds[l][1].stamp \in Nat
    BY <2>1 DEF Point
  <2> QED BY <1>3, <2>1, <2>2 DEF BaseTime, RecentTime
<1> QED BY <1>2, <1>3

LEMMA LengthInit == ASSUME FramesInit PROVE LengthInv
<1>1. Len(raw_packet_queue) = 0 /\ (\A l \in Sender : clouds[l] = <<>>) /\ current = {}
  BY DEF FramesInit
<1> QED BY <1>1 DEF LengthInv, TimeInv, MissedByHost

\* A step that leaves the clouds as they are.
LEMMA LengthSame ==
  ASSUME FramesInv, LengthInv, UNCHANGED <<clouds, current, last_pub_time>>,
         NEW l \in Sender
  PROVE  /\ MissedByHost(l)'
         /\ BaseTime(l)' = BaseTime(l) /\ RecentTime(l)' = RecentTime(l)
<1>1. BaseTime(l)' = BaseTime(l) /\ RecentTime(l)' = RecentTime(l) BY DEF BaseTime, RecentTime
<1>2. Gapless(l)' <=> Gapless(l) BY DEF Gapless
<1>3. MissedByHost(l) BY DEF LengthInv
<1> QED BY <1>1, <1>2, <1>3 DEF MissedByHost, IsMissed

LEMMA LengthArrive ==
  ASSUME FramesInv, LengthInv, NEW l \in Sender, PacketArrives(l) PROVE LengthInv'
<1> DEFINE q == raw_packet_queue
           p == [lidar |-> l, stamp |-> Stamp(l), number |-> numbered[l]]
<1>1. q \in Seq(Packet) /\ Len(q) \in Nat BY DEF FramesInv, FramesTypeOK
<1>2. raw_packet_queue' = Append(q, p) /\ UNCHANGED <<clouds, current, last_pub_time, now, quitted>>
  BY DEF PacketArrives
<1>3. p \in Packet /\ p.stamp = Stamp(p.lidar) BY PacketArrivesTyped
<1> HIDE DEF p
<1>4. /\ Len(raw_packet_queue') = Len(q) + 1
      /\ \A i \in 1..Len(q) : raw_packet_queue'[i] = q[i]
      /\ raw_packet_queue'[Len(q) + 1] = p
  BY <1>1, <1>2, <1>3, AppendProperties
<1>5. \A k : Stamp(k)' = Stamp(k) BY <1>2 DEF Stamp
<1>6. ~quitted => \A i \in 1..Len(q) : q[i].stamp = Stamp(q[i].lidar)
  BY DEF LengthInv, TimeInv
<1> HIDE DEF q
<1>7. ASSUME ~quitted', NEW i \in 1..Len(raw_packet_queue')
      PROVE  (raw_packet_queue[i].stamp = Stamp(raw_packet_queue[i].lidar))'
  <2>1. i \in 1..Len(q) \/ i = Len(q) + 1 BY <1>1, <1>4
  <2>2. raw_packet_queue'[i].stamp = Stamp(raw_packet_queue'[i].lidar)
    BY <1>2, <1>3, <1>4, <1>6, <1>7, <2>1
  <2> QED BY <1>5, <2>2
<1>8. \A k \in Sender : /\ MissedByHost(k)'
                        /\ BaseTime(k)' = BaseTime(k) /\ RecentTime(k)' = RecentTime(k)
  BY <1>2, LengthSame
<1>9. current \subseteq Sender BY DEF FramesInv, FramesTypeOK
<1>10. TimeInv' BY <1>2, <1>5, <1>7, <1>8, <1>9 DEF LengthInv, TimeInv
<1> QED BY <1>8, <1>10 DEF LengthInv

LEMMA LengthTime == ASSUME FramesInv, LengthInv, TimePasses PROVE LengthInv'
<1>1. /\ UNCHANGED <<clouds, current, last_pub_time, quitted, raw_packet_queue>>
      /\ current = {} /\ (~quitted => raw_packet_queue = <<>>)
  BY DEF TimePasses, FramesInv, ThreadInv
<1>2. \A k \in Sender : /\ MissedByHost(k)'
                        /\ BaseTime(k)' = BaseTime(k) /\ RecentTime(k)' = RecentTime(k)
  BY <1>1, LengthSame
<1>3. PICK n \in Nat : n = now' /\ now <= n
  BY DEF TimePasses, FramesInv, FramesTypeOK
<1>4. ASSUME NEW k \in Sender, clouds[k] # <<>> PROVE RecentTime(k) <= Stamp(k)'
  <2>1. RecentTime(k) \in Nat /\ RecentTime(k) <= Stamp(k) BY <1>4, CloudTimes DEF LengthInv, TimeInv
  <2>2. Stamp(k)' = n + Ahead(k)
    <3>1. CASE k \in Synced BY <1>3, <3>1 DEF Stamp, Ahead
    <3>2. CASE k \notin Synced
      <4>1. Stamp(k)' = n /\ Ahead(k) = 0 BY <1>3, <3>2 DEF Stamp, Ahead
      <4> QED BY <4>1
    <3> QED BY <3>1, <3>2
  <2>3. Stamp(k) = now + Ahead(k) /\ Ahead(k) \in Nat /\ now \in Nat
    BY StampIsAhead DEF FramesInv, FramesTypeOK
  <2>4. Stamp(k) <= n + Ahead(k) BY <1>3, <2>3
  <2>5. RecentTime(k) <= n + Ahead(k) BY <2>1, <2>3, <2>4
  <2> QED BY <2>2, <2>5
<1>5. Len(<<>>) = 0 OBVIOUS
<1>6. TimeInv' BY <1>1, <1>2, <1>4, <1>5 DEF LengthInv, TimeInv
<1> QED BY <1>2, <1>6 DEF LengthInv

\* A point of this millisecond comes to the end of a cloud.
LEMMA LengthProcess == ASSUME FramesInv, LengthInv, ProcessPacket PROVE LengthInv'
<1>1. PICK packet \in Packet : Takes(packet) BY ProcessPacketTyped
<1>2. PICK l \in Sender : l = packet.lidar BY DEF Packet
<1>3. /\ current = {} /\ ~quitted /\ ~quitted'
      /\ UNCHANGED <<now, last_pub_time>>
  BY DEF ProcessPacket
<1>4. \A k : Stamp(k)' = Stamp(k) BY <1>3 DEF Stamp
<1>5. Len(raw_packet_queue) \in Nat \ {0} /\ packet = raw_packet_queue[1]
  BY <1>1 DEF Takes
<1>6. packet.stamp = Stamp(l)
  <2>1. 1 \in 1..Len(raw_packet_queue) BY <1>5
  <2> QED BY <1>2, <1>3, <1>5, <2>1 DEF LengthInv, TimeInv
<1>7. ASSUME NEW i \in 1..Len(raw_packet_queue')
      PROVE  raw_packet_queue'[i].stamp = Stamp(raw_packet_queue'[i].lidar)
  <2>1. PICK n \in Int : n = Len(raw_packet_queue) /\ Len(raw_packet_queue') = n - 1
    BY <1>1, <1>5 DEF Takes
  <2>2. i + 1 \in 1..n BY <2>1
  <2>3. raw_packet_queue'[i] = raw_packet_queue[i + 1] BY <1>1 DEF Takes
  <2> QED BY <1>3, <2>1, <2>2, <2>3 DEF LengthInv, TimeInv
<1>8. /\ current' = {l}
      /\ \A k \in Sender : k # l => clouds'[k] = clouds[k]
      /\ clouds'[l] # <<>> /\ clouds' \in [Sender -> Seq(Point)]
      /\ Len(clouds'[l]) = Len(clouds[l]) + 1
      /\ \A i \in 1..Len(clouds[l]) : clouds'[l][i] = clouds[l][i]
      /\ clouds'[l][Len(clouds[l]) + 1].stamp = Stamp(l)
  BY <1>1, <1>2, <1>6 DEF Takes
<1>9. \A k \in Sender : k # l => /\ BaseTime(k)' = BaseTime(k) /\ RecentTime(k)' = RecentTime(k)
                                 /\ (Gapless(k)' <=> Gapless(k))
  BY <1>8 DEF BaseTime, RecentTime, Gapless
<1> DEFINE c == clouds[l]
           d == clouds'[l]
<1>10. c \in Seq(Point) /\ d \in Seq(Point) /\ Len(c) \in Nat
  BY <1>8 DEF FramesInv, FramesTypeOK
<1>11. /\ BaseTime(l)' = d[1].stamp /\ RecentTime(l)' = d[Len(d)].stamp
       /\ Len(d) = Len(c) + 1 /\ (\A i \in 1..Len(c) : d[i] = c[i])
       /\ d[Len(c) + 1].stamp = Stamp(l)
  BY <1>8, <1>10, HeadTailProperties DEF BaseTime, RecentTime
<1>12. c # <<>> => /\ BaseTime(l) = c[1].stamp /\ RecentTime(l) = c[Len(c)].stamp
                   /\ BaseTime(l) >= 1 /\ RecentTime(l) <= Stamp(l)
  BY CloudTimes DEF LengthInv, TimeInv
<1>13. Gapless(l)' <=> \A i \in 2..Len(d) : d[i].stamp <= d[i - 1].stamp + 1
  BY DEF Gapless
<1>14. Gapless(l) <=> \A i \in 2..Len(c) : c[i].stamp <= c[i - 1].stamp + 1
  BY DEF Gapless
<1>15. c = <<>> => Len(c) = 0 OBVIOUS
<1>16. c # <<>> => Len(c) \in Nat \ {0} BY <1>10, EmptySeq
<1>17. now \in 1..MaxNow /\ Stamp(l) \in Nat \ {0} /\ RecentTime(l) \in Nat /\ BaseTime(l) \in Nat
  BY StampIsNat, CloudTimes DEF FramesInv, FramesTypeOK
<1>18. RecentTime(l)' = Stamp(l) BY <1>11
<1>19. BaseTime(l)' = IF c = <<>> THEN Stamp(l) ELSE BaseTime(l)
  <2>1. CASE c = <<>> BY <1>11, <1>15, <2>1
  <2>2. CASE c # <<>>
    <3>1. 1 \in 1..Len(c) BY <1>16, <2>2
    <3> QED BY <1>11, <1>12, <2>2, <3>1
  <2> QED BY <2>1, <2>2
<1>20. Gapless(l)' /\ c # <<>> => Gapless(l) /\ Stamp(l) <= RecentTime(l) + 1
  <2> SUFFICES ASSUME Gapless(l)', c # <<>> PROVE Gapless(l) /\ Stamp(l) <= RecentTime(l) + 1
    OBVIOUS
  <2> HIDE DEF c, d
  <2>1. PICK n \in Nat \ {0} : n = Len(c) BY <1>16
  <2>2. ASSUME NEW i \in 2..n PROVE c[i].stamp <= c[i - 1].stamp + 1
    <3>1. i \in 2..(n + 1) /\ i \in 1..n /\ i - 1 \in 1..n OBVIOUS
    <3> QED BY <1>11, <1>13, <2>1, <3>1
  <2>3. n + 1 \in 2..(n + 1) /\ (n + 1) - 1 = n /\ n \in 1..n OBVIOUS
  <2>4. d[n + 1].stamp <= d[n].stamp + 1 BY <1>11, <1>13, <2>1, <2>3
  <2>5. d[n + 1].stamp = Stamp(l) /\ d[n].stamp = RecentTime(l) BY <1>11, <1>12, <2>1, <2>3
  <2> QED BY <1>14, <2>1, <2>2, <2>4, <2>5
<1> HIDE DEF d
<1>21. MissedByHost(l)'
  <2> SUFFICES ASSUME Gapless(l)', NEW m \in Nat, IsMissed(l, m)'
               PROVE  /\ last_pub_time >= 1
                      /\ (m - Ahead(l)) - Interval < last_pub_time
                      /\ last_pub_time <= m - Ahead(l)
    BY <1>3 DEF MissedByHost, Ahead
  <2>0. Tolerance \in Nat BY DEF Tolerance
  <2>1. m % Interval = 0 /\ BaseTime(l)' + Tolerance <= m /\ m < Stamp(l)
    BY <1>8, <1>18 DEF IsMissed
  <2>2. c # <<>>
    <3> SUFFICES ASSUME c = <<>> PROVE FALSE OBVIOUS
    <3>1. Stamp(l) + Tolerance <= m /\ m < Stamp(l) BY <1>19, <2>1
    <3> QED BY <1>17, <2>0, <3>1
  <2>3. BaseTime(l) + Tolerance <= m BY <1>19, <2>1, <2>2
  <2>4. Gapless(l) /\ Stamp(l) <= RecentTime(l) + 1 BY <1>20, <2>2
  <2>5. m <= RecentTime(l)
    <3>1. m < Stamp(l) BY <2>1
    <3> QED BY <1>17, <2>4, <3>1
  <2>6. IsMissed(l, m)
    <3>1. m < RecentTime(l) \/ m = RecentTime(l) BY <1>17, <2>5
    <3>2. m % Interval = 0 BY <2>1
    <3> QED BY <1>3, <2>3, <3>1, <3>2 DEF IsMissed
  <2> QED BY <2>2, <2>4, <2>6 DEF LengthInv, MissedByHost
<1>22. ASSUME NEW k \in Sender, k # l PROVE MissedByHost(k)'
  <2>1. MissedByHost(k) BY DEF LengthInv
  <2>2. k \notin current /\ k \notin current' BY <1>3, <1>8, <1>22
  <2> QED BY <1>3, <1>8, <1>9, <1>22, <2>1, <2>2 DEF MissedByHost, IsMissed
<1>23. TimeInv'
  <2>1. \A k \in Sender : clouds'[k] # <<>> => BaseTime(k)' >= 1 /\ RecentTime(k)' <= Stamp(k)'
    <3>1. ASSUME NEW k \in Sender, k # l, clouds'[k] # <<>>
          PROVE  BaseTime(k)' >= 1 /\ RecentTime(k)' <= Stamp(k)'
      <4>1. BaseTime(k) >= 1 /\ RecentTime(k) <= Stamp(k) BY <1>8, <3>1 DEF LengthInv, TimeInv
      <4> QED BY <1>4, <1>9, <3>1, <4>1
    <3>2. BaseTime(l)' >= 1 /\ RecentTime(l)' <= Stamp(l)'
      <4>1. Stamp(l) <= Stamp(l) /\ Stamp(l) >= 1 BY <1>17
      <4>2. RecentTime(l)' <= Stamp(l)' BY <1>4, <1>18, <4>1
      <4> QED BY <1>12, <1>19, <4>1, <4>2
    <3> QED BY <3>1, <3>2
  <2>2. \A k \in current' : RecentTime(k)' = Stamp(k)' BY <1>4, <1>8, <1>18
  <2>3. \A i \in 1..Len(raw_packet_queue') :
          (raw_packet_queue[i].stamp = Stamp(raw_packet_queue[i].lidar))'
    BY <1>4, <1>7
  <2> QED BY <2>1, <2>2, <2>3 DEF TimeInv
<1> QED BY <1>21, <1>22, <1>23 DEF LengthInv

\* A lidar in hand, by its own stamps: a moment at which its frame was to be
\* closed has not passed by.
LEMMA NotDueIsNotMissed ==
  ASSUME FramesInv, LengthInv, NEW l \in current, ~SyncedFrameIsDue(l)
  PROVE  ~(RecentTime(l) % Interval = 0 /\ BaseTime(l) + Tolerance <= RecentTime(l))
<1>1. l \in Sender /\ clouds[l] # <<>> BY DEF FramesInv, FramesTypeOK, ThreadInv
<1>2. BaseTime(l) \in Nat /\ RecentTime(l) \in Nat /\ BaseTime(l) >= 1
  BY <1>1, CloudTimes DEF LengthInv, TimeInv
<1>3. Tolerance \in Nat BY DEF Tolerance
<1>4. BaseTime(l) + Tolerance <= RecentTime(l)
        => RecentTime(l) # 0 /\ RecentTime(l) - BaseTime(l) >= Tolerance
  BY <1>2, <1>3
<1> QED BY <1>4 DEF SyncedFrameIsDue

\* A lidar whose frame the thread leaves open: if that is a moment at which it
\* was to be closed, the host's clock has decided, and the interval is not over.
LEMMA LeftOpen ==
  ASSUME FramesInv, LengthInv, NEW l \in Sender, NEW m \in Nat, current' = {},
         UNCHANGED now, clouds'[l] = clouds[l], clouds[l] # <<>>, Gapless(l),
         IsMissed(l, m)',
         \/ last_pub_time' = last_pub_time
         \/ last_pub_time = 0 /\ last_pub_time' = now,
         l \in current =>
           \/ ~SyncedFrameIsDue(l)
           \/ last_pub_time' >= 1 /\ now - last_pub_time' < Interval
  PROVE  /\ last_pub_time' >= 1
         /\ (m - Ahead(l)) - Interval < last_pub_time'
         /\ last_pub_time' <= m - Ahead(l)
<1>1. now \in 1..MaxNow /\ last_pub_time \in 0..now BY DEF FramesInv, FramesTypeOK
<1>2. BaseTime(l)' = BaseTime(l) /\ RecentTime(l)' = RecentTime(l) BY DEF BaseTime, RecentTime
<1>3. /\ m % Interval = 0 /\ BaseTime(l) + Tolerance <= m
      /\ m < RecentTime(l) \/ m = RecentTime(l)
  BY <1>2 DEF IsMissed
<1>4. CASE IsMissed(l, m)
  <2>1. /\ last_pub_time >= 1
        /\ (m - Ahead(l)) - Interval < last_pub_time
        /\ last_pub_time <= m - Ahead(l)
    BY <1>4 DEF LengthInv, MissedByHost
  <2>2. last_pub_time # 0 BY <1>1, <2>1
  <2> QED BY <2>1, <2>2
<1>5. CASE ~IsMissed(l, m)
  <2>1. m = RecentTime(l) /\ l \in current BY <1>3, <1>5 DEF IsMissed
  <2>3. SyncedFrameIsDue(l) BY <1>3, <2>1, NotDueIsNotMissed
  <2>4. last_pub_time' >= 1 /\ now - last_pub_time' < Interval BY <2>1, <2>3
  <2>5. m = now + Ahead(l) /\ Ahead(l) \in Nat
    BY <1>1, <2>1, StampIsAhead DEF LengthInv, TimeInv
  <2>6. PICK p \in Int : p = last_pub_time' /\ p <= now BY <1>1
  <2>7. p >= 1 /\ now - p < Interval BY <2>4, <2>6
  <2>8. (m - Ahead(l)) - Interval < p /\ p <= m - Ahead(l)
    <3>1. m - Ahead(l) = now BY <1>1, <2>5
    <3>2. p \in Int /\ p <= now BY <2>6
    <3> QED BY <1>1, <2>7, <3>1, <3>2
  <2> QED BY <2>6, <2>7, <2>8
<1> QED BY <1>4, <1>5

LEMMA LengthCheck ==
  ASSUME FramesInv, LengthInv, CheckTimerSynced \/ CheckTimerHost PROVE LengthInv'
<1>1. current' = {} /\ UNCHANGED <<now, quitted, raw_packet_queue>>
  BY DEF CheckTimerSynced, CheckTimerHost
<1>2. now \in 1..MaxNow /\ last_pub_time \in 0..now /\ handlers \subseteq Sender
      /\ current \subseteq handlers
  BY DEF FramesInv, FramesTypeOK
<1>3. ASSUME NEW l \in Sender
      PROVE  \/ clouds'[l] = <<>>
             \/ /\ clouds'[l] = clouds[l]
                /\ \/ last_pub_time' = last_pub_time
                   \/ last_pub_time = 0 /\ last_pub_time' = now
                /\ l \in current =>
                     \/ ~SyncedFrameIsDue(l)
                     \/ last_pub_time' >= 1 /\ now - last_pub_time' < Interval
  <2>1. CASE CheckTimerSynced
    <3>1. last_pub_time' = last_pub_time BY <2>1 DEF CheckTimerSynced
    <3>2. CASE \E k \in current : SyncedFrameIsDue(k)
      <4>1. CloseFrame(current) BY <2>1, <3>2 DEF CheckTimerSynced
      <4> QED BY <3>1, <4>1, CloseFrameTyped
    <3>3. CASE ~\E k \in current : SyncedFrameIsDue(k)
      <4>1. clouds' = clouds BY <2>1, <3>3 DEF CheckTimerSynced, KeepFrame
      <4> QED BY <3>1, <3>3, <4>1
    <3> QED BY <3>2, <3>3
  <2>2. CASE last_pub_time = 0 /\ last_pub_time' = now /\ KeepFrame
    <3>1. last_pub_time' >= 1 /\ now - last_pub_time' < Interval BY <1>2, <2>2
    <3> QED BY <2>2, <3>1 DEF KeepFrame
  <2>3. CASE last_pub_time # 0 /\ now - last_pub_time < Interval /\ KeepFrame
             /\ UNCHANGED last_pub_time
    <3>1. last_pub_time >= 1 BY <1>2, <2>3
    <3> QED BY <2>3, <3>1 DEF KeepFrame
  <2>4. CASE CloseFrame(handlers)
    <3>1. clouds[l] # <<>> => l \in handlers BY DEF FramesInv, ThreadInv
    <3>2. clouds'[l] = <<>> BY <2>4, <3>1, CloseFrameTyped
    <3> QED BY <3>2
  <2> QED BY <2>1, <2>2, <2>3, <2>4 DEF CheckTimerHost
<1>4. ASSUME NEW l \in Sender PROVE MissedByHost(l)'
  <2> SUFFICES ASSUME clouds'[l] # <<>>, Gapless(l)', NEW m \in Nat, IsMissed(l, m)'
               PROVE  /\ last_pub_time' >= 1
                      /\ (m - Ahead(l)) - Interval < last_pub_time'
                      /\ last_pub_time' <= m - Ahead(l)
    BY DEF MissedByHost, Ahead
  <2>1. clouds'[l] = clouds[l] BY <1>3, <1>4
  <2>2. Gapless(l) BY <2>1 DEF Gapless
  <2> QED BY <1>1, <1>3, <1>4, <2>1, <2>2, LeftOpen
<1>5. TimeInv'
  <2>1. \A k : Stamp(k)' = Stamp(k) BY <1>1 DEF Stamp
  <2>2. ASSUME ~quitted', NEW i \in 1..Len(raw_packet_queue')
        PROVE  (raw_packet_queue[i].stamp = Stamp(raw_packet_queue[i].lidar))'
    BY <1>1, <2>1, <2>2 DEF LengthInv, TimeInv, Stamp
  <2>3. ASSUME NEW l \in Sender, clouds'[l] # <<>>
        PROVE  BaseTime(l)' >= 1 /\ RecentTime(l)' <= Stamp(l)'
    <3>1. clouds'[l] = clouds[l] BY <1>3, <2>3
    <3>2. BaseTime(l)' = BaseTime(l) /\ RecentTime(l)' = RecentTime(l)
      BY <3>1 DEF BaseTime, RecentTime
    <3>3. BaseTime(l) >= 1 /\ RecentTime(l) <= Stamp(l) BY <2>3, <3>1 DEF LengthInv, TimeInv
    <3> QED BY <2>1, <3>2, <3>3
  <2> QED BY <1>1, <2>2, <2>3 DEF TimeInv
<1> QED BY <1>4, <1>5 DEF LengthInv

LEMMA LengthStep ==
  ASSUME FramesInv, LengthInv, [FramesNext]_frameVars PROVE LengthInv'
<1>1. CASE (\E l \in Sender : ImuPacketArrives(l)) \/ RequestQuit \/ UNCHANGED frameVars \/ Quit
  <2>1. /\ UNCHANGED <<clouds, current, last_pub_time, now, raw_packet_queue>>
        /\ quitted' \/ quitted' = quitted
    BY <1>1 DEF ImuPacketArrives, RequestQuit, Quit, frameVars
  <2>2. \A k \in Sender : /\ MissedByHost(k)'
                          /\ BaseTime(k)' = BaseTime(k) /\ RecentTime(k)' = RecentTime(k)
    BY <2>1, LengthSame
  <2>3. \A k : Stamp(k)' = Stamp(k) BY <2>1 DEF Stamp
  <2>4. ASSUME ~quitted', NEW i \in 1..Len(raw_packet_queue')
        PROVE  (raw_packet_queue[i].stamp = Stamp(raw_packet_queue[i].lidar))'
    BY <2>1, <2>4 DEF LengthInv, TimeInv, Stamp
  <2>5. current \subseteq Sender BY DEF FramesInv, FramesTypeOK
  <2>6. TimeInv' BY <2>1, <2>2, <2>3, <2>4, <2>5 DEF LengthInv, TimeInv
  <2> QED BY <2>2, <2>6 DEF LengthInv
<1> QED BY <1>1, LengthArrive, LengthTime, LengthProcess, LengthCheck DEF FramesNext

\* Two moments at which the frame was to be closed cannot both have been missed:
\* the host's clock would have closed it in between.
LEMMA FramesAreShort == ASSUME FramesInv, LengthInv PROVE FramesAreClosed
<1> SUFFICES ASSUME NEW l \in Sender, Gapless(l), current = {},
                    ~(RecentTime(l) - BaseTime(l) <= 3 * Tolerance)
             PROVE  FALSE
  BY DEF FramesAreClosed
<1>1. BaseTime(l) \in Nat /\ RecentTime(l) \in Nat BY CloudTimes
<1>2. Tolerance \in Nat /\ Interval = Tolerance + 1 BY DEF Tolerance
<1>3. RecentTime(l) >= BaseTime(l) + 3 * Tolerance + 1 BY <1>1, <1>2
<1>4. clouds[l] # <<>>
  <2> SUFFICES ASSUME clouds[l] = <<>> PROVE FALSE OBVIOUS
  <2>1. BaseTime(l) = 0 /\ RecentTime(l) = 0 BY DEF BaseTime, RecentTime
  <2> QED BY <1>2, <1>3, <2>1
<1>5. PICK a \in Nat : a = BaseTime(l) + Tolerance BY <1>1, <1>2
<1>6. PICK m \in Nat : /\ m % Interval = 0 /\ (m + Interval) % Interval = 0
                       /\ a <= m /\ m <= a + (Interval - 1)
  BY TwoMultiples
<1>7. PICK n \in Nat : n = m + Interval OBVIOUS
<1>8. /\ BaseTime(l) + Tolerance <= m /\ m < RecentTime(l)
      /\ BaseTime(l) + Tolerance <= n /\ (n < RecentTime(l) \/ n = RecentTime(l))
  <2>1. PICK b \in Nat, r \in Nat, t \in Nat : b = BaseTime(l) /\ r = RecentTime(l) /\ t = Tolerance
    BY <1>1, <1>2
  <2>2. Interval = t + 1 /\ a = b + t /\ r >= b + 3 * t + 1 BY <1>2, <1>3, <1>5, <2>1
  <2>3. b + t <= m /\ m < r /\ b + t <= n /\ (n < r \/ n = r) BY <1>6, <1>7, <2>2
  <2> QED BY <2>1, <2>3
<1>9. IsMissed(l, m) /\ IsMissed(l, n) BY <1>6, <1>7, <1>8 DEF IsMissed
<1>10. last_pub_time <= m - Ahead(l) /\ (n - Ahead(l)) - Interval < last_pub_time
  BY <1>4, <1>9 DEF LengthInv, MissedByHost
<1>11. Ahead(l) \in Nat /\ last_pub_time \in Nat
  BY DEF Ahead, FramesInv, FramesTypeOK
<1>12. (n - Ahead(l)) - Interval = m - Ahead(l) BY <1>7, <1>11
<1>13. PICK x \in Int : x = m - Ahead(l) BY <1>11
<1> QED BY <1>10, <1>11, <1>12, <1>13

(***************************************************************************)
(* The frame of a lidar that sends all the time is closed, although one    *)
(* flag says for all lidars which of the two timers is looked at           *)
(* (pub_handler.cpp:106): of two successive moments at which its stamps    *)
(* would close it, the thread misses at most one to the host's clock.      *)
(***************************************************************************)
THEOREM FramesDoNotGrow == FramesSpec => []FramesAreClosed
<1>1. FramesSpec => []LengthInv
  BY LengthInit, LengthStep, FramesTypeCorrect, PTL DEF FramesSpec
<1> QED BY <1>1, FramesAreShort, FramesTypeCorrect, PTL

=============================================================================
