----------------------------- MODULE ServerProofs ----------------------------
(***************************************************************************)
(* The server process, from its messages down to its threads.              *)
(*                                                                         *)
(* The server node, for any inputs, integrators and map operations, any    *)
(* lengths of queues, waits and histories, and any number of requests and  *)
(* crashes.                                                                *)
(*                                                                         *)
(* The thread pool it hands its work to, for every number of workers,      *)
(* clients and tasks: the accounting of task_count_, the absence of lost   *)
(* wakeups, and the safety part of its refinement of TaskExecutor.         *)
(*                                                                         *)
(* Parallel map updates are free of races, for every number of workers,    *)
(* blocks and range images.  What the pool does is taken from its own      *)
(* theorems: MapUpdate only restricts its one client.                      *)
(***************************************************************************)
EXTENDS RosServer, ServerSetup, MapUpdate, FiniteSetTheorems, SequenceTheorems, TLAPS

-----------------------------------------------------------------------------
(* The executor: types, and what a callback finds                          *)

\* The states in which a measurement is processed.
Busy == {"wait", "available", "lookup", "integrate", "operations"}

\* A callback that is ready finds a message; a measurement that is processed
\* came from an input.
ExecutorInv ==
  /\ \A t \in ready \cap Topic : inbox[t] # <<>>
  /\ pc \in Busy => msg.topic \in Topic /\ msg.stamp \in Time
  /\ pc = "wait" => step <= MaxTries
  /\ pc = "save" => server # "null"

ServerInv == ServerTypeOK /\ ExecutorInv

LEMMA LaterIsTime ==
  ASSUME clock \in Time, NEW d \in Nat
  PROVE  Later(d) \in Time /\ clock <= Later(d) /\ Later(d) <= clock + d
BY ServerAssumption DEF Later, Time

\* The queue of a subscription after a message: the new one, and of the
\* others some moved forward.
LEMMA EnqueueKeeps ==
  ASSUME NEW q \in Seq(Time), Len(q) <= QueueLength, NEW s \in Time
  PROVE  /\ Enqueue(q, s) \in Seq(Time) /\ Enqueue(q, s) # <<>>
         /\ Len(Enqueue(q, s)) <= QueueLength
         /\ \A k \in 1..Len(Enqueue(q, s)) :
              \/ Enqueue(q, s)[k] = s
              \/ \E j \in 1..Len(q) : k <= j /\ Enqueue(q, s)[k] = q[j]
<1> DEFINE l == Append(q, s)
<1>1. /\ l \in Seq(Time) /\ l # <<>> /\ Len(l) = Len(q) + 1
      /\ \A i \in 1..Len(q) : l[i] = q[i]
      /\ l[Len(q) + 1] = s
  BY AppendProperties
<1>2. QueueLength \in Nat \ {0} /\ Len(q) \in Nat BY ServerAssumption
<1> HIDE DEF l
<1>3. Enqueue(q, s) = IF Len(l) > QueueLength THEN Tail(l) ELSE l BY DEF Enqueue, l
<1>4. \A k \in 1..Len(l) : l[k] = s \/ \E j \in 1..Len(q) : k <= j /\ l[k] = q[j]
  <2> SUFFICES ASSUME NEW k \in 1..Len(l) PROVE l[k] = s \/ \E j \in 1..Len(q) : k <= j /\ l[k] = q[j]
    OBVIOUS
  <2>1. k = Len(q) + 1 \/ k \in 1..Len(q) BY <1>1, <1>2
  <2> QED BY <1>1, <1>2, <2>1
<1>5. CASE Len(l) > QueueLength
  <2>1. /\ Tail(l) \in Seq(Time) /\ Len(Tail(l)) = Len(l) - 1
        /\ \A i \in 1..Len(Tail(l)) : Tail(l)[i] = l[i + 1]
    BY <1>1, HeadTailProperties
  <2>2. Len(Tail(l)) \in Nat \ {0} /\ Len(Tail(l)) <= QueueLength BY <1>1, <1>2, <1>5, <2>1
  <2>3. Tail(l) # <<>> BY <2>1, <2>2, Len(<<>>) = 0
  <2>4. ASSUME NEW k \in 1..Len(Tail(l))
        PROVE  Tail(l)[k] = s \/ \E j \in 1..Len(q) : k <= j /\ Tail(l)[k] = q[j]
    <3>1. k + 1 \in 1..Len(l) /\ Tail(l)[k] = l[k + 1] BY <1>1, <2>1
    <3>2. l[k + 1] = s \/ \E j \in 1..Len(q) : k + 1 <= j /\ l[k + 1] = q[j] BY <1>4, <3>1
    <3> QED BY <1>2, <3>1, <3>2
  <2> QED BY <1>3, <1>5, <2>1, <2>2, <2>3, <2>4
<1>6. CASE ~(Len(l) > QueueLength)
  <2>1. Len(l) <= QueueLength BY <1>1, <1>2, <1>6
  <2> QED BY <1>1, <1>3, <1>4, <1>6, <2>1
<1> QED BY <1>5, <1>6

\* What is left of a queue when its first message is taken.
LEMMA TakingLeaves ==
  ASSUME NEW q \in Seq(Time), q # <<>>
  PROVE  /\ Head(q) \in Time /\ Tail(q) \in Seq(Time) /\ Len(Tail(q)) = Len(q) - 1
         /\ Head(q) = q[1] /\ 1 \in 1..Len(q)
         /\ \A k \in 1..Len(Tail(q)) : k + 1 \in 1..Len(q) /\ Tail(q)[k] = q[k + 1]
<1>1. /\ Head(q) \in Time /\ Tail(q) \in Seq(Time) /\ Len(Tail(q)) = Len(q) - 1
      /\ \A k \in 1..Len(Tail(q)) : Tail(q)[k] = q[k + 1]
  BY HeadTailProperties
<1>2. Len(q) \in Nat \ {0} BY EmptySeq
<1> QED BY <1>1, <1>2

LEMMA ServerInitInv == ASSUME ServerInit PROVE ServerInv
<1>1. MaxClock \in Nat \ {0} /\ QueueLength \in Nat \ {0} BY ServerAssumption
<1>2. <<>> \in Seq(Time) /\ Len(<<>>) = 0 OBVIOUS
<1>3. /\ inbox \in [Topic -> Seq(Time)]
      /\ \A t \in Topic : Len(inbox[t]) <= QueueLength
  BY <1>1, <1>2 DEF ServerInit
<1>4. EmptyMap \in MapObject BY DEF EmptyMap, MapObject
<1>5. maps \in [{"pipeline", "loaded"} -> MapObject] BY <1>4 DEF ServerInit, FreshNode
<1>6. published \in [map : MapObject, at : 0..MaxClock] BY <1>1, <1>4 DEF ServerInit
<1>7. file \in [state : {"none", "truncated", "complete"}, map : MapObject]
  BY <1>4 DEF ServerInit, NoFile
<1>8. tf \in [oldest : Int, newest : 0..MaxClock] BY <1>1 DEF ServerInit, FreshNode
<1>9. msg \in [topic : Topic \cup {"none"}, stamp : 0..MaxClock, hit : BOOLEAN]
  BY <1>1 DEF ServerInit, FreshNode, NoMsg
<1>10. lastRun \in [OpType -> 0..MaxClock] BY <1>1 DEF ServerInit, FreshNode
<1>11. /\ ready = {} /\ pc = "idle" /\ step = 0 /\ server = "pipeline"
       /\ clock = 1 /\ ranAt = 0 /\ requests = {} /\ used = [t \in Topic |-> 0]
  BY DEF ServerInit, FreshNode
<1> QED
  BY <1>1, <1>3, <1>5, <1>6, <1>7, <1>8, <1>9, <1>10, <1>11
  DEF ServerInv, ServerTypeOK, ExecutorInv, Busy, Time

\* The variables of which the types are independent of each other.
MapTypes == /\ maps \in [{"pipeline", "loaded"} -> MapObject]
            /\ server \in {"pipeline", "loaded", "null"}
            /\ published \in [map : MapObject, at : 0..MaxClock]
            /\ file \in [state : {"none", "truncated", "complete"}, map : MapObject]

LEMMA MapTypesStep ==
  ASSUME ServerInv, [ServerNext]_serverVars PROVE MapTypes'
<1>0. MapTypes BY DEF ServerInv, ServerTypeOK, MapTypes
<1>1. EmptyMap \in MapObject /\ \A m \in MapObject : Thresholded(m) \in MapObject
  BY DEF EmptyMap, MapObject, Thresholded
<1>2. ASSUME UNCHANGED <<serverMaps, published, file>> PROVE MapTypes'
  BY <1>0, <1>2 DEF MapTypes, serverMaps
<1>3. CASE Integrate
  <2>1. /\ msg.topic \in Topic /\ msg.stamp \in Time
        /\ integrators[step + 1] \in Integrator
        /\ maps["pipeline"] \in MapObject
    BY <1>0, <1>3 DEF Integrate, ServerInv, ExecutorInv, Busy, MapTypes
  <2>2. [updates |-> maps["pipeline"].updates \cup {<<msg.topic, msg.stamp, integrators[step + 1]>>},
         raw |-> TRUE] \in MapObject
    BY <2>1 DEF MapObject
  <2>3. maps' \in [{"pipeline", "loaded"} -> MapObject]
    BY <1>0, <1>3, <2>2 DEF Integrate, MapTypes
  <2> QED BY <1>0, <1>3, <2>3 DEF Integrate, opVars, MapTypes
<1>4. CASE PublishMap
  <2>1. /\ maps["pipeline"] \in MapObject /\ clock \in 0..MaxClock
        /\ maps' = [maps EXCEPT !["pipeline"] = Thresholded(@)]
        /\ published' \in {[map |-> maps'["pipeline"], at |-> clock], published}
        /\ UNCHANGED <<server, file>>
    BY <1>0, <1>4 DEF PublishMap, ServerInv, ServerTypeOK, Time, MapTypes
  <2>2. Thresholded(maps["pipeline"]) \in MapObject BY <1>1, <2>1
  <2>3. /\ maps' \in [{"pipeline", "loaded"} -> MapObject]
        /\ maps'["pipeline"] \in MapObject
    BY <1>0, <2>1, <2>2 DEF MapTypes
  <2> QED BY <1>0, <2>1, <2>3 DEF MapTypes
<1>5. CASE CropMap BY <1>0, <1>1, <1>5 DEF CropMap, MapTypes
<1>6. CASE ResetMap \/ LoadMapForgets \/ LoadMap
  BY <1>0, <1>1, <1>6 DEF ResetMap, LoadMapForgets, LoadMap, opVars, MapTypes
<1>7. CASE SaveMap \/ SaveMapFails
  <2>1. maps' \in [{"pipeline", "loaded"} -> MapObject]
    <3>1. \A o \in {"pipeline", "loaded"} : Thresholded(maps[o]) \in MapObject BY <1>0, <1>1 DEF MapTypes
    <3> QED BY <1>0, <1>7, <3>1 DEF SaveMap, SaveMapFails, MapTypes
  <2> QED BY <1>0, <1>1, <1>7, <2>1 DEF SaveMap, SaveMapFails, TruncatedFile, opVars, MapTypes
<1>8. CASE SaveMapWrites
  <2>1. server \in {"pipeline", "loaded"} /\ maps[server] \in MapObject
    BY <1>0, <1>8 DEF SaveMapWrites, ServerInv, ExecutorInv, MapTypes
  <2> QED BY <1>0, <1>8, <2>1 DEF SaveMapWrites, serverMaps, opVars, MapTypes
<1>9. CASE Crash
  <2>1. /\ maps' = [m \in {"pipeline", "loaded"} |-> EmptyMap] /\ server' = "pipeline"
        /\ UNCHANGED <<published, file>>
    BY <1>9 DEF Crash, FreshNode
  <2> QED BY <1>0, <1>1, <2>1 DEF MapTypes
<1>10. ASSUME \/ \E t \in Topic : Measure(t)
              \/ \E r \in Service : Call(r)
              \/ TfArrives \/ Tick \/ Collect \/ RunInput
              \/ IntegrateEnds \/ OpNotDue \/ PublishEmpty \/ PublishPointcloud \/ PipelineReturns
              \/ LoadMapFails \/ UNCHANGED serverVars
       PROVE  MapTypes'
  <2>1. UNCHANGED <<serverMaps, published, file>>
    BY <1>10 DEF Measure, Call, TfArrives, Tick, Collect, RunInput, TakeMessage, WaitSucceeds,
         WaitRetries, WaitTimesOut, CheckAvailable, Lookup, IntegrateEnds, OpNotDue, PublishEmpty,
         PublishPointcloud, PipelineReturns, LoadMapFails, serverVars, opVars
  <2> QED BY <1>2, <2>1
<1> QED
  BY <1>3, <1>4, <1>5, <1>6, <1>7, <1>8, <1>9, <1>10
  DEF ServerNext, ExecutorStep, RunPipeline, RunService

\* Clocks and stamps.
TimeTypes == /\ clock \in Time
             /\ tf \in [oldest : Int, newest : 0..MaxClock]
             /\ used \in [Topic -> 0..MaxClock]
             /\ lastRun \in [OpType -> 0..MaxClock]
             /\ ranAt \in 0..MaxClock

LEMMA TimeTypesStep ==
  ASSUME ServerInv, [ServerNext]_serverVars PROVE TimeTypes'
<1>0. TimeTypes /\ MaxClock \in Nat \ {0} /\ clock \in 0..MaxClock
  BY ServerAssumption DEF ServerInv, ServerTypeOK, TimeTypes, Time
<1>1. \A d \in Nat : Later(d) \in Time BY <1>0, LaterIsTime DEF TimeTypes
<1>2. clock' \in Time
  <2>1. MaxWork \in Nat BY ServerAssumption
  <2>2. CASE Tick BY <1>0, <2>2 DEF Tick, TimeTypes, Time
  <2>3. CASE WaitRetries BY <1>1, <2>3 DEF WaitRetries
  <2>4. CASE Integrate
    <3>1. PICK work \in 0..MaxWork : clock' = Later(IF step = 0 THEN work ELSE 0)
      BY <2>4 DEF Integrate
    <3>2. (IF step = 0 THEN work ELSE 0) \in Nat BY <2>1
    <3> QED BY <1>1, <3>1, <3>2
  <2>5. ASSUME ~Tick, ~WaitRetries, ~Integrate PROVE UNCHANGED clock
    BY <2>5 DEF ServerNext, Measure, Call, TfArrives, Crash, ExecutorStep, Collect, RunInput,
         TakeMessage, WaitSucceeds, WaitTimesOut, CheckAvailable, Lookup, RunPipeline, IntegrateEnds,
         OpNotDue, PublishEmpty, PublishMap, PublishPointcloud, CropMap, PipelineReturns, RunService,
         ResetMap, SaveMap, SaveMapWrites, SaveMapFails, LoadMapFails, LoadMapForgets, LoadMap,
         serverVars
  <2> QED BY <1>0, <2>2, <2>3, <2>4, <2>5 DEF TimeTypes
<1>3. tf' \in [oldest : Int, newest : 0..MaxClock]
  <2>1. CASE TfArrives
    <3>1. CacheTime \in Nat BY ServerAssumption
    <3>2. PICK stamp \in Time :
            \/ tf' = [oldest |-> stamp, newest |-> stamp]
            \/ tf' = [oldest |-> IF tf.oldest < stamp - CacheTime THEN stamp - CacheTime ELSE tf.oldest,
                      newest |-> stamp]
      BY <2>1 DEF TfArrives
    <3>3. tf.oldest \in Int /\ stamp \in Int /\ stamp \in 0..MaxClock BY <1>0 DEF TimeTypes, Time
    <3> QED BY <3>1, <3>2, <3>3
  <2>2. CASE Crash BY <1>0, <2>2 DEF Crash, FreshNode
  <2>3. ASSUME ~TfArrives, ~Crash PROVE UNCHANGED tf
    BY <2>3 DEF ServerNext, Measure, Call, Tick, ExecutorStep, Collect, RunInput,
         TakeMessage, WaitSucceeds, WaitRetries, WaitTimesOut, CheckAvailable, Lookup, RunPipeline,
         Integrate, IntegrateEnds,
         OpNotDue, PublishEmpty, PublishMap, PublishPointcloud, CropMap, PipelineReturns, RunService,
         ResetMap, SaveMap, SaveMapWrites, SaveMapFails, LoadMapFails, LoadMapForgets, LoadMap,
         serverVars
  <2> QED BY <1>0, <2>1, <2>2, <2>3 DEF TimeTypes
<1>4. used' \in [Topic -> 0..MaxClock]
  <2>1. CASE \E t \in Topic : TakeMessage(t)
    <3>1. PICK t \in Topic : TakeMessage(t) BY <2>1
    <3>2. inbox[t] \in Seq(Time) /\ inbox[t] # <<>>
      BY <3>1 DEF TakeMessage, Runnable, ServerInv, ServerTypeOK, ExecutorInv
    <3>3. Head(inbox[t]) \in 0..MaxClock BY <1>0, <3>2, TakingLeaves DEF Time
    <3>4. used' = used \/ used' = [used EXCEPT ![t] = Head(inbox[t])] BY <3>1 DEF TakeMessage
    <3> QED BY <1>0, <3>3, <3>4 DEF TimeTypes
  <2>2. ASSUME ~\E t \in Topic : TakeMessage(t) PROVE UNCHANGED used
    BY <2>2 DEF ServerNext, Measure, Call, TfArrives, Tick, Crash, ExecutorStep, Collect, RunInput,
         WaitSucceeds, WaitRetries, WaitTimesOut, CheckAvailable, Lookup, RunPipeline,
         Integrate, IntegrateEnds,
         OpNotDue, PublishEmpty, PublishMap, PublishPointcloud, CropMap, PipelineReturns, RunService,
         ResetMap, SaveMap, SaveMapWrites, SaveMapFails, LoadMapFails, LoadMapForgets, LoadMap,
         serverVars
  <2> QED BY <1>0, <2>1, <2>2 DEF TimeTypes
<1>5. lastRun' \in [OpType -> 0..MaxClock] /\ ranAt' \in 0..MaxClock
  <2>1. CASE PublishMap \/ PublishPointcloud \/ CropMap
    BY <1>0, <2>1 DEF PublishMap, PublishPointcloud, CropMap, Stamped, TimeTypes
  <2>2. CASE Crash BY <1>0, <2>2 DEF Crash, FreshNode, TimeTypes
  <2>3. CASE IntegrateEnds BY <1>0, <2>3 DEF IntegrateEnds, TimeTypes
  <2>4. ASSUME ~PublishMap, ~PublishPointcloud, ~CropMap, ~Crash, ~IntegrateEnds
        PROVE  UNCHANGED <<lastRun, ranAt>>
    BY <2>4 DEF ServerNext, Measure, Call, TfArrives, Tick, ExecutorStep, Collect, RunInput,
         TakeMessage, WaitSucceeds, WaitRetries, WaitTimesOut, CheckAvailable, Lookup, RunPipeline,
         Integrate, OpNotDue, PublishEmpty, PipelineReturns, RunService,
         ResetMap, SaveMap, SaveMapWrites, SaveMapFails, LoadMapFails, LoadMapForgets, LoadMap,
         serverVars, opVars
  <2> QED BY <1>0, <2>1, <2>2, <2>3, <2>4 DEF TimeTypes
<1> QED BY <1>2, <1>3, <1>4, <1>5 DEF TimeTypes

\* Queues, the callbacks that are ready, and the measurement.
QueueTypes == /\ inbox \in [Topic -> Seq(Time)]
              /\ \A t \in Topic : Len(inbox[t]) <= QueueLength
              /\ requests \subseteq Service
              /\ ready \subseteq Topic \cup Service
              /\ \A t \in ready \cap Topic : inbox[t] # <<>>

LEMMA QueueTypesStep ==
  ASSUME ServerInv, [ServerNext]_serverVars PROVE QueueTypes'
<1>0. QueueTypes BY DEF ServerInv, ServerTypeOK, ExecutorInv, QueueTypes
<1>1. CASE \E t \in Topic : Measure(t)
  <2>1. PICK t \in Topic : Measure(t) BY <1>1
  <2>2. clock \in Time /\ inbox[t] \in Seq(Time) /\ Len(inbox[t]) <= QueueLength
    BY <1>0 DEF QueueTypes, ServerInv, ServerTypeOK
  <2>3. /\ Enqueue(inbox[t], clock) \in Seq(Time) /\ Enqueue(inbox[t], clock) # <<>>
        /\ Len(Enqueue(inbox[t], clock)) <= QueueLength
    BY <2>2, EnqueueKeeps
  <2>4. inbox' = [inbox EXCEPT ![t] = Enqueue(inbox[t], clock)] /\ UNCHANGED <<requests, ready>>
    BY <2>1 DEF Measure, execVars
  <2> QED BY <1>0, <2>3, <2>4 DEF QueueTypes
<1>2. CASE \E t \in Topic : TakeMessage(t)
  <2>1. PICK t \in Topic : TakeMessage(t) BY <1>2
  <2>2. t \in ready /\ inbox[t] # <<>> /\ inbox[t] \in Seq(Time)
    BY <1>0, <2>1 DEF TakeMessage, Runnable, QueueTypes
  <2>3. Tail(inbox[t]) \in Seq(Time) /\ Len(Tail(inbox[t])) = Len(inbox[t]) - 1
    BY <2>2, TakingLeaves
  <2>4. /\ inbox' = [inbox EXCEPT ![t] = Tail(inbox[t])] /\ ready' = ready \ {t}
        /\ UNCHANGED requests
    BY <2>1 DEF TakeMessage
  <2>5. Len(inbox[t]) \in Nat BY <2>2
  <2>6. Len(Tail(inbox[t])) <= QueueLength BY <1>0, <2>3, <2>5, ServerAssumption DEF QueueTypes
  <2> QED BY <1>0, <2>3, <2>4, <2>6 DEF QueueTypes
<1>3. CASE Collect
  <2>1. ready' = WithData /\ UNCHANGED <<inbox, requests>> BY <1>3 DEF Collect, inputVars
  <2>2. WithData \subseteq Topic \cup Service BY <1>0 DEF WithData, QueueTypes
  <2>3. \A t \in WithData \cap Topic : inbox[t] # <<>>
    BY <1>0, ServerAssumption DEF WithData, QueueTypes
  <2> QED BY <1>0, <2>1, <2>2, <2>3 DEF QueueTypes
<1>4. CASE Crash
  <2>1. /\ inbox' = [t \in Topic |-> <<>>] /\ requests' = {} /\ ready' = {}
    BY <1>4 DEF Crash, FreshNode
  <2>2. QueueLength \in Nat /\ <<>> \in Seq(Time) /\ Len(<<>>) = 0 BY ServerAssumption
  <2> QED BY <2>1, <2>2 DEF QueueTypes
<1>5. ASSUME UNCHANGED inbox, requests' \subseteq Service, ready' \subseteq ready PROVE QueueTypes'
  BY <1>0, <1>5 DEF QueueTypes
<1>6. CASE \E r \in Service : Call(r) BY <1>0, <1>5, <1>6 DEF Call, execVars, QueueTypes
<1>7. CASE TfArrives \/ Tick \/ UNCHANGED serverVars
  BY <1>0, <1>5, <1>7 DEF TfArrives, Tick, serverVars, inputVars, execVars, QueueTypes
<1>8. CASE WaitSucceeds \/ WaitRetries \/ WaitTimesOut \/ CheckAvailable \/ Lookup
  BY <1>0, <1>5, <1>8 DEF WaitSucceeds, WaitRetries, WaitTimesOut, CheckAvailable, Lookup, inputVars, QueueTypes
<1>9. CASE RunPipeline
  BY <1>0, <1>5, <1>9 DEF RunPipeline, Integrate, IntegrateEnds, OpNotDue, PublishEmpty, PublishMap,
       PublishPointcloud, CropMap, PipelineReturns, inputVars, QueueTypes
<1>10. CASE RunService
  BY <1>0, <1>5, <1>10 DEF RunService, ResetMap, SaveMap, SaveMapWrites, SaveMapFails, LoadMapFails,
       LoadMapForgets, LoadMap, Serve, Answer, inputVars, QueueTypes
<1> QED
  BY <1>1, <1>2, <1>3, <1>4, <1>6, <1>7, <1>8, <1>9, <1>10 DEF ServerNext, ExecutorStep, RunInput

RunTypes == /\ pc \in {"idle", "wait", "available", "lookup", "integrate", "operations",
                       "save", "terminated"}
            /\ msg \in [topic : Topic \cup {"none"}, stamp : 0..MaxClock, hit : BOOLEAN]
            /\ step \in Nat
            /\ pc \in Busy => msg.topic \in Topic /\ msg.stamp \in Time
            /\ pc = "wait" => step <= MaxTries
            /\ pc = "save" => server # "null"

LEMMA RunTypesStep ==
  ASSUME ServerInv, [ServerNext]_serverVars PROVE RunTypes'
<1>0. RunTypes BY DEF ServerInv, ServerTypeOK, ExecutorInv, RunTypes
<1>1. MaxTries \in Nat /\ MaxClock \in Nat \ {0} BY ServerAssumption
<1>2. NoMsg \in [topic : Topic \cup {"none"}, stamp : 0..MaxClock, hit : BOOLEAN]
  BY <1>1 DEF NoMsg
<1>3. CASE \E t \in Topic : TakeMessage(t)
  <2>1. PICK t \in Topic : TakeMessage(t) BY <1>3
  <2>2. t \in ready /\ inbox[t] # <<>> /\ inbox[t] \in Seq(Time) /\ pc = "idle"
    BY <2>1 DEF TakeMessage, Runnable, ServerInv, ServerTypeOK, ExecutorInv
  <2>3. Head(inbox[t]) \in Time /\ Head(inbox[t]) \in 0..MaxClock BY <1>1, <2>2, TakingLeaves DEF Time
  <2>4. CASE UNCHANGED <<pc, msg, step>> BY <1>0, <2>2, <2>4 DEF RunTypes, Busy
  <2>5. ASSUME NEW h \in BOOLEAN, msg' = [topic |-> t, stamp |-> Head(inbox[t]), hit |-> h],
               step' = 0, pc' = "wait"
        PROVE  RunTypes'
    BY <1>1, <2>3, <2>5 DEF RunTypes, Busy
  <2> QED BY <2>1, <2>4, <2>5 DEF TakeMessage
<1>4. CASE WaitSucceeds \/ CheckAvailable \/ Lookup \/ IntegrateEnds
  BY <1>0, <1>2, <1>4 DEF WaitSucceeds, CheckAvailable, Lookup, IntegrateEnds, Goto, Return, RunTypes, Busy
<1>5. CASE WaitRetries BY <1>0, <1>1, <1>5 DEF WaitRetries, RunTypes, Busy
<1>6. CASE WaitTimesOut \/ PipelineReturns
  BY <1>0, <1>2, <1>6 DEF WaitTimesOut, PipelineReturns, Goto, Return, RunTypes, Busy
<1>7. CASE Integrate BY <1>0, <1>7 DEF Integrate, RunTypes, Busy
<1>8. CASE OpNotDue \/ PublishEmpty \/ PublishMap \/ PublishPointcloud \/ CropMap
  BY <1>0, <1>8 DEF OpNotDue, PublishEmpty, PublishMap, PublishPointcloud, CropMap, NextOp, RunTypes, Busy
<1>9. CASE SaveMap \/ SaveMapWrites BY <1>0, <1>9 DEF SaveMap, SaveMapWrites, RunTypes, Busy
<1>10. CASE Crash BY <1>2, <1>10 DEF Crash, FreshNode, RunTypes, Busy
<1>11. CASE ResetMap \/ SaveMapFails \/ LoadMapFails \/ LoadMapForgets \/ LoadMap
  <2>1. pc = "idle" /\ UNCHANGED <<pc, msg, step>>
    BY <1>11 DEF ResetMap, SaveMapFails, LoadMapFails, LoadMapForgets, LoadMap, Serve, Runnable
  <2> QED BY <1>0, <2>1 DEF RunTypes
<1>12. CASE \/ \E t \in Topic : Measure(t)
            \/ \E r \in Service : Call(r)
            \/ TfArrives \/ Tick \/ Collect \/ UNCHANGED serverVars
  <2>1. UNCHANGED <<pc, msg, step, server>>
    BY <1>12 DEF Measure, Call, TfArrives, Tick, Collect, serverVars, execVars, serverMaps
  <2> QED BY <1>0, <2>1 DEF RunTypes
<1> QED
  BY <1>3, <1>4, <1>5, <1>6, <1>7, <1>8, <1>9, <1>10, <1>11, <1>12
  DEF ServerNext, ExecutorStep, RunInput, RunPipeline, RunService

LEMMA ServerStepInv == ASSUME ServerInv, [ServerNext]_serverVars PROVE ServerInv'
BY MapTypesStep, TimeTypesStep, QueueTypesStep, RunTypesStep
DEF MapTypes, TimeTypes, QueueTypes, RunTypes, ServerInv, ServerTypeOK, ExecutorInv

(***************************************************************************)
(* The variables of the node keep their types, no callback is run for an   *)
(* empty queue, and no measurement waits longer than it may                *)
(* (tf_transformer.cc, ros_server.cc:119-162).                             *)
(***************************************************************************)
THEOREM ServerTypeCorrect == ServerSpec => []ServerInv
<1>1. ServerInit => ServerInv BY ServerInitInv
<1>2. ServerInv /\ [ServerNext]_serverVars => ServerInv' BY ServerStepInv
<1> QED BY <1>1, <1>2, PTL DEF ServerSpec

-----------------------------------------------------------------------------
(* Snapshots of the map                                                    *)

\* The first n integrators have had the measurement.
IntegratedUpTo(n) ==
  \A j \in 1..n : /\ j <= Len(integrators) /\ integrators[j] \in Integrator
                  /\ msg.hit => <<msg.topic, msg.stamp, integrators[j]>> \in maps["pipeline"].updates

WholeUpdate(m, u) == \A i \in Reached(u[1]) : <<u[1], u[2], i>> \in m.updates

\* An update of the measurement that is being integrated.
Current(u) == pc = "integrate" /\ msg.hit /\ u[1] = msg.topic /\ u[2] = msg.stamp

\* The pipeline's map is whole but for the measurement that is being
\* integrated, and the map that is being saved has been thresholded.
WholeInv ==
  /\ pc = "integrate" => IntegratedUpTo(step)
  /\ \A u \in maps["pipeline"].updates : WholeUpdate(maps["pipeline"], u) \/ Current(u)
  /\ pc = "save" => ~maps[server].raw
  /\ SnapshotsAreWhole

LEMMA WholeIs ==
  ASSUME NEW m PROVE WholeMeasurements(m) <=> \A u \in m.updates : WholeUpdate(m, u)
BY DEF WholeMeasurements, WholeUpdate

LEMMA EmptyMapIsWhole == WholeMeasurements(EmptyMap) /\ ~EmptyMap.raw
BY DEF WholeMeasurements, EmptyMap

LEMMA ThresholdedIsWhole ==
  ASSUME NEW m \in MapObject, WholeMeasurements(m)
  PROVE  WholeMeasurements(Thresholded(m)) /\ ~Thresholded(m).raw
BY DEF WholeMeasurements, Thresholded, MapObject

\* All integrators that a measurement reaches have had it when none is left.
LEMMA ReachedAll ==
  ASSUME msg.topic \in Topic, step \in Nat, IntegratedUpTo(step), msg.hit,
         step < Len(integrators) => integrators[step + 1] \notin Integrator,
         NEW i \in Reached(msg.topic)
  PROVE  <<msg.topic, msg.stamp, i>> \in maps["pipeline"].updates
<1>0. Names[msg.topic] \in Seq(STRING) BY ServerAssumption
<1>1. PICK j \in 1..Len(Names[msg.topic]) :
        /\ \A k \in 1..j : Names[msg.topic][k] \in Integrator
        /\ i = Names[msg.topic][j]
  BY DEF Reached
<1>2. j <= step
  <2>1. SUFFICES ASSUME step < j PROVE FALSE BY <1>0, <1>1
  <2>2. step + 1 \in 1..j /\ step < Len(Names[msg.topic]) BY <1>0, <1>1, <2>1
  <2> QED BY <1>1, <2>2 DEF integrators
<1> QED BY <1>0, <1>1, <1>2 DEF IntegratedUpTo, integrators

LEMMA WholeStep ==
  ASSUME ServerInv, WholeInv, [ServerNext]_serverVars PROVE WholeInv'
<1>0. /\ maps \in [{"pipeline", "loaded"} -> MapObject] /\ server \in {"pipeline", "loaded", "null"}
      /\ step \in Nat /\ (pc = "save" => server # "null")
      /\ pc \in Busy => msg.topic \in Topic /\ msg.stamp \in Time
  BY DEF ServerInv, ServerTypeOK, ExecutorInv
<1>1. /\ WholeMeasurements(published.map) /\ ~published.map.raw
      /\ WholeMeasurements(file.map) /\ ~file.map.raw
      /\ WholeMeasurements(maps["loaded"]) /\ ~maps["loaded"].raw
  BY DEF WholeInv, SnapshotsAreWhole
<1>2. pc # "integrate" => WholeMeasurements(maps["pipeline"]) BY WholeIs DEF WholeInv, Current
\* Steps that leave the maps alone.
<1>3. ASSUME UNCHANGED <<maps, server, published, file>>, pc' = "save" => pc = "save",
             pc = "integrate" => UNCHANGED <<pc, msg, step>>,
             pc # "integrate" /\ pc' = "integrate" => step' = 0
      PROVE  WholeInv'
  <2>1. pc' = "integrate" => IntegratedUpTo(step)'
    BY <1>3 DEF WholeInv, IntegratedUpTo, integrators
  <2>2. \A u \in maps["pipeline"].updates : WholeUpdate(maps["pipeline"], u) \/ Current(u)'
    BY <1>3 DEF WholeInv, Current
  <2>3. SnapshotsAreWhole' BY <1>3 DEF WholeInv, SnapshotsAreWhole, WholeMeasurements
  <2>4. pc' = "save" => ~maps'[server'].raw BY <1>3 DEF WholeInv
  <2>5. \A u \in maps'["pipeline"].updates : WholeUpdate(maps["pipeline"], u)' \/ Current(u)'
    BY <1>3, <2>2 DEF WholeUpdate
  <2> QED BY <2>1, <2>3, <2>4, <2>5 DEF WholeInv
\* Steps after which the pipeline's map is whole.
<1>4. ASSUME pc' # "integrate", WholeMeasurements(maps'["pipeline"]), pc' = "save" => ~maps'[server'].raw,
             WholeMeasurements(published'.map), ~published'.map.raw,
             WholeMeasurements(file'.map), ~file'.map.raw,
             WholeMeasurements(maps'["loaded"]), ~maps'["loaded"].raw
      PROVE  WholeInv'
  <2>1. \A u \in maps'["pipeline"].updates : WholeUpdate(maps["pipeline"], u)'
    BY <1>4 DEF WholeMeasurements, WholeUpdate
  <2>2. SnapshotsAreWhole' BY <1>4 DEF SnapshotsAreWhole, WholeMeasurements
  <2> QED BY <1>4, <2>1, <2>2 DEF WholeInv
<1>5. CASE Integrate
  <2>1. /\ pc = "integrate" /\ pc' = "integrate" /\ msg' = msg /\ step' = step + 1
        /\ step < Len(integrators) /\ integrators[step + 1] \in Integrator
        /\ UNCHANGED <<server, published, file>>
    BY <1>5 DEF Integrate, opVars
  <2> DEFINE u0 == <<msg.topic, msg.stamp, integrators[step + 1]>>
             m == maps["pipeline"]
             n == maps'["pipeline"]
  <2>2. /\ n.updates = IF msg.hit THEN m.updates \cup {u0} ELSE m.updates
        /\ maps'["loaded"] = maps["loaded"]
    BY <1>0, <1>5 DEF Integrate
  <2>3. IntegratedUpTo(step)'
    <3>1. integrators' = integrators BY <2>1 DEF integrators
    <3>2. IntegratedUpTo(step) BY <2>1 DEF WholeInv
    <3>3. \A j \in 1..(step + 1) : j \in 1..step \/ j = step + 1 BY <1>0
    <3>4. ASSUME NEW j \in 1..(step + 1)
          PROVE  /\ j <= Len(integrators) /\ integrators[j] \in Integrator
                 /\ msg.hit => <<msg.topic, msg.stamp, integrators[j]>> \in n.updates
      <4>0. Len(integrators) \in Nat
        <5>1. Names[msg.topic] \in Seq(STRING) BY <1>0, <2>1, ServerAssumption DEF Busy
        <5> QED BY <5>1 DEF integrators
      <4>1. CASE j \in 1..step BY <2>2, <3>2, <4>1 DEF IntegratedUpTo
      <4>2. CASE j = step + 1 BY <1>0, <2>1, <2>2, <4>0, <4>2
      <4> QED BY <3>3, <4>1, <4>2
    <3> QED BY <2>1, <3>1, <3>4 DEF IntegratedUpTo
  <2>4. \A u \in n.updates : WholeUpdate(maps["pipeline"], u)' \/ Current(u)'
    <3>1. \A u \in m.updates : WholeUpdate(m, u) \/ Current(u) BY DEF WholeInv
    <3>2. \A u \in n.updates : u \in m.updates \/ (msg.hit /\ u = u0) BY <2>2
    <3>3. m.updates \subseteq n.updates BY <2>2
    <3> QED BY <2>1, <3>1, <3>2, <3>3 DEF WholeUpdate, Current
  <2>5. SnapshotsAreWhole' BY <1>1, <2>1, <2>2 DEF SnapshotsAreWhole, WholeMeasurements
  <2> QED BY <2>1, <2>3, <2>4, <2>5 DEF WholeInv
<1>6. CASE IntegrateEnds
  <2>1. /\ pc = "integrate" /\ pc' = "operations"
        /\ step < Len(integrators) => integrators[step + 1] \notin Integrator
        /\ UNCHANGED <<maps, published, file>>
    BY <1>6 DEF IntegrateEnds, Goto, serverMaps
  <2>2. \A u \in maps["pipeline"].updates : WholeUpdate(maps["pipeline"], u)
    <3> SUFFICES ASSUME NEW u \in maps["pipeline"].updates, Current(u)
                 PROVE  WholeUpdate(maps["pipeline"], u)
      BY DEF WholeInv
    <3>1. msg.topic \in Topic /\ IntegratedUpTo(step) BY <1>0, <2>1 DEF Busy, WholeInv
    <3>2. msg.hit /\ u[1] = msg.topic /\ u[2] = msg.stamp BY DEF Current
    <3>3. \A i \in Reached(msg.topic) : <<msg.topic, msg.stamp, i>> \in maps["pipeline"].updates
      BY <1>0, <2>1, <3>1, <3>2, ReachedAll
    <3> QED BY <3>2, <3>3 DEF WholeUpdate
  <2>3. WholeMeasurements(maps["pipeline"]) BY <2>2, WholeIs
  <2> QED BY <1>1, <1>4, <2>1, <2>3
<1>7. CASE PublishMap
  <2>1. /\ pc = "operations" /\ pc' = "operations"
        /\ maps' = [maps EXCEPT !["pipeline"] = Thresholded(@)]
        /\ published' \in {[map |-> maps'["pipeline"], at |-> clock], published} /\ file' = file
    BY <1>7 DEF PublishMap, NextOp
  <2>2. /\ maps'["pipeline"] = Thresholded(maps["pipeline"]) /\ maps'["loaded"] = maps["loaded"]
        /\ published'.map \in {maps'["pipeline"], published.map}
    BY <1>0, <2>1
  <2>3. WholeMeasurements(maps'["pipeline"]) /\ ~maps'["pipeline"].raw
    BY <1>0, <1>2, <2>1, <2>2, ThresholdedIsWhole
  <2> QED BY <1>1, <1>4, <2>1, <2>2, <2>3
<1>8. CASE CropMap
  <2>1. /\ pc = "operations" /\ pc' = "operations" /\ UNCHANGED <<published, file>>
        /\ UNCHANGED maps \/ maps' = [maps EXCEPT !["pipeline"] = EmptyMap]
    BY <1>8 DEF CropMap, NextOp
  <2>2. maps'["loaded"] = maps["loaded"] /\ WholeMeasurements(maps'["pipeline"])
    BY <1>0, <1>2, <2>1, EmptyMapIsWhole
  <2> QED BY <1>1, <1>4, <2>1, <2>2
<1>9. CASE ResetMap
  <2>1. /\ pc = "idle" /\ pc' = "idle" /\ UNCHANGED <<published, file>>
        /\ maps' = IF server = "null" THEN maps ELSE [maps EXCEPT ![server] = EmptyMap]
    BY <1>9 DEF ResetMap, Serve, Runnable, opVars
  <2>2. \A o \in {"pipeline", "loaded"} : maps'[o] \in {maps[o], EmptyMap} BY <1>0, <2>1
  <2>3. WholeMeasurements(maps'["pipeline"]) BY <1>2, <2>1, <2>2, EmptyMapIsWhole
  <2>4. WholeMeasurements(maps'["loaded"]) /\ ~maps'["loaded"].raw BY <1>1, <2>2, EmptyMapIsWhole
  <2> QED BY <1>1, <1>4, <2>1, <2>3, <2>4
<1>10. CASE SaveMap \/ SaveMapFails
  <2>1. /\ pc = "idle" /\ pc' \in {"idle", "save"} /\ UNCHANGED <<published, server>>
        /\ pc' = "save" => server # "null"
        /\ maps' = IF server = "null" THEN maps ELSE [maps EXCEPT ![server] = Thresholded(@)]
        /\ file' \in {file, TruncatedFile}
    BY <1>10 DEF SaveMap, SaveMapFails, Serve, Runnable, opVars
  <2>2. \A o \in {"pipeline", "loaded"} :
          /\ maps'[o] = IF o = server THEN Thresholded(maps[o]) ELSE maps[o]
          /\ WholeMeasurements(maps[o]) /\ maps[o] \in MapObject
    BY <1>0, <1>1, <1>2, <2>1
  <2>3. \A o \in {"pipeline", "loaded"} : WholeMeasurements(maps'[o]) /\ (o = server => ~maps'[o].raw)
    BY <2>2, ThresholdedIsWhole
  <2>4. ~maps'["loaded"].raw BY <1>1, <2>2, <2>3
  <2>5. WholeMeasurements(file'.map) /\ ~file'.map.raw
    BY <1>1, <2>1, EmptyMapIsWhole DEF TruncatedFile
  <2>6. pc' = "save" => ~maps'[server'].raw BY <1>0, <2>1, <2>3
  <2> QED BY <1>1, <1>4, <2>1, <2>3, <2>4, <2>5, <2>6
<1>11. CASE SaveMapWrites
  <2>1. /\ pc = "save" /\ pc' = "idle" /\ UNCHANGED <<maps, published>>
        /\ file'.map \in {maps[server], file.map}
    BY <1>11 DEF SaveMapWrites, serverMaps, opVars
  <2>2. server \in {"pipeline", "loaded"} BY <1>0, <2>1
  <2>3. WholeMeasurements(maps[server]) /\ ~maps[server].raw BY <1>1, <1>2, <2>1, <2>2 DEF WholeInv
  <2> QED BY <1>1, <1>2, <1>4, <2>1, <2>3
<1>12. CASE LoadMapForgets \/ LoadMap
  <2>1. /\ pc = "idle" /\ pc' = "idle" /\ UNCHANGED <<published, file>>
        /\ maps' = [maps EXCEPT !["loaded"] = EmptyMap] \/ maps' = [maps EXCEPT !["loaded"] = file.map]
    BY <1>12 DEF LoadMapForgets, LoadMap, Serve, Runnable, opVars
  <2>2. maps'["pipeline"] = maps["pipeline"] /\ maps'["loaded"] \in {EmptyMap, file.map} BY <1>0, <2>1
  <2>3. WholeMeasurements(maps'["loaded"]) /\ ~maps'["loaded"].raw BY <1>1, <2>2, EmptyMapIsWhole
  <2> QED BY <1>1, <1>2, <1>4, <2>1, <2>2, <2>3
<1>13. CASE Crash
  <2>1. /\ maps' = [o \in {"pipeline", "loaded"} |-> EmptyMap] /\ pc' = "idle"
        /\ UNCHANGED <<published, file>>
    BY <1>13 DEF Crash, FreshNode
  <2>2. maps'["pipeline"] = EmptyMap /\ maps'["loaded"] = EmptyMap BY <2>1
  <2> QED BY <1>1, <1>4, <2>1, <2>2, EmptyMapIsWhole
<1>14. ASSUME \/ \E t \in Topic : Measure(t)
              \/ \E r \in Service : Call(r)
              \/ TfArrives \/ Tick \/ Collect \/ RunInput
              \/ OpNotDue \/ PublishEmpty \/ PublishPointcloud \/ PipelineReturns
              \/ LoadMapFails \/ UNCHANGED serverVars
       PROVE  WholeInv'
  <2>1. UNCHANGED <<maps, server, published, file>>
    BY <1>14 DEF Measure, Call, TfArrives, Tick, Collect, RunInput, TakeMessage, WaitSucceeds,
         WaitRetries, WaitTimesOut, CheckAvailable, Lookup, OpNotDue, PublishEmpty,
         PublishPointcloud, PipelineReturns, LoadMapFails, serverVars, serverMaps, opVars
  <2>2. /\ pc' = "save" => pc = "save"
        /\ pc = "integrate" => UNCHANGED <<pc, msg, step>>
        /\ pc # "integrate" /\ pc' = "integrate" => step' = 0
    BY <1>14 DEF Measure, Call, TfArrives, Tick, Collect, RunInput, TakeMessage, Runnable, WaitSucceeds,
         WaitRetries, WaitTimesOut, CheckAvailable, Lookup, Goto, Return, OpNotDue, PublishEmpty,
         PublishPointcloud, NextOp, PipelineReturns, LoadMapFails, Serve, serverVars, execVars
  <2> QED BY <1>3, <2>1, <2>2
<1> QED
  BY <1>5, <1>6, <1>7, <1>8, <1>9, <1>10, <1>11, <1>12, <1>13, <1>14
  DEF ServerNext, ExecutorStep, RunPipeline, RunService

(***************************************************************************)
(* What is published, saved and loaded holds whole measurements that were  *)
(* thresholded, whatever the inputs, operations, services and crashes do   *)
(* (pipeline_inl.h, publish_map_operation.cc, ros_server.cc:119-162).      *)
(***************************************************************************)
THEOREM SnapshotsWhole == ServerSpec => []SnapshotsAreWhole
<1>1. ServerInit => WholeInv
  <2> SUFFICES ASSUME ServerInit PROVE WholeInv OBVIOUS
  <2>1. /\ published.map = EmptyMap /\ file.map = EmptyMap /\ maps["loaded"] = EmptyMap
        /\ maps["pipeline"] = EmptyMap /\ pc = "idle"
    BY DEF ServerInit, FreshNode, NoFile
  <2>2. EmptyMap.updates = {} BY DEF EmptyMap
  <2>3. SnapshotsAreWhole BY <2>1, EmptyMapIsWhole DEF SnapshotsAreWhole
  <2> QED BY <2>1, <2>2, <2>3 DEF WholeInv
<1>2. ServerInv /\ WholeInv /\ [ServerNext]_serverVars => WholeInv' BY WholeStep
<1>3. WholeInv => SnapshotsAreWhole BY DEF WholeInv
<1> QED BY <1>1, <1>2, <1>3, ServerTypeCorrect, PTL DEF ServerSpec

-----------------------------------------------------------------------------
(* Throttling                                                              *)

\* The publication had its turn since the last measurement was integrated.
HadItsTurn ==
  \/ pc \notin {"integrate", "operations"}
  \/ pc = "operations" /\ \E k \in 1..step : k <= Len(Ops) /\ Ops[k] = "publish_map"

KeptUp == \/ maps["pipeline"].updates \subseteq published.map.updates
          \/ ranAt - published.at <= OnceEvery["publish_map"]

\* The operation was stamped no later than the subscribers' copy, which
\* outlives a restart.
PublishInv ==
  /\ lastRun["publish_map"] <= published.at
  /\ pc = "operations" => ranAt = clock
  /\ HadItsTurn => KeptUp

LEMMA PublishStep ==
  ASSUME Transferable, ServerInv, PublishInv, [ServerNext]_serverVars,
         NEW p \in DOMAIN Ops, Ops[p] = "publish_map"
  PROVE  PublishInv'
<1>0. /\ maps \in [{"pipeline", "loaded"} -> MapObject] /\ step \in Nat
      /\ clock \in Nat /\ ranAt \in Nat /\ published.at \in Nat
      /\ lastRun \in [OpType -> 0..MaxClock] /\ "publish_map" \in OpType
      /\ MaxClock \in Nat /\ Ops \in Seq(OpType) /\ OnceEvery["publish_map"] \in Nat
      /\ p \in 1..Len(Ops) /\ Len(Ops) \in Nat
  BY ServerAssumption, SMTT(30) DEF ServerInv, ServerTypeOK, Time, OpType
<1>1. ASSUME UNCHANGED <<lastRun, ranAt, published>>, pc' = "operations" => pc = "operations" /\ UNCHANGED clock,
             HadItsTurn' => HadItsTurn, maps'["pipeline"].updates \subseteq maps["pipeline"].updates
      PROVE  PublishInv'
  BY <1>1 DEF PublishInv, KeptUp
<1>2. ASSUME NEW op \in OpType, NextOp(op), op # "publish_map", UNCHANGED pc
      PROVE  HadItsTurn' => HadItsTurn
  <2>1. /\ pc = "operations" /\ pc' = pc /\ step' = step + 1 /\ step + 1 <= Len(Ops) /\ Ops[step + 1] # "publish_map"
    BY <1>0, <1>2 DEF NextOp
  <2> SUFFICES ASSUME NEW k \in 1..(step + 1), Ops[k] = "publish_map", k <= Len(Ops), pc' = pc
               PROVE  HadItsTurn
    BY <2>1 DEF HadItsTurn
  <2>2. k \in 1..step BY <1>0, <2>1
  <2> QED BY <2>1, <2>2 DEF HadItsTurn
<1>3. CASE OpNotDue
  <2>1. PICK op \in OpType : NextOp(op) /\ ~Due(op) BY <1>3 DEF OpNotDue
  <2>2. UNCHANGED <<clock, pc, maps, lastRun, ranAt, published>> BY <1>3 DEF OpNotDue, serverMaps, opVars
  <2>3. CASE op # "publish_map" BY <1>1, <1>2, <2>1, <2>2, <2>3
  <2>4. CASE op = "publish_map"
    <3>1. pc = "operations" BY <2>1 DEF NextOp
    <3>2. clock - lastRun["publish_map"] <= OnceEvery["publish_map"]
      BY <1>0, <2>1, <2>4 DEF Due, sinceLastRun
    <3>3. ranAt = clock /\ lastRun["publish_map"] <= published.at BY <3>1 DEF PublishInv
    <3>4. ranAt - published.at <= OnceEvery["publish_map"] BY <1>0, <3>2, <3>3
    <3> QED BY <2>2, <3>1, <3>3, <3>4 DEF PublishInv, KeptUp
  <2> QED BY <2>3, <2>4
<1>4. CASE PublishEmpty
  <2>1. maps["pipeline"].updates = {} /\ UNCHANGED <<clock, pc, maps, lastRun, ranAt, published>>
    BY <1>4 DEF PublishEmpty, serverMaps, opVars
  <2> QED BY <2>1 DEF PublishInv, KeptUp
<1>5. CASE PublishMap
  <2>1. /\ maps' = [maps EXCEPT !["pipeline"] = Thresholded(@)]
        /\ published' = [map |-> maps'["pipeline"], at |-> clock]
        /\ lastRun' = [lastRun EXCEPT !["publish_map"] = clock]
        /\ UNCHANGED <<clock, pc, ranAt>>
    BY <1>5 DEF PublishMap, Stamped
  <2>2. lastRun'["publish_map"] = clock /\ published'.at = clock /\ published'.map = maps'["pipeline"]
    BY <1>0, <2>1
  <2> QED BY <1>0, <2>1, <2>2 DEF PublishInv, KeptUp
<1>6. CASE PublishPointcloud \/ CropMap
  <2>1. PICK op \in {"publish_pointcloud", "crop_map"} : NextOp(op) /\ Stamped(op)
    BY <1>6 DEF PublishPointcloud, CropMap
  <2>2. op \in OpType /\ op # "publish_map" BY <2>1 DEF OpType
  <2>3. lastRun'["publish_map"] = lastRun["publish_map"] BY <1>0, <2>1, <2>2 DEF Stamped
  <2>5. UNCHANGED <<clock, pc, ranAt, published>>
    BY <1>6 DEF PublishPointcloud, CropMap
  <2>4. HadItsTurn' => HadItsTurn BY <1>2, <2>1, <2>2, <2>5
  <2>6. maps'["pipeline"].updates \subseteq maps["pipeline"].updates
    BY <1>0, <1>6 DEF PublishPointcloud, CropMap, serverMaps, EmptyMap
  <2> QED BY <2>3, <2>4, <2>5, <2>6 DEF PublishInv, KeptUp
<1>7. CASE PipelineReturns
  <2>1. pc = "operations" /\ step = Len(Ops) /\ pc' = "idle" /\ UNCHANGED <<maps, lastRun, ranAt, published>>
    BY <1>7 DEF PipelineReturns, Return, Goto, serverMaps, opVars
  <2>2. HadItsTurn BY <1>0, <2>1 DEF HadItsTurn
  <2> QED BY <1>1, <2>1, <2>2
<1>8. CASE IntegrateEnds
  <2>1. pc' = "operations" /\ step' = 0 /\ ranAt' = clock /\ UNCHANGED <<clock, lastRun, published>>
    BY <1>8 DEF IntegrateEnds, Goto
  <2>2. ~HadItsTurn' BY <2>1 DEF HadItsTurn
  <2> QED BY <2>1, <2>2 DEF PublishInv
<1>9. CASE Integrate
  <2>1. pc' = "integrate" /\ UNCHANGED <<lastRun, ranAt, published>> BY <1>9 DEF Integrate, opVars
  <2> QED BY <2>1 DEF PublishInv, HadItsTurn
<1>10. CASE Crash
  <2>1. /\ maps'["pipeline"] = EmptyMap /\ lastRun'["publish_map"] = 0 /\ pc' = "idle"
        /\ UNCHANGED <<ranAt, published>>
    BY <1>0, <1>10 DEF Crash, FreshNode
  <2> QED BY <1>0, <2>1 DEF PublishInv, KeptUp, EmptyMap
<1>11. CASE RunInput
  <2>1. UNCHANGED <<maps, lastRun, ranAt, published>> /\ pc \in {"idle", "wait", "available", "lookup"}
    BY <1>11 DEF RunInput, TakeMessage, Runnable, WaitSucceeds, WaitRetries, WaitTimesOut,
                 CheckAvailable, Lookup, serverMaps, opVars
  <2>2. pc' # "operations" /\ HadItsTurn
    BY <1>11, <2>1 DEF RunInput, TakeMessage, WaitSucceeds, WaitRetries, WaitTimesOut,
                 CheckAvailable, Lookup, Goto, Return, HadItsTurn
  <2> QED BY <1>1, <2>1, <2>2
<1>12. CASE RunService
  <2>1. /\ UNCHANGED <<lastRun, ranAt, published>>
        /\ pc \in {"idle", "save"} /\ pc' \in {"idle", "save"}
    BY <1>12 DEF RunService, ResetMap, SaveMap, SaveMapWrites, SaveMapFails, LoadMapFails,
                 LoadMapForgets, LoadMap, Serve, Runnable, opVars
  <2>2. maps'["pipeline"].updates \subseteq maps["pipeline"].updates
    <3>1. EmptyMap.updates = {} /\ \A m \in MapObject : Thresholded(m).updates = m.updates
      BY DEF EmptyMap, MapObject, Thresholded
    <3>2. maps'["pipeline"] \in {maps["pipeline"], EmptyMap, Thresholded(maps["pipeline"])}
      BY <1>0, <1>12 DEF RunService, ResetMap, SaveMap, SaveMapWrites, SaveMapFails, LoadMapFails,
                 LoadMapForgets, LoadMap, serverMaps
    <3>3. maps["pipeline"] \in MapObject BY <1>0
    <3> QED BY <3>1, <3>2, <3>3
  <2>3. HadItsTurn BY <2>1 DEF HadItsTurn
  <2> QED BY <1>1, <2>1, <2>2, <2>3
<1>13. CASE Tick
  <2>1. UNCHANGED <<maps, pc, lastRun, ranAt, published>> /\ pc = "idle"
    BY <1>13 DEF Tick, Idle, execVars, serverMaps, opVars
  <2>2. HadItsTurn BY <2>1 DEF HadItsTurn
  <2> QED BY <1>1, <2>1, <2>2
<1>14. CASE \/ \E t \in Topic : Measure(t)
            \/ \E r \in Service : Call(r)
            \/ TfArrives \/ Collect \/ UNCHANGED serverVars
  <2>1. UNCHANGED <<clock, maps, pc, step, lastRun, ranAt, published>>
    BY <1>14 DEF Measure, Call, TfArrives, Collect, execVars, serverMaps, opVars, serverVars
  <2>2. HadItsTurn' => HadItsTurn BY <2>1 DEF HadItsTurn
  <2> QED BY <1>1, <2>1, <2>2
<1> QED
  BY <1>3, <1>4, <1>5, <1>6, <1>7, <1>8, <1>9, <1>10, <1>11, <1>12, <1>13, <1>14
  DEF ServerNext, ExecutorStep, RunPipeline

(***************************************************************************)
(* If publishing is among the operations and the map's type has a message, *)
(* the operations never leave an update unpublished for which it was time: *)
(* then the last map was sent at most once_every before they ran, wherever *)
(* in the list publishing is and however often its turn falls on an empty  *)
(* map or the process restarts (publish_map_operation.cc,                  *)
(* crop_map_operation.cc).                                                 *)
(***************************************************************************)
THEOREM PublishingNeverLags ==
  ASSUME NEW p \in DOMAIN Ops, Ops[p] = "publish_map"
  PROVE  ServerSpec => []PublishingKeepsUp
<1> DEFINE Throttling == Transferable => PublishInv
<1>1. ServerInit => Throttling
  <2> SUFFICES ASSUME ServerInit PROVE PublishInv OBVIOUS
  <2>1. /\ lastRun = [o \in OpType |-> 0] /\ published = [map |-> EmptyMap, at |-> 0]
        /\ maps["pipeline"] = EmptyMap /\ pc = "idle"
    BY DEF ServerInit, FreshNode
  <2> QED BY <2>1 DEF PublishInv, KeptUp, OpType
<1>2. ServerInv /\ Throttling /\ [ServerNext]_serverVars => Throttling' BY PublishStep
<1>3. Throttling => PublishingKeepsUp BY DEF PublishInv, HadItsTurn, KeptUp, PublishingKeepsUp
<1> HIDE DEF Throttling
<1> QED BY <1>1, <1>2, <1>3, ServerTypeCorrect, PTL DEF ServerSpec

-----------------------------------------------------------------------------
(* How long a measurement may have waited                                  *)

\* The longest that a callback takes, and the number of inputs.
D == MaxTries + MaxWork
T == Cardinality(Topic)

\* Callbacks that are ready, those of inputs.
R == Cardinality(ready \cap Topic)

\* Callbacks that may begin before message k of the queue of t has begun, its
\* own included: those that are ready, and then each input's once a round.
Waits(t, k) == R + (IF t \in ready THEN k - 1 ELSE k) * T

\* The time that a callback may still take that has got to a place, after
\* so many retries or integrators.
LeftAt(place, tried) == IF place = "wait" THEN (MaxTries - tried) + MaxWork
                       ELSE IF place \in {"available", "lookup"} \/ (place = "integrate" /\ tried = 0)
                       THEN MaxWork ELSE 0
Left == LeftAt(pc, step)

\* The age of a measurement when its callback ends.
Bound == D * (T * (QueueLength + 1))

\* The TF buffer keeps the poses until then.
HistoryIsLong == CacheTime >= Bound - MaxWork

\* A measurement stays within the bound with what it has to wait for.
AgedAt(now, left, stamp, waits) == (now - stamp) + left + D * waits <= Bound

AgeInv ==
  /\ \A t \in Topic : \A k \in 1..Len(inbox[t]) : AgedAt(clock, Left, inbox[t][k], Waits(t, k))
  /\ pc \in {"wait", "available", "lookup"} => AgedAt(clock, Left, msg.stamp, 0)

LEMMA Scale ==
  ASSUME NEW d \in Nat, NEW a \in Nat, NEW b \in Nat, a <= b
  PROVE  d * a <= d * b /\ d * a \in Nat
OBVIOUS

LEMMA SizesOfRounds ==
  ASSUME ServerInv
  PROVE  /\ D \in Nat /\ T \in Nat /\ R \in Nat /\ R <= T
         /\ Left \in 0..D /\ MaxWork <= D /\ MaxWork \in Nat
         /\ \A t \in Topic : \A k \in Nat \ {0} : Waits(t, k) \in Nat
<1>1. MaxTries \in Nat /\ MaxWork \in Nat /\ IsFiniteSet(Topic) BY ServerAssumption
<1>2. T \in Nat /\ R \in Nat /\ R <= T BY <1>1, FS_CardinalityType, FS_Subset DEF T, R
<1>3. D \in Nat BY <1>1 DEF D
<1>4. Left \in 0..D BY <1>1 DEF Left, LeftAt, D, ServerInv, ServerTypeOK, ExecutorInv
<1>5. ASSUME NEW t \in Topic, NEW k \in Nat \ {0} PROVE Waits(t, k) \in Nat
  <2>1. (k - 1) * T \in Nat /\ k * T \in Nat BY <1>2
  <2> QED BY <1>2, <2>1 DEF Waits
<1> QED BY <1>1, <1>2, <1>3, <1>4, <1>5 DEF D

\* A message further back waits for more.
LEMMA WaitsGrow ==
  ASSUME ServerInv, NEW t \in Topic, NEW j \in Nat \ {0}, NEW k \in Nat \ {0}, k <= j
  PROVE  Waits(t, k) <= Waits(t, j)
<1>1. /\ D \in Nat /\ T \in Nat /\ R \in Nat
      /\ Waits(t, k) \in Nat /\ Waits(t, j) \in Nat
  BY SizesOfRounds
<1>2. T * (k - 1) <= T * (j - 1) /\ T * k <= T * j
  BY <1>1, Scale, k - 1 \in Nat, j - 1 \in Nat, k - 1 <= j - 1
<1>3. /\ T * (k - 1) = (k - 1) * T /\ T * (j - 1) = (j - 1) * T
      /\ T * k = k * T /\ T * j = j * T
  BY <1>1
<1> QED BY <1>1, <1>2, <1>3 DEF Waits

\* A message that arrives waits for no more than the bound.
LEMMA ArrivesInTime ==
  ASSUME ServerInv, NEW t \in Topic, NEW k \in 1..QueueLength
  PROVE  Left + D * Waits(t, k) <= Bound
<1>1. /\ D \in Nat /\ T \in Nat /\ R \in Nat /\ R <= T /\ Left \in 0..D
      /\ Waits(t, k) \in Nat /\ QueueLength \in Nat \ {0}
  BY SizesOfRounds, ServerAssumption
<1>2. t \notin ready => R <= T - 1
  <2>1. ASSUME t \notin ready PROVE R <= T - 1
    <3> DEFINE S == Topic \ {t}
    <3>1. IsFiniteSet(Topic) /\ IsFiniteSet(S) /\ Cardinality(S) = Cardinality(Topic) - 1
      BY ServerAssumption, FS_RemoveElement
    <3>2. ready \cap Topic \subseteq S BY <2>1
    <3> HIDE DEF S
    <3>3. Cardinality(ready \cap Topic) <= Cardinality(S) BY <3>1, <3>2, FS_Subset
    <3> QED BY <1>1, <3>1, <3>3 DEF R, T
  <2> QED BY <2>1
<1>3. Waits(t, k) + 1 <= T * (QueueLength + 1)
  <2>1. T * (k - 1) <= T * QueueLength - T /\ T * k <= T * QueueLength
    <3>1. T * (k - 1) <= T * (QueueLength - 1) /\ T * k <= T * QueueLength
      BY <1>1, Scale, k - 1 \in Nat, QueueLength - 1 \in Nat, k - 1 <= QueueLength - 1
    <3>2. T * (QueueLength - 1) = T * QueueLength - T BY <1>1
    <3> QED BY <3>1, <3>2
  <2>2. T * (QueueLength + 1) = T * QueueLength + T BY <1>1
  <2>3. T * (k - 1) = (k - 1) * T /\ T * k = k * T BY <1>1
  <2>4. T * (k - 1) \in Int /\ T * k \in Int /\ T * QueueLength \in Int BY <1>1
  <2>5. T >= 1
    <3>1. Topic # {} /\ IsFiniteSet(Topic) BY ServerAssumption
    <3>2. T # 0 BY <3>1, FS_EmptySet DEF T
    <3> QED BY <1>1, <3>2
  <2>6. CASE t \in ready
    <3>1. Waits(t, k) = R + T * (k - 1) BY <2>3, <2>6 DEF Waits
    <3> QED BY <1>1, <2>1, <2>2, <2>4, <2>5, <3>1
  <2>7. CASE t \notin ready
    <3>1. Waits(t, k) = R + T * k BY <2>3, <2>7 DEF Waits
    <3> QED BY <1>1, <1>2, <2>1, <2>2, <2>4, <2>7, <3>1
  <2> QED BY <2>6, <2>7
<1>4. D * (Waits(t, k) + 1) <= D * (T * (QueueLength + 1))
  <2>1. T * (QueueLength + 1) \in Nat /\ Waits(t, k) + 1 \in Nat BY <1>1
  <2> QED BY <1>1, <1>3, <2>1, Scale
<1>5. D * (Waits(t, k) + 1) = D * Waits(t, k) + D BY <1>1
<1>6. D * Waits(t, k) \in Int /\ D * (T * (QueueLength + 1)) \in Int BY <1>1
<1> QED BY <1>1, <1>4, <1>5, <1>6 DEF Bound

LEMMA BoundIsInt == Bound \in Int /\ D \in Nat /\ T \in Nat
<1>1. MaxTries \in Nat /\ MaxWork \in Nat /\ QueueLength \in Nat BY ServerAssumption
<1>2. T \in Nat BY ServerAssumption, FS_CardinalityType DEF T
<1>3. D \in Nat BY <1>1 DEF D
<1>4. T * (QueueLength + 1) \in Nat BY <1>1, <1>2
<1> QED BY <1>2, <1>3, <1>4 DEF Bound

\* Waiting for less, with less time left.
LEMMA AgedLess ==
  ASSUME NEW c \in Int, NEW l \in Int, NEW s \in Int, NEW w \in Nat, AgedAt(c, l, s, w),
         NEW d \in Int, NEW m \in Int, NEW v \in Nat, v <= w, d + m <= c + l
  PROVE  AgedAt(d, m, s, v)
<1>1. D * v <= D * w BY BoundIsInt, Scale
<1>2. D * v \in Int /\ D * w \in Int /\ Bound \in Int BY BoundIsInt
<1> DEFINE x == D * w
           y == D * v
<1>3. (c - s) + l + x <= Bound /\ y <= x /\ x \in Int /\ y \in Int BY <1>1, <1>2 DEF AgedAt
<1> HIDE DEF x, y
<1>4. (d - s) + m + y <= Bound BY <1>2, <1>3
<1> QED BY <1>4 DEF AgedAt, y

\* As much to wait for, with less time left.
LEMMA AgedSame ==
  ASSUME NEW n \in Int, NEW l \in Int, NEW s \in Int, NEW w \in Nat, AgedAt(n, l, s, w),
         NEW c \in Int, NEW m \in Int, c + m <= n + l
  PROVE  AgedAt(c, m, s, w)
BY AgedLess, w <= w

\* Waiting for one callback less, which begins and may take its time.
LEMMA AgedBegins ==
  ASSUME NEW c \in Int, NEW s \in Int, NEW w \in Nat \ {0}, AgedAt(c, 0, s, w), NEW m \in 0..D
  PROVE  AgedAt(c, m, s, w - 1)
<1>1. D * (w - 1) = D * w - D BY BoundIsInt
<1> DEFINE x == D * w
<1>2. x \in Int /\ Bound \in Int /\ D \in Nat BY BoundIsInt
<1>3. (c - s) + 0 + x <= Bound BY DEF AgedAt
<1> HIDE DEF x
<1>4. (c - s) + m + (x - D) <= Bound BY <1>2, <1>3
<1> QED BY <1>1, <1>4 DEF AgedAt, x

\* Steps that take no more time than the callback had left.
LEMMA AgeKept ==
  ASSUME ServerInv, AgeInv, UNCHANGED inbox, ready' \cap Topic = ready \cap Topic,
         NEW n \in Int, n = clock, NEW l \in Int, l = Left,
         NEW c \in Int, c = clock', NEW m \in Int, m = Left', c + m <= n + l,
         pc' \in {"wait", "available", "lookup"}
           => pc \in {"wait", "available", "lookup"} /\ msg' = msg
  PROVE  AgeInv'
<1>1. inbox \in [Topic -> Seq(Time)] /\ msg.stamp \in Int
  BY DEF ServerInv, ServerTypeOK, Time
<1>2. ASSUME NEW t \in Topic, NEW k \in 1..Len(inbox[t])
      PROVE  AgedAt(clock, Left, inbox[t][k], Waits(t, k))'
  <2>1. inbox[t] \in Seq(Time) /\ inbox[t][k] \in Time BY <1>1, ElementOfSeq
  <2>2. k \in Nat \ {0} /\ inbox[t][k] \in Int BY <2>1 DEF Time
  <2>3. Waits(t, k) \in Nat BY <2>2, SizesOfRounds
  <2>4. t \in ready' <=> t \in ready OBVIOUS
  <2>5. Waits(t, k)' = Waits(t, k) BY <2>4 DEF Waits, R, T
  <2>6. AgedAt(n, l, inbox[t][k], Waits(t, k)) BY DEF AgeInv
  <2>7. AgedAt(c, m, inbox[t][k], Waits(t, k)) BY <2>2, <2>3, <2>6, AgedSame
  <2> QED BY <2>5, <2>7 DEF AgedAt, Bound, D, T
<1>3. ASSUME pc' \in {"wait", "available", "lookup"} PROVE AgedAt(clock, Left, msg.stamp, 0)'
  <2>1. AgedAt(n, l, msg.stamp, 0) /\ msg' = msg BY <1>3 DEF AgeInv
  <2>2. AgedAt(c, m, msg.stamp, 0) BY <1>1, <2>1, AgedSame
  <2> QED BY <2>1, <2>2 DEF AgedAt, Bound, D, T
<1> QED BY <1>2, <1>3 DEF AgeInv

\* What the invariant says of a state, of which these are the values.
LEMMA AgedAll ==
  ASSUME NEW c, c = clock', NEW m, m = Left',
         \A t \in Topic : \A k \in 1..Len(inbox'[t]) :
           \E w \in Nat : w = Waits(t, k)' /\ AgedAt(c, m, inbox'[t][k], w),
         pc' \in {"wait", "available", "lookup"} => AgedAt(c, m, msg'.stamp, 0)
  PROVE  AgeInv'
<1>1. ASSUME NEW t \in Topic, NEW k \in 1..Len(inbox'[t])
      PROVE  AgedAt(clock, Left, inbox[t][k], Waits(t, k))'
  <2>1. PICK w \in Nat : w = Waits(t, k)' /\ AgedAt(c, m, inbox'[t][k], w) BY <1>1
  <2> QED BY <2>1 DEF AgedAt, Bound, D, T
<1>2. ASSUME pc' \in {"wait", "available", "lookup"} PROVE AgedAt(clock, Left, msg.stamp, 0)'
  BY <1>2 DEF AgedAt, Bound, D, T
<1> QED BY <1>1, <1>2 DEF AgeInv

LEMMA LeftIn ==
  ASSUME NEW place, NEW tried \in Nat, place = "wait" => tried <= MaxTries
  PROVE  LeftAt(place, tried) \in 0..D
BY ServerAssumption DEF LeftAt, D

\* A message arrives, and moves those before it forward.
LEMMA AgeMeasure ==
  ASSUME ServerInv, AgeInv, NEW t \in Topic, Measure(t) PROVE AgeInv'
<1>1. /\ inbox \in [Topic -> Seq(Time)] /\ clock \in Time /\ clock \in Int
      /\ \A u \in Topic : Len(inbox[u]) <= QueueLength
  BY DEF ServerInv, ServerTypeOK, Time
<1>2. /\ inbox' = [inbox EXCEPT ![t] = Enqueue(@, clock)]
      /\ UNCHANGED <<clock, ready, pc, step, msg>>
  BY DEF Measure, execVars
<1>3. PICK l \in Int : l = Left BY SizesOfRounds
<1>4. Left' = l BY <1>2, <1>3 DEF Left, LeftAt
<1>5. ASSUME NEW u \in Topic, NEW k \in 1..Len(inbox'[u])
      PROVE  \E w \in Nat : w = Waits(u, k)' /\ AgedAt(clock, l, inbox'[u][k], w)
  <2>1. Waits(u, k)' = Waits(u, k) BY <1>2 DEF Waits, R, T
  <2>2. k \in Nat \ {0} OBVIOUS
  <2>3. Waits(u, k) \in Nat BY <2>2, SizesOfRounds
  <2>4. CASE u # t
    <3>1. inbox'[u] = inbox[u] BY <1>1, <1>2, <2>4
    <3>2. AgedAt(clock, l, inbox[u][k], Waits(u, k)) BY <1>3, <3>1 DEF AgeInv
    <3> QED BY <2>1, <2>3, <3>1, <3>2
  <2>5. CASE u = t
    <3> DEFINE q == inbox[t]
    <3>1. inbox'[t] = Enqueue(q, clock) /\ q \in Seq(Time) /\ Len(q) <= QueueLength BY <1>1, <1>2
    <3> HIDE DEF q
    <3>2. PICK new \in Seq(Time) : new = Enqueue(q, clock) BY <1>1, <3>1, EnqueueKeeps
    <3>3. k \in 1..Len(new) /\ Len(new) <= QueueLength /\ inbox'[u][k] = new[k]
      BY <1>1, <2>5, <3>1, <3>2, EnqueueKeeps
    <3>4. CASE new[k] = clock
      <4>1. k \in 1..QueueLength BY <3>3, ServerAssumption
      <4>2. l + D * Waits(t, k) <= Bound BY <1>3, <4>1, ArrivesInTime
      <4> DEFINE x == D * Waits(t, k)
      <4>3. x \in Int BY <2>3, <2>5, BoundIsInt
      <4>4. l + x <= Bound BY <4>2
      <4> HIDE DEF x
      <4>5. (clock - clock) + l + x <= Bound BY <1>1, <1>3, <4>3, <4>4, BoundIsInt
      <4>6. AgedAt(clock, l, clock, Waits(t, k)) BY <4>5 DEF AgedAt, x
      <4> QED BY <2>1, <2>3, <2>5, <3>3, <3>4, <4>6
    <3>5. CASE \E j \in 1..Len(q) : k <= j /\ new[k] = q[j]
      <4>1. PICK j \in 1..Len(q) : k <= j /\ new[k] = q[j] BY <3>5
      <4>2. AgedAt(clock, l, q[j], Waits(t, j)) BY <1>3, <4>1 DEF AgeInv, q
      <4>3. j \in Nat \ {0} /\ q[j] \in Int
        <5>1. q[j] \in Time BY <3>1, <4>1, ElementOfSeq
        <5> QED BY <4>1, <5>1 DEF Time
      <4>4. Waits(t, k) <= Waits(t, j) /\ Waits(t, j) \in Nat
        BY <2>2, <4>1, <4>3, WaitsGrow, SizesOfRounds
      <4>5. AgedAt(clock, l, q[j], Waits(t, k))
        BY <1>1, <1>3, <2>3, <2>5, <4>2, <4>3, <4>4, AgedLess, clock + l <= clock + l
      <4> QED BY <2>1, <2>3, <2>5, <3>3, <4>1, <4>5
    <3> QED BY <1>1, <3>1, <3>2, <3>3, <3>4, <3>5, EnqueueKeeps
  <2> QED BY <2>4, <2>5
<1>6. pc' \in {"wait", "available", "lookup"} => AgedAt(clock, l, msg'.stamp, 0)
  BY <1>2, <1>3 DEF AgeInv
<1> QED BY <1>2, <1>4, <1>5, <1>6, AgedAll

\* The callback of an input begins, and those behind it wait for one less.
LEMMA AgeTakeMessage ==
  ASSUME ServerInv, ServerInv', AgeInv, NEW t \in Topic, TakeMessage(t) PROVE AgeInv'
<1>1. /\ inbox \in [Topic -> Seq(Time)] /\ clock \in Int
      /\ t \in ready /\ inbox[t] # <<>> /\ pc = "idle"
  BY DEF ServerInv, ServerTypeOK, ExecutorInv, Time, TakeMessage, Runnable
<1>2. /\ inbox' = [inbox EXCEPT ![t] = Tail(@)] /\ ready' = ready \ {t}
      /\ clock' = clock
  BY DEF TakeMessage
<1>3. Left = 0 BY <1>1 DEF Left, LeftAt
<1>4. PICK m \in 0..D : m = Left'
  <2>1. PICK place, tried : place = pc' /\ tried = step' OBVIOUS
  <2>2. tried \in Nat /\ (place = "wait" => tried <= MaxTries)
    BY <2>1 DEF ServerInv, ServerTypeOK, ExecutorInv
  <2>3. LeftAt(place, tried) \in 0..D BY <2>2, LeftIn
  <2> QED BY <2>1, <2>3 DEF Left
<1>5. R' = R - 1 /\ R \in Nat \ {0} /\ R - 1 \in Nat
  <2> DEFINE q == ready \cap Topic
  <2>1. IsFiniteSet(q) /\ t \in q BY <1>1, ServerAssumption, FS_Subset
  <2>2. Cardinality(q) \in Nat /\ Cardinality(q \ {t}) = Cardinality(q) - 1
        /\ Cardinality(q \ {t}) \in Nat
    BY <2>1, FS_RemoveElement, FS_CardinalityType, FS_Subset
  <2>3. ready' \cap Topic = q \ {t} BY <1>2
  <2>4. R' = Cardinality(q \ {t}) BY <2>3 DEF R
  <2> HIDE DEF q
  <2>5. R = Cardinality(q) BY DEF R, q
  <2> QED BY <2>2, <2>4, <2>5
<1>6. ASSUME NEW u \in Topic, NEW k \in 1..Len(inbox'[u])
      PROVE  \E w \in Nat : w = Waits(u, k)' /\ AgedAt(clock, m, inbox'[u][k], w)
  <2>1. k \in Nat \ {0} /\ k + 1 \in Nat \ {0} BY <1>1
  <2>2. Waits(u, k) \in Nat /\ Waits(u, k + 1) \in Nat /\ T \in Nat BY <2>1, SizesOfRounds
  <2>3. CASE u # t
    <3>1. inbox'[u] = inbox[u] /\ (u \in ready' <=> u \in ready) BY <1>1, <1>2, <2>3
    <3> DEFINE rounds == (IF u \in ready THEN k - 1 ELSE k) * T
    <3>2. rounds \in Nat BY <2>1, <2>2
    <3>3. Waits(u, k)' = R' + rounds BY <3>1 DEF Waits, T
    <3> HIDE DEF rounds
    <3>4. Waits(u, k) = R + rounds BY DEF Waits, rounds
    <3>5. PICK w \in Nat \ {0} : w = Waits(u, k) /\ w - 1 = Waits(u, k)' BY <1>5, <3>2, <3>3, <3>4
    <3>6. inbox[u][k] \in Time
      <4>1. inbox[u] \in Seq(Time) /\ k \in 1..Len(inbox[u]) BY <1>1, <3>1
      <4> QED BY <4>1, ElementOfSeq
    <3>7. AgedAt(clock, 0, inbox[u][k], w) BY <1>3, <3>1, <3>5 DEF AgeInv
    <3>8. AgedAt(clock, m, inbox[u][k], w - 1) BY <1>1, <3>6, <3>7, AgedBegins DEF Time
    <3> QED BY <3>1, <3>5, <3>8, w - 1 \in Nat
  <2>4. CASE u = t
    <3>1. inbox'[u] = Tail(inbox[u]) /\ u \notin ready' /\ u \in ready BY <1>1, <1>2, <2>4
    <3>2. inbox[u] \in Seq(Time) /\ inbox[u] # <<>> BY <1>1, <2>4
    <3>3. k + 1 \in 1..Len(inbox[u]) /\ inbox'[u][k] = inbox[u][k + 1]
      BY <3>1, <3>2, TakingLeaves
    <3>4. Waits(u, k)' = R' + k * T BY <3>1 DEF Waits, T
    <3>5. Waits(u, k + 1) = R + k * T
      <4>1. (k + 1) - 1 = k BY <2>1
      <4> QED BY <3>1, <4>1 DEF Waits
    <3>6. k * T \in Nat BY <2>1, <2>2
    <3>7. PICK w \in Nat \ {0} : w = Waits(u, k + 1) /\ w - 1 = Waits(u, k)'
      BY <1>5, <3>4, <3>5, <3>6
    <3>8. inbox[u][k + 1] \in Time BY <3>2, <3>3, ElementOfSeq
    <3>9. AgedAt(clock, 0, inbox[u][k + 1], w) BY <1>3, <3>3, <3>7 DEF AgeInv
    <3>10. AgedAt(clock, m, inbox[u][k + 1], w - 1) BY <1>1, <3>8, <3>9, AgedBegins DEF Time
    <3> QED BY <3>3, <3>7, <3>10, w - 1 \in Nat
  <2> QED BY <2>3, <2>4
<1>7. ASSUME pc' \in {"wait", "available", "lookup"} PROVE AgedAt(clock, m, msg'.stamp, 0)
  <2>1. msg'.stamp = Head(inbox[t]) BY <1>1, <1>7 DEF TakeMessage
  <2>2. Head(inbox[t]) = inbox[t][1] /\ inbox[t][1] \in Time /\ 1 \in 1..Len(inbox[t])
    <3>1. inbox[t] \in Seq(Time) BY <1>1
    <3> QED BY <1>1, <3>1, TakingLeaves
  <2>3. AgedAt(clock, 0, inbox[t][1], Waits(t, 1)) BY <1>3, <2>2 DEF AgeInv
  <2>4. Waits(t, 1) = R
    <3>1. (1 - 1) * T = 0 BY SizesOfRounds
    <3> QED BY <1>1, <1>5, <3>1 DEF Waits
  <2>5. PICK w \in Nat \ {0} : w = R BY <1>5
  <2>6. AgedAt(clock, m, inbox[t][1], w - 1) BY <1>1, <2>2, <2>3, <2>4, <2>5, AgedBegins DEF Time
  <2>7. w - 1 \in Nat /\ 0 <= w - 1 /\ inbox[t][1] \in Int BY <2>2 DEF Time
  <2>8. AgedAt(clock, m, inbox[t][1], 0)
    BY <1>1, <2>6, <2>7, AgedLess, clock + m <= clock + m, m \in Int
  <2> QED BY <2>1, <2>2, <2>8
<1> QED BY <1>2, <1>4, <1>6, <1>7, AgedAll

\* The executor collects: all that has a message at most once.
LEMMA AgeCollect ==
  ASSUME ServerInv, AgeInv, Collect PROVE AgeInv'
<1>1. /\ inbox \in [Topic -> Seq(Time)] /\ clock \in Int /\ ready = {} /\ pc = "idle"
      /\ ready' = WithData /\ UNCHANGED <<clock, inbox, pc, step, msg>>
  BY DEF ServerInv, ServerTypeOK, Time, Collect, inputVars
<1>2. PICK l \in Int : l = Left BY SizesOfRounds
<1>3. Left' = l BY <1>1, <1>2 DEF Left, LeftAt
<1>4. R = 0
  <2>1. ready \cap Topic = {} BY <1>1
  <2> QED BY <2>1, FS_EmptySet DEF R
<1>5. PICK r \in Nat : r = R' /\ r <= T
  <2>1. PICK next : next = ready' BY <1>1
  <2>2. Cardinality(next \cap Topic) \in Nat /\ Cardinality(next \cap Topic) <= Cardinality(Topic)
    BY ServerAssumption, FS_Subset, FS_CardinalityType, next \cap Topic \subseteq Topic
  <2> QED BY <2>1, <2>2 DEF R, T
<1>6. ASSUME NEW u \in Topic, NEW k \in 1..Len(inbox'[u])
      PROVE  \E w \in Nat : w = Waits(u, k)' /\ AgedAt(clock, l, inbox'[u][k], w)
  <2>1. inbox' = inbox /\ inbox[u] \in Seq(Time) /\ k \in 1..Len(inbox[u]) BY <1>1
  <2>2. inbox[u] # <<>> BY <2>1, Len(<<>>) = 0
  <2>3. u \in ready' /\ u \notin ready BY <1>1, <2>2 DEF WithData
  <2>4. Waits(u, k)' = r + (k - 1) * T BY <1>5, <2>3 DEF Waits, T
  <2>5. Waits(u, k) = k * T BY <1>4, <2>3, SizesOfRounds, k * T \in Nat DEF Waits
  <2>6. k * T = (k - 1) * T + T /\ (k - 1) * T \in Nat /\ T \in Nat BY SizesOfRounds
  <2> DEFINE x == (k - 1) * T
  <2>7. PICK w \in Nat : w = Waits(u, k)' /\ w <= Waits(u, k) /\ Waits(u, k) \in Nat
    <3>1. x \in Nat /\ T \in Nat /\ Waits(u, k) = x + T /\ Waits(u, k)' = r + x
      BY <2>4, <2>5, <2>6
    <3> HIDE DEF x
    <3>2. r <= T BY <1>5
    <3>3. x \in Nat /\ T \in Nat BY <3>1
    <3>4. r + x \in Nat /\ r + x <= x + T /\ x + T \in Nat BY <3>2, <3>3
    <3> QED BY <3>1, <3>4
  <2>8. AgedAt(clock, l, inbox[u][k], Waits(u, k)) BY <1>2, <2>1 DEF AgeInv
  <2>9. inbox[u][k] \in Int
    <3>1. inbox[u][k] \in Time BY <2>1, ElementOfSeq
    <3> QED BY <3>1 DEF Time
  <2>10. AgedAt(clock, l, inbox[u][k], w)
    BY <1>1, <2>7, <2>8, <2>9, AgedLess, clock + l <= clock + l
  <2> QED BY <2>1, <2>7, <2>10
<1>7. pc' \notin {"wait", "available", "lookup"} BY <1>1
<1> QED BY <1>1, <1>3, <1>6, <1>7, AgedAll

\* Every step of the node: the clock advances no faster than what a callback
\* may take, and while nothing runs only if nothing waits.
LEMMA AgeStep ==
  ASSUME ServerInv, ServerInv', AgeInv, [ServerNext]_serverVars PROVE AgeInv'
<1>1. PICK n \in Int, l \in 0..D : n = clock /\ l = Left
  BY SizesOfRounds, SMTT(30) DEF ServerInv, ServerTypeOK, Time
<1>2. PICK c, tried, place : /\ c \in Int /\ tried \in Nat
                            /\ c = clock' /\ place = pc' /\ tried = step'
  <2>1. clock' \in Int /\ step' \in Nat BY DEF ServerInv, ServerTypeOK, Time
  <2> QED BY <2>1
<1>0. c \in Int /\ tried \in Nat BY <1>2
<1>3. PICK m \in 0..D : m = Left' /\ m = LeftAt(place, tried)
  <2>1. place = "wait" => tried <= MaxTries BY <1>2 DEF ServerInv, ExecutorInv
  <2> QED BY <1>2, <2>1, LeftIn DEF Left
<1>4. MaxTries \in Nat /\ MaxWork \in Nat /\ step \in Nat /\ D \in Nat
  BY ServerAssumption, BoundIsInt DEF ServerInv, ServerTypeOK
<1>5. ASSUME UNCHANGED inbox, ready' \cap Topic = ready \cap Topic, c + m <= n + l,
             pc' \in {"wait", "available", "lookup"}
               => pc \in {"wait", "available", "lookup"} /\ msg' = msg
      PROVE  AgeInv'
  BY <1>1, <1>2, <1>3, <1>5, AgeKept
<1>6. CASE WaitRetries
  <2>1. /\ pc = "wait" /\ step < MaxTries /\ place = "wait" /\ tried = step + 1
        /\ c = Later(1) /\ UNCHANGED <<inbox, ready, msg>>
    BY <1>2, <1>6 DEF WaitRetries, inputVars
  <2>2. c <= n + 1 BY <1>1, <2>1, LaterIsTime DEF ServerInv, ServerTypeOK
  <2>3. l = (MaxTries - step) + MaxWork BY <1>1, <2>1 DEF Left, LeftAt
  <2>4. m = (MaxTries - tried) + MaxWork BY <1>3, <2>1 DEF LeftAt
  <2>5. c + m <= n + l BY <1>1, <1>2, <1>3, <1>4, <2>1, <2>2, <2>3, <2>4
  <2> QED BY <1>5, <2>1, <2>5
<1>7. CASE Integrate
  <2>1. /\ pc = "integrate" /\ place = "integrate" /\ tried = step + 1
        /\ \E work \in 0..MaxWork : c = Later(IF step = 0 THEN work ELSE 0)
        /\ UNCHANGED <<inbox, ready>>
    BY <1>2, <1>7 DEF Integrate, inputVars
  <2>2. l = IF step = 0 THEN MaxWork ELSE 0 BY <1>1, <2>1 DEF Left, LeftAt
  <2>3. c <= n + l
    <3>1. PICK work \in 0..MaxWork : c = Later(IF step = 0 THEN work ELSE 0) BY <2>1
    <3>2. PICK d \in Nat : d = (IF step = 0 THEN work ELSE 0) /\ d <= l BY <1>4, <2>2, <3>1
    <3>3. c <= n + d BY <1>1, <3>1, <3>2, LaterIsTime DEF ServerInv, ServerTypeOK
    <3> QED BY <1>1, <1>2, <3>2, <3>3
  <2>4. m = 0 BY <1>2, <1>3, <1>4, <2>1 DEF LeftAt
  <2>5. c + m <= n + l BY <1>0, <2>3, <2>4
  <2> QED BY <1>2, <1>5, <2>1, <2>5
<1>8. CASE WaitSucceeds \/ WaitTimesOut
  <2>1. /\ pc = "wait" /\ step <= MaxTries /\ tried = 0 /\ place \in {"available", "idle"}
        /\ place = "available" => UNCHANGED msg
        /\ c = n /\ UNCHANGED <<inbox, ready>>
    BY <1>1, <1>2, <1>8 DEF WaitSucceeds, WaitTimesOut, Goto, Return, inputVars, ServerInv, ExecutorInv
  <2>2. l = (MaxTries - step) + MaxWork BY <1>1, <2>1 DEF Left, LeftAt
  <2>3. m <= MaxWork BY <1>3, <1>4, <2>1 DEF LeftAt
  <2>4. c + m <= n + l BY <1>1, <1>2, <1>3, <1>4, <2>1, <2>2, <2>3
  <2> QED BY <1>2, <1>5, <2>1, <2>4
<1>9. CASE CheckAvailable \/ Lookup
  <2>1. /\ pc \in {"available", "lookup"} /\ tried = 0
        /\ place \in {"lookup", "integrate", "terminated", "idle"}
        /\ place = "lookup" => UNCHANGED msg
        /\ c = n /\ UNCHANGED <<inbox, ready>>
    BY <1>1, <1>2, <1>9 DEF CheckAvailable, Lookup, Goto, Return, inputVars
  <2>2. l = MaxWork BY <1>1, <2>1 DEF Left, LeftAt
  <2>3. m <= MaxWork BY <1>3, <1>4, <2>1 DEF LeftAt
  <2>4. c + m <= n + l BY <1>1, <1>2, <1>3, <1>4, <2>1, <2>2, <2>3
  <2> QED BY <1>2, <1>5, <2>1, <2>4
<1>10. CASE IntegrateEnds \/ OpNotDue \/ PublishEmpty \/ PublishMap \/ PublishPointcloud \/ CropMap
              \/ PipelineReturns
  <2>1. /\ place \in {"operations", "idle"} /\ c = n /\ UNCHANGED <<inbox, ready>>
    BY <1>1, <1>2, <1>10 DEF IntegrateEnds, OpNotDue, PublishEmpty, PublishMap, PublishPointcloud,
       CropMap, PipelineReturns, Goto, Return, inputVars, NextOp
  <2>2. m = 0 BY <1>3, <2>1 DEF LeftAt
  <2>3. c + m <= n + l BY <1>1, <1>2, <2>1, <2>2
  <2> QED BY <1>2, <1>5, <2>1, <2>3
<1>11. CASE RunService
  <2>1. /\ place \in {"save", "idle"} /\ c = n /\ UNCHANGED inbox
        /\ ready' = ready \/ \E r \in Service : ready' = ready \ {r}
    BY <1>1, <1>2, <1>11 DEF RunService, ResetMap, SaveMap, SaveMapWrites, SaveMapFails,
       LoadMapFails, LoadMapForgets, LoadMap, Serve, Runnable, inputVars, Service
  <2>2. ready' \cap Topic = ready \cap Topic BY <2>1, ServerAssumption
  <2>3. m = 0 BY <1>3, <2>1 DEF LeftAt
  <2>4. c + m <= n + l BY <1>1, <1>2, <2>1, <2>3
  <2> QED BY <1>2, <1>5, <2>1, <2>2, <2>4
<1>12. CASE (\E r \in Service : Call(r)) \/ TfArrives \/ UNCHANGED serverVars
  <2>1. UNCHANGED <<clock, inbox, ready, pc, msg, step>>
    BY <1>12 DEF Call, TfArrives, execVars, inputVars, serverVars
  <2>2. m = l BY <1>1, <1>3, <2>1 DEF Left, LeftAt
  <2>3. c + m <= n + l BY <1>1, <1>2, <2>1, <2>2
  <2> QED BY <1>5, <2>1, <2>3
<1>13. CASE Tick \/ Crash
  <2>1. pc' = "idle" /\ \A t \in Topic : inbox'[t] = <<>>
    BY <1>13 DEF Tick, Idle, Crash, FreshNode, execVars, inputVars
  <2>2. \A t \in Topic : 1..Len(inbox'[t]) = {} BY <2>1, Len(<<>>) = 0
  <2> QED BY <2>1, <2>2 DEF AgeInv
<1> QED
  BY <1>6, <1>7, <1>8, <1>9, <1>10, <1>11, <1>12, <1>13, AgeMeasure, AgeTakeMessage, AgeCollect
  DEF ServerNext, ExecutorStep, RunInput, RunPipeline

\* The pose that was available is still there; poses are not ahead of time.
LookupInv ==
  /\ tf.newest <= clock
  /\ pc = "lookup" => Covered(msg.stamp)
  /\ pc # "terminated"

LEMMA LookupStep ==
  ASSUME HistoryIsLong, ServerInv, AgeInv, LookupInv, [ServerNext]_serverVars
  PROVE  LookupInv'
<1>1. /\ clock \in Time /\ clock \in Int /\ tf.newest \in 0..MaxClock /\ tf.oldest \in Int
      /\ CacheTime \in Nat /\ MaxWork \in Nat /\ Bound \in Int /\ MaxClock \in Nat
  BY ServerAssumption, BoundIsInt DEF ServerInv, ServerTypeOK, Time
<1>2. CASE TfArrives
  <2>1. PICK stamp \in Time :
          /\ stamp <= clock
          /\ IF tf.newest = 0
             THEN tf' = [oldest |-> stamp, newest |-> stamp]
             ELSE /\ stamp = tf.newest + 1
                  /\ tf' = [oldest |-> IF tf.oldest < stamp - CacheTime
                                       THEN stamp - CacheTime ELSE tf.oldest,
                            newest |-> stamp]
    BY <1>2 DEF TfArrives
  <2>2. tf'.newest = stamp /\ UNCHANGED <<clock, pc, msg>> BY <1>2, <2>1 DEF TfArrives, execVars
  <2>3. tf'.newest <= clock' BY <2>1, <2>2
  <2>4. ASSUME pc = "lookup" PROVE tf'.oldest <= msg.stamp /\ msg.stamp <= tf'.newest
    <3>1. msg.stamp \in Time /\ msg.stamp \in Int /\ msg.stamp >= 1
      BY <2>4 DEF ServerInv, ExecutorInv, Busy, Time
    <3>2. tf.oldest <= msg.stamp /\ msg.stamp <= tf.newest BY <2>4 DEF LookupInv, Covered
    <3>3. tf.newest # 0 BY <1>1, <3>1, <3>2
    <3>4. AgedAt(clock, MaxWork, msg.stamp, 0)
      <4>1. Left = MaxWork BY <2>4 DEF Left, LeftAt
      <4> QED BY <2>4, <4>1 DEF AgeInv
    <3>5. clock - msg.stamp + MaxWork <= Bound
      <4>1. D * 0 = 0 BY BoundIsInt
      <4> QED BY <1>1, <3>1, <3>4, <4>1 DEF AgedAt
    <3>6. stamp - CacheTime <= msg.stamp
      BY <1>1, <2>1, <3>1, <3>5 DEF HistoryIsLong, Time
    <3>7. tf'.oldest \in {stamp - CacheTime, tf.oldest} BY <2>1, <3>3
    <3>8. stamp = tf.newest + 1 BY <2>1, <3>3
    <3> QED BY <1>1, <2>1, <2>2, <3>1, <3>2, <3>6, <3>7, <3>8
  <2> QED BY <2>2, <2>3, <2>4 DEF LookupInv, Covered
<1>3. CASE Crash
  BY <1>1, <1>3 DEF Crash, FreshNode, LookupInv, Time
<1>4. CASE CheckAvailable \/ Lookup
  <2>1. UNCHANGED <<clock, tf>> /\ (pc' = "lookup" => Covered(msg.stamp) /\ UNCHANGED msg)
    BY <1>4 DEF CheckAvailable, Lookup, Goto, Return
  <2>2. pc' # "terminated" BY <1>4 DEF CheckAvailable, Lookup, Goto, Return, LookupInv
  <2> QED BY <2>1, <2>2 DEF LookupInv, Covered
<1>5. ASSUME UNCHANGED tf, clock <= clock', clock' \in Int,
             pc' \in {"lookup", "terminated"} => pc' = pc /\ UNCHANGED msg
      PROVE  LookupInv'
  BY <1>1, <1>5 DEF LookupInv, Covered
<1>6. CASE WaitRetries \/ Integrate \/ Tick
  <2>1. UNCHANGED tf /\ clock <= clock' /\ clock' \in Int
    <3>3. PICK c : c = clock' OBVIOUS
    <3>1. PICK d \in Nat : c = Later(d) \/ c = clock + d
      BY <1>6, <3>3, ServerAssumption DEF WaitRetries, Integrate, Tick
    <3>2. clock <= c /\ c \in Int
      <4>1. CASE c = Later(d) BY <1>1, <4>1, LaterIsTime DEF Time
      <4>2. CASE c = clock + d BY <1>1, <4>2
      <4> QED BY <3>1, <4>1, <4>2
    <3> QED BY <1>6, <3>2, <3>3 DEF WaitRetries, Integrate, Tick
  <2>2. pc' \in {"wait", "integrate", "idle"} BY <1>6 DEF WaitRetries, Integrate, Tick, Idle, execVars
  <2> QED BY <1>5, <2>1, <2>2
<1>7. CASE \/ \E t \in Topic : Measure(t) \/ TakeMessage(t)
           \/ \E r \in Service : Call(r)
           \/ WaitSucceeds \/ WaitTimesOut \/ Collect \/ UNCHANGED serverVars
  <2>1. UNCHANGED <<tf, clock>>
    BY <1>7 DEF Measure, TakeMessage, Call, WaitSucceeds, WaitTimesOut, Collect, serverVars
  <2>2. pc' \in {"lookup", "terminated"} => pc' = pc /\ UNCHANGED msg
    BY <1>7 DEF Measure, TakeMessage, Runnable, Call, WaitSucceeds, WaitTimesOut, Collect, serverVars,
       execVars, Goto, Return
  <2> QED BY <1>1, <1>5, <2>1, <2>2
<1>8. CASE \/ IntegrateEnds \/ OpNotDue \/ PublishEmpty \/ PublishMap \/ PublishPointcloud \/ CropMap
           \/ PipelineReturns \/ RunService
  <2>1. UNCHANGED <<tf, clock>> /\ pc' \in {"operations", "idle", "save"}
    BY <1>8 DEF IntegrateEnds, OpNotDue, PublishEmpty, PublishMap, PublishPointcloud, CropMap,
       PipelineReturns, NextOp, Goto, Return, RunService, ResetMap, SaveMap, SaveMapWrites,
       SaveMapFails, LoadMapFails, LoadMapForgets, LoadMap, Serve, Runnable
  <2> QED BY <1>1, <1>5, <2>1
<1> QED
  BY <1>2, <1>3, <1>4, <1>6, <1>7, <1>8 DEF ServerNext, ExecutorStep, RunInput, RunPipeline

(***************************************************************************)
(* If the TF buffer's history is as long as the callbacks that may run     *)
(* before a message's own are slow, a pose that was found available is     *)
(* never gone at its lookup, and the node never dies of it: a message      *)
(* waits for the callbacks of a round for each message before it, and each *)
(* takes at most the wait for a pose and the update (tf_transformer.cc,    *)
(* pointcloud_topic_input.cc, depth_image_topic_input.cc).                 *)
(***************************************************************************)
THEOREM NoLookupThrows ==
  ASSUME HistoryIsLong
  PROVE  ServerSpec => []LookupNeverThrows
<1>1. ServerInit => AgeInv /\ LookupInv
  <2> SUFFICES ASSUME ServerInit PROVE AgeInv /\ LookupInv OBVIOUS
  <2>1. /\ inbox = [t \in Topic |-> <<>>] /\ pc = "idle" /\ clock = 1 /\ tf.newest = 0
    BY DEF ServerInit, FreshNode
  <2>2. \A t \in Topic : 1..Len(inbox[t]) = {} BY <2>1, Len(<<>>) = 0
  <2> QED BY <2>1, <2>2 DEF AgeInv, LookupInv
<1>2. ServerInv /\ ServerInv' /\ AgeInv /\ LookupInv /\ [ServerNext]_serverVars
        => AgeInv' /\ LookupInv'
  BY AgeStep, LookupStep
<1>3. LookupInv => LookupNeverThrows BY DEF LookupInv, LookupNeverThrows
<1> QED BY <1>1, <1>2, <1>3, ServerTypeCorrect, PTL DEF ServerSpec
-----------------------------------------------------------------------------
(* The construction of the server *)

\* Sets that stand for an optional value.
Single(S) == \A x, y \in S : x = y

LEMMA OnlyIs == ASSUME NEW S, S # {} PROVE Only(S) \in S
  BY DEF Only

LEMMA OptionalIsSingle == ASSUME NEW condition, NEW value PROVE Single(Optional(condition, value))
  BY DEF Optional, Single

LEMMA ChildIsSingle == ASSUME NEW param, NEW key PROVE Single(Child(param, key))
<1>1. PICK C : C = Child(param, key) OBVIOUS
<1>2. PICK value : value = param.map[key] OBVIOUS
<1>3. C \subseteq {value}
  <2>1. \A x \in C : \E t \in {"map"} \cap DOMAIN param : x \in Optional(key \in DOMAIN param.map, param.map[key])
    BY <1>1 DEF Child
  <2>2. \A x \in Optional(key \in DOMAIN param.map, param.map[key]) : x = value BY <1>2 DEF Optional
  <2> QED BY <2>1, <2>2
<1>4. Single(C) BY <1>3 DEF Single
<1> QED BY <1>1, <1>4

LEMMA SectionIsSingle == ASSUME NEW key PROVE Single(Section(key))
<1>1. PICK p : p = params OBVIOUS
<1>2. Section(key) = {p[k] : k \in {key} \cap DOMAIN p} BY <1>1 DEF Section
<1>3. \A x \in Section(key) : x = p[key] BY <1>2
<1> QED BY <1>3 DEF Single

LEMMA TypeIsSingle == ASSUME NEW names, NEW param PROVE Single(TypeFrom(names, param)) /\ TypeFrom(names, param) \subseteq names
<1>1. Single(TypeStr(param))
  <2>1. CASE Holds(param, "string") BY <2>1 DEF TypeStr, Single
  <2>2. CASE ~Holds(param, "string")
    <3>1. PICK C : C = Child(param, "type") OBVIOUS
    <3>2. Single(C) BY <3>1, ChildIsSingle
    <3>3. TypeStr(param) = {t.string : t \in {c \in C : Holds(c, "string")}} BY <2>2, <3>1 DEF TypeStr
    <3> QED BY <3>2, <3>3 DEF Single
  <2> QED BY <2>1, <2>2
<1> QED BY <1>1 DEF TypeFrom, Single

\* A component that a factory has made: its config is one of its type's class.
IsMade(classes, c) ==
  \E t \in DOMAIN classes : \E config : /\ c = [outcome |-> "made", type |-> t, config |-> config]
                                        /\ DOMAIN config = DOMAIN classes[t]
                                        /\ isValid(t, config)

LEMMA FromIs ==
  ASSUME NEW class, NEW param, NEW config \in From(class, param)
  PROVE  DOMAIN config = DOMAIN class
<1>1. PICK f : f = [m \in DOMAIN class |->
                      Value(class[m], UNION {Loaded(class[m].type, c) : c \in Child(param, m)})]
  OBVIOUS
<1>2. From(class, param) = Optional(Holds(param, "map"), f) BY <1>1, Zenon DEF From
<1>3. config = f BY <1>2 DEF Optional
<1> QED BY <1>1, <1>3

LEMMA MakeIs ==
  ASSUME NEW classes, NEW ps, Single(ps)
  PROVE  \/ Make(classes, ps) = None \/ Make(classes, ps) = Aborts
         \/ /\ IsMade(classes, Make(classes, ps))
            /\ Make(classes, ps).type = Only(UNION {TypeFrom(DOMAIN classes, p) : p \in ps})
            /\ UNION {TypeFrom(DOMAIN classes, p) : p \in ps} # {}
<1>1. PICK types : types = UNION {TypeFrom(DOMAIN classes, p) : p \in ps} OBVIOUS
<1>2. PICK configs : configs = UNION {UNION {From(classes[t], p) : p \in ps} : t \in types} OBVIOUS
<1>3. Make(classes, ps) = IF configs = {} THEN None ELSE Construct(Only(types), Only(configs))
  BY <1>1, <1>2, Zenon DEF Make
<1>4. CASE configs = {} BY <1>3, <1>4
<1>5. CASE configs # {}
  <2>1. PICK config : config = Only(configs) /\ config \in configs BY <1>5, OnlyIs
  <2>a. PICK t \in types : config \in UNION {From(classes[t], p) : p \in ps} BY <1>2, <2>1
  <2>2. PICK p \in ps : config \in From(classes[t], p) BY <2>a
  <2>3. Single(types)
    <3>1. \A x \in types : x \in TypeFrom(DOMAIN classes, p) BY <1>1, <2>2 DEF Single
    <3>2. Single(TypeFrom(DOMAIN classes, p)) BY TypeIsSingle
    <3> QED BY <3>1, <3>2 DEF Single
  <2>4. Only(types) \in types BY <2>2, OnlyIs
  <2>5. Only(types) = t BY <2>2, <2>3, <2>4 DEF Single
  <2>6. t \in DOMAIN classes
    <3>1. \E q \in ps : t \in TypeFrom(DOMAIN classes, q) BY <1>1, <2>2
    <3> QED BY <3>1, TypeIsSingle
  <2>7. DOMAIN config = DOMAIN classes[t] BY <2>2, FromIs
  <2>8. Make(classes, ps) = Construct(t, config) BY <1>3, <1>5, <2>1, <2>5
  <2>9. CASE isValid(t, config)
    <3>1. PICK c : c = [outcome |-> "made", type |-> t, config |-> config] OBVIOUS
    <3>2. Make(classes, ps) = c BY <2>8, <2>9, <3>1 DEF Construct
    <3>3. IsMade(classes, c) BY <2>6, <2>7, <2>9, <3>1 DEF IsMade
    <3>4. c.type = t BY <3>1
    <3> QED BY <1>1, <2>2, <2>5, <3>2, <3>3, <3>4
  <2>10. CASE ~isValid(t, config) BY <2>8, <2>10 DEF Construct
  <2> QED BY <2>9, <2>10
<1> QED BY <1>4, <1>5
LEMMA ExtendIs ==
  ASSUME NEW f, NEW g
  PROVE  /\ DOMAIN Extend(f, g) = DOMAIN f \cup DOMAIN g
         /\ \A x \in DOMAIN f : Extend(f, g)[x] = f[x]
         /\ \A x \in DOMAIN g \ DOMAIN f : Extend(f, g)[x] = g[x]
  BY DEF Extend

\* What RunningNodeIsSound says of a component's config, and of its parts.
HasValid(c) == isValid(c.type, c.config)
IsSound(c) == \A p \in WithParts(c) : HasValid(p)

LEMMA MadeIs ==
  ASSUME NEW classes, NEW c, IsMade(classes, c)
  PROVE  /\ c.outcome = "made" /\ DOMAIN c = {"outcome", "type", "config"}
         /\ HasValid(c) /\ IsSound(c)
<1>1. PICK t \in DOMAIN classes : \E config : /\ c = [outcome |-> "made", type |-> t, config |-> config]
                                              /\ DOMAIN config = DOMAIN classes[t]
                                              /\ isValid(t, config)
  BY DEF IsMade
<1>2. PICK config : /\ c = [outcome |-> "made", type |-> t, config |-> config]
                    /\ isValid(t, config)
  BY <1>1
<1>3. c.outcome = "made" /\ c.type = t /\ c.config = config /\ DOMAIN c = {"outcome", "type", "config"}
  BY <1>2
<1>4. HasValid(c) BY <1>2, <1>3 DEF HasValid
<1>5. {"projector", "model"} \cap DOMAIN c = {} BY <1>3
<1>6. WithParts(c) = {c} BY <1>5 DEF WithParts
<1> QED BY <1>3, <1>4, <1>6 DEF IsSound

\* A component made, and put together with its parts or its name.
LEMMA ExtendedIsSound ==
  ASSUME NEW c, {"type", "config"} \subseteq DOMAIN c, IsSound(c), NEW more,
         DOMAIN more \cap DOMAIN c = {},
         \A p \in {"projector", "model"} \cap DOMAIN more : HasValid(more[p])
  PROVE  LET e == Extend(c, more)
         IN  /\ IsSound(e) /\ e.type = c.type /\ e.config = c.config
             /\ DOMAIN e = DOMAIN c \cup DOMAIN more
<1>1. PICK e : e = Extend(c, more) OBVIOUS
<1>2. DOMAIN e = DOMAIN c \cup DOMAIN more BY <1>1, ExtendIs
<1>3. \A x \in DOMAIN c : e[x] = c[x] BY <1>1, ExtendIs
<1>4. \A x \in DOMAIN more : e[x] = more[x]
  <2> SUFFICES ASSUME NEW x \in DOMAIN more PROVE e[x] = more[x] OBVIOUS
  <2>1. x \in DOMAIN more \ DOMAIN c OBVIOUS
  <2>2. \A y \in DOMAIN more \ DOMAIN c : Extend(c, more)[y] = more[y] BY ExtendIs
  <2> QED BY <1>1, <2>1, <2>2
<1>5. e.type = c.type /\ e.config = c.config BY <1>3
<1>6. HasValid(e)
  <2>1. HasValid(c) BY DEF IsSound, WithParts
  <2> QED BY <1>5, <2>1 DEF HasValid
<1>7. ASSUME NEW p \in {"projector", "model"} \cap DOMAIN e PROVE HasValid(e[p])
  <2>1. CASE p \in DOMAIN c
    <3>1. HasValid(c[p]) BY <1>7, <2>1 DEF IsSound, WithParts
    <3> QED BY <1>3, <2>1, <3>1
  <2>2. CASE p \notin DOMAIN c
    <3>1. p \in {"projector", "model"} \cap DOMAIN more BY <1>2, <1>7, <2>2
    <3>2. HasValid(more[p]) BY <3>1
    <3> QED BY <1>4, <3>1, <3>2
  <2> QED BY <2>1, <2>2
<1>8. IsSound(e) BY <1>6, <1>7 DEF IsSound, WithParts
<1> QED BY <1>1, <1>2, <1>5, <1>8

LEMMA IntegratorIs ==
  ASSUME NEW param, NEW map
  PROVE  LET c == CreateIntegrator(param, map)
         IN  \/ c = None \/ c = Aborts
             \/ /\ IsSound(c) /\ Fits(c.type, map)
                /\ {"type", "config"} \subseteq DOMAIN c /\ "name" \notin DOMAIN c
<1>1. PICK c : c = CreateIntegrator(param, map) OBVIOUS
<1>2. PICK method : method = Child(param, "integration_method") OBVIOUS
<1>3. PICK types : types = UNION {TypeFrom(DOMAIN IntegratorClass, p) : p \in method} OBVIOUS
<1>4. PICK integrator : integrator = Make(IntegratorClass, method) OBVIOUS
<1>5. PICK projector : projector = Make(ProjectorClass, Child(param, "projection_model")) OBVIOUS
<1>6. PICK model : model = Make(ModelClass, Child(param, "measurement_model")) OBVIOUS
<1>a. PICK parts : parts = [projector |-> projector, model |-> model] OBVIOUS
<1>7. c = IF types = {} \/ integrator = None THEN None
          ELSE IF Only(types) = "ray_tracing_integrator" THEN integrator
          ELSE IF projector.outcome # "made" THEN projector
          ELSE IF model.outcome # "made" THEN model
          ELSE IF ~Fits(Only(types), map) THEN None
          ELSE IF integrator = Aborts THEN Aborts
          ELSE Extend(integrator, parts)
  BY <1>1, <1>2, <1>3, <1>4, <1>5, <1>6, <1>a, Zenon DEF CreateIntegrator
<1>8. \/ integrator = None \/ integrator = Aborts
      \/ IsMade(IntegratorClass, integrator) /\ integrator.type = Only(types)
  BY <1>2, <1>3, <1>4, MakeIs, ChildIsSingle
<1>9. projector = None \/ projector = Aborts \/ (projector.outcome = "made" /\ HasValid(projector))
  <2>1. projector = None \/ projector = Aborts \/ IsMade(ProjectorClass, projector)
    BY <1>5, MakeIs, ChildIsSingle
  <2> QED BY <2>1, MadeIs
<1>10. model = None \/ model = Aborts \/ (model.outcome = "made" /\ HasValid(model))
  <2>1. model = None \/ model = Aborts \/ IsMade(ModelClass, model)
    BY <1>6, MakeIs, ChildIsSingle
  <2> QED BY <2>1, MadeIs
<1>b. None.outcome # "made" /\ Aborts.outcome # "made" BY DEF None, Aborts
<1>11. Fits("ray_tracing_integrator", map) BY DEF Fits, NeedsMap
<1>12. CASE c = integrator /\ Fits(Only(types), map)
  <2>1. CASE integrator = None \/ integrator = Aborts BY <1>1, <1>12, <2>1
  <2>2. CASE IsMade(IntegratorClass, integrator) /\ integrator.type = Only(types)
    <3>1. IsSound(c) /\ DOMAIN c = {"outcome", "type", "config"} BY <1>12, <2>2, MadeIs
    <3> QED BY <1>1, <1>12, <2>2, <3>1
  <2> QED BY <1>8, <2>1, <2>2
<1>13. CASE /\ c = Extend(integrator, parts) /\ Fits(Only(types), map)
            /\ integrator # None /\ integrator # Aborts
            /\ projector.outcome = "made" /\ model.outcome = "made"
  <2>1. IsMade(IntegratorClass, integrator) /\ integrator.type = Only(types) BY <1>8, <1>13
  <2>2. IsSound(integrator) /\ DOMAIN integrator = {"outcome", "type", "config"} BY <2>1, MadeIs
  <2>3. DOMAIN parts = {"projector", "model"} /\ parts["projector"] = projector /\ parts["model"] = model
    BY <1>a
  <2>4. DOMAIN parts \cap DOMAIN integrator = {} BY <2>2, <2>3
  <2>5. HasValid(projector) /\ HasValid(model) BY <1>9, <1>10, <1>13, <1>b
  <2>6. \A p \in {"projector", "model"} \cap DOMAIN parts : HasValid(parts[p]) BY <2>3, <2>5
  <2>7. /\ IsSound(c) /\ c.type = integrator.type
        /\ DOMAIN c = {"outcome", "type", "config", "projector", "model"}
    BY <1>13, <2>2, <2>3, <2>4, <2>6, ExtendedIsSound
  <2> QED BY <1>1, <1>13, <2>1, <2>7
<1>14. CASE c = None \/ c = Aborts BY <1>1, <1>14
<1> QED BY <1>7, <1>9, <1>10, <1>11, <1>12, <1>13, <1>14

\* The components in a list, and that it is one.
Elements(list) == {list[i] : i \in DOMAIN list}
IsList(list) == list \in Seq(Elements(list))

LEMMA AppendIs ==
  ASSUME NEW list, IsList(list), NEW c
  PROVE  IsList(Append(list, c)) /\ Elements(Append(list, c)) = Elements(list) \cup {c}
<1>1. PICK S : S = Elements(list) \cup {c} OBVIOUS
<1>2. \A i \in DOMAIN list : list[i] \in Elements(list) BY DEF Elements
<1>3. list \in Seq(S)
  <2>1. list \in Seq(Elements(list)) BY DEF IsList
  <2>2. Len(list) \in Nat /\ DOMAIN list = 1..Len(list) BY <2>1
  <2>3. \A i \in 1..Len(list) : list[i] \in S BY <1>1, <1>2, <2>2
  <2>4. list = [i \in 1..Len(list) |-> list[i]] BY <2>1
  <2> QED BY <2>2, <2>3, <2>4, IsASeq
<1>4. PICK n : n = Len(list) OBVIOUS
<1>5. n \in Nat /\ DOMAIN list = 1..n BY <1>3, <1>4
<1>6. PICK more : more = Append(list, c) OBVIOUS
<1>7. more \in Seq(S) BY <1>1, <1>3, <1>6
<1>8. Len(more) = n + 1 /\ \A i \in 1..n : more[i] = list[i] BY <1>1, <1>3, <1>4, <1>6
<1>9. more[n + 1] = c BY <1>1, <1>3, <1>4, <1>6
<1>10. DOMAIN more = 1..(n + 1) BY <1>7, <1>8
<1>11. Elements(more) = S
  <2>1. ASSUME NEW x \in Elements(more) PROVE x \in S
    <3>1. PICK i \in DOMAIN more : x = more[i] BY DEF Elements
    <3>2. CASE i = n + 1 BY <1>1, <1>9, <3>1, <3>2
    <3>3. CASE i # n + 1
      <4>1. i \in 1..n BY <1>5, <1>10, <3>1, <3>3
      <4> QED BY <1>1, <1>2, <1>5, <1>8, <3>1, <4>1
    <3> QED BY <3>2, <3>3
  <2>2. ASSUME NEW x \in S PROVE x \in Elements(more)
    <3>1. CASE x = c
      <4>1. n + 1 \in DOMAIN more BY <1>5, <1>10
      <4> QED BY <1>9, <3>1, <4>1 DEF Elements
    <3>2. CASE x # c
      <4>1. PICK i \in DOMAIN list : x = list[i] BY <1>1, <3>2 DEF Elements
      <4>2. i \in DOMAIN more /\ more[i] = x BY <1>5, <1>8, <1>10, <4>1
      <4> QED BY <4>2 DEF Elements
    <3> QED BY <3>1, <3>2
  <2> QED BY <2>1, <2>2
<1> QED BY <1>1, <1>6, <1>7, <1>11 DEF IsList

Listed == Elements(node.integrators) \cup Elements(node.inputs) \cup Elements(node.operations)

SetupInv ==
  /\ DOMAIN node = DOMAIN EmptyNode
  /\ section \in {"general", "map"} => node.map = None
  /\ section \in {"integrators", "inputs", "operations", "running"} => node.map # None
  /\ node.map = None => Listed = {} /\ ~node.services
  /\ IsList(node.integrators) /\ IsList(node.inputs) /\ IsList(node.operations)
  /\ \A c \in Listed : IsSound(c)
  /\ node.map # None => HasValid(node.map)
  /\ \A c \in Elements(node.integrators) : Fits(c.type, node.map)

LEMMA SetupInitInv == SetupInit => SetupInv
<1> SUFFICES ASSUME SetupInit PROVE SetupInv OBVIOUS
<1>1. Elements(<<>>) = {} BY DEF Elements
<1>2. IsList(<<>>) BY <1>1 DEF IsList
<1>3. section = "general" /\ node = EmptyNode BY DEF SetupInit
<1>4. /\ node.map = None /\ node.services = FALSE
      /\ node.integrators = <<>> /\ node.inputs = <<>> /\ node.operations = <<>>
  BY <1>3 DEF EmptyNode
<1>5. Listed = {} BY <1>1, <1>4 DEF Listed
<1> QED BY <1>1, <1>2, <1>3, <1>4, <1>5 DEF SetupInv

\* What an operation appends to one of the lists keeps the invariant.
LEMMA EntryKeepsInv ==
  ASSUME SetupInv, NEW key \in {"integrators", "inputs", "operations"}, NEW component,
         Entry(key, component),
         component = None \/ component = Aborts
           \/ (IsSound(component)
               /\ (key = "integrators" => Fits(component.type, node.map)))
  PROVE  SetupInv'
<1>1. section = key /\ node.map # None BY DEF Entry, SetupInv
<1>2. CASE UNCHANGED node /\ section' \in {key, "aborted"}
  <2>1. Listed' = Listed /\ Elements(node.integrators)' = Elements(node.integrators)
    BY <1>2 DEF Listed, Elements
  <2>2. /\ IsList(node.integrators)' = IsList(node.integrators)
        /\ IsList(node.inputs)' = IsList(node.inputs)
        /\ IsList(node.operations)' = IsList(node.operations)
    BY <1>2 DEF IsList, Elements
  <2> QED BY <1>1, <1>2, <2>1, <2>2 DEF SetupInv
<1>3. CASE /\ component # None /\ component # Aborts /\ section' = key
           /\ node' = [node EXCEPT ![key] = Append(@, component)]
  <2>1. DOMAIN node = DOMAIN EmptyNode BY DEF SetupInv
  <2>2. {"map", "services", "integrators", "inputs", "operations"} \subseteq DOMAIN node
    BY <2>1 DEF EmptyNode
  <2>3. DOMAIN node' = DOMAIN node /\ node'.map = node.map /\ node'.services = node.services
    BY <1>3, <2>2
  <2>4. PICK more : more = Append(node[key], component) OBVIOUS
  <2>5. \A k \in {"integrators", "inputs", "operations"} :
          node'[k] = IF k = key THEN more ELSE node[k]
    BY <1>3, <2>2, <2>4
  <2>6. IsList(node[key])
    BY DEF SetupInv
  <2>7. IsList(more) /\ Elements(more) = Elements(node[key]) \cup {component}
    BY <2>4, <2>6, AppendIs
  <2>8. node'.integrators = (IF key = "integrators" THEN more ELSE node.integrators) BY <2>5
  <2>9. node'.inputs = (IF key = "inputs" THEN more ELSE node.inputs) BY <2>5
  <2>10. node'.operations = (IF key = "operations" THEN more ELSE node.operations) BY <2>5
  <2>11. /\ Listed' \subseteq Listed \cup {component}
         /\ IsList(node'.integrators) /\ IsList(node'.inputs) /\ IsList(node'.operations)
         /\ Elements(node'.integrators) \subseteq Elements(node.integrators)
                \cup (IF key = "integrators" THEN {component} ELSE {})
    <3>1. CASE key = "integrators"
      BY <2>7, <2>8, <2>9, <2>10, <3>1 DEF Listed, SetupInv
    <3>2. CASE key = "inputs"
      BY <2>7, <2>8, <2>9, <2>10, <3>2 DEF Listed, SetupInv
    <3>3. CASE key = "operations"
      BY <2>7, <2>8, <2>9, <2>10, <3>3 DEF Listed, SetupInv
    <3> QED BY <3>1, <3>2, <3>3
  <2>12. \A c \in Listed' : IsSound(c) BY <1>3, <2>11 DEF SetupInv
  <2>13. \A c \in Elements(node'.integrators) : Fits(c.type, node'.map)
    BY <1>3, <2>3, <2>11 DEF SetupInv
  <2> QED BY <1>1, <1>3, <2>1, <2>3, <2>11, <2>12, <2>13 DEF SetupInv
<1> QED BY <1>1, <1>2, <1>3 DEF Entry, Enter, End
LEMMA AddIntegratorKeeps == ASSUME SetupInv, AddIntegrator PROVE SetupInv'
<1>1. PICK param : param = Only(Section("measurement_integrators")).map[Head(pending)] OBVIOUS
<1>2. PICK made : made = CreateIntegrator(param, node.map) OBVIOUS
<1>3. PICK name : name = Head(pending) OBVIOUS
<1>4. PICK more : more = [name |-> name] OBVIOUS
<1>5. PICK component : component = IF made = None \/ made = Aborts THEN made ELSE Extend(made, more)
  OBVIOUS
<1>6. Entry("integrators", component)
  BY <1>1, <1>2, <1>3, <1>4, <1>5, Zenon DEF AddIntegrator
<1>7. CASE made = None \/ made = Aborts
  <2>1. component = None \/ component = Aborts BY <1>5, <1>7
  <2> QED BY <1>6, <2>1, EntryKeepsInv
<1>8. CASE ~(made = None \/ made = Aborts)
  <2>1. /\ IsSound(made) /\ Fits(made.type, node.map)
        /\ {"type", "config"} \subseteq DOMAIN made /\ "name" \notin DOMAIN made
    BY <1>2, <1>8, IntegratorIs
  <2>2. DOMAIN more = {"name"} BY <1>4
  <2>3. DOMAIN more \cap DOMAIN made = {} /\ {"projector", "model"} \cap DOMAIN more = {}
    BY <2>1, <2>2
  <2>4. component = Extend(made, more) BY <1>5, <1>8
  <2>5. IsSound(component) /\ component.type = made.type
    BY <2>1, <2>3, <2>4, ExtendedIsSound
  <2>6. IsSound(component) /\ Fits(component.type, node.map) BY <2>1, <2>5
  <2> QED BY <1>6, <2>6, EntryKeepsInv
<1> QED BY <1>7, <1>8

LEMMA AddOtherKeeps ==
  ASSUME SetupInv, NEW key \in {"inputs", "operations"}, NEW classes,
         Entry(key, Make(classes, {Head(pending)}))
  PROVE  SetupInv'
<1>1. PICK component : component = Make(classes, {Head(pending)}) OBVIOUS
<1>2. Single({Head(pending)}) BY DEF Single
<1>3. component = None \/ component = Aborts \/ IsMade(classes, component)
  BY <1>1, <1>2, MakeIs
<1>4. component = None \/ component = Aborts \/ IsSound(component)
  BY <1>3, MadeIs
<1>5. Entry(key, component) BY <1>1
<1> QED BY <1>4, <1>5, EntryKeepsInv

\* A step that leaves the components as they are, and goes where they may be.
LEMMA SameNodeKeeps ==
  ASSUME SetupInv, UNCHANGED <<node.map, node.services, node.integrators, node.inputs,
                               node.operations, DOMAIN node>>,
         section' \in {"general", "map"} => node.map = None,
         section' \in {"integrators", "inputs", "operations", "running"} => node.map # None
  PROVE  SetupInv'
<1>1. Listed' = Listed /\ Elements(node.integrators)' = Elements(node.integrators)
  BY DEF Listed, Elements
<1>2. /\ IsList(node.integrators)' = IsList(node.integrators)
      /\ IsList(node.inputs)' = IsList(node.inputs)
      /\ IsList(node.operations)' = IsList(node.operations)
  BY DEF IsList, Elements
<1> QED BY <1>1, <1>2 DEF SetupInv

LEMMA CreateMapKeeps == ASSUME SetupInv, CreateMap PROVE SetupInv'
<1>1. PICK made : made = Make(MapClass, Section("map")) OBVIOUS
<1>2. node.map = None /\ Listed = {} /\ ~node.services BY DEF CreateMap, SetupInv
<1>3. CASE UNCHANGED node /\ section' \in {"aborted", "idle"}
  BY <1>3, SameNodeKeeps
<1>4. CASE /\ made # None /\ made # Aborts
           /\ node' = [node EXCEPT !.map = made] /\ section' = "integrators"
  <2>1. {"map", "services", "integrators", "inputs", "operations"} \subseteq DOMAIN node
    BY DEF SetupInv, EmptyNode
  <2>2. /\ node'.map = made /\ node'.services = node.services
        /\ node'.integrators = node.integrators /\ node'.inputs = node.inputs
        /\ node'.operations = node.operations /\ DOMAIN node' = DOMAIN node
    BY <1>4, <2>1
  <2>3. Listed' = {} /\ Elements(node'.integrators) = {} BY <1>2, <2>2 DEF Listed
  <2>4. IsMade(MapClass, made) BY <1>1, <1>4, SectionIsSingle, MakeIs
  <2>5. HasValid(made) BY <2>4, MadeIs
  <2> QED BY <1>4, <2>2, <2>3, <2>5 DEF SetupInv
<1> QED
  <2>1. \/ UNCHANGED node /\ section' \in {"aborted", "idle"}
        \/ /\ made # None /\ made # Aborts
           /\ node' = [node EXCEPT !.map = made] /\ section' = "integrators"
    BY <1>1 DEF CreateMap, End, Enter
  <2> QED BY <1>3, <1>4, <2>1

LEMMA SetupStep == ASSUME SetupInv, [SetupNext]_setupVars PROVE SetupInv'
<1>1. CASE NoConfigFile
  BY <1>1, SameNodeKeeps DEF NoConfigFile, End, Enter
<1>2. CASE ReadGeneral
  <2>1. PICK a : a = ChildAs("int", "num_threads", node.num_threads) OBVIOUS
  <2>2. PICK b : b = ChildAs("string", "world_frame", node.world_frame) OBVIOUS
  <2>3. node' = [node EXCEPT !.num_threads = a, !.world_frame = b]
    BY <1>2, <2>1, <2>2 DEF ReadGeneral
  <2>4. UNCHANGED <<node.map, node.services, node.integrators, node.inputs,
                    node.operations, DOMAIN node>>
    BY <2>3
  <2>5. section' = "map" /\ node.map = None BY <1>2 DEF ReadGeneral, Enter, SetupInv
  <2> QED BY <2>4, <2>5, SameNodeKeeps
<1>3. CASE CreateMap BY <1>3, CreateMapKeeps
<1>4. CASE AddIntegrator BY <1>4, AddIntegratorKeeps
<1>5. CASE AddInput BY <1>5, AddOtherKeeps DEF AddInput
<1>6. CASE AddOperation BY <1>6, AddOtherKeeps DEF AddOperation
<1>7. CASE NextSection
  <2>1. section \in {"integrators", "inputs", "operations"} /\ node.map # None
    BY <1>7 DEF NextSection, SetupInv
  <2>2. CASE UNCHANGED node /\ section' \in {"inputs", "operations"}
    BY <2>1, <2>2, SameNodeKeeps
  <2>3. CASE section' = "running" /\ node' = [node EXCEPT !.services = host = "server"]
    <3>1. {"map", "services", "integrators", "inputs", "operations"} \subseteq DOMAIN node
      BY DEF SetupInv, EmptyNode
    <3>2. /\ node'.map = node.map
          /\ node'.integrators = node.integrators /\ node'.inputs = node.inputs
          /\ node'.operations = node.operations /\ DOMAIN node' = DOMAIN node
      BY <2>3, <3>1
    <3>3. Listed' = Listed BY <3>2 DEF Listed
    <3> QED BY <2>1, <2>3, <3>2, <3>3 DEF SetupInv
  <2> QED BY <1>7, <2>2, <2>3 DEF NextSection, Enter, End
<1>8. CASE UNCHANGED setupVars
  <2>1. UNCHANGED <<node, section>> BY <1>8 DEF setupVars
  <2> QED BY <2>1, SameNodeKeeps DEF SetupInv
<1> QED BY <1>1, <1>2, <1>3, <1>4, <1>5, <1>6, <1>7, <1>8 DEF SetupNext

LEMMA SetupInvIsSound == SetupInv => RunningNodeIsSound
<1> SUFFICES ASSUME SetupInv PROVE RunningNodeIsSound OBVIOUS
<1>1. Added = Listed BY DEF Added, Listed, Elements
<1>2. section = "running" => node.map # None BY DEF SetupInv
<1>3. node.map = None => Added = {} /\ ~node.services BY <1>1 DEF SetupInv
<1>4. ASSUME NEW c \in Components PROVE isValid(c.type, c.config)
  <2>1. CASE node.map # None /\ c = node.map BY <2>1 DEF SetupInv, HasValid
  <2>2. CASE c \in UNION {WithParts(d) : d \in Added}
    <3>1. PICK d \in Added : c \in WithParts(d) BY <2>2
    <3>2. IsSound(d) BY <1>1, <3>1 DEF SetupInv
    <3> QED BY <3>1, <3>2 DEF IsSound, HasValid
  <2> QED BY <1>4, <2>1, <2>2 DEF Components
<1>5. ASSUME NEW i \in DOMAIN node.integrators
      PROVE  LET type == node.integrators[i].type
             IN  type \in DOMAIN NeedsMap => node.map.type = NeedsMap[type]
  BY <1>5 DEF SetupInv, Elements, Fits
<1> QED BY <1>2, <1>3, <1>4, <1>5 DEF RunningNodeIsSound

(***************************************************************************)
(* Whatever configuration file the nodes are started with, of any content  *)
(* and depth: a node that runs has a map, each integrator that is cast to  *)
(* a kind of map has one of that kind, isValid() accepts the config of     *)
(* the map and of every integrator, projector, measurement model, input    *)
(* and operation, and a node without a map has nothing that would use one  *)
(* (ros_server.cc, integrator_factory.cc).                                 *)
(***************************************************************************)
THEOREM NodeIsSound == SetupSpec => []RunningNodeIsSound
<1>1. SetupInit => SetupInv BY SetupInitInv
<1>2. SetupInv /\ [SetupNext]_setupVars => SetupInv' BY SetupStep
<1>3. SetupInv => RunningNodeIsSound BY SetupInvIsSound
<1> QED BY <1>1, <1>2, <1>3, PTL DEF SetupSpec

-----------------------------------------------------------------------------
(* The thread pool *)

USE DEF queueVars, threadVars, historyVars, poolVars

-----------------------------------------------------------------------------
(* Types *)

\* Waking some of the sleeping threads leaves every thread at a location.
LEMMA WokenType ==
  ASSUME NEW P, NEW PC, NEW at \in [P -> PC], NEW who, NEW to \in PC
  PROVE  Woken(at, who, to) \in [P -> PC]
BY DEF Woken

\* A worker that is about to run a task has one: what PoolTypeOK needs to be
\* inductive, done being a set of tasks.
RunnerHasTask == \A w \in Worker : wpc[w] = "run" => wtask[w] \in Task

LEMMA TypeInit == ASSUME PoolInit PROVE PoolTypeOK /\ RunnerHasTask
<1>1. wpc \in [Worker -> WorkerPC] BY DEF PoolInit, WorkerPC
<1>2. cpc \in [Client -> ClientPC] BY DEF PoolInit, ClientPC
<1>3. tasks \in Seq(Task) BY DEF PoolInit
<1>4. RunnerHasTask BY DEF PoolInit, RunnerHasTask
<1>5. wtask \in [Worker -> Task \cup {NoTask}] BY DEF PoolInit
<1>6. owed \in [Client -> SUBSET Task] BY DEF PoolInit
<1>7. task_count \in Int BY DEF PoolInit
<1>10. terminate \in BOOLEAN BY DEF PoolInit
<1>8. mutex \in Worker \cup Client \cup {NoThread} BY DEF PoolInit
<1>9. done \subseteq Task /\ added \subseteq Task BY DEF PoolInit
<1> QED BY <1>1, <1>2, <1>3, <1>4, <1>5, <1>6, <1>7, <1>8, <1>9, <1>10
       DEF PoolTypeOK

LEMMA TypeStep ==
  ASSUME PoolTypeOK, RunnerHasTask, [PoolNext]_poolVars
  PROVE  PoolTypeOK' /\ RunnerHasTask'
<1> USE PoolAssumption DEF PoolTypeOK, RunnerHasTask
<1>1. ASSUME NEW w \in Worker, WorkerStep(w) \/ WorkerSpurious(w)
      PROVE  PoolTypeOK' /\ RunnerHasTask'
  <2> USE DEF WorkerPC
  <2>1. CASE WorkerLock(w) BY <2>1 DEF WorkerLock
  <2>2. CASE WorkerMustWait(w) BY <2>2 DEF WorkerMustWait
  <2>3. CASE WorkerSleep(w) BY <2>3 DEF WorkerSleep
  <2>4. CASE WorkerExit(w) BY <2>4 DEF WorkerExit
  <2>5. CASE WorkerPop(w) BY <2>5 DEF WorkerPop
  <2>6. CASE WorkerRun(w)
    BY <2>6 DEF WorkerRun
  <2>7. CASE WorkerCount(w) BY <2>7 DEF WorkerCount
  <2>8. CASE WorkerTest(w) BY <2>8 DEF WorkerTest
  <2>9. CASE WorkerNotify(w)
    <3>1. "wait_lock" \in ClientPC BY DEF ClientPC
    <3>2. cpc' \in [Client -> ClientPC]
      BY <2>9, <3>1, WokenType DEF WorkerNotify
    <3> QED BY <2>9, <3>2 DEF WorkerNotify
  <2>10. CASE WorkerSpurious(w) BY <2>10 DEF WorkerSpurious
  <2> QED BY <1>1, <2>1, <2>2, <2>3, <2>4, <2>5, <2>6, <2>7, <2>8, <2>9, <2>10
         DEF WorkerStep
<1>2. ASSUME NEW c \in Client, ClientCall(c) \/ ClientStep(c) \/ WaitSpurious(c)
      PROVE  PoolTypeOK' /\ RunnerHasTask'
  <2> USE DEF ClientPC
  <2>1. ASSUME NEW t \in Task, AddTask(c, t)
       PROVE  PoolTypeOK' /\ RunnerHasTask'
    BY <2>1 DEF AddTask
  <2>2. CASE WaitAll(c) BY <2>2 DEF WaitAll
  <2>3. CASE DtorSignal(c) BY <2>3 DEF DtorSignal
  <2>4. CASE NotifyOne(c)
    <3>1. wpc' \in [Worker -> WorkerPC]
      BY <2>4 DEF NotifyOne, Woken, WorkerPC
    <3>2. RunnerHasTask'
      BY <2>4 DEF NotifyOne, Woken
    <3> QED BY <2>4, <3>1, <3>2 DEF NotifyOne
  <2>5. CASE WaitLock(c) BY <2>5 DEF WaitLock
  <2>6. CASE WaitReturn(c) BY <2>6 DEF WaitReturn
  <2>7. CASE WaitMustWait(c) BY <2>7 DEF WaitMustWait
  <2>8. CASE WaitSleep(c) BY <2>8 DEF WaitSleep
  <2>9. CASE WaitSpurious(c) BY <2>9 DEF WaitSpurious
  <2>10. CASE DtorNotify(c)
    <3>1. wpc' \in [Worker -> WorkerPC]
      BY <2>10 DEF DtorNotify, Woken, WorkerPC
    <3>2. RunnerHasTask'
      BY <2>10 DEF DtorNotify, Woken
    <3> QED BY <2>10, <3>1, <3>2 DEF DtorNotify
  <2>11. CASE DtorJoin(c)
    <3>1. Woken(cpc, Sleeping(cpc), "wait_lock") \in [Client -> ClientPC]
      BY WokenType
    <3> QED BY <2>11, <3>1 DEF DtorJoin
  <2> QED BY <1>2, <2>1, <2>2, <2>3, <2>4, <2>5, <2>6, <2>7, <2>8, <2>9,
             <2>10, <2>11 DEF ClientCall, ClientStep
<1>3. CASE UNCHANGED poolVars BY <1>3
<1> QED BY <1>1, <1>2, <1>3 DEF PoolNext

\* The variables of the pool keep their types.
THEOREM TypeCorrect == PoolSpec => []PoolTypeOK
BY TypeInit, TypeStep, PTL DEF PoolSpec

-----------------------------------------------------------------------------
(* The accounting of task_count_ *)

LEMMA TakenFinite == IsFiniteSet(Taken) /\ Cardinality(Taken) \in Nat
<1>1. Taken \subseteq Worker BY DEF Taken
<1> QED BY <1>1, PoolAssumption, FS_Subset, FS_CardinalityType

\* A step that neither queues nor takes a task keeps the accounting.
LEMMA SameTaken ==
  ASSUME PoolTypeOK, CountIsOutstanding,
         Taken' = Taken, UNCHANGED <<tasks, task_count>>
  PROVE  CountIsOutstanding'
<1> DEFINE Held == Taken
<1>1. Held' = Held BY Zenon
<1> HIDE DEF Held
<1>2. Cardinality(Held)' = Cardinality(Held) BY <1>1
<1>3. Held = Taken BY DEF Held
<1> QED BY <1>1, <1>2, <1>3 DEF CountIsOutstanding

LEMMA CountInit == ASSUME PoolInit PROVE CountIsOutstanding
<1>1. Taken = {} BY DEF PoolInit, Taken
<1>2. Cardinality(Taken) = 0 BY <1>1, FS_EmptySet
<1> QED BY <1>2 DEF PoolInit, CountIsOutstanding

LEMMA CountStep ==
  ASSUME PoolTypeOK, CountIsOutstanding, [PoolNext]_poolVars
  PROVE  CountIsOutstanding'
<1>1. ASSUME NEW w \in Worker, WorkerStep(w) \/ WorkerSpurious(w)
      PROVE  CountIsOutstanding'
  <2>1. CASE WorkerLock(w) \/ WorkerMustWait(w) \/ WorkerSleep(w) \/ WorkerExit(w)
             \/ WorkerTest(w) \/ WorkerNotify(w) \/ WorkerSpurious(w)
             \/ WorkerRun(w)
    <3>1. Taken' = Taken
      BY <2>1 DEF PoolTypeOK, Taken, WorkerLock, WorkerMustWait, WorkerSleep,
                  WorkerExit, WorkerTest, WorkerNotify, WorkerSpurious, WorkerRun
    <3>2. UNCHANGED <<tasks, task_count>>
      BY <2>1 DEF WorkerLock, WorkerMustWait, WorkerSleep, WorkerExit,
                  WorkerTest, WorkerNotify, WorkerSpurious, WorkerRun
    <3> QED BY <3>1, <3>2, SameTaken
  <2>2. CASE WorkerPop(w)
    <3>1. w \notin Taken /\ Taken' = Taken \cup {w}
      BY <2>2 DEF PoolTypeOK, Taken, WorkerPop
    <3>2. Cardinality(Taken \cup {w}) = Cardinality(Taken) + 1
      BY <3>1, TakenFinite, FS_AddElement
    <3>3. Len(tasks') = Len(tasks) - 1 /\ Len(tasks) \in Nat
      BY <2>2 DEF PoolTypeOK, WorkerPop
    <3>4. task_count' = task_count BY <2>2 DEF WorkerPop
    <3>5. CountIsOutstanding' <=>
            task_count' = Len(tasks') + Cardinality(Taken')
      BY Zenon DEF CountIsOutstanding
    <3> QED BY <3>1, <3>2, <3>3, <3>4, <3>5, TakenFinite DEF CountIsOutstanding
  <2>3. CASE WorkerCount(w)
    <3>1. w \in Taken /\ Taken' = Taken \ {w}
      BY <2>3 DEF PoolTypeOK, Taken, WorkerCount
    <3>2. Cardinality(Taken \ {w}) = Cardinality(Taken) - 1
      BY <3>1, TakenFinite, FS_RemoveElement
    <3>3. tasks' = tasks /\ Len(tasks) \in Nat
      BY <2>3 DEF PoolTypeOK, WorkerCount
    <3>4. task_count' = task_count - 1 BY <2>3 DEF WorkerCount
    <3>5. CountIsOutstanding' <=>
            task_count' = Len(tasks') + Cardinality(Taken')
      BY Zenon DEF CountIsOutstanding
    <3> QED BY <3>1, <3>2, <3>3, <3>4, <3>5, TakenFinite DEF CountIsOutstanding
  <2> QED BY <1>1, <2>1, <2>2, <2>3 DEF WorkerStep
<1>2. ASSUME NEW c \in Client, ClientCall(c) \/ ClientStep(c) \/ WaitSpurious(c)
      PROVE  CountIsOutstanding'
  <2>0. Taken' = Taken
    <3>1. \A p \in Worker : (wpc'[p] \in {"run", "count"}) <=> (wpc[p] \in {"run", "count"})
      BY <1>2 DEF PoolTypeOK, ClientCall, ClientStep, AddTask, WaitAll, DtorSignal,
           NotifyOne, WaitLock, WaitReturn, WaitMustWait, WaitSleep, DtorNotify,
           DtorJoin, WaitSpurious, Woken, Sleeping
    <3> QED BY <3>1 DEF Taken
  <2>1. ASSUME NEW t \in Task, AddTask(c, t) PROVE CountIsOutstanding'
    <3>1. Len(tasks') = Len(tasks) + 1 /\ Len(tasks) \in Nat
      BY <2>1 DEF PoolTypeOK, AddTask
    <3>2. task_count' = task_count + 1 BY <2>1 DEF AddTask
    <3>3. CountIsOutstanding' <=>
            task_count' = Len(tasks') + Cardinality(Taken')
      BY Zenon DEF CountIsOutstanding
    <3> QED BY <2>0, <3>1, <3>2, <3>3, TakenFinite DEF CountIsOutstanding
  <2>2. CASE WaitAll(c) \/ DtorSignal(c) \/ ClientStep(c) \/ WaitSpurious(c)
    <3>1. UNCHANGED <<tasks, task_count>>
      BY <2>2 DEF WaitAll, DtorSignal, ClientStep, NotifyOne, WaitLock, WaitReturn,
           WaitMustWait, WaitSleep, DtorNotify, DtorJoin, WaitSpurious
    <3> QED BY <2>0, <3>1, SameTaken
  <2> QED BY <1>2, <2>1, <2>2 DEF ClientCall
<1>3. CASE UNCHANGED poolVars
  <2>1. Taken' = Taken BY <1>3 DEF Taken
  <2> QED BY <1>3, <2>1, SameTaken
<1> QED BY <1>1, <1>2, <1>3 DEF PoolNext

\* task_count_ counts the queued tasks and the tasks taken but not finished.
THEOREM CountCorrect == PoolSpec => []CountIsOutstanding
BY TypeInit, TypeStep, CountInit, CountStep, PTL DEF PoolSpec

-----------------------------------------------------------------------------
(* No wakeup is lost *)

\* A thread that evaluates a predicate, or has found it false and not yet
\* gone to sleep, holds the mutex.
MutexHeld ==
  /\ \A w \in Worker : wpc[w] \in {"check", "sleep"} => mutex = w
  /\ \A c \in Client : cpc[c] \in {"wait_check", "wait_sleep"} => mutex = c

\* A worker about to sleep, or gone, has found the queue empty; a worker
\* leaves only once the pool is terminating.
EmptyWhenLeft ==
  \A w \in Worker :
    /\ wpc[w] \in {"sleep", "exited"} => tasks = <<>>
    /\ wpc[w] = "exited" => terminate

WakeInv == MutexHeld /\ EmptyWhenLeft /\ WaiterHasNotifier /\ QueuedTaskHasWorker

LEMMA CountIsNat == ASSUME PoolTypeOK, CountIsOutstanding
                    PROVE  task_count \in Nat /\ (task_count = 0 => tasks = <<>>)
<1>1. Len(tasks) \in Nat /\ (Len(tasks) = 0 => tasks = <<>>) BY DEF PoolTypeOK
<1> QED BY <1>1, TakenFinite DEF CountIsOutstanding

LEMMA WakeInit == ASSUME PoolInit PROVE WakeInv
BY DEF PoolInit, WakeInv, MutexHeld, EmptyWhenLeft, WaiterHasNotifier,
       QueuedTaskHasWorker

LEMMA WakeStep ==
  ASSUME PoolTypeOK, CountIsOutstanding, CountIsOutstanding', PoolTypeOK', WakeInv,
         [PoolNext]_poolVars
  PROVE  WakeInv'
<1> USE PoolAssumption, CountIsNat
    DEF WakeInv, MutexHeld, EmptyWhenLeft, WaiterHasNotifier, QueuedTaskHasWorker
<1>1. ASSUME NEW w \in Worker, WorkerStep(w) \/ WorkerSpurious(w)
      PROVE  WakeInv'
  <2>1. CASE WorkerLock(w) BY <2>1 DEF PoolTypeOK, WorkerLock
  <2>2. CASE WorkerMustWait(w) BY <2>2 DEF PoolTypeOK, WorkerMustWait
  <2>3. CASE WorkerSleep(w) BY <2>3 DEF PoolTypeOK, WorkerSleep
  <2>4. CASE WorkerExit(w) BY <2>4 DEF PoolTypeOK, WorkerExit
  <2>5. CASE WorkerPop(w) BY <2>5 DEF PoolTypeOK, WorkerPop
  <2>6. CASE WorkerRun(w) BY <2>6 DEF PoolTypeOK, WorkerRun
  <2>7. CASE WorkerCount(w) BY <2>7 DEF PoolTypeOK, WorkerCount
  <2>8. CASE WorkerTest(w) BY <2>8 DEF PoolTypeOK, WorkerTest
  <2>9. CASE WorkerNotify(w) BY <2>9 DEF PoolTypeOK, WorkerNotify, Woken, Sleeping
  <2>10. CASE WorkerSpurious(w) BY <2>10 DEF PoolTypeOK, WorkerSpurious
  <2> QED BY <1>1, <2>1, <2>2, <2>3, <2>4, <2>5, <2>6, <2>7, <2>8, <2>9, <2>10
         DEF WorkerStep
<1>2. ASSUME NEW c \in Client, ClientCall(c) \/ ClientStep(c) \/ WaitSpurious(c)
      PROVE  WakeInv'
  <2>1. ASSUME NEW t \in Task, AddTask(c, t) PROVE WakeInv'
    BY <2>1 DEF PoolTypeOK, AddTask
  <2>2. CASE WaitAll(c) BY <2>2 DEF PoolTypeOK, WaitAll
  <2>3. CASE DtorSignal(c) BY <2>3 DEF PoolTypeOK, DtorSignal
  <2>4. CASE NotifyOne(c) BY <2>4 DEF PoolTypeOK, NotifyOne, Woken, Sleeping
  <2>5. CASE WaitLock(c) BY <2>5 DEF PoolTypeOK, WaitLock
  <2>6. CASE WaitReturn(c) BY <2>6 DEF PoolTypeOK, WaitReturn
  <2>7. CASE WaitMustWait(c) BY <2>7 DEF PoolTypeOK, WaitMustWait, WaitOver
  <2>8. CASE WaitSleep(c) BY <2>8 DEF PoolTypeOK, WaitSleep
  <2>9. CASE WaitSpurious(c) BY <2>9 DEF PoolTypeOK, WaitSpurious
  <2>10. CASE DtorNotify(c) BY <2>10 DEF PoolTypeOK, DtorNotify, Woken, Sleeping
  <2>11. CASE DtorJoin(c) BY <2>11 DEF PoolTypeOK, DtorJoin, Woken, Sleeping
  <2> QED BY <1>2, <2>1, <2>2, <2>3, <2>4, <2>5, <2>6, <2>7, <2>8, <2>9,
             <2>10, <2>11 DEF ClientCall, ClientStep
<1>3. CASE UNCHANGED poolVars BY <1>3
<1> QED BY <1>1, <1>2, <1>3 DEF PoolNext

\* Whoever sleeps in wait_all with nothing left to do is about to be notified.
THEOREM NoLostWaiter == PoolSpec => []WaiterHasNotifier
<1>1. WakeInv => WaiterHasNotifier BY DEF WakeInv
<1> QED BY <1>1, TypeInit, TypeStep, CountInit, CountStep, WakeInit, WakeStep,
           PTL DEF PoolSpec

\* A queued task has a worker that is awake, or a notification on its way.
THEOREM NoLostTask == PoolSpec => []QueuedTaskHasWorker
<1>1. WakeInv => QueuedTaskHasWorker BY DEF WakeInv
<1> QED BY <1>1, TypeInit, TypeStep, CountInit, CountStep, WakeInit, WakeStep,
           PTL DEF PoolSpec

-----------------------------------------------------------------------------
(* The pool implements the abstract executor *)

InWait(c) == cpc[c] \in {"wait_lock", "wait_check", "wait_sleep", "waiting"}
InDtor(c) == cpc[c] \in {"dtor_notify", "dtor_join", "destroyed"}

\* Each task that was added is in exactly one place: the queue, one worker,
\* or done.
TaskPlaces ==
  /\ done \subseteq added
  /\ Queued \subseteq added \ done
  /\ \A i, j \in 1..Len(tasks) : tasks[i] = tasks[j] => i = j
  /\ \A w \in Worker : wpc[w] = "run" => wtask[w] \in added \ (done \cup Queued)
  /\ \A w, v \in Worker :
       wpc[w] = "run" /\ wpc[v] = "run" /\ wtask[w] = wtask[v] => w = v
  /\ \A t \in added : t \in done \/ t \in Queued \/ Running(t)

\* The pool is terminating exactly while its owner is in the destructor, and
\* nobody else is then in a call.
OwnerEndsIt ==
  /\ \A c \in Client : InDtor(c) => c = Owner
  /\ terminate <=> InDtor(Owner)
  /\ terminate => \A c \in Client : c # Owner => cpc[c] = "idle"

OwedAdded == \A c \in Client : owed[c] \subseteq added

ExecInv == TaskPlaces /\ OwnerEndsIt /\ OwedAdded

LEMMA QueuedAppend ==
  ASSUME PoolTypeOK, NEW t \in Task, tasks' = Append(tasks, t)
  PROVE  /\ Queued' = Queued \cup {t}
         /\ Len(tasks') = Len(tasks) + 1
         /\ Len(tasks) \in Nat
         /\ tasks'[Len(tasks) + 1] = t
         /\ \A i \in 1..Len(tasks) : tasks'[i] = tasks[i] /\ tasks[i] \in Queued
<1>1. /\ Len(tasks) \in Nat
      /\ Len(tasks') = Len(tasks) + 1
      /\ tasks'[Len(tasks) + 1] = t
      /\ \A i \in 1..Len(tasks) : tasks'[i] = tasks[i]
  BY DEF PoolTypeOK
<1>2. 1..Len(tasks') = 1..Len(tasks) \cup {Len(tasks) + 1} BY <1>1
<1>3. Queued' = Queued \cup {t} BY <1>1, <1>2 DEF Queued
<1> QED BY <1>1, <1>3 DEF Queued

LEMMA QueuedTail ==
  ASSUME PoolTypeOK, TaskPlaces, tasks # <<>>, tasks' = Tail(tasks)
  PROVE  /\ Head(tasks) \in Queued
         /\ Queued' = Queued \ {Head(tasks)}
         /\ \A i, j \in 1..Len(tasks') : tasks'[i] = tasks'[j] => i = j
<1>1. /\ Len(tasks) \in Nat \ {0}
      /\ Len(tasks') = Len(tasks) - 1
      /\ Head(tasks) = tasks[1]
      /\ \A i \in 1..Len(tasks') : tasks'[i] = tasks[i + 1]
  BY DEF PoolTypeOK
<1>2. \A i \in 1..Len(tasks') : i + 1 \in 1..Len(tasks) BY <1>1
<1>3. \A i \in 1..Len(tasks) : i = 1 \/ (i - 1 \in 1..Len(tasks') /\ i = (i - 1) + 1)
  BY <1>1
<1>4. \A i, j \in 1..Len(tasks) : tasks[i] = tasks[j] => i = j BY DEF TaskPlaces
<1>5. Head(tasks) \in Queued BY <1>1 DEF Queued
<1>6. \A i, j \in 1..Len(tasks') : tasks'[i] = tasks'[j] => i = j
  BY <1>1, <1>2, <1>4
<1>7. ASSUME NEW x \in Queued' PROVE x \in Queued \ {Head(tasks)}
  <2>1. PICK i \in 1..Len(tasks') : x = tasks'[i] BY <1>7 DEF Queued
  <2>2. x = tasks[i + 1] /\ i + 1 \in 1..Len(tasks) /\ i + 1 # 1 BY <1>1, <1>2, <2>1
  <2>3. 1 \in 1..Len(tasks) BY <1>1
  <2> QED BY <1>1, <1>4, <2>2, <2>3 DEF Queued
<1>8. ASSUME NEW x \in Queued, x # Head(tasks) PROVE x \in Queued'
  <2>1. PICK i \in 1..Len(tasks) : x = tasks[i] BY <1>8 DEF Queued
  <2>2. i - 1 \in 1..Len(tasks') /\ i = (i - 1) + 1 BY <1>1, <1>3, <1>8, <2>1
  <2>3. x = tasks'[i - 1] BY <1>1, <2>1, <2>2
  <2> QED BY <2>2, <2>3 DEF Queued
<1> QED BY <1>5, <1>6, <1>7, <1>8

LEMMA ExecInit == ASSUME PoolInit PROVE ExecInv
<1>1. Queued = {} BY DEF PoolInit, Queued
<1> QED BY <1>1, PoolAssumption
       DEF PoolInit, ExecInv, TaskPlaces, OwnerEndsIt, OwedAdded, InDtor

LEMMA PlacesStep ==
  ASSUME PoolTypeOK, RunnerHasTask, TaskPlaces, [PoolNext]_poolVars
  PROVE  TaskPlaces'
<1> USE DEF PoolTypeOK
<1>1. ASSUME UNCHANGED <<tasks, wtask, done, added>>,
             \A w \in Worker : (wpc'[w] = "run") <=> (wpc[w] = "run")
      PROVE  TaskPlaces'
  <2>1. Queued' = Queued BY <1>1 DEF Queued
  <2> QED BY <1>1, <2>1 DEF TaskPlaces, Running
<1>2. ASSUME NEW w \in Worker, WorkerStep(w) \/ WorkerSpurious(w)
      PROVE  TaskPlaces'
  <2>1. CASE WorkerLock(w) \/ WorkerMustWait(w) \/ WorkerSleep(w) \/ WorkerExit(w)
             \/ WorkerCount(w) \/ WorkerNotify(w) \/ WorkerSpurious(w)
    BY <1>1, <2>1 DEF WorkerLock, WorkerMustWait, WorkerSleep, WorkerExit,
         WorkerCount, WorkerNotify, WorkerSpurious
  <2>2. CASE WorkerTest(w)
    <3>1. Queued' = Queued BY <2>2 DEF Queued, WorkerTest
    <3>2. \A v \in Worker : wpc'[v] = "run" <=> wpc[v] = "run"
      BY <2>2 DEF WorkerTest
    <3>3. \A v \in Worker : wpc[v] = "run" => wtask'[v] = wtask[v]
      BY <2>2 DEF WorkerTest
    <3> QED BY <2>2, <3>1, <3>2, <3>3 DEF TaskPlaces, Running, WorkerTest
  <2>3. CASE WorkerPop(w)
    <3>1. /\ Head(tasks) \in Queued
          /\ Queued' = Queued \ {Head(tasks)}
          /\ \A i, j \in 1..Len(tasks') : tasks'[i] = tasks'[j] => i = j
      BY <2>3, QueuedTail DEF WorkerPop
    <3>2. /\ wpc' = [wpc EXCEPT ![w] = "run"]
          /\ wtask' = [wtask EXCEPT ![w] = Head(tasks)]
          /\ wpc[w] = "check"
          /\ UNCHANGED <<done, added>>
      BY <2>3 DEF WorkerPop
    <3> QED BY <3>1, <3>2 DEF TaskPlaces, Running
  <2>4. CASE WorkerRun(w)
    <3>1. Queued' = Queued BY <2>4 DEF Queued, WorkerRun
    <3> QED BY <2>4, <3>1 DEF TaskPlaces, Running, WorkerRun
  <2> QED BY <1>2, <2>1, <2>2, <2>3, <2>4 DEF WorkerStep
<1>3. ASSUME NEW c \in Client, ClientCall(c) \/ ClientStep(c) \/ WaitSpurious(c)
      PROVE  TaskPlaces'
  <2>1. ASSUME NEW t \in Task, AddTask(c, t) PROVE TaskPlaces'
    <3>1. /\ Queued' = Queued \cup {t}
          /\ Len(tasks') = Len(tasks) + 1
          /\ Len(tasks) \in Nat
          /\ tasks'[Len(tasks) + 1] = t
          /\ \A i \in 1..Len(tasks) : tasks'[i] = tasks[i] /\ tasks[i] \in Queued
      BY <2>1, QueuedAppend DEF AddTask
    <3>2. /\ t \notin added
          /\ added' = added \cup {t}
          /\ UNCHANGED <<wpc, wtask, done>>
      BY <2>1 DEF AddTask
    <3>3. \A i, j \in 1..Len(tasks') : tasks'[i] = tasks'[j] => i = j
      BY <3>1, <3>2 DEF TaskPlaces
    <3> QED BY <3>1, <3>2, <3>3 DEF TaskPlaces, Running
  <2>2. CASE WaitAll(c) \/ DtorSignal(c) \/ ClientStep(c) \/ WaitSpurious(c)
    BY <1>1, <2>2 DEF WaitAll, DtorSignal, ClientStep, NotifyOne, WaitLock,
         WaitReturn, WaitMustWait, WaitSleep, DtorNotify, DtorJoin,
         WaitSpurious, Woken, Sleeping
  <2> QED BY <1>3, <2>1, <2>2 DEF ClientCall
<1>4. CASE UNCHANGED poolVars BY <1>1, <1>4
<1> QED BY <1>2, <1>3, <1>4 DEF PoolNext

LEMMA OwnerStep ==
  ASSUME PoolTypeOK, OwnerEndsIt, OwedAdded, [PoolNext]_poolVars
  PROVE  OwnerEndsIt' /\ OwedAdded'
<1> USE PoolAssumption DEF PoolTypeOK, OwnerEndsIt, OwedAdded, InDtor
<1>1. ASSUME NEW w \in Worker, WorkerStep(w) \/ WorkerSpurious(w)
      PROVE  OwnerEndsIt' /\ OwedAdded'
  <2>1. UNCHANGED <<terminate, added, owed>>
    BY <1>1 DEF WorkerStep, WorkerLock, WorkerMustWait, WorkerSleep, WorkerExit,
         WorkerPop, WorkerRun, WorkerCount, WorkerTest, WorkerNotify, WorkerSpurious
  <2>2. CASE WorkerNotify(w) BY <2>1, <2>2 DEF WorkerNotify, Woken, Sleeping
  <2>3. CASE UNCHANGED cpc BY <2>1, <2>3
  <2> QED BY <1>1, <2>2, <2>3 DEF WorkerStep, WorkerLock, WorkerMustWait,
         WorkerSleep, WorkerExit, WorkerPop, WorkerRun, WorkerCount, WorkerTest,
         WorkerSpurious
<1>2. ASSUME NEW c \in Client, ClientCall(c) \/ ClientStep(c) \/ WaitSpurious(c)
      PROVE  OwnerEndsIt' /\ OwedAdded'
  <2>1. ASSUME NEW t \in Task, AddTask(c, t) PROVE OwnerEndsIt' /\ OwedAdded'
    BY <2>1 DEF AddTask
  <2>2. CASE WaitAll(c) BY <2>2 DEF WaitAll
  <2>3. CASE DtorSignal(c) BY <2>3 DEF DtorSignal
  <2>4. CASE NotifyOne(c) BY <2>4 DEF NotifyOne
  <2>5. CASE WaitLock(c) BY <2>5 DEF WaitLock
  <2>6. CASE WaitReturn(c) BY <2>6 DEF WaitReturn
  <2>7. CASE WaitMustWait(c) BY <2>7 DEF WaitMustWait
  <2>8. CASE WaitSleep(c) BY <2>8 DEF WaitSleep
  <2>9. CASE WaitSpurious(c) BY <2>9 DEF WaitSpurious
  <2>10. CASE DtorNotify(c) BY <2>10 DEF DtorNotify
  <2>11. CASE DtorJoin(c) BY <2>11 DEF DtorJoin, Woken, Sleeping
  <2> QED BY <1>2, <2>1, <2>2, <2>3, <2>4, <2>5, <2>6, <2>7, <2>8, <2>9,
             <2>10, <2>11 DEF ClientCall, ClientStep
<1>3. CASE UNCHANGED poolVars BY <1>3
<1> QED BY <1>1, <1>2, <1>3 DEF PoolNext

\* What wait_all's caller relies on: with task_count_ at zero, all that was
\* added is done.
LEMMA ZeroMeansDone ==
  ASSUME PoolTypeOK, CountIsOutstanding, TaskPlaces, task_count = 0
  PROVE  added \subseteq done
<1>1. Len(tasks) = 0 /\ Cardinality(Taken) = 0
  <2>1. Len(tasks) \in Nat BY DEF PoolTypeOK
  <2> QED BY <2>1, TakenFinite DEF CountIsOutstanding
<1>2. Taken = {} BY <1>1, TakenFinite, FS_EmptySet
<1>3. Queued = {} BY <1>1 DEF Queued
<1>4. \A w \in Worker : wpc[w] # "run" BY <1>2 DEF Taken
<1> QED BY <1>3, <1>4 DEF TaskPlaces, Running

\* Once the workers are gone, nothing is left in the queue or running.
LEMMA ExitedMeansDone ==
  ASSUME Worker # {}, EmptyWhenLeft, TaskPlaces,
         \A w \in Worker : wpc[w] = "exited"
  PROVE  added \subseteq done
<1>1. tasks = <<>> BY DEF EmptyWhenLeft
<1>2. Queued = {} BY <1>1 DEF Queued
<1> QED BY <1>2 DEF TaskPlaces, Running

LEMMA RefineInit == ASSUME PoolInit PROVE Executor!Init
<1>1. \A t \in Task : statusOf(t) = "new" BY DEF PoolInit, statusOf
<1>2. {c \in Client : InWait(c)} = {} BY DEF PoolInit, InWait
<1>3. cpc[Owner] # "destroyed" BY PoolAssumption DEF PoolInit
<1> QED BY <1>1, <1>2, <1>3 DEF PoolInit, InWait, Executor!Init

LEMMA RefineStep ==
  ASSUME Worker # {}, PoolTypeOK, RunnerHasTask, CountIsOutstanding, WakeInv, ExecInv,
         PoolTypeOK', [PoolNext]_poolVars
  PROVE  [Executor!Next]_Executor!execVars
<1> USE PoolAssumption
<1> DEFINE st == [t \in Task |-> statusOf(t)]
           iw == {c \in Client : cpc[c] \in
                   {"wait_lock", "wait_check", "wait_sleep", "waiting"}}
           stop == cpc[Owner] = "destroyed"
<1>1. ASSUME Queued' = Queued, UNCHANGED <<done, added>>
      PROVE  st' = st
  BY <1>1 DEF statusOf
<1>2. ASSUME UNCHANGED <<tasks, done, added, owed>>, iw' = iw, stop' = stop
      PROVE  UNCHANGED Executor!execVars
  BY <1>1, <1>2 DEF Queued, Executor!execVars
<1>3. ASSUME NEW w \in Worker, WorkerStep(w) \/ WorkerSpurious(w)
      PROVE  [Executor!Next]_Executor!execVars
  <2>1. CASE WorkerLock(w) \/ WorkerMustWait(w) \/ WorkerSleep(w) \/ WorkerExit(w)
             \/ WorkerCount(w) \/ WorkerTest(w) \/ WorkerSpurious(w)
    BY <1>2, <2>1 DEF WorkerLock, WorkerMustWait, WorkerSleep, WorkerExit,
         WorkerCount, WorkerTest, WorkerSpurious
  <2>2. CASE WorkerNotify(w)
    BY <1>2, <2>2 DEF PoolTypeOK, WorkerNotify, Woken, Sleeping
  <2>3. CASE WorkerPop(w)
    <3>0. PICK t \in Task : t = Head(tasks)
      BY <2>3 DEF WorkerPop, PoolTypeOK
    <3>1. t \in Queued /\ Queued' = Queued \ {t} /\ t \in Task
      BY <2>3, <3>0, QueuedTail DEF ExecInv, WorkerPop
    <3>2. UNCHANGED <<done, added, owed, cpc>> BY <2>3 DEF WorkerPop
    <3>3. statusOf(t) = "pending" /\ statusOf(t)' = "running"
      BY <3>1, <3>2 DEF statusOf, ExecInv, TaskPlaces
    <3>4. \A x \in Task \ {t} : statusOf(x)' = statusOf(x)
      BY <3>1, <3>2 DEF statusOf
    <3>5. Executor!Start(t)
      BY <3>1, <3>2, <3>3, <3>4 DEF Executor!Start, Executor!Become
    <3> QED BY <3>1, <3>5 DEF Executor!Next
  <2>4. CASE WorkerRun(w)
    <3>0. PICK t \in Task : t = wtask[w]
      BY <2>4 DEF WorkerRun, RunnerHasTask
    <3>1. t \in Task /\ t \in added \ (done \cup Queued)
      BY <2>4, <3>0 DEF ExecInv, TaskPlaces, WorkerRun
    <3>2. done' = done \cup {t} /\ UNCHANGED <<added, owed, cpc>> /\ Queued' = Queued
      BY <2>4, <3>0 DEF WorkerRun, Queued
    <3>3. statusOf(t) = "running" /\ statusOf(t)' = "done"
      BY <3>1, <3>2 DEF statusOf
    <3>4. \A x \in Task \ {t} : statusOf(x)' = statusOf(x)
      BY <3>1, <3>2 DEF statusOf
    <3>5. Executor!Finish(t)
      BY <3>1, <3>2, <3>3, <3>4 DEF Executor!Finish, Executor!Become
    <3> QED BY <3>1, <3>5 DEF Executor!Next
  <2> QED BY <1>3, <2>1, <2>2, <2>3, <2>4 DEF WorkerStep
<1>4. ASSUME NEW c \in Client, ClientCall(c) \/ ClientStep(c) \/ WaitSpurious(c)
      PROVE  [Executor!Next]_Executor!execVars
  <2>1. ASSUME NEW t \in Task, AddTask(c, t)
        PROVE  [Executor!Next]_Executor!execVars
    <3>1. Queued' = Queued \cup {t} BY <2>1, QueuedAppend DEF AddTask
    <3>2. /\ t \notin added /\ added' = added \cup {t}
          /\ UNCHANGED <<done, owed>>
          /\ ~terminate
      BY <2>1 DEF AddTask
    <3>3. iw' = iw /\ stop' = stop /\ ~stop
      BY <2>1, <3>2 DEF AddTask, PoolTypeOK, ExecInv, OwnerEndsIt, InDtor
    <3>4. statusOf(t) = "new" /\ statusOf(t)' = "pending"
      BY <3>1, <3>2 DEF statusOf, ExecInv, TaskPlaces
    <3>5. \A x \in Task \ {t} : statusOf(x)' = statusOf(x)
      BY <3>1, <3>2 DEF statusOf
    <3>6. Executor!Submit(t)
      BY <3>2, <3>3, <3>4, <3>5 DEF Executor!Submit, Executor!Become
    <3> QED BY <3>6 DEF Executor!Next
  <2>2. CASE WaitAll(c)
    <3>1. Queued' = Queued /\ UNCHANGED <<done, added>>
      BY <2>2 DEF WaitAll, Queued
    <3>2. iw' = iw \cup {c} /\ c \notin iw /\ stop' = stop
      BY <2>2 DEF WaitAll, PoolTypeOK
    <3>3. added = {t \in Task : st[t] # "new"}
      BY DEF statusOf, ExecInv, TaskPlaces, PoolTypeOK
    <3>4. owed' = [owed EXCEPT ![c] = {t \in Task : st[t] # "new"}]
      BY <2>2, <3>3 DEF WaitAll
    <3>5. Executor!BeginWait(c)
      BY <1>1, <3>1, <3>2, <3>4 DEF Executor!BeginWait
    <3> QED BY <3>5 DEF Executor!Next
  <2>3. CASE WaitReturn(c)
    <3>1. Queued' = Queued /\ UNCHANGED <<done, added>>
      BY <2>3 DEF WaitReturn, Queued
    <3>2. iw' = iw \ {c} /\ c \in iw /\ stop' = stop
      BY <2>3 DEF WaitReturn, PoolTypeOK
    <3>3. ~terminate
      BY <2>3 DEF WaitReturn, ExecInv, OwnerEndsIt, InDtor
    <3>4. added \subseteq done
      BY <2>3, <3>3, ZeroMeansDone DEF WaitReturn, WaitOver, ExecInv
    <3>5. \A t \in owed[c] : t \in Task /\ st[t] = "done"
      BY <3>4 DEF statusOf, ExecInv, OwedAdded, PoolTypeOK
    <3>6. owed' = [owed EXCEPT ![c] = {}] BY <2>3 DEF WaitReturn
    <3>7. Executor!EndWait(c)
      BY <1>1, <3>1, <3>2, <3>5, <3>6 DEF Executor!EndWait
    <3> QED BY <3>7 DEF Executor!Next
  <2>4. CASE DtorJoin(c)
    <3>1. Queued' = Queued /\ UNCHANGED <<done, added, owed>>
      BY <2>4 DEF DtorJoin, Queued
    <3>2. c = Owner /\ \A d \in Client : d # Owner => cpc[d] = "idle"
      BY <2>4 DEF DtorJoin, ExecInv, OwnerEndsIt, InDtor
    <3>3. iw = {} BY <2>4, <3>2 DEF DtorJoin
    <3>4. iw' = {} /\ ~stop /\ stop'
      BY <2>4, <3>2 DEF DtorJoin, PoolTypeOK, Woken, Sleeping
    <3>5. added \subseteq done
      BY <2>4, ExitedMeansDone DEF DtorJoin, WakeInv, ExecInv
    <3>6. \A t \in Task : st[t] \in {"new", "done"} BY <3>5 DEF statusOf
    <3>7. Executor!Stop
      BY <1>1, <3>1, <3>3, <3>4, <3>6 DEF Executor!Stop
    <3> QED BY <3>7 DEF Executor!Next
  <2>5. CASE DtorSignal(c) BY <1>2, <2>5 DEF DtorSignal, PoolTypeOK
  <2>6. CASE NotifyOne(c) BY <1>2, <2>6 DEF NotifyOne, PoolTypeOK
  <2>7. CASE WaitLock(c) \/ WaitMustWait(c) \/ WaitSleep(c) \/ WaitSpurious(c)
    BY <1>2, <2>7 DEF WaitLock, WaitMustWait, WaitSleep, WaitSpurious, PoolTypeOK
  <2>8. CASE DtorNotify(c) BY <1>2, <2>8 DEF DtorNotify, PoolTypeOK
  <2> QED BY <1>4, <2>1, <2>2, <2>3, <2>4, <2>5, <2>6, <2>7, <2>8
         DEF ClientCall, ClientStep
<1>5. CASE UNCHANGED poolVars
  BY <1>2, <1>5
<1> QED BY <1>3, <1>4, <1>5 DEF PoolNext

\* A pool that has workers implements the abstract executor.
THEOREM PoolImplementsExecutor ==
  ASSUME Worker # {} PROVE PoolSpec => Executor!Spec
<1>1. PoolInit => PoolTypeOK /\ RunnerHasTask /\ CountIsOutstanding /\ WakeInv /\ ExecInv
  BY TypeInit, CountInit, WakeInit, ExecInit
<1> DEFINE Inv == PoolTypeOK /\ RunnerHasTask /\ CountIsOutstanding /\ WakeInv /\ ExecInv
<1>2. Inv /\ [PoolNext]_poolVars => Inv'
  BY TypeStep, CountStep, WakeStep, PlacesStep, OwnerStep DEF ExecInv
<1>3. PoolInit => Executor!Init BY RefineInit
<1>4. Inv /\ Inv' /\ [PoolNext]_poolVars => [Executor!Next]_Executor!execVars
  BY RefineStep
<1> QED BY <1>1, <1>2, <1>3, <1>4, PTL DEF PoolSpec, Executor!Spec

-----------------------------------------------------------------------------
(* Map updates                                                             *)

USE DEF mapVars, mainVars, updateVars

PoolInv == /\ PoolTypeOK /\ RunnerHasTask
           /\ CountIsOutstanding
           /\ TaskPlaces /\ OwnerEndsIt /\ OwedAdded

\* The range image of a call in progress, and its loops over the job list.
CallInv ==
  /\ scan \in 0..NumScans
  /\ upc # "idle" => scan \in Scan
  /\ job \subseteq Block
  /\ todo \subseteq job
  /\ upc = "allocate" => job \subseteq blocks \cup todo
  /\ upc = "submit" => job \subseteq blocks
  /\ upc \in {"idle", "wait"} => todo = {}

Outstanding(t) == t \in Queued \/ Running(t)

\* Outside of the two phases in which tasks are submitted and awaited, there
\* are none; and there, each belongs to this call.
TasksOfCall ==
  /\ upc \in {"idle", "allocate"} => \A t \in Task : ~Outstanding(t)
  /\ \A t \in Task : Outstanding(t) => t[1] = scan /\ t[2] \in blocks

UpdateInv == CallInv /\ TasksOfCall

-----------------------------------------------------------------------------
\* The steps of the pool inside a step of a map update.
LEMMA StepOfPool ==
  ASSUME CallInv, [MapNext]_updateVars PROVE [PoolNext]_poolVars
<1> USE PoolAssumption, UpdateAssumption
<1>1. CASE SelectBlocks BY <1>1 DEF SelectBlocks
<1>2. CASE UpdateStep
  <2>1. ASSUME NEW b \in Block, AllocateBlock(b) PROVE UNCHANGED poolVars
    BY <2>1 DEF AllocateBlock
  <2>2. ASSUME NEW b \in Block, SubmitTask(b) PROVE PoolNext
    <3>1. <<scan, b>> \in Task BY <2>2 DEF SubmitTask, CallInv
    <3> QED BY <2>2, <3>1 DEF SubmitTask, PoolNext, ClientCall
  <2>3. CASE AllAllocated BY <2>3 DEF AllAllocated
  <2>4. CASE AllSubmitted BY <2>4 DEF AllSubmitted, PoolNext, ClientCall
  <2>5. CASE UpdateReturns BY <2>5 DEF UpdateReturns, PoolNext, ClientStep
  <2>6. CASE PoolClientStep BY <2>6 DEF PoolClientStep, PoolNext, ClientStep
  <2> QED BY <1>2, <2>1, <2>2, <2>3, <2>4, <2>5, <2>6 DEF UpdateStep
<1>3. ASSUME NEW gone \in SUBSET blocks, EraseBlocks(gone) PROVE UNCHANGED poolVars
  BY <1>3 DEF EraseBlocks
<1>4. ASSUME NEW w \in Worker, PoolWorkerStep(w) \/ TaskStep(w) PROVE [PoolNext]_poolVars
  <2>1. CASE PoolWorkerStep(w) BY <2>1 DEF PoolWorkerStep, PoolNext, WorkerStep
  <2>2. CASE TaskLookup(w) \/ TaskUpdate(w) BY <2>2 DEF TaskLookup, TaskUpdate
  <2>3. CASE TaskEnd(w) BY <2>3 DEF TaskEnd, PoolNext, WorkerStep
  <2> QED BY <1>4, <2>1, <2>2, <2>3 DEF TaskStep
<1>5. CASE PoolSpurious BY <1>5 DEF PoolSpurious, PoolNext
<1>6. CASE DropPool BY <1>6 DEF DropPool, PoolNext, ClientCall
<1>7. CASE UNCHANGED updateVars BY <1>7
<1> QED BY <1>1, <1>2, <1>3, <1>4, <1>5, <1>6, <1>7 DEF MapNext

LEMMA PoolStep == ASSUME PoolInv, [PoolNext]_poolVars PROVE PoolInv'
BY TypeStep, CountStep, PlacesStep, OwnerStep DEF PoolInv

\* A worker's step makes no task outstanding; neither does a step of the
\* owner other than add_task.
LEMMA NoNewTask ==
  ASSUME PoolInv,
         \/ UNCHANGED poolVars
         \/ \E w \in Worker : WorkerStep(w) \/ WorkerSpurious(w)
         \/ ClientStep(Owner) \/ WaitSpurious(Owner) \/ WaitAll(Owner) \/ DtorSignal(Owner)
  PROVE  \A t \in Task : Outstanding(t)' => Outstanding(t)
<1>0. PoolTypeOK /\ TaskPlaces BY DEF PoolInv
<1>1. ASSUME UNCHANGED <<tasks, wtask>>,
             \A w \in Worker : wpc'[w] = "run" => wpc[w] = "run"
      PROVE  \A t \in Task : Outstanding(t)' => Outstanding(t)
  BY <1>1 DEF Outstanding, Queued, Running
<1>2. ASSUME NEW w \in Worker, WorkerStep(w) \/ WorkerSpurious(w)
      PROVE  \A t \in Task : Outstanding(t)' => Outstanding(t)
  <2>1. CASE WorkerPop(w)
    <3>1. Head(tasks) \in Queued /\ Queued' = Queued \ {Head(tasks)}
      BY <1>0, <2>1, QueuedTail DEF WorkerPop
    <3>2. /\ wpc' = [wpc EXCEPT ![w] = "run"]
          /\ wtask' = [wtask EXCEPT ![w] = Head(tasks)]
      BY <2>1 DEF WorkerPop
    <3> QED BY <1>0, <3>1, <3>2 DEF Outstanding, Running, PoolTypeOK
  <2>2. CASE WorkerTest(w)
    <3>1. Queued' = Queued BY <2>2 DEF WorkerTest, Queued
    <3> QED BY <1>0, <2>2, <3>1 DEF WorkerTest, Outstanding, Running, PoolTypeOK
  <2>3. CASE ~WorkerPop(w) /\ ~WorkerTest(w)
    BY <1>0, <1>1, <1>2, <2>3 DEF PoolTypeOK, WorkerStep, WorkerLock, WorkerMustWait, WorkerSleep,
         WorkerExit, WorkerRun, WorkerCount, WorkerNotify, WorkerSpurious
  <2> QED BY <2>1, <2>2, <2>3
<1>3. CASE ClientStep(Owner) \/ WaitSpurious(Owner) \/ WaitAll(Owner) \/ DtorSignal(Owner)
  BY <1>0, <1>1, <1>3 DEF PoolTypeOK, ClientStep, NotifyOne, WaitLock, WaitReturn, WaitMustWait,
       WaitSleep, DtorNotify, DtorJoin, WaitSpurious, WaitAll, DtorSignal,
       Woken, Sleeping
<1>4. CASE UNCHANGED poolVars BY <1>1, <1>4
<1> QED BY <1>2, <1>3, <1>4

\* When wait_all returns nothing is outstanding.
LEMMA ReturnMeansQuiet ==
  ASSUME PoolInv, WaitReturn(Owner)
  PROVE  \A t \in Task : ~Outstanding(t)
<1>1. ~terminate
  BY DEF WaitReturn, PoolInv, OwnerEndsIt, InDtor
<1>2. added \subseteq done
  BY <1>1, ZeroMeansDone DEF WaitReturn, WaitOver, PoolInv
<1> QED BY <1>2 DEF PoolInv, TaskPlaces, Outstanding, Running

LEMMA UpdateInit == ASSUME MapInit PROVE PoolInv /\ UpdateInv
<1>1. PoolInit BY DEF MapInit
<1>2. PoolInv BY <1>1, TypeInit, CountInit, ExecInit DEF PoolInv, ExecInv
<1>3. \A t \in Task : ~Outstanding(t)
  BY <1>1 DEF PoolInit, Outstanding, Queued, Running
<1>4. CallInv BY UpdateAssumption DEF MapInit, CallInv
<1> QED BY <1>2, <1>3, <1>4 DEF UpdateInv, TasksOfCall

LEMMA CallStep ==
  ASSUME CallInv, [MapNext]_updateVars PROVE CallInv'
<1> USE UpdateAssumption DEF CallInv, Scan
<1>1. CASE SelectBlocks BY <1>1 DEF SelectBlocks
<1>2. CASE UpdateStep
  <2>1. ASSUME NEW b \in Block, AllocateBlock(b) PROVE CallInv'
    BY <2>1 DEF AllocateBlock
  <2>2. ASSUME NEW b \in Block, SubmitTask(b) PROVE CallInv'
    BY <2>2 DEF SubmitTask
  <2>3. CASE AllAllocated BY <2>3 DEF AllAllocated
  <2>4. CASE AllSubmitted BY <2>4 DEF AllSubmitted
  <2>5. CASE UpdateReturns BY <2>5 DEF UpdateReturns
  <2>6. CASE PoolClientStep BY <2>6 DEF PoolClientStep
  <2> QED BY <1>2, <2>1, <2>2, <2>3, <2>4, <2>5, <2>6 DEF UpdateStep
<1>3. ASSUME NEW gone \in SUBSET blocks, EraseBlocks(gone) PROVE CallInv'
  BY <1>3 DEF EraseBlocks
<1>4. ASSUME NEW w \in Worker, PoolWorkerStep(w) \/ TaskStep(w) PROVE CallInv'
  BY <1>4 DEF PoolWorkerStep, TaskStep, TaskLookup, TaskUpdate, TaskEnd
<1>5. CASE PoolSpurious BY <1>5 DEF PoolSpurious
<1>6. CASE DropPool BY <1>6 DEF DropPool
<1>7. CASE UNCHANGED updateVars BY <1>7
<1> QED BY <1>1, <1>2, <1>3, <1>4, <1>5, <1>6, <1>7 DEF MapNext

LEMMA TasksStep ==
  ASSUME PoolInv, CallInv, TasksOfCall, [MapNext]_updateVars
  PROVE  TasksOfCall'
<1> USE PoolAssumption, UpdateAssumption
<1>1. ASSUME \A t \in Task : Outstanding(t)' => Outstanding(t),
             upc' \in {"idle", "allocate"} => upc \in {"idle", "allocate"},
             UNCHANGED scan, blocks \subseteq blocks'
      PROVE  TasksOfCall'
  BY <1>1 DEF TasksOfCall
<1>2. CASE SelectBlocks
  <2>1. \A t \in Task : ~Outstanding(t)' BY <1>2, NoNewTask DEF SelectBlocks, TasksOfCall
  <2> QED BY <2>1 DEF TasksOfCall
<1>3. CASE UpdateStep
  <2>1. ASSUME NEW b \in Block, AllocateBlock(b) PROVE TasksOfCall'
    <3>1. \A t \in Task : Outstanding(t)' => Outstanding(t)
      BY <2>1, NoNewTask DEF AllocateBlock
    <3> QED BY <1>1, <2>1, <3>1 DEF AllocateBlock
  <2>2. ASSUME NEW b \in Block, SubmitTask(b) PROVE TasksOfCall'
    <3>1. <<scan, b>> \in Task BY <2>2 DEF SubmitTask, CallInv
    <3>2. Queued' = Queued \cup {<<scan, b>>}
      BY <2>2, <3>1, QueuedAppend DEF SubmitTask, AddTask, PoolInv
    <3>3. \A t \in Task : Outstanding(t)' => Outstanding(t) \/ t = <<scan, b>>
      BY <2>2, <3>2 DEF SubmitTask, AddTask, Outstanding, Running
    <3>4. b \in blocks BY <2>2 DEF SubmitTask, CallInv
    <3> QED BY <2>2, <3>3, <3>4 DEF SubmitTask, TasksOfCall
  <2>3. CASE AllAllocated
    <3>1. \A t \in Task : Outstanding(t)' => Outstanding(t)
      BY <2>3, NoNewTask DEF AllAllocated
    <3> QED BY <1>1, <2>3, <3>1 DEF AllAllocated
  <2>4. CASE AllSubmitted
    <3>1. \A t \in Task : Outstanding(t)' => Outstanding(t)
      BY <2>4, NoNewTask DEF AllSubmitted
    <3> QED BY <1>1, <2>4, <3>1 DEF AllSubmitted
  <2>5. CASE UpdateReturns
    <3>1. \A t \in Task : Outstanding(t)' => Outstanding(t)
      BY <2>5, NoNewTask DEF UpdateReturns, ClientStep
    <3>2. \A t \in Task : ~Outstanding(t)'
      BY <2>5, <3>1, ReturnMeansQuiet DEF UpdateReturns
    <3> QED BY <3>2 DEF TasksOfCall
  <2>6. CASE PoolClientStep
    <3>1. \A t \in Task : Outstanding(t)' => Outstanding(t)
      BY <2>6, NoNewTask DEF PoolClientStep, ClientStep
    <3> QED BY <1>1, <2>6, <3>1 DEF PoolClientStep
  <2> QED BY <1>3, <2>1, <2>2, <2>3, <2>4, <2>5, <2>6 DEF UpdateStep
<1>4. ASSUME NEW gone \in SUBSET blocks, EraseBlocks(gone) PROVE TasksOfCall'
  <2>1. \A t \in Task : ~Outstanding(t)'
    BY <1>4, NoNewTask DEF EraseBlocks, TasksOfCall
  <2> QED BY <2>1 DEF TasksOfCall
<1>5. ASSUME NEW w \in Worker, PoolWorkerStep(w) \/ TaskStep(w) PROVE TasksOfCall'
  <2>1. UNCHANGED poolVars \/ WorkerStep(w)
    BY <1>5 DEF PoolWorkerStep, TaskStep, TaskLookup, TaskUpdate, TaskEnd, WorkerStep
  <2>2. \A t \in Task : Outstanding(t)' => Outstanding(t) BY <2>1, NoNewTask
  <2> QED BY <1>1, <1>5, <2>2
         DEF PoolWorkerStep, TaskStep, TaskLookup, TaskUpdate, TaskEnd
<1>6. CASE PoolSpurious
  <2>1. \A t \in Task : Outstanding(t)' => Outstanding(t)
    BY <1>6, NoNewTask DEF PoolSpurious
  <2> QED BY <1>1, <1>6, <2>1 DEF PoolSpurious
<1>7. CASE DropPool
  <2>1. \A t \in Task : Outstanding(t)' => Outstanding(t)
    BY <1>7, NoNewTask DEF DropPool
  <2> QED BY <1>1, <1>7, <2>1 DEF DropPool
<1>8. CASE UNCHANGED updateVars
  <2>1. \A t \in Task : Outstanding(t)' => Outstanding(t) BY <1>8, NoNewTask
  <2> QED BY <1>1, <1>8, <2>1
<1> QED BY <1>2, <1>3, <1>4, <1>5, <1>6, <1>7, <1>8 DEF MapNext

-----------------------------------------------------------------------------
LEMMA InvImpliesRaceFree ==
  ASSUME PoolInv, UpdateInv PROVE RaceFree /\ TaskIsCurrent
<1> USE UpdateAssumption DEF UpdateInv, TasksOfCall
<1>1. ASSUME NEW w \in Worker, InTask(w)
      PROVE  wtask[w] \in Task /\ Outstanding(wtask[w])
  BY <1>1 DEF PoolInv, RunnerHasTask, InTask, Outstanding, Running
<1>2. \A t \in Queued : t \in Task /\ Outstanding(t)
  BY DEF Outstanding, PoolInv, TaskPlaces, PoolTypeOK
<1>3. ASSUME NEW w \in Worker, NEW v \in Worker, w # v, InTask(w), InTask(v)
      PROVE  blockOf(w) # blockOf(v)
  <2>1. wtask[w] # wtask[v] BY <1>3 DEF PoolInv, TaskPlaces, InTask
  <2>2. /\ wtask[w] \in Scan \X Block /\ wtask[v] \in Scan \X Block
        /\ wtask[w][1] = wtask[v][1]
    BY <1>1, <1>3
  <2> QED BY <2>1, <2>2 DEF blockOf
<1> QED BY <1>1, <1>2, <1>3 DEF RaceFree, TaskIsCurrent

\* No two threads ever access the block hash, a block or the range image
\* at once.
THEOREM UpdatesAreRaceFree == MapSpec => []RaceFree
<1>1. (PoolInv /\ UpdateInv) /\ [MapNext]_updateVars => (PoolInv /\ UpdateInv)'
  BY StepOfPool, PoolStep, CallStep, TasksStep DEF UpdateInv
<1> QED BY <1>1, UpdateInit, InvImpliesRaceFree, PTL DEF MapSpec

\* No task outlives its range image or its block.
THEOREM TasksAreCurrent == MapSpec => []TaskIsCurrent
<1>1. (PoolInv /\ UpdateInv) /\ [MapNext]_updateVars => (PoolInv /\ UpdateInv)'
  BY StepOfPool, PoolStep, CallStep, TasksStep DEF UpdateInv
<1> QED BY <1>1, UpdateInit, InvImpliesRaceFree, PTL DEF MapSpec

-----------------------------------------------------------------------------
(* What an update leaves behind                                            *)

\* The tasks that belong to blocks of the job, and the phase of each worker.
JobInv ==
  /\ upc \in {"idle", "allocate", "submit", "wait"}
  /\ phase \in [Worker -> {"lookup", "update", "end"}]
  /\ \A w \in Worker : ~InTask(w) => phase[w] = "lookup"
  /\ \A t \in Task : Outstanding(t) => t[2] \in job \ todo

\* A task whose block has not yet got the range image.
Waiting(t) == t \in Queued \/ \E w \in Worker : InTask(w) /\ wtask[w] = t /\ phase[w] # "end"

\* The blocks that have got it, while a call is in progress.
ReachedBlock(b) == upc # "allocate" /\ b \in job \ todo /\ ~Waiting(<<scan, b>>)

\* Each block holds what it held when the call began, and the range image of
\* the call once it was reached.
LogInv ==
  /\ log \in [Block -> Seq(Scan)]
  /\ upc # "idle" => \A b \in Block :
       log[b] = IF ReachedBlock(b) THEN Append(before[b], scan) ELSE before[b]

LEMMA JobStep ==
  ASSUME PoolInv, UpdateInv, UpdateInv', JobInv, [MapNext]_updateVars
  PROVE  JobInv'
<1> USE PoolAssumption, UpdateAssumption
<1>0. wpc \in [Worker -> WorkerPC] BY DEF PoolInv, PoolTypeOK
<1>1. ASSUME \A t \in Task : Outstanding(t)' => Outstanding(t),
             upc' \in {"idle", "allocate", "submit", "wait"},
             UNCHANGED <<job, phase>>, todo' \subseteq todo,
             \A w \in Worker : wpc'[w] = "run" <=> wpc[w] = "run"
      PROVE  JobInv'
  BY <1>1 DEF JobInv, InTask
<1>2. ASSUME UNCHANGED <<phase, wpc>>, upc' \in {"idle", "allocate", "submit", "wait"},
             \A t \in Task : ~Outstanding(t)'
      PROVE  JobInv'
  BY <1>2 DEF JobInv, InTask
<1>3. CASE SelectBlocks
  <2>1. \A t \in Task : ~Outstanding(t)' BY <1>3 DEF SelectBlocks, UpdateInv, TasksOfCall
  <2> QED BY <1>2, <1>3, <2>1 DEF SelectBlocks
<1>4. CASE UpdateStep
  <2>1. ASSUME NEW b \in Block, AllocateBlock(b) PROVE JobInv'
    <3>1. \A t \in Task : Outstanding(t)' => Outstanding(t) BY <2>1, NoNewTask DEF AllocateBlock
    <3> QED BY <1>1, <2>1, <3>1 DEF AllocateBlock, JobInv
  <2>2. ASSUME NEW b \in Block, SubmitTask(b) PROVE JobInv'
    <3>1. <<scan, b>> \in Task BY <2>2 DEF SubmitTask, UpdateInv, CallInv
    <3>2. Queued' = Queued \cup {<<scan, b>>}
      BY <2>2, <3>1, QueuedAppend DEF SubmitTask, AddTask, PoolInv
    <3>3. \A t \in Task : Outstanding(t)' => Outstanding(t) \/ t = <<scan, b>>
      BY <2>2, <3>2 DEF SubmitTask, AddTask, Outstanding, Running
    <3>4. b \in job \ todo' /\ todo' \subseteq todo /\ UNCHANGED <<job, phase, wpc, upc>>
      BY <2>2 DEF SubmitTask, AddTask, UpdateInv, CallInv
    <3> QED BY <3>3, <3>4 DEF JobInv, InTask
  <2>3. CASE AllAllocated
    <3>1. \A t \in Task : ~Outstanding(t)
      BY <2>3 DEF AllAllocated, UpdateInv, TasksOfCall
    <3>2. \A t \in Task : ~Outstanding(t)' BY <2>3, <3>1, NoNewTask DEF AllAllocated
    <3> QED BY <1>2, <2>3, <3>2 DEF AllAllocated
  <2>4. CASE AllSubmitted
    <3>1. \A t \in Task : Outstanding(t)' => Outstanding(t) BY <2>4, NoNewTask DEF AllSubmitted
    <3> QED BY <1>1, <2>4, <3>1 DEF AllSubmitted, WaitAll
  <2>5. CASE UpdateReturns
    <3>1. \A t \in Task : ~Outstanding(t)' BY <2>5 DEF UpdateReturns, UpdateInv, TasksOfCall
    <3> QED BY <1>2, <2>5, <3>1 DEF UpdateReturns, WaitReturn
  <2>6. CASE PoolClientStep
    <3>1. \A t \in Task : Outstanding(t)' => Outstanding(t)
      BY <2>6, NoNewTask DEF PoolClientStep, ClientStep
    <3>2. \A w \in Worker : wpc'[w] = "run" <=> wpc[w] = "run"
      BY <1>0, <2>6 DEF PoolClientStep, NotifyOne, WaitLock, WaitMustWait, WaitSleep, DtorNotify, DtorJoin,
         Woken, Sleeping
    <3> QED BY <1>1, <2>6, <3>1, <3>2 DEF PoolClientStep, JobInv
  <2> QED BY <1>4, <2>1, <2>2, <2>3, <2>4, <2>5, <2>6 DEF UpdateStep
<1>5. ASSUME NEW gone \in SUBSET blocks, EraseBlocks(gone) PROVE JobInv'
  <2>1. \A t \in Task : Outstanding(t)' => Outstanding(t) BY <1>5, NoNewTask DEF EraseBlocks
  <2> QED BY <1>1, <1>5, <2>1 DEF EraseBlocks
<1>6. ASSUME NEW w \in Worker, PoolWorkerStep(w) PROVE JobInv'
  <2>1. \A t \in Task : Outstanding(t)' => Outstanding(t)
    BY <1>6, NoNewTask DEF PoolWorkerStep, WorkerStep
  <2>2. \A v \in Worker : wpc[v] = "run" => wpc'[v] = "run"
    BY <1>0, <1>6 DEF PoolWorkerStep, WorkerLock, WorkerMustWait, WorkerSleep, WorkerExit, WorkerPop,
       WorkerCount, WorkerTest, WorkerNotify
  <2> QED BY <1>6, <2>1, <2>2 DEF PoolWorkerStep, JobInv, InTask
<1>7. ASSUME NEW w \in Worker, TaskStep(w) PROVE JobInv'
  <2>1. \A t \in Task : Outstanding(t)' => Outstanding(t)
    BY <1>7, NoNewTask DEF TaskStep, TaskLookup, TaskUpdate, TaskEnd, WorkerStep
  <2>2. CASE TaskLookup(w) \/ TaskUpdate(w)
    BY <2>1, <2>2 DEF TaskLookup, TaskUpdate, JobInv, InTask
  <2>3. CASE TaskEnd(w)
    BY <1>0, <2>1, <2>3 DEF TaskEnd, WorkerRun, JobInv, InTask
  <2> QED BY <1>7, <2>2, <2>3 DEF TaskStep
<1>8. CASE PoolSpurious \/ DropPool
  <2>1. \A t \in Task : Outstanding(t)' => Outstanding(t)
    BY <1>8, NoNewTask DEF PoolSpurious, DropPool
  <2>2. \A w \in Worker : wpc'[w] = "run" <=> wpc[w] = "run"
    BY <1>0, <1>8 DEF PoolSpurious, DropPool, WaitSpurious, WorkerSpurious, DtorSignal
  <2> QED BY <1>1, <1>8, <2>1, <2>2 DEF PoolSpurious, DropPool, JobInv
<1>9. CASE UNCHANGED updateVars
  <2>1. \A t \in Task : Outstanding(t)' => Outstanding(t) BY <1>9, NoNewTask
  <2> QED BY <1>1, <1>9, <2>1 DEF JobInv
<1> QED BY <1>3, <1>4, <1>5, <1>6, <1>7, <1>8, <1>9 DEF MapNext

\* A step of the pool neither reaches a block nor loses the task that would.
LEMMA SameWaiting ==
  ASSUME PoolInv, JobInv, UNCHANGED phase,
         \/ \E w \in Worker : PoolWorkerStep(w)
         \/ PoolClientStep \/ PoolSpurious \/ AllSubmitted \/ UNCHANGED poolVars
  PROVE  \A t \in Task : Waiting(t)' <=> Waiting(t)
<1>0. PoolTypeOK /\ TaskPlaces /\ wpc \in [Worker -> WorkerPC] /\ wtask \in [Worker -> Task \cup {NoTask}]
  BY DEF PoolInv, PoolTypeOK
<1>1. ASSUME UNCHANGED tasks, \A w \in Worker : wpc'[w] = "run" <=> wpc[w] = "run",
             \A w \in Worker : wpc[w] = "run" => wtask'[w] = wtask[w]
      PROVE  \A t \in Task : Waiting(t)' <=> Waiting(t)
  BY <1>1 DEF Waiting, Queued, InTask
<1>2. ASSUME NEW w \in Worker, WorkerPop(w)
      PROVE  \A t \in Task : Waiting(t)' <=> Waiting(t)
  <2>1. Head(tasks) \in Queued /\ Queued' = Queued \ {Head(tasks)}
    BY <1>0, <1>2, QueuedTail DEF WorkerPop
  <2>2. /\ wpc' = [wpc EXCEPT ![w] = "run"] /\ wtask' = [wtask EXCEPT ![w] = Head(tasks)]
        /\ wpc[w] = "check"
    BY <1>2 DEF WorkerPop
  <2>3. phase'[w] # "end" BY <2>2 DEF JobInv, InTask
  <2>4. /\ InTask(w)' /\ wtask'[w] = Head(tasks) /\ ~InTask(w)
        /\ \A v \in Worker : v # w => (InTask(v)' <=> InTask(v)) /\ wtask'[v] = wtask[v]
    BY <1>0, <2>2 DEF InTask
  <2> QED BY <2>1, <2>3, <2>4 DEF Waiting
<1>3. ASSUME NEW w \in Worker, PoolWorkerStep(w), ~WorkerPop(w)
      PROVE  \A t \in Task : Waiting(t)' <=> Waiting(t)
  <2>1. /\ UNCHANGED tasks /\ \A v \in Worker : wpc'[v] = "run" <=> wpc[v] = "run"
        /\ \A v \in Worker : wpc[v] = "run" => wtask'[v] = wtask[v]
    BY <1>0, <1>3 DEF PoolWorkerStep, WorkerLock, WorkerMustWait, WorkerSleep, WorkerExit,
       WorkerCount, WorkerTest, WorkerNotify
  <2> QED BY <1>1, <2>1
<1>4. CASE PoolClientStep \/ PoolSpurious \/ AllSubmitted \/ UNCHANGED poolVars
  <2>1. /\ UNCHANGED <<tasks, wtask>> /\ \A v \in Worker : wpc'[v] = "run" <=> wpc[v] = "run"
    BY <1>0, <1>4 DEF PoolClientStep, PoolSpurious, AllSubmitted, NotifyOne, WaitLock, WaitMustWait,
       WaitSleep, DtorNotify, DtorJoin, WaitSpurious, WorkerSpurious, WaitAll, Woken, Sleeping
  <2> QED BY <1>1, <2>1
<1> QED BY <1>2, <1>3, <1>4

LEMMA LogStep ==
  ASSUME PoolInv, UpdateInv, JobInv, LogInv, [MapNext]_updateVars
  PROVE  LogInv'
<1> USE PoolAssumption, UpdateAssumption
<1>0. /\ wpc \in [Worker -> WorkerPC] /\ phase \in [Worker -> {"lookup", "update", "end"}]
      /\ log \in [Block -> Seq(Scan)] /\ job \subseteq Block
      /\ upc # "idle" => scan \in Scan /\ \A b \in Block : <<scan, b>> \in Task
  BY DEF PoolInv, PoolTypeOK, JobInv, LogInv, UpdateInv, CallInv
<1>1. ASSUME UNCHANGED <<log, before, scan, job, todo>>, upc' = upc \/ (upc = "submit" /\ upc' = "wait"),
             upc # "idle" => \A b \in Block : Waiting(<<scan, b>>)' <=> Waiting(<<scan, b>>)
      PROVE  LogInv'
  BY <1>1 DEF LogInv, ReachedBlock
<1>2. CASE SelectBlocks
  BY <1>0, <1>2 DEF SelectBlocks, LogInv, ReachedBlock
<1>3. CASE UpdateStep
  <2>1. ASSUME NEW b \in Block, AllocateBlock(b) PROVE LogInv'
    BY <2>1 DEF AllocateBlock, LogInv, ReachedBlock
  <2>2. ASSUME NEW b \in Block, SubmitTask(b) PROVE LogInv'
    <3>1. <<scan, b>> \in Task BY <2>2, <1>0 DEF SubmitTask
    <3>2. Queued' = Queued \cup {<<scan, b>>}
      BY <2>2, <3>1, QueuedAppend DEF SubmitTask, AddTask, PoolInv
    <3>3. /\ upc = "submit" /\ b \in todo /\ todo' = todo \ {b}
          /\ UNCHANGED <<upc, log, before, scan, job, phase, wpc, wtask>>
      BY <2>2 DEF SubmitTask, AddTask
    <3>4. Waiting(<<scan, b>>)' BY <3>2, <3>3 DEF Waiting
    <3>5. ASSUME NEW c \in Block, c # b PROVE Waiting(<<scan, c>>)' <=> Waiting(<<scan, c>>)
      <4>1. <<scan, c>> # <<scan, b>> BY <3>5
      <4> QED BY <3>2, <3>3, <4>1 DEF Waiting, InTask
    <3>6. ASSUME NEW c \in Block PROVE ReachedBlock(c)' <=> ReachedBlock(c)
      <4>1. CASE c = b BY <3>3, <3>4, <4>1 DEF ReachedBlock
      <4>2. CASE c # b BY <3>3, <3>5, <4>2 DEF ReachedBlock
      <4> QED BY <4>1, <4>2
    <3> QED BY <3>3, <3>6 DEF LogInv
  <2>3. CASE AllAllocated
    BY <2>3 DEF AllAllocated, LogInv, ReachedBlock
  <2>4. CASE AllSubmitted \/ PoolClientStep
    <3>1. /\ UNCHANGED <<log, before, scan, job, todo, phase>>
          /\ upc' = upc \/ (upc = "submit" /\ upc' = "wait")
      BY <2>4 DEF AllSubmitted, PoolClientStep
    <3>2. \A t \in Task : Waiting(t)' <=> Waiting(t) BY <2>4, <3>1, SameWaiting
    <3>3. upc # "idle" => \A b \in Block : Waiting(<<scan, b>>)' <=> Waiting(<<scan, b>>)
      <4> SUFFICES ASSUME upc # "idle", NEW b \in Block
                   PROVE  Waiting(<<scan, b>>)' <=> Waiting(<<scan, b>>)
        OBVIOUS
      <4>1. PICK t \in Task : t = <<scan, b>> BY <1>0
      <4>2. t' = <<scan, b>>' BY <3>1, <4>1
      <4> QED BY <3>1, <3>2, <4>1, <4>2 DEF Waiting
    <3> QED BY <1>1, <3>1, <3>3
  <2>5. CASE UpdateReturns BY <2>5 DEF UpdateReturns, LogInv
  <2> QED BY <1>3, <2>1, <2>2, <2>3, <2>4, <2>5 DEF UpdateStep
<1>4. ASSUME NEW gone \in SUBSET blocks, EraseBlocks(gone) PROVE LogInv'
  <2>1. <<>> \in Seq(Scan) OBVIOUS
  <2> QED BY <1>0, <1>4, <2>1 DEF EraseBlocks, LogInv
<1>5. CASE (\E w \in Worker : PoolWorkerStep(w)) \/ PoolSpurious \/ DropPool \/ UNCHANGED updateVars
  <2>1. UNCHANGED <<log, before, scan, job, todo, phase, upc>>
    BY <1>5 DEF PoolWorkerStep, PoolSpurious, DropPool
  <2>2. CASE DropPool BY <2>1, <2>2 DEF DropPool, LogInv
  <2>3. CASE ~DropPool
    <3>1. \A t \in Task : Waiting(t)' <=> Waiting(t) BY <1>5, <2>1, <2>3, SameWaiting
    <3>2. upc # "idle" => \A b \in Block : Waiting(<<scan, b>>)' <=> Waiting(<<scan, b>>)
      <4> SUFFICES ASSUME upc # "idle", NEW b \in Block
                   PROVE  Waiting(<<scan, b>>)' <=> Waiting(<<scan, b>>)
        OBVIOUS
      <4>1. PICK t \in Task : t = <<scan, b>> BY <1>0
      <4> QED BY <2>1, <3>1, <4>1 DEF Waiting
    <3> QED BY <1>1, <2>1, <3>2
  <2> QED BY <2>2, <2>3
<1>6. ASSUME NEW w \in Worker, TaskStep(w) PROVE LogInv'
  <2>1. /\ InTask(w) /\ UNCHANGED <<upc, scan, job, todo, before, tasks, wtask>>
        /\ UNCHANGED blocks
    BY <1>6 DEF TaskStep, TaskLookup, TaskUpdate, TaskEnd, WorkerRun, InTask
  <2>2. /\ wtask[w] \in Task /\ Outstanding(wtask[w])
    BY <2>1 DEF PoolInv, RunnerHasTask, InTask, Outstanding, Running
  <2>3. PICK b \in Block : wtask[w] = <<scan, b>> /\ b \in blocks /\ b \in job \ todo /\ blockOf(w) = b
    <3>1. wtask[w] \in Scan \X Block /\ wtask[w][1] = scan /\ wtask[w][2] \in blocks
          /\ wtask[w][2] \in job \ todo
      BY <2>2 DEF UpdateInv, TasksOfCall, JobInv
    <3> QED BY <3>1 DEF blockOf
  <2>4. upc \in {"submit", "wait"} BY <2>2 DEF UpdateInv, TasksOfCall, JobInv
  <2>5. CASE TaskLookup(w) \/ TaskEnd(w)
    <3>1. UNCHANGED <<log, Queued>> BY <2>1, <2>5 DEF TaskLookup, TaskEnd, Queued
    <3>2. ASSUME NEW v \in Worker PROVE InTask(v)' /\ phase'[v] # "end" <=> InTask(v) /\ phase[v] # "end"
      <4>1. CASE TaskLookup(w)
        BY <1>0, <2>3, <4>1 DEF TaskLookup, InTask
      <4>2. CASE TaskEnd(w)
        BY <1>0, <4>2 DEF TaskEnd, WorkerRun, InTask
      <4> QED BY <2>5, <4>1, <4>2
    <3>3. \A c \in Block : Waiting(<<scan, c>>)' <=> Waiting(<<scan, c>>)
      BY <2>1, <3>1, <3>2 DEF Waiting
    <3> QED BY <1>1, <2>1, <3>1, <3>3
  <2>6. CASE TaskUpdate(w)
    <3>1. /\ log' = [log EXCEPT ![b] = Append(@, scan)] /\ phase' = [phase EXCEPT ![w] = "end"]
          /\ phase[w] = "update" /\ UNCHANGED <<wpc, Queued>>
      BY <2>3, <2>6 DEF TaskUpdate, Queued
    <3>2. Waiting(<<scan, b>>) BY <2>1, <2>3, <3>1 DEF Waiting
    <3>3. ~Waiting(<<scan, b>>)'
      <4>1. wtask[w] \notin Queued /\ \A v \in Worker : InTask(v) /\ wtask[v] = wtask[w] => v = w
        BY <2>1 DEF PoolInv, TaskPlaces, InTask
      <4>2. phase'[w] = "end" BY <1>0, <3>1
      <4> QED BY <2>1, <2>3, <3>1, <4>1, <4>2 DEF Waiting, InTask
    <3>4. ASSUME NEW c \in Block, c # b PROVE Waiting(<<scan, c>>)' <=> Waiting(<<scan, c>>)
      <4>1. <<scan, c>> # wtask[w] BY <2>3, <3>4
      <4>2. \A v \in Worker : v # w => phase'[v] = phase[v] BY <1>0, <3>1
      <4> QED BY <2>1, <3>1, <4>1, <4>2 DEF Waiting, InTask
    <3>5. ReachedBlock(b)' /\ ~ReachedBlock(b) BY <2>1, <2>3, <2>4, <3>2, <3>3 DEF ReachedBlock
    <3>6. \A c \in Block : c # b => (ReachedBlock(c)' <=> ReachedBlock(c)) /\ log'[c] = log[c]
      BY <1>0, <2>1, <3>1, <3>4 DEF ReachedBlock
    <3>7. log'[b] = Append(log[b], scan) /\ log[b] = before[b]
      BY <1>0, <2>4, <3>1, <3>5 DEF LogInv
    <3>8. log' \in [Block -> Seq(Scan)]
      <4>1. Append(log[b], scan) \in Seq(Scan) BY <1>0, <2>4
      <4> QED BY <1>0, <3>1, <4>1
    <3> QED BY <2>1, <3>5, <3>6, <3>7, <3>8 DEF LogInv
  <2> QED BY <1>6, <2>5, <2>6 DEF TaskStep
<1> QED BY <1>2, <1>3, <1>4, <1>5, <1>6 DEF MapNext

(***************************************************************************)
(* updateMap is atomic to its caller: when wait_all has returned, the      *)
(* range image is in every selected block exactly once and nowhere else,   *)
(* whichever workers ran the tasks and in whatever order.                  *)
(***************************************************************************)
THEOREM UpdatesAreAtomic == MapSpec => AtomicUpdate
<1> DEFINE Inv == PoolInv /\ UpdateInv /\ JobInv /\ LogInv
<1>1. MapInit => Inv
  <2> SUFFICES ASSUME MapInit PROVE JobInv /\ LogInv BY UpdateInit
  <2>1. \A t \in Task : ~Outstanding(t) BY UpdateInit DEF UpdateInv, TasksOfCall, MapInit
  <2>2. JobInv BY <2>1 DEF MapInit, JobInv
  <2>3. LogInv
    <3>1. <<>> \in Seq(Scan) OBVIOUS
    <3> QED BY <3>1 DEF MapInit, LogInv
  <2> QED BY <2>2, <2>3
<1>2. Inv /\ [MapNext]_updateVars => Inv'
  <2>1. PoolInv /\ UpdateInv /\ [MapNext]_updateVars => PoolInv' /\ UpdateInv'
    BY StepOfPool, PoolStep, CallStep, TasksStep DEF UpdateInv
  <2> QED BY <2>1, JobStep, LogStep
<1>3. ASSUME Inv, UpdateReturns
      PROVE  log = [b \in Block |-> IF b \in job THEN Append(before[b], scan) ELSE before[b]]
  <2>1. upc = "wait" /\ todo = {} BY <1>3 DEF UpdateReturns, UpdateInv, CallInv
  <2>2. \A t \in Task : ~Outstanding(t) BY <1>3, ReturnMeansQuiet DEF UpdateReturns
  <2>3. ASSUME NEW b \in Block PROVE ~Waiting(<<scan, b>>)
    <3>1. <<scan, b>> \in Task BY <1>3, <2>1, UpdateAssumption DEF UpdateInv, CallInv
    <3> QED BY <2>2, <3>1 DEF Waiting, Outstanding, Running, InTask
  <2>4. \A b \in Block : ReachedBlock(b) <=> b \in job BY <2>1, <2>3 DEF ReachedBlock
  <2> QED BY <1>3, <2>1, <2>4 DEF LogInv
<1>4. Inv => [UpdateReturns =>
               log = [b \in Block |-> IF b \in job THEN Append(before[b], scan) ELSE before[b]]
             ]_updateVars
  BY <1>3
<1> HIDE DEF Inv
<1> QED BY <1>1, <1>2, <1>4, PTL DEF MapSpec, AtomicUpdate

=============================================================================
