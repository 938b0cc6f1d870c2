----------------------------- MODULE LivoxFrames -----------------------------
(***************************************************************************)
(* PubHandler of the Livox driver (comm/pub_handler.cpp): packets of all   *)
(* lidars go through one queue to one thread, which collects the points of *)
(* each lidar and closes frames, by the stamps of the points or by the     *)
(* clock of the host, whichever a single flag says when it looks.          *)
(*                                                                         *)
(* Time is in milliseconds.  The points of a packet share its stamp, and   *)
(* only their number and order matter: one point stands for them.          *)
(***************************************************************************)
EXTENDS Integers, Sequences, FiniteSets

CONSTANTS Sender,      \* the handles of the lidars
          Synced,      \* those whose stamps are synchronised (PTP or GPS)
          Shift,       \* how much the clock of these is ahead of the host's
          Interval,    \* publish_interval_ms_
          MaxNow,      \* bound on time
          MaxQueued,   \* bound on the packets that wait
          NumberMod    \* points are numbered modulo NumberMod

ASSUME FrameAssumption ==
  /\ Synced \subseteq Sender
  /\ Shift \in Nat
  /\ Interval \in Nat \ {0}
  /\ MaxNow \in Nat \ {0} /\ MaxQueued \in Nat /\ NumberMod \in Nat \ {0}

\* publish_interval_tolerance_, one millisecond less.
Tolerance == Interval - 1

VARIABLES now,
          is_timestamp_sync,  \* static atomic, set by every packet
          raw_packet_queue,
          clouds,        \* points_clouds_ of lidar_process_handlers_
          handlers,      \* the domain of lidar_process_handlers_
          last_pub_time, \* 0 before the first look at the host's clock
          current,       \* the lidar whose packet is being processed, if any
          is_quit, quitted, \* the flag, and that the thread has ended
          sentNow,       \* lidars that have sent a packet this millisecond
          numbered,      \* number of the next point of each lidar
          framed         \* history: number of the next point to be framed

frameVars == <<now, is_timestamp_sync, raw_packet_queue, clouds, handlers,
               last_pub_time, current, is_quit, quitted, sentNow, numbered, framed>>

Number == 0..(NumberMod - 1)
After(n) == (n + 1) % NumberMod

FramesInit ==
  /\ now = 1
  /\ is_timestamp_sync = FALSE
  /\ raw_packet_queue = <<>>
  /\ clouds = [l \in Sender |-> <<>>]
  /\ handlers = {}
  /\ last_pub_time = 0
  /\ current = {}
  /\ is_quit = FALSE /\ quitted = FALSE
  /\ sentNow = {}
  /\ numbered = [l \in Sender |-> 0]
  /\ framed = [l \in Sender |-> 0]

-----------------------------------------------------------------------------
(* OnLivoxLidarPointCloudCallback, in the threads of the SDK *)

\* GetEthPacketTimestamp: a packet that is not synchronised gets the time at
\* which it arrives.
Stamp(l) == IF l \in Synced THEN now + Shift ELSE now

PacketArrives(l) ==
  /\ l \notin sentNow
  /\ Len(raw_packet_queue) < MaxQueued
  /\ is_timestamp_sync' = (l \in Synced)
  /\ raw_packet_queue' = Append(raw_packet_queue,
        [lidar |-> l, stamp |-> Stamp(l), number |-> numbered[l]])
  /\ numbered' = [numbered EXCEPT ![l] = After(@)]
  /\ sentNow' = sentNow \cup {l}
  /\ UNCHANGED <<now, clouds, handlers, last_pub_time, current, is_quit,
                 quitted, framed>>

\* IMU samples go to their own queue (module LivoxQueues), but they set the
\* flag too.
ImuPacketArrives(l) ==
  /\ is_timestamp_sync' = (l \in Synced)
  /\ UNCHANGED <<now, raw_packet_queue, clouds, handlers, last_pub_time,
                 current, is_quit, quitted, sentNow, numbered, framed>>

\* The thread keeps up with the packets: it takes them within a millisecond.
TimePasses ==
  /\ now < MaxNow
  /\ quitted \/ (raw_packet_queue = <<>> /\ current = {})
  /\ now' = now + 1
  /\ sentNow' = {}
  /\ UNCHANGED <<is_timestamp_sync, raw_packet_queue, clouds, handlers,
                 last_pub_time, current, is_quit, quitted, numbered, framed>>

-----------------------------------------------------------------------------
(* RawDataProcess, the only thread that touches clouds and frames *)

\* One point stands for all points of a packet: whatever the data type
\* and the coordinates, the points of a packet are appended in their order.
PointsOf(packet) == <<[stamp |-> packet.stamp, number |-> packet.number]>>

\* One packet: the handler is made if need be, and its points are appended.
ProcessPacket ==
  LET packet == Head(raw_packet_queue)
      l == packet.lidar
  IN  /\ current = {} /\ ~quitted
      /\ raw_packet_queue # <<>>
      /\ raw_packet_queue' = Tail(raw_packet_queue)
      /\ handlers' = handlers \cup {l}
      /\ clouds' = [clouds EXCEPT ![l] = @ \o PointsOf(packet)]
      /\ current' = {l}
      /\ UNCHANGED <<now, is_timestamp_sync, last_pub_time, is_quit, quitted,
                     sentNow, numbered, framed>>

\* is_quit_ is looked at between packets, and at least every 500 ms.
Quit == /\ current = {} /\ is_quit /\ ~quitted
        /\ quitted' = TRUE
        /\ UNCHANGED <<now, is_timestamp_sync, raw_packet_queue, clouds,
                       handlers, last_pub_time, current, is_quit, sentNow,
                       numbered, framed>>

BaseTime(l) == IF clouds[l] = <<>> THEN 0 ELSE Head(clouds[l]).stamp
RecentTime(l) == IF clouds[l] = <<>> THEN 0
                 ELSE clouds[l][Len(clouds[l])].stamp

\* Mutant: the points are copied to the frame, not swapped with an empty cloud.
CloseFrameCopies(who) ==
  /\ clouds' = clouds
  /\ framed' = [l \in Sender |->
                  IF l \in who /\ clouds[l] # <<>>
                    THEN After(clouds[l][Len(clouds[l])].number)
                    ELSE framed[l]]

\* GetLidarPointClouds of the lidars in who, whose points become a frame.
CloseFrame(who) ==
  /\ clouds' = [l \in Sender |-> IF l \in who THEN <<>> ELSE clouds[l]]
  /\ framed' = [l \in Sender |->
                  IF l \in who /\ clouds[l] # <<>>
                    THEN After(clouds[l][Len(clouds[l])].number)
                    ELSE framed[l]]

KeepFrame == UNCHANGED <<clouds, framed>>

\* Mutant: a frame that has only begun is kept if it is as long as the interval.
DueUnlessFull(l) ==
  /\ RecentTime(l) % Interval = 0 /\ RecentTime(l) # 0
  /\ RecentTime(l) - BaseTime(l) < Tolerance

\* By stamps: in the millisecond that is a multiple of the interval, unless
\* the frame has only begun.
SyncedFrameIsDue(l) ==
  /\ RecentTime(l) % Interval = 0 /\ RecentTime(l) # 0
  /\ RecentTime(l) - BaseTime(l) >= Tolerance

CheckTimerSynced ==
  /\ current # {}
  /\ is_timestamp_sync
  /\ IF \E l \in current : SyncedFrameIsDue(l) THEN CloseFrame(current)
                                              ELSE KeepFrame
  /\ current' = {}
  /\ UNCHANGED <<now, is_timestamp_sync, raw_packet_queue, handlers,
                 last_pub_time, is_quit, quitted, sentNow, numbered>>

\* By the host's clock: all lidars at once, after the interval.
CheckTimerHost ==
  /\ current # {}
  /\ ~is_timestamp_sync
  /\ \/ /\ last_pub_time = 0
        /\ last_pub_time' = now
        /\ KeepFrame
     \/ /\ last_pub_time # 0
        /\ now - last_pub_time < Interval
        /\ KeepFrame
        /\ UNCHANGED last_pub_time
     \/ /\ last_pub_time # 0
        /\ now - last_pub_time >= Interval
        /\ last_pub_time' = last_pub_time + Interval
        /\ CloseFrame(handlers)
  /\ current' = {}
  /\ UNCHANGED <<now, is_timestamp_sync, raw_packet_queue, handlers, is_quit,
                 quitted, sentNow, numbered>>

RequestQuit == /\ ~is_quit
               /\ is_quit' = TRUE
               /\ UNCHANGED <<now, is_timestamp_sync, raw_packet_queue, clouds,
                              handlers, last_pub_time, current, quitted, sentNow,
                              numbered, framed>>

FramesNext == \/ \E l \in Sender : PacketArrives(l) \/ ImuPacketArrives(l)
              \/ TimePasses
              \/ ProcessPacket \/ CheckTimerSynced \/ CheckTimerHost \/ Quit
              \/ RequestQuit

FramesSpec == FramesInit /\ [][FramesNext]_frameVars

-----------------------------------------------------------------------------
(* Properties *)

Point == [stamp : Nat, number : Number]
Packet == [lidar : Sender, stamp : Nat, number : Number]

FramesTypeOK ==
  /\ now \in 1..MaxNow
  /\ is_timestamp_sync \in BOOLEAN /\ is_quit \in BOOLEAN /\ quitted \in BOOLEAN
  /\ raw_packet_queue \in Seq(Packet)
  /\ clouds \in [Sender -> Seq(Point)]
  /\ handlers \subseteq Sender /\ sentNow \subseteq Sender
  /\ current \subseteq handlers
  /\ last_pub_time \in 0..now
  /\ numbered \in [Sender -> Number] /\ framed \in [Sender -> Number]

\* The number that the points of l go on with after those collected, and after
\* packet j of the queue.
Collected(l) == IF clouds[l] = <<>> THEN framed[l]
                ELSE After(clouds[l][Len(clouds[l])].number)
NextNumber(l, j) == IF j = 0 THEN Collected(l) ELSE After(raw_packet_queue[j].number)

\* Packet i of the queue is one of l, the next that will arrive included.
IsOf(l, i) == i = Len(raw_packet_queue) + 1 \/ raw_packet_queue[i].lidar = l
NumberOf(l, i) == IF i = Len(raw_packet_queue) + 1 THEN numbered[l]
                  ELSE raw_packet_queue[i].number

\* j is the last before i that is one of l, or zero if there is none.
LastBefore(l, j, i) == /\ j # 0 => IsOf(l, j)
                       /\ \A k \in (j + 1)..(i - 1) : ~IsOf(l, k)

(***************************************************************************)
(* Every point gets into exactly one frame of its lidar, in the order of   *)
(* arrival, whichever of the two ways closes the frame (pub_handler.cpp:   *)
(* 182 and 206): the points collected and queued are those after the last  *)
(* one framed, without a gap.                                              *)
(***************************************************************************)
EachPointOnce ==
  \A l \in Sender :
    /\ clouds[l] # <<>> => clouds[l][1].number = framed[l]
    /\ \A i \in 2..Len(clouds[l]) : clouds[l][i].number = After(clouds[l][i - 1].number)
    /\ \A i \in 1..(Len(raw_packet_queue) + 1) : \A j \in 0..(i - 1) :
         IsOf(l, i) /\ LastBefore(l, j, i) => NumberOf(l, i) = NextNumber(l, j)

\* The lidar has sent in each millisecond of the frame that is being filled.
Gapless(l) == \A i \in 2..Len(clouds[l]) :
                clouds[l][i].stamp <= clouds[l][i - 1].stamp + 1

(***************************************************************************)
(* Points are not held back: the frame of a lidar that sends all the time  *)
(* never gets longer than three times the tolerance, the shortest frame.   *)
(* That is so even when one flag decides for synchronised and other lidars *)
(* together and changes with each packet (pub_handler.cpp:106), so that a  *)
(* lidar's own moment to close a frame is missed.                          *)
(***************************************************************************)
FramesAreClosed ==
  \A l \in Sender :
    Gapless(l) /\ current = {} =>
      RecentTime(l) - BaseTime(l) <= 3 * Tolerance
=============================================================================
