---------------------------- MODULE LivoxChannel ----------------------------
(***************************************************************************)
(* What the queues of the Livox driver promise to the topics: the frames   *)
(* of each lidar leave in the order in which they came, each one once, and *)
(* a frame is lost only when `capacity' frames of its lidar are waiting.   *)
(***************************************************************************)
EXTENDS Integers, Sequences

CONSTANTS Lidar, FrameMod

VARIABLES capacity, \* of the ring of each lidar
          channel,  \* the frames of each lidar that are on their way
          next,     \* number of the next frame
          out       \* the lidar and frame being published, if any

Init == /\ channel = [l \in Lidar |-> <<>>]
        /\ next = 0
        /\ out = <<>>

Number == next' = (next + 1) % FrameMod

Accept(l) == /\ channel' = [channel EXCEPT ![l] = Append(@, next)]
             /\ Number
             /\ UNCHANGED <<capacity, out>>

Drop(l) == /\ Len(channel[l]) >= capacity
           /\ Number
           /\ UNCHANGED <<capacity, channel, out>>

Take(l) == /\ channel[l] # <<>>
           /\ out = <<>>
           /\ out' = <<l, Head(channel[l])>>
           /\ channel' = [channel EXCEPT ![l] = Tail(@)]
           /\ UNCHANGED <<capacity, next>>

Publish == /\ out' = <<>>
           /\ UNCHANGED <<capacity, channel, next>>

Next == \/ \E l \in Lidar : Accept(l) \/ Drop(l) \/ Take(l)
        \/ Publish

Spec == Init /\ [][Next]_<<capacity, channel, next, out>>
=============================================================================
