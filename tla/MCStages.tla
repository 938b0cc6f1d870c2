------------------------------- MODULE MCStages -------------------------------
(***************************************************************************)
(* From packets to answers, one stage at a time: the frames of the Livox    *)
(* driver, the timing of the server node, the bounds of a range image, the *)
(* rays, the copies of a map in messages and streams, the queries, the     *)
(* distance field.  While a behaviour is about one stage, the others rest  *)
(* in an initial state.                                                    *)
(***************************************************************************)
EXTENDS RosServer, LivoxFrames, RangeBounds, RayCasting, MapMessages, MapQueries,
        DistanceField

LidarNames == [t \in Topic |-> <<"near", "far">>]
AllOps == <<"publish_pointcloud", "publish_map", "crop_map">>
Every1 == [o \in OpType |-> 1]

(***************************************************************************)
(* Sensors that wrap around and that do not, and pixels that are square or *)
(* twice as long as they are wide; images in which one pixel is odd.  All  *)
(* intervals of pixels are tried at one distance, and the whole image with *)
(* cells around the sensor and with cells beyond max_range.                *)
(***************************************************************************)
Projector(r, c, w, s) == [rows |-> r, columns |-> c, wraps |-> w, scale |-> s]
Projectors == {Projector(2, 4, TRUE, <<1, 1>>), Projector(1, 8, TRUE, <<2, 1>>),
               Projector(2, 2, TRUE, <<1, 2>>),
               Projector(1, 5, TRUE, <<1, 1>>), Projector(1, 5, FALSE, <<1, 1>>), Projector(3, 2, FALSE, <<1, 2>>)}
PixelsOf(s) == (0..(s.rows - 1)) \X (0..(s.columns - 1))
OddPixel(s) ==
  UNION {{[p \in PixelsOf(s) |-> IF p = q THEN v[1] ELSE v[2]] : q \in PixelsOf(s)} :
           v \in {<<0, 3>>, <<6, 3>>, <<3, 6>>}}
IndicesOfImage(s) ==
  (-1..(s.rows + 1)) \X (IF s.wraps THEN 0..(s.columns - 1) ELSE -1..(s.columns + 1))
CellsSeen(s) ==
  [min : IndicesOfImage(s), max : IndicesOfImage(s), near : {3}, far : {4}, holds_sensor : {FALSE}]
  \cup {[min |-> <<0, 0>>, max |-> <<s.rows - 1, s.columns - 1>>,
         near |-> d[1], far |-> d[2], holds_sensor |-> d[3]] :
          d \in {<<-1, 0, FALSE>>, <<-1, 1, TRUE>>, <<0, 3, FALSE>>, <<6, 7, FALSE>>, <<7, 8, FALSE>>}}

\* Rays among points of five cells, in all quadrants and along the axes, and
\* two that were truncated at max_range.
Points == {<<-6, -5>>, <<-2, 3>>, <<1, 1>>, <<6, -3>>, <<7, 7>>}
SomeRays == {<<a, b, b>> : a, b \in Points}
            \cup {<<<<1, 1>>, <<11, 11>>, <<7, 7>>>>,
                  <<<<-2, -2>>, <<9, -2>>, <<6, -2>>>>}
AroundOrigin == (-3..2) \X (-3..2)
MissUpdate == -1
LowestCell == -2

(***************************************************************************)
(* Blocks of which one half is equal, so that its node can be pruned, or   *)
(* saturates when it is averaged, and in which a cell exceeds the limits.  *)
(***************************************************************************)
Cells(a, b, c, d) == 4 :> a @@ 5 :> b @@ 6 :> c @@ 7 :> d
Contents == {Cells(8, 8, 8, 4), Cells(24, -8, -8, 4)}
LowLimit == -8

\* Up to three obstacles, or two and an unobserved cell.
UpTo(n, S) == UNION {kSubset(k, S) : k \in 0..n}
Scene(obstacles_at, hidden) ==
  [c \in Voxel |-> IF c \in hidden THEN "unobserved"
                   ELSE IF c \in obstacles_at THEN "occupied" ELSE "free"]
SmallScenes == {Scene(o, {}) : o \in UpTo(3, Voxel)}
               \cup {Scene(o, u) : o \in UpTo(2, Voxel), u \in UpTo(1, Voxel)}

VARIABLE stage

stageVars == <<stage, serverVars, frameVars, boundsVars, rayVars, messageVars, queryVars, fieldVars>>

OnFrames(A) ==
  /\ stage = "frames" /\ A
  /\ UNCHANGED <<stage, serverVars, boundsVars, rayVars, messageVars, queryVars, fieldVars>>
OnServer(A) ==
  /\ stage = "server" /\ A
  /\ UNCHANGED <<stage, frameVars, boundsVars, rayVars, messageVars, queryVars, fieldVars>>
OnBounds(A) ==
  /\ stage = "bounds" /\ A
  /\ UNCHANGED <<stage, serverVars, frameVars, rayVars, messageVars, queryVars, fieldVars>>
OnRays(A) ==
  /\ stage = "rays" /\ A
  /\ UNCHANGED <<stage, serverVars, frameVars, boundsVars, messageVars, queryVars, fieldVars>>
OnMessages(A) ==
  /\ stage = "messages" /\ A
  /\ UNCHANGED <<stage, serverVars, frameVars, boundsVars, rayVars, queryVars, fieldVars>>
OnQueries(A) ==
  /\ stage = "queries" /\ A
  /\ UNCHANGED <<stage, serverVars, frameVars, boundsVars, rayVars, messageVars, fieldVars>>
OnField(A) ==
  /\ stage = "field" /\ A
  /\ UNCHANGED <<stage, serverVars, frameVars, boundsVars, rayVars, messageVars, queryVars>>
RestingSensor == CHOOSE s \in Sensors : TRUE

StagesInit ==
  /\ stage \in {"frames", "server", "bounds", "rays", "messages", "queries", "field"}
  /\ stage # "bounds" => /\ sensor = RestingSensor
                         /\ rangeImage = CHOOSE image \in Images(sensor) : TRUE
  /\ stage # "messages" => kind = "hashed_blocks" /\ config = CHOOSE c \in MapConfig : TRUE
  /\ stage # "queries" => mode = "values"
  /\ stage # "field" => generator = "full" /\ scene = Scene({<<1, 1>>}, {})
  /\ ServerInit /\ FramesInit /\ BoundsInit /\ RayInit
  /\ MessagesInit /\ QueriesInit /\ FieldInit

StagesNext ==
  \/ OnFrames(FramesNext)
  \/ OnServer(ServerNext)
  \/ OnBounds(BoundsNext)
  \/ OnRays(RayNext)
  \/ OnMessages(MessagesNext)
  \/ OnQueries(QueriesNext)
  \/ OnField(FieldNext)

StagesSpec == StagesInit /\ [][StagesNext]_stageVars
=============================================================================
