----------------------------- MODULE MCDistances -----------------------------
(* A cross, whose middle only corners connect to free space, and its parts. *)
EXTENDS DistanceField

Cross == {<<3, 2>>, <<2, 3>>, <<3, 3>>, <<4, 3>>, <<3, 4>>}
PartsOfCross == {[c \in Voxel |-> IF c \in part THEN "occupied" ELSE "free"] : part \in SUBSET Cross}
=============================================================================
