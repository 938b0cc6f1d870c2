---------------------------- MODULE MCMapUpdate -----------------------------
(* Two workers, two range images and as many blocks as the cfg says. *)
EXTENDS MapUpdate

MCClient == {Owner}
MCTask == Scan \X Block
=============================================================================
