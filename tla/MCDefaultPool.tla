---------------------------- MODULE MCDefaultPool ---------------------------
(* updateMap on the thread pool that the ROS server makes by default. *)
EXTENDS MapUpdate

\* RosServerConfig::num_threads where the configuration does not set it.
num_threads == -1

\* What RosServer passes to the constructor of its thread pool.
PoolSize == IF num_threads < 0 THEN 0 ELSE num_threads

MCWorker == 1..PoolSize
MCClient == {Owner}
MCTask == Scan \X Block
=============================================================================
