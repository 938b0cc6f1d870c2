-------------------------------- MODULE MCMaps --------------------------------
(***************************************************************************)
(* What maps and their updates are made of, one part at a time: the thread *)
(* pool, a wavelet block, the tree containers, the octree, the hash of     *)
(* blocks, indices, the wavelet octree.  While a behaviour is about one,   *)
(* the others rest in an initial state.                                    *)
(***************************************************************************)
EXTENDS ThreadPool, WaveletBlock, Containers, CellOctree, BlockHash, WaveletTree

(* WaveletBlock: three levels, of which the integrators observe one side *)
Low == -16
Samples == {-16, 0, 16}
Seen == {<<0>>, <<0, 0>>, <<0, 1>>, <<0, 0, 0>>, <<0, 0, 1>>}
Added == {<<0>>, <<0, 0, 1>>}
Unseen == {<<1, 1, 0>>}
Zero == {0}

\* Containers: nodes above, at and below the root of the lower chunk.
WrittenPaths == {<<0>>, <<0, 1>>, <<0, 1, 0>>, <<0, 1, 0, 1>>, <<1, 0, 0>>}
ErasedPaths == {<<0>>, <<0, 1>>, <<0, 1, 0>>, <<1, 0>>, <<1, 1>>, <<0, 1, 0, 1>>}

\* CellOctree: a node and its children, in steps of half the upper limit.
LowestOdds == -4
Steps == {-4, 4}
UpdatedPaths == {<<0>>, <<0, 0>>, <<0, 1>>}

(***************************************************************************)
(* Indices and BlockHash: the four blocks of 4 x 4 cells around the origin *)
(* of two dimensions, in two of which a cell and the parent of it are      *)
(* written; four is the least value of a cell of which the average with    *)
(* three empty ones is a whole number.                                     *)
(***************************************************************************)
AroundOrigin == -4..3
Around == {Node(0, <<-1, 0>>), Node(1, <<-1, 0>>), Node(0, <<3, -2>>), Node(1, <<1, -1>>)}
HashSteps == {-4, 4}

\* WaveletTree: values of twice the upper limit in units that can be halved down
\* to the root; the changes touch different blocks, and the integrator observes
\* one of them.
TreeLow == -4096
TreeSteps == {0, 8192}
TreeTouched == {Node(0, <<-4, 3>>), Node(1, <<-1, 0>>)}
TreeObserved == {Node(2, <<0, 0>>), Node(1, <<0, 0>>), Node(0, <<1, 0>>)}

VARIABLE part

mapsVars == <<part, poolVars, vars, containerVars, octreeVars, hashVars, indexVars, treeVars>>

OnPool(A) ==
  /\ part = "pool" /\ A
  /\ UNCHANGED <<part, vars, containerVars, octreeVars, hashVars, indexVars, treeVars>>
OnBlock(A) ==
  /\ part = "block" /\ A
  /\ UNCHANGED <<part, poolVars, containerVars, octreeVars, hashVars, indexVars, treeVars>>
OnContainers(A) ==
  /\ part = "containers" /\ A
  /\ UNCHANGED <<part, poolVars, vars, octreeVars, hashVars, indexVars, treeVars>>
OnOctree(A) ==
  /\ part = "octree" /\ A
  /\ UNCHANGED <<part, poolVars, vars, containerVars, hashVars, indexVars, treeVars>>
OnHash(A) ==
  /\ part = "hash" /\ A
  /\ UNCHANGED <<part, poolVars, vars, containerVars, octreeVars, indexVars, treeVars>>
OnIndices(A) ==
  /\ part = "indices" /\ A
  /\ UNCHANGED <<part, poolVars, vars, containerVars, octreeVars, hashVars, treeVars>>
OnTree(A) ==
  /\ part = "tree" /\ A
  /\ UNCHANGED <<part, poolVars, vars, containerVars, octreeVars, hashVars, indexVars>>

Origin == Node(0, [d \in Axis |-> 0])

MapsInit ==
  /\ part \in {"pool", "block", "containers", "octree", "hash", "indices", "tree"}
  /\ part # "hash" => layout = "wavelet"
  /\ part # "indices" => target = Origin /\ other = Origin
  /\ PoolInit /\ Init /\ ContainersInit /\ OctreeInit /\ HashInit /\ IndexInit /\ TreeInit

MapsNext ==
  \/ OnPool(PoolNext)
  \/ OnBlock(Next) \/ OnContainers(ContainersNext) \/ OnOctree(OctreeNext)
  \/ OnHash(HashNext) \/ OnIndices(Descend) \/ OnTree(TreeNext)

\* The fairness of PoolFairSpec: the other parts have no liveness.
MapsFairSpec ==
  /\ MapsInit /\ [][MapsNext]_mapsVars
  /\ \A w \in Worker : /\ WF_mapsVars(OnPool(WorkerStep(w)))
                       /\ SF_mapsVars(OnPool(WorkerLock(w)))
                       /\ SF_mapsVars(OnPool(WorkerNotify(w)))
  /\ \A c \in Client : /\ WF_mapsVars(OnPool(ClientStep(c)))
                       /\ SF_mapsVars(OnPool(WaitLock(c)))
=============================================================================
