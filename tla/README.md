# TLA+ specification of wavemap_ros2

Formal models of the wavemap mapping library, of its ROS 2 server and of the Livox driver that feeds
it. The modules are written from the code; TLC checks them on small instances, and TLAPS proves the
most important facts for every instance. `PROJECT.json` lists the components, the runs, the lines
that each definition stands for, the hazards of the code with the properties that cover them, and
the theorems.

`LIB` stands for `src/src/wavemap/library/cpp/`, `ROS` for `src/src/wavemap/interfaces/ros2/wavemap_ros2/`
and `LIVOX` for `src/src/livox_ros_driver2/src/`.

1. [The system](#1-the-system)
2. [Modules](#2-modules)
3. [Runs](#3-runs)
4. [Fairness](#4-fairness)
5. [Proofs](#5-proofs)
6. [Disagreements](#6-disagreements)
7. [What is not modelled](#7-what-is-not-modelled)
8. [Plan](#8-plan)
9. [Running it](#9-running-it)

## 1. The system

A lidar sends packets to the **Livox driver**, which learns of devices from the SDK's callbacks,
configures them, gathers packets into **frames**, queues the frames per lidar and publishes them from
poll threads. The **server node** subscribes to point clouds and depth images, waits for the sensor's
pose in **TF**, and passes each measurement to the **pipeline**. The pipeline runs the **integrators**
that are configured for that input, and then the **map operations** (threshold, prune, publish, crop),
each throttled by `once_every`. An integrator selects the blocks of the map that the measurement can
affect, allocates them, and updates them in parallel as tasks of the **thread pool**; which cells it
visits is decided by **range image bounds** or by **ray tracing**. A **map** is a hash of blocks, each a
tree of wavelet coefficients in one of two **tree containers**, or another of five kinds. Maps leave the
process as **messages** and **streams**, and are used through **query accelerators**, the **classified
map** and **distance fields**.

| Part | State it keeps | What is hard | What makes it correct |
|---|---|---|---|
| Thread pool | queue, `task_count_`, `terminate_`, mutex, two condition variables | the count is changed and tested outside of the mutex; notifications after unlock | no lost wakeup, each task once, `wait_all` waits for what was added before it, the destructor drains |
| Parallel map update | range image, hash of blocks | tasks share the hash and the image without a lock | no race, no stale image, one update of each selected block |
| Wavelet block | scale, details, nodes, two flags | work deferred behind flags; ancestors' coefficients change with each cell | it is a grid of cells; a flag that is down hides no work |
| Tree containers, octree, block hash, wavelet octree | nodes, chunks, blocks, time stamps | slots reused after erasure, pruning, indices on both sides of the origin | an abstract tree, an array |
| Server node and services | pointer to the map, the file | several maps and pointers to them, a crash while saving, callbacks that block | maps that leave are whole; every request is answered |
| Pipeline and operations | integrators, time stamps | partial failure, throttling, a moving TF buffer | no due publication is skipped, no available pose is gone |
| Configuration and factories | parameters | defaults, units, failures in the middle of construction | a node that runs is one that can map |
| Map messages and streams | the subscriber's copy | incremental messages, lost messages, removed blocks, streams that break off | the copy equals the map |
| Query accelerator, classified map | stacks of nodes and values, masks | stale entries | answers equal those from the root |
| Distance fields | open queue, field | order of the wavefront | signs follow the occupancy whatever the order; distances are within the promised bounds |
| Livox queues and poll threads | rings, semaphores, exit flag | unlocked indices, sleeping threads at exit | no frame is stuck, the exit returns |
| Livox frames | packets, points, timers | one flag chooses the timer for all lidars | each point in one frame, frames end |
| Livox devices | indices, `set_bits`, `connect_state` | asynchronous answers, timeouts, announcements repeated | one index per device, sampling only when configured |

## 2. Modules

Every definition of a module carries the name the code gives it where there is one. Definitions whose
comment starts with "Mutant:" are plausible mistakes in the definition after them; they are not part of
the specifications, and each shows that a property can fail.

### Threads and the server

| Module | Models | Correspondence |
|---|---|---|
| `ThreadPool` | `LIB/src/core/utils/thread_pool.cc` at the grain of mutex sections and single atomic accesses | `tasks`, `task_count`, `terminate`, `mutex` are the members; `wpc` and `cpc` say where each thread is; "sleep" lies between the predicate and the wait, with the mutex still held; `PoolInit`, `PoolNext` and so on, since others extend it |
| `TaskExecutor` | what a pool promises | tasks are new, pending, running, done |
| `MapUpdate` | `updateMap` of both hashed integrators, on top of `ThreadPool` (extended: its actions are the pool's, with the map's variables) | `upc` is the caller's place; task `<<s, b>>` is the lambda of call `s` for block `b`; integrating is appending the image that the task finds to `log[b]` |
| `RosServer` | server node, inputs, TF, pipeline, operations, services, crash and restart | `pc` is where the executor's thread is; the map is one of its blocks: the set of updates it holds and whether values may be out of range (`raw`); a save may fail before it opens the file, or after it truncated it |
| `ServerSetup` | from YAML nodes to parameters, configs and objects: server and library `create` functions | one record per parameter tree; what is constructed, what is left out, where the process ends; `isValid` has the conditions of every config's `isValid()` |

### Maps

| Module | Models | Correspondence |
|---|---|---|
| `WaveletBlock` | a block of either kind and the integrators' descent into it | `root_scale`, `details`, `nodes` and the flags are the members; `Chunked` chooses between `HashedWaveletOctreeBlock` and the chunked one |
| `OccupancyGrid` | what a block promises | a value per cell |
| `Containers`, `DataTree` | `Ndtree` and `ChunkedNdtree` driven by the same calls, and the tree that both promise | nodes are paths; a chunk is an array of slots with a bit per slot |
| `CellOctree` | `VolumetricOctree` | nodes store increments |
| `Indices` | indices, Morton codes, ancestors, traversal distances, in any number of dimensions | integer operations as the code has them, `>>` as floor division |
| `BlockHash` | the maps that keep blocks in a hash, dense, tree or wavelet | `block_map` is the hash; a block is a partial function from the indices in it; `setCellValue` of the wavelet maps leaves the new value less the parent's and what the cell differs from its parent, as the code does (finding 5) |
| `HaarTransform`, `WaveletTree` | the transform in any number of dimensions, `WaveletOctree` and its integrator | lifting step by step over the axes |
| `RangeBounds` | `HierarchicalRangeBounds` and the intersector's decision | pyramids of minima and maxima, with wrap-around; `DetermineUpdateType` with its early returns, for the interval, the distances and the ranges of a cell |
| `RayCasting` | `RayIterator` and the ray tracing integrator on `HashedBlocks` | the parameter of the ray is multiplied by `Scale`, so that it is an integer |

### Maps in use

| Module | Models | Correspondence |
|---|---|---|
| `WaveletTrees` | a map at rest: the trees of its blocks | shared by the next two |
| `MapMessages` | messages and streams of all map kinds, a subscriber that misses messages | messages are records, streams sequences of items, of which a prefix may arrive |
| `MapQueries` | `QueryAccelerator`, `ClassifiedMap` | the stacks of the last query, the masks of each class |
| `DistanceField` | both generators with the bucketed queue, on one layer of cells | distances in hundredths of a cell |

### Livox driver

| Module | Models | Correspondence |
|---|---|---|
| `LivoxStartup` | from launch arguments and JSON file to publishers | one step per early return or callback set |
| `LivoxDevices` | indices and configuration requests | `set_bits` and `connect_state` per device; an answer comes, times out or comes late |
| `LivoxFrames` | `PubHandler`: the packet queue, its thread, two ways to close a frame | points are numbered per lidar |
| `LivoxQueues` | ring buffers and IMU lists, semaphores, poll threads, exit | `wr_idx` and `rd_idx` wrap at `IndexMod` |
| `LivoxChannel` | what a queue promises | a bounded channel that may drop the new frame when it is full |

### Modules for TLC

`MCMapUpdate`, `MCMaps`, `MCStages`, `MCServices`, `MCLivox` give constants their values for the
passing runs. All but the first look at several components one at a time: a variable (`part`, `stage`,
`focus`) says which one a behaviour is about, and the others rest in an initial state, so that one
run costs the sum and not the product of its parts. `MCDefaultPool`, `MCRosServer`, `MCSetup`,
`MCWaveletBlock`, `MCQueries` and `MCDistances` belong to the runs that end in a violation.

### Simplifications

- *One block stands for the map* in `RosServer`: its operations treat all blocks alike, and the
  parallel update is atomic to its caller, which is what `AtomicUpdate` of `MapUpdate` says.
- *One axis* in `WaveletBlock`, `Containers`, `CellOctree`, `MapMessages` and `MapQueries`: trees are binary.
  The transform in more dimensions is the subject of `HaarTransform` and `WaveletTree`.
- *Exact numbers.* Log-odds are integers, chosen so that every halving is exact. Rounding, and the threshold
  1e-3 below which `prune` takes details for zero, are outside of the model.
- *Which nodes a measurement observes, and by how much they change*, is chosen freely: that includes
  everything that the projection and measurement models decide.
- *The executor* of `rclcpp`, the SDK of the lidar and TF are external, modelled from how the code uses
  them: the executor collects what is ready, runs subscriptions before services, and collects again; the
  SDK calls back in any order.
- *A tick* of `RosServer` is a retry period of the pose lookup, of `LivoxFrames` a millisecond.

## 3. Runs

| Run | Instance | Shows |
|---|---|---|
| `map_update` | 2 workers, 2 range images, 2 blocks | updates do not race, use the current image, are atomic and return |
| `services` | server: 1 input with 2 integrators, all services, crashes; setup: configuration files with every kind of mistake; startup: launch and JSON files | what is published, saved or loaded holds whole measurements; requests are answered; a running node can map; each device has its topic |
| `stages` | one instance per stage, see below | frames, timing, range bounds, rays, messages, streams, queries, distances |
| `maps` | one instance per part, see below; pool: 2 workers, 2 clients (one owns the pool), 2 tasks | the pool implements the executor, fairness included, loses no wakeup, counts what is outstanding, and its destructor returns; blocks, containers, octree, hash, indices, wavelet octree |
| `livox` | rings of one and two slots, IMU lists, the unsupported format; 3 devices for 2 indices | no lost wakeup, lost or reordered frame, or shared index; an orderly shutdown; a configured device samples |
| `default_pool`, `load_map`, `shipped_config`, `wavelet_hashed`, `set_cell`, `classes`, `distances` | small | the disagreements of section 6 |

Why the bounds are enough:

- *Threads and tasks.* Two workers are needed for two of them to see the count at zero, or for one to
  take the notification meant for the other; two clients for an `add_task` between the decrement and
  the test; two tasks for one to be queued while the other runs. Two images make a stale one possible.
- *Setup.* `MaxNesting` is more than the depth of any of the files.
- *Server.* Two integrators make a partial measurement possible; `MaxClock` bounds time: a file that one
  process saved can be loaded by the next. Within a tick measurements never cease: another one may arrive
  whenever the queue has room, so that the executor can find one each time it looks. To keep the states finite, the
  block of the model is hit by at most one measurement of an input per tick, and only in the ticks of `HitTimes`;
  all others run through the pipeline and change other blocks. In `stages` the TF history is 3 ticks, the wait has one try and
  an update takes up to one tick. That is the shortest history for which `HistoryIsLong` (section 5) holds; the
  code's is 10 s, where 4 to 8 s would do.
- *Block.* Height 3 with chunks of 2 levels has a chunk boundary inside the tree and a chunk below it.
  `MaxAbs` stops increments of a block whose values are far out of range already.
- *Containers.* Height 4 with chunks of 2 levels; nodes above, at and below the root of the lower chunk
  are written and erased, and so are children that do not exist.
- *Octree.* A node and its children, in steps of half the upper limit.
- *Hash and indices.* Four blocks of 4 x 4 cells around the origin of two dimensions, so that one index
  of each sign occurs; `Word` is the width of a coordinate. In two of the blocks a cell
  and its parent are written.
- *Wavelet octree.* `TreeBound` bounds the mean, and the steps are twice the upper limit in units that can
  be halved down to the root.
- *Frames.* One lidar that is synchronised and one that is not, an interval of 2 ms, `MaxQueued` 1.
- *Range bounds and rays.* Sensors that wrap around and that do not, with square and with long pixels,
  in which one pixel is odd; seams of 2 and 4 columns, and one of 5, for which only cells across it are excepted; every
  interval of pixels at one distance, and the whole image with a cell that holds the sensor, and with ones nearer than
  `MinRange` and beyond `MaxRange`; rays between points of five cells in all quadrants and along the axes, two of
  them truncated at `max_range`. A ray that ends exactly on the boundary of a cell is excluded
  (`RayAssumption`): there two axes tie.
- *Messages and queries.* Two blocks of height 2, of which one half can be pruned or saturates; one message
  in flight; streams cut off after every item. Three cells can be queried one after the other.
- *Distances.* A layer of 4 x 3 cells with up to three obstacles, or two and an unobserved cell; obstacles are
  seeded in any order; in `distances` a cross in a layer of 5 x 5, and its parts. `SurfaceIsKept` is checked in every state, `DistancesAreClose` when the queue is empty.
- *Livox.* A ring of one slot is always full or empty, one of two is neither for a while; `Laps` times the
  size is where the indices wrap. More devices than indices make the table overflow.

`CHECK_DEADLOCK FALSE` is set where the system may rest: the pool after its destructor, nodes that have
terminated or whose modelled time is over, a descent that has arrived.

## 4. Fairness

- *Pool* (`PoolFairSpec`, in `maps` for its part, and `MapFairSpec`): weak fairness per thread, because the operating system schedules
  threads, and strong fairness for taking the mutex, because a thread that waits for a mutex that is
  released again and again gets it eventually. Starting a call, submitting a task and spurious wakeups
  are not fair, except that `updateMap`, once begun, goes on.
- *Server* (`ServerFairSpec`): weak fairness of the executor's thread. Nothing is assumed of TF, of the
  sensors or of the callers.
- *Livox* (`QueueFairSpec`, `DevicesFairSpec`): weak fairness of the thread that stores frames, of the poll
  threads and of the destructor; for a device, weak fairness of the driver's own steps and of an answer to
  a request: a request that is repeated is answered at some time. Without the latter no device need ever
  be configured.
- `TaskExecutor!FairSpec` and `LivoxChannel` are what the pool and the queues must provide.

## 5. Proofs

TLC checks instances; the theorems hold for every value of the constants that the named assumptions
allow. Each proof module EXTENDS the modules it is about; each proof of a component starts from an inductive invariant whose
parts are named.

Assumptions. `PoolAssumption`, `UpdateAssumption`, `QueueAssumption`, `FrameAssumption` and the like say what the
constants are (distinct identities, finitely many workers, one client that calls `updateMap`). The
provers know nothing of powers, so that `PowersOfTwo`, `SlotPowers`, `TreePowers`, `IndexPowers`, `BoundsPowers` and `SizeAssumption` state
arithmetic that they need and that TLC evaluates: `2^0 = 1`, `2^(n+1) = 2 * 2^n`, powers are positive.

**`ServerProofs`.** The server node first. `WholeInv`: the pipeline's map holds the measurement in progress up to the integrator
`step`, and all others whole; what was published, saved or loaded was taken between measurements and
thresholded. `PublishInv` relates the stamp of the operation to the last
publication and, once `publish_map` had its turn in a run that left subscribers without a change, that run to it; it assumes that `publish_map` is among the operations. `NoLookupThrows` needs a bound on the age of the
measurement at the head of a queue: the potential is the number of measurements before it times the time
that each may take, D = MaxTries + MaxWork. With D * |Topic| * (QueueLength + 1) - MaxWork <= CacheTime
(`HistoryIsLong`) the pose is still there. In the program that is 4 to 8 s of 10 s; the condition is
sufficient and not tight.

The construction of the node (`NodeIsSound`) is proved for every configuration file, and every reading of its
scalars. A factory that makes a component gives it a config with the members of its type's class, which
passed `isValid`, with all its conditions (`MakeIs`; a parameter has at most one type, `TypeIsSingle`); an integrator moreover passed the cast of
the map (`IntegratorIs`). `SetupInv` adds the order: no component before the map, the map never replaced.

The thread pool. `TypeCorrect` adds `RunnerHasTask`. `CountCorrect`: `task_count_` is the queued plus the
taken tasks; that makes the unlocked decrement safe, because a task remains counted until it has run.
`NoLostWaiter` and `NoLostTask` are not inductive alone: `WakeInv` adds who holds the mutex (between predicate
and wait the thread still holds it, which keeps the notifier out) and that workers leave only an empty
queue. `PoolImplementsExecutor` is the safety part of the refinement: `ExecInv` adds that each task is in one
place, that only the owner terminates the pool, and that what a client waits for was added; the key
lemmas are `ZeroMeansDone` and `ExitedMeansDone`.

Then the parallel update. Each step is a step of the pool (`StepOfPool`), so that the pool's invariants carry
over. `UpdatesAreRaceFree` and `TasksAreCurrent` follow from `UpdateInv`: while the caller is idle or
allocating no task is outstanding, otherwise the outstanding tasks are those of this call, each for its own
block. `UpdatesAreAtomic` needs what has been done in the middle of a call: in `LogInv`, each block holds the
log it had when the call began, plus the image once its task is past the update; that the count is zero
when `wait_all` returns then gives the whole update.

**`WaveletBlockProofs`.** For both kinds of block: `BlockTypeCorrect` and `PruningIsComplete`. The latter needs
to know what a pruning keeps: the recursion over the levels of the tree is shown to be defined, level by
level, and to keep exactly the nodes that are worth keeping. For the chunked block: `HalvingIsExact`
(`ExactInv`: values are multiples of two to the number of levels above, details even, so that forward and
backward steps are inverse), `BoundsAreKept` and `BlockIsGrid`. The arguments follow the descent of the
integrator: coefficients are replaced in a top part of the tree, what lies below its frontier moves as the
frontier does, and the cells of the frontier are clamped. `BoundsAreKept` assumes that the padded range holds
0; the plain block violates the property (run `wavelet_hashed`). `BlockIsGrid` assumes that cells are not set,
or that every multiple of two to the height is a possible value.

**`LivoxProofs`.** Queues: `QueueInv` has the arithmetic of a ring whose two indices wrap at a multiple of its
size: `wr_idx` minus `rd_idx`, modulo the wrap, is the number of packets, and slots in between hold them in
order. `NoWakeupIsLost` needs `NoneForgotten`: a frame that is not the first is queued without a signal, so
the thread that takes the one before must look again. `QueuesAreChannels` maps the ring to the sequence of
the packets in it; writing a packet and counting it are two steps, of which the second is the abstract one.

Devices: the two critical sections that look for an index and allocate it are related by
what the thread remembers between them; `set_bits` only shrinks, except by an announcement, which the index
of a known device survives. Startup: `MessagesStayOwn` rests on `StartupInv`, which
says what `InitLivoxLidar` has written after the first entries of the file (`DevicesFilled`: a device has the
translation of its last entry so far), and that frames and publishers, which come later, are made from what no
longer changes.

Frames: the queue of packets, the points collected and the frames follow each other without
gap (`PointsAreFramedOnce`). `FramesDoNotGrow`: the one flag chooses the timer for all lidars, and at most one
closing moment of a lidar is missed, hence three tolerances.

**`MapsProofs`.** Hashed blocks read as an array (`MapsAreGrids`). A node is known by its block and its place
there (`BlockAndCellTell`: quotient and remainder are unique on both sides of the origin), so that a write
changes one value and allocation none (`AllocationShows`). `HashInv` has that lookups are right and that nodes of
a tree have their parents, up to the root. The rest follows from it: the blocks are within bounds, so that
`Min` and `Max` of their coordinates exist and give the extent; each node is the child of its parent by
some child number (`BitsAre`), and the one leaf over a cell is the last node on the way down to it, or the next
one below, when the last has other children (`OneLeafOver`).

Both tree containers implement `DataTree` (`TreesAreTrees`), with all prunings and erasures.
In the chunked tree each node has a slot of its own (`SlotsAreOwn`, by induction over the depth, from the
number of nodes above a level), and nothing is stored in slots of nodes that do not exist (`ChunksSound`):
that is why an erasure that resets the slots below a node, and releases the chunks below
(`KeysUnder`: every node under it is in the parent's chunk or in a chunk under it), leaves nothing that a new
allocation would find. In the plain tree, arrays are owned by inner nodes only; pruning, which skips what
lies beyond a hollow node, still keeps every node with data and the nodes on the way to it.

The octree that stores increments keeps its cells when it is pruned (`PruningKeepsLeaves`). `OctreeSound`: nodes
have their ancestors, and nothing is stored where no node is, so that data on the way to a cell add up
(`SumBelow`) and a missing child of an inner node with value 0 has nothing below it (`MissingAreZero`): `prune`
visits all that matters. Where it makes a leaf, every cell below has the value of the leaf (`PrunedAre`,
by induction from the cells up). Afterwards a single node on the way to a cell has data, hence the look-up
of the deepest node and the sum agree. The nodes that are updated are assumed to be nodes of the tree.

Morton codes lead where traversals go (`DescentsCorrect`), in any number of dimensions. A number below 2^n is
told by its lowest n bits (`NumbersAreBits`), also an integer on either side of zero once it is known what
is left above them (`IntegersAreBits`), and bit b of coordinate d is bit b * Dim + d - 1 of the code (`EncodeIs`), shifted by the
node's height (`CodeIs`). Hence two nodes of a block have the same ancestor at a height exactly if their codes, shifted to
it, are equal (`SharedIs`): the first shift where they are, rounded up to a level, is the lowest common ancestor
(`CommonIs`), and the bits of a level are the number of a child, with which a coordinate shifted once less
begins (`StepsDown`). Two levels of a chunk do not overlap: the offset of
a level is that of the level above and all its nodes (`NodesAbove`, a geometric sum; `LevelsAreApart`). `IndexAssumption` has that blocks are not higher than a
coordinate has bits.

**`WaveletTreeProofs`.** The wavelet octree, in any number of dimensions. First the transforms
(`TransformsUndoEachOther`). A lifting along a set of axes, one after the other, multiplies each coefficient by
a weight of the axes that are done and sums over them with signs (`ForeTo`, `BackTo`; by induction over the axes, an
index being told by its bits): after the last axis that is the sum of the parallel variant, and of it the
single-child one is a term. They undo each other on coefficients that are multiples of their weights (`Exact`), which
the details of a tree always are.

Then the tree (`TreesAreArrays`). `TreeSound`: each node that has details has its ancestors, details are exact, and the
coefficients carry the values of the array, that is, there is one value per node from which the parent's details
give those of its children, down to the cells. Every operation comes to the same: it adds changes
to the values of nodes just below a rooted set of nodes, and on the way up adds to each coefficient what the
changes of its children come to. `ChangesAreApplied` says that the values below each of these nodes then move by its change and
all others stay, because the transform is linear; each operation is left with showing which changes it
adds. The leaf over a cell is the one node over it whose parent is in the tree and that is not itself in it; the extent follows since a
leaf is 0 exactly if its cells are. `TreeAssumption` has that the coordinates are those of the cells under
the root; for others, `toInternal` gives no place in the tree.

**`IntegratorProofs`.** A ray updates the cells it crosses (`RaysHitTheirCells`), for every width of a cell, size of a block and ray. All
of the iterator's decisions are comparisons of the times at which boundaries are crossed (`StepTime`). After j and
k steps along the axes it is in that cell if the last boundary of each axis comes before the next one
of the other (`OnRay`); no two such cells have the same j + k (`OneCellAtATime`), hence each is visited
once, and the ray has steps left along an axis exactly while a boundary comes before its end (`TimesAre`),
hence the count made at the beginning fits. Points are assumed not to lie on boundaries of cells.

The decision about a cell is one that its pixels justify (`BoundsStayConservative`), for every size and scale of the
image, every interval of pixels and all distances. What is skipped because it is beyond `max_range_` or below `min_range_`
may lie in front of or at a surface, and the property says so. By induction over the levels, each value of a pyramid bounds all
pixels under its node. Across the seam that needs a power of two of columns, so that the levels halve exactly; the code
does not refuse other numbers (section 6), and the property excepts cells across the seam of such images and nothing
else. A padded node counts as unknown. Then at most four nodes of `Cover` stand for the whole interval: at the height
where it is less than two nodes long (`ChildHeight`), children that are not neighbours have neighbouring
parents. What is left is the case analysis of `DetermineUpdateType`, whose first two
returns come before any pixel is looked at.

A distance field has the signs of the occupancy (`SurfacesAreKept`), for every layer, maximum distance and map, and
both generators. Each visit of a neighbour, by seeding or by the wavefront, keeps `WorkSound`: the value of each cell
has the sign of its occupancy (`CellSound`) and, in the full generator, is the distance to a parent on the other side
of the surface, hence no less than the closest; cells in the queue have been reached; buckets below the one where the
scan resumes are empty. The quasi Euclidean generator needs more where it enters an obstacle: the new distance is the
length of the step less the distance so far, and is positive only because the free cell is as close as a seed. That
is `BorderSeeded`, of each obstacle that was visited; it stays because distances of free cells never grow
(`NoFarther`), and it is why all seeding comes before the propagation. The inner loops over the eight neighbours are
recursive functions, shown to exist by `LoopExists`; roots are exact to the hundredth (`RootIs`).

**`TreeProofs`.** First the queries. `At(c, h)` is the node over cell c at height h, and a walk is a sequence of nodes along a path;
walks end where the path leaves the tree (`WalkEnds`, by induction over the height). A cache is sound
(`Cached`) if what it holds above its height is the path over the code it remembers. Two cells have the
same nodes above their last common ancestor, a statement about quotients by
powers of two (`SameAbove`), so that a walk that resumes there ends where one from the root does
(`AnswersCorrect`); the values of the wavelet maps are summed along the same walk, and are those of the last
node found when the rest of the way is missing. For the classified map, `SoundClasses` says what its
nodes and masks mean after each form of update: masks are those of the cells below, unless a node of a single
class, which should be gone, lies above. `LeavesCorrect` follows because the traversal stops at a
single class, so that it never meets such leftover nodes.

Then messages and streams. A writer walks a tree with a stack and a reader follows it with a stack of its own,
told by the child bits of each node alone. `WorkStack` says that the nodes on the stack lie in disjoint parts of the
tree, `Pending` are the nodes below them, of which each step removes one, so that the walk ends (`Script` is the sequence of its
stacks); reader and writer have the same stack after every node (`ReadNodeIs`), and the nodes that were read are those that were written
before (`TreeRead`). Details are differences of averages, exact because the
cells are multiples of two to the height, so that values below a node that is not written are those of the node
(`MergedIsSame`); the limits of the map are such multiples as well (`MessageAssumption`: the code's are floats, of which the
model keeps the multiples), so that thresholded trees can be halved like others. `MessagesInv`:
trees are exact, every message in flight carries
what the map had when it was sent, and the copy has the cells of the expected map. A stream is laid out block by block
(`LaidUpTo`, in any order of the hash map), and `Position` tells from the number of items read in which block and at
which node of its script the reader is; it is done after the last item and not before (`PositionRead`),
which is why a stream that was cut off is noticed.

**`NumberLemmas`.** Induction over numbers, least elements, quotients and remainders, loops and walks as
recursive functions, for the other modules.

What cannot be proved here and stays with TLC: liveness (`DestructorReturns`, `UpdateMapReturns`,
`RequestsAreAnswered`, `FramesFlow`, `ConfiguredDeviceSamples`, the fairness part of `ImplementsExecutor`), which
needs ENABLED. The library's induction theorems take an operator as parameter, which the provers cannot
instantiate; where induction over a number suffices it is replaced by a least counterexample
(`NatInductionSet`). Not proved: `DistancesAreClose` of
`DistanceField`, whose margins, the relative errors of the headers, are a
matter of geometry; `SurfacesAreKept` has its signs, and that full distances are not too small. `PoolTypeOK` of `ThreadPool`
and `NoPollAfterExit` of `LivoxQueues` are proved and not run.

## 6. Disagreements

Runs that end in a violation (`PROJECT.json`, "findings", quotes the lines):

1. `default_pool`: `num_threads` is -1 unless it is configured, which makes a pool without threads;
   `updateMap` then never returns. The schema promises as many threads as the CPU supports.
2. `shipped_config`: the names of input types in the shipped configurations, schemas and documents
   (`pointcloud_topic`) are not those of the code (`pointcloud`): the server subscribes to nothing, and
   only one of the three operations is made.
3. `load_map`: `load_map` replaces the server's own pointer only. The pipeline goes on updating and
   publishing the map it was constructed with, and `save_map` and `reset_map` act on the other.
4. `wavelet_hashed`: the integrator limits the average of a plain block's lowest nodes even if they have
   details, and does not ask for thresholding: cells stay out of range.
5. `set_cell`: `setCellValue` subtracts the value of the cell's parent, so that the cell does not end with
   the value it was set to unless it equals its parent's. `WaveletOctree` has the same loop.
6. `classes`: an update of the classified map does not erase the node of a child that the occupancy map has
   lost; `has` and `isFully` then answer from its old mask.
7. `distances`: `kMaxRelativeOverEstimate` of the quasi-Euclidean generator is 13.5 %, and its test expects that of
   occupied cells as of free ones. An occupied cell that touches free space at a corner only, like the middle of a
   cross, gets 0.9 cells where 0.7 is exact, 29 % more. The test does not meet it: its obstacles are a
   cube and single cells at random. `DistancesAreClose` claims the 13.5 % for free cells and for occupied
   ones with a free cell at their side.

Other things met while modelling. In the models they are as in the code.

- *Wavelet octree integrator.* `wavelet_integrator.cc:20` passes the root scale to every first child instead
  of the child's own share. The error carries down: limits and the saturation test use wrong values
  (`ValueBelieved` in `WaveletTree`).
- *Other maps.* `VolumetricOctree::getCellValue` leaves out the values of ancestors, so that `prune` changes
  it, though `map_base.h` calls pruning lossless. A wavelet block whose root scale is below the unobserved
  threshold counts as empty. Repeated prunings may each drop details below 1e-3.
- *Containers.* The post-order iterator enqueues nothing for a node with an empty children array, so that
  `Ndtree::prune` skips it and its later siblings. `ChunkedNdtree::prune`, `NdtreeBlockHash::eraseNode`, its
  non-const `forEachLeaf` and `getNodeOrAncestor` would not compile if they were instantiated.
- *Numbers.* The check at `hierarchical_range_bounds_inl.h:296` calls `popcount` without comparing it to 1:
  an image that wraps around may have any number of columns, and cells across its seam are then judged by the wrong nodes.
  Morton decoding by tables keeps 21 bits of a negative coordinate, by instructions 22.
- *Configuration.* `max_wait_for_pose` and `processing_retry_period` have no effect: measurements are dropped
  after 0.25 s. A radius named only `remove_blocks_beyond_distance`, as the schema does, leaves the member
  at 0 and the check ends the node. `min_cell_width: 0.02` or `once_every: 2.0` without unit keep the default
  silently, and `depth_scale_factor: 0.001` does not fit its integer member. `constant_ray` is a name without a
  class. `allow_reset_map_service` is never read. Names such as `off` become booleans and are skipped.
- *Server.* After `reset_map` subscribers keep the old map until the next measurement; the last update before
  the sensors stop may stay unpublished; the stamp of `crop_map` is set before the lookup that may fail.
- *Livox.* `livox_config` is zero-initialised, so that a device without an entry that announces itself twice
  is sent all items and then samples with handle 0: two such devices share `livox/lidar_0_0_0_0`. Frames
  queued before a device has switched its data type are published with a translation that is wrong by a
  factor of ten, and the division by ten loses up to 9 mm. Format, topic mode and output type are stored in a
  byte: 256 becomes 0. A configured device whose items are all -1 never samples. A null answer ends the IMU
  callback before its retry. `Parse` returns without `fclose`. A failed `InitLdsLidar` leaves poll threads
  waiting for ever. The search for an index without lock (`cache_index.cpp:51`) is safe only if the SDK
  serialises its callbacks, and the look-up in `GetIndex` is a data race. The offset of a custom point wraps
  at 32 bits. The default rotation of a handler is not the identity.

## 7. What is not modelled

Floating-point geometry (projection models, measurement models, undistortion, the interpolation of poses),
profiling, logging, Python bindings, examples, the viewer, launch files and vendored code; `PROJECT.json`
gives the reason for each. Of the code that is modelled: the byte formats of streams and headers, the
decoding of points, the ROS 1 branches of the driver, the order of stores on weakly ordered processors, a
node component that is loaded a second time, the removal of integrators and operations from a pipeline.

## 8. Plan

1. Proof of the margins of `DistancesAreClose`.

## 9. Running it

    tlc -workers 2 -config MCMapUpdate.cfg MCMapUpdate
    tlapm ServerProofs.tla

Typical times with two workers: `map_update` 60 s, `services` and `stages` 2 min, `maps` 2.5 min, `livox` 2 to 3.5 min, the others seconds. The proofs take some minutes from nothing.
