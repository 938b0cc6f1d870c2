----------------------------- MODULE MapUpdate ------------------------------
(***************************************************************************)
(* updateMap of the hashed (chunked) wavelet integrators: the pipeline's   *)
(* thread selects the blocks a range image affects, allocates them, hands  *)
(* one task per block to the thread pool and waits for all of them         *)
(* (hashed_wavelet_integrator.cc, hashed_chunked_wavelet_integrator.cc).   *)
(* Between two calls the same thread runs the map operations, which prune, *)
(* crop or clear the block map.                                            *)
(*                                                                         *)
(* The pool is module ThreadPool with one client, the pipeline's thread.   *)
(* Task <<s, b>> is the lambda that integrator call s makes for block b.   *)
(* It captures only `this` and b: it reads whatever range image the        *)
(* integrator holds while it runs.                                         *)
(***************************************************************************)
EXTENDS ThreadPool

CONSTANTS Block,      \* block indices
          NumScans    \* bound on the calls of updateMap

Scan == 1..NumScans

ASSUME UpdateAssumption ==
  /\ Client = {Owner}
  /\ NumScans \in Nat
  /\ Task = Scan \X Block

VARIABLES upc,        \* where the pipeline's thread is in updateMap
          scan,       \* the posed range image and its intersector
          job,        \* blocks_to_update
          todo,       \* blocks of the current loop still to be visited
          blocks,     \* keys of the map's block hash
          log,        \* history: the range images integrated into each block
          before,     \* history: log when the current updateMap began
          phase       \* where each worker is in its task

mapVars == <<upc, scan, job, todo, blocks, log, before, phase>>
mainVars == <<upc, scan, job, todo, blocks>>
updateVars == <<poolVars, mapVars>>

MapInit == /\ PoolInit
           /\ upc = "idle"
           /\ scan = 0
           /\ job = {}
           /\ todo = {}
           /\ blocks = {}
           /\ log = [b \in Block |-> <<>>]
           /\ before = [b \in Block |-> <<>>]
           /\ phase = [w \in Worker |-> "lookup"]

blockOf(w) == wtask[w][2]

-----------------------------------------------------------------------------
(* updateMap, on the pipeline's thread *)

\* Mutant: the blocks are not allocated before the tasks are submitted.
SelectWithoutAllocation ==
  /\ upc = "idle"
  /\ cpc[Owner] = "idle"
  /\ ~terminate
  /\ scan < NumScans
  /\ scan' = scan + 1
  /\ job' \in SUBSET Block
  /\ todo' = job'
  /\ before' = log
  /\ upc' = "submit"
  /\ UNCHANGED <<blocks, log, phase, poolVars>>

\* The new range image decides which blocks it may affect, and an allocated
\* block it only sees as free is left out once its root is saturated free: any
\* set of blocks may result.
SelectBlocks ==
  /\ upc = "idle"
  /\ cpc[Owner] = "idle"
  /\ ~terminate
  /\ scan < NumScans
  /\ scan' = scan + 1
  /\ job' \in SUBSET Block
  /\ todo' = job'
  /\ before' = log
  /\ upc' = "allocate"
  /\ UNCHANGED <<blocks, log, phase, poolVars>>

AllocateBlock(b) ==
  /\ upc = "allocate"
  /\ b \in todo
  /\ blocks' = blocks \cup {b}
  /\ todo' = todo \ {b}
  /\ UNCHANGED <<upc, scan, job, log, before, phase, poolVars>>

AllAllocated ==
  /\ upc = "allocate"
  /\ todo = {}
  /\ todo' = job
  /\ upc' = "submit"
  /\ UNCHANGED <<scan, job, blocks, log, before, phase, poolVars>>

SubmitTask(b) ==
  /\ upc = "submit"
  /\ b \in todo
  /\ AddTask(Owner, <<scan, b>>)
  /\ todo' = todo \ {b}
  /\ UNCHANGED <<upc, scan, job, blocks, log, before, phase>>

\* Mutant: updateMap returns without wait_all.
AllSubmittedNoWait ==
  /\ upc = "submit"
  /\ todo = {}
  /\ cpc[Owner] = "idle"
  /\ upc' = "idle"
  /\ job' = {}
  /\ UNCHANGED <<scan, todo, blocks, log, before, phase, poolVars>>

AllSubmitted ==
  /\ upc = "submit"
  /\ todo = {}
  /\ WaitAll(Owner)
  /\ upc' = "wait"
  /\ UNCHANGED <<scan, job, todo, blocks, log, before, phase>>

UpdateReturns ==
  /\ upc = "wait"
  /\ WaitReturn(Owner)
  /\ upc' = "idle"
  /\ job' = {}
  /\ before' = [b \in Block |-> <<>>]
  /\ UNCHANGED <<scan, todo, blocks, log, phase>>

-----------------------------------------------------------------------------
(* The task of one block, on a worker *)

\* getBlock returns a null pointer for a block that is not there, and the task
\* then does nothing.
TaskLookup(w) ==
  /\ wpc[w] = "run"
  /\ phase[w] = "lookup"
  /\ phase' = [phase EXCEPT ![w] = IF blockOf(w) \in blocks THEN "update" ELSE "end"]
  /\ UNCHANGED <<mainVars, log, before, poolVars>>

\* Mutant: the block is overwritten with the update instead of accumulating it.
TaskOverwrites(w) ==
  /\ wpc[w] = "run"
  /\ phase[w] = "update"
  /\ log' = [log EXCEPT ![blockOf(w)] = <<scan>>]
  /\ phase' = [phase EXCEPT ![w] = "end"]
  /\ UNCHANGED <<mainVars, before, poolVars>>

\* updateBlock ends: the block has integrated the range image that the
\* integrator now holds.
TaskUpdate(w) ==
  /\ wpc[w] = "run"
  /\ phase[w] = "update"
  /\ log' = [log EXCEPT ![blockOf(w)] = Append(@, scan)]
  /\ phase' = [phase EXCEPT ![w] = "end"]
  /\ UNCHANGED <<mainVars, before, poolVars>>

TaskEnd(w) ==
  /\ phase[w] = "end"
  /\ WorkerRun(w)
  /\ phase' = [phase EXCEPT ![w] = "lookup"]
  /\ UNCHANGED <<mainVars, log, before>>

-----------------------------------------------------------------------------
(* Between calls: the map operations and services that erase blocks (prune, *)
(* pruneSmart, the cropper's eraseBlockIf, clear).                          *)

EraseBlocks(gone) ==
  /\ upc = "idle"
  /\ blocks' = blocks \ gone
  /\ log' = [b \in Block |-> IF b \in gone THEN <<>> ELSE log[b]]
  /\ UNCHANGED <<upc, scan, job, todo, before, phase, poolVars>>

-----------------------------------------------------------------------------
\* The steps of the pool that touch nothing else.
PoolWorkerStep(w) ==
  /\ \/ WorkerLock(w) \/ WorkerMustWait(w) \/ WorkerSleep(w) \/ WorkerExit(w)
     \/ WorkerPop(w) \/ WorkerCount(w) \/ WorkerTest(w) \/ WorkerNotify(w)
  /\ UNCHANGED mapVars

PoolClientStep ==
  /\ \/ NotifyOne(Owner) \/ WaitLock(Owner) \/ WaitMustWait(Owner) \/ WaitSleep(Owner)
     \/ DtorNotify(Owner) \/ DtorJoin(Owner)
  /\ UNCHANGED mapVars

PoolSpurious ==
  /\ \/ WaitSpurious(Owner)
     \/ \E w \in Worker : WorkerSpurious(w)
  /\ UNCHANGED mapVars

\* The owner lets go of the pool between two calls.
DropPool ==
  /\ upc = "idle"
  /\ DtorSignal(Owner)
  /\ UNCHANGED mapVars

TaskStep(w) == TaskLookup(w) \/ TaskUpdate(w) \/ TaskEnd(w)

UpdateStep ==
  \/ \E b \in Block : AllocateBlock(b) \/ SubmitTask(b)
  \/ AllAllocated \/ AllSubmitted \/ UpdateReturns
  \/ PoolClientStep

MapNext ==
  \/ SelectBlocks
  \/ UpdateStep
  \/ \E gone \in SUBSET blocks : gone # {} /\ EraseBlocks(gone)
  \/ \E w \in Worker : PoolWorkerStep(w) \/ TaskStep(w)
  \/ PoolSpurious
  \/ DropPool

MapSpec == MapInit /\ [][MapNext]_updateVars

\* As in ThreadPool: the threads are scheduled and the mutex is fair.
MapFairness ==
  /\ WF_updateVars(UpdateStep)
  /\ SF_updateVars(WaitLock(Owner) /\ UNCHANGED mapVars)
  /\ SF_updateVars(\E b \in Block : SubmitTask(b))
  /\ \A w \in Worker :
       /\ WF_updateVars(PoolWorkerStep(w) \/ TaskStep(w))
       /\ SF_updateVars(WorkerLock(w) /\ UNCHANGED mapVars)
       /\ SF_updateVars(WorkerNotify(w) /\ UNCHANGED mapVars)

MapFairSpec == MapSpec /\ MapFairness

-----------------------------------------------------------------------------
(* Properties *)

InTask(w) == wpc[w] = "run"

(***************************************************************************)
(* The block hash, the blocks and the range image are never accessed by    *)
(* two threads at once: no task runs while the pipeline's thread selects   *)
(* or allocates blocks or runs a map operation, and no two tasks that run  *)
(* at the same time work on one block.  No lock protects any of them.      *)
(***************************************************************************)
RaceFree ==
  /\ upc \in {"idle", "allocate"} => \A w \in Worker : ~InTask(w)
  /\ \A w, v \in Worker : w # v /\ InTask(w) /\ InTask(v) => blockOf(w) # blockOf(v)

(***************************************************************************)
(* A task that is queued or runs belongs to the range image the integrator *)
(* still holds, and its block is still in the block hash, although the     *)
(* task holds neither: no update is made with another image or dropped.    *)
(***************************************************************************)
TaskIsCurrent ==
  \A t \in Queued \cup {wtask[w] : w \in {v \in Worker : InTask(v)}} :
    t[1] = scan /\ t[2] \in blocks

(***************************************************************************)
(* updateMap is atomic to its caller: when it returns, the range image has *)
(* been integrated once into each selected block, and nowhere else.        *)
(***************************************************************************)
AtomicUpdate ==
  [][UpdateReturns =>
       log = [b \in Block |-> IF b \in job THEN Append(before[b], scan) ELSE before[b]]
    ]_updateVars

(***************************************************************************)
(* Every call of updateMap returns.                                        *)
(***************************************************************************)
UpdateMapReturns == (upc = "allocate") ~> (upc = "idle")

=============================================================================
