------------------------------- MODULE DevicePool -------------------------------
(***************************************************************************)
(* The local test leg: run_recycling drives the cells through a sequence   *)
(* of process pools with device tokens, and the leg archives each result   *)
(* as it arrives (src/orchestration/parallel.py: DevicePool, run_recycling;*)
(* src/orchestration/test_leg.py: evaluate_winners_on_test_parallel).      *)
(* Four threads of control meet here: the driver, the worker processes,    *)
(* the executor's manager, which runs the callbacks, and the disk.         *)
(***************************************************************************)
EXTENDS Naturals, FiniteSets

CONSTANTS
    NCells,        \* cells (winner, seed) of the leg
    NGpu, NCpu,    \* concurrent trainings of each kind
    RecycleEvery,  \* cells per pool
    MaxKills,      \* bound: worker processes the system kills
    MaxErrors,     \* bound: disk errors
    MaxRelaunches  \* bound: driver deaths and --resume relaunches

Cells   == 1..NCells
Devices == {"cuda", "cpu"}

ASSUME PoolAssumption ==
    /\ NCells \in Nat \ {0} /\ NGpu \in Nat /\ NCpu \in Nat
    /\ RecycleEvery \in Nat \ {0}
    /\ MaxKills \in Nat /\ MaxErrors \in Nat /\ MaxRelaunches \in Nat

\* The slots of a pool; a pool of none gets one for the CPU.
Slots == [d \in Devices |-> IF d = "cuda" THEN NGpu ELSE IF NGpu = 0 /\ NCpu = 0 THEN 1 ELSE NCpu]
Capacity == Slots["cuda"] + Slots["cpu"]

VARIABLES
    disk,      \* cells with a durable record
    left,      \* cells that no pool has taken yet; both are served in order
    batch,     \* cells of the current pool that are not submitted yet
    pc,        \* "submit", "wait", "handle", "exit", "raised", "retry", "done", "aborted"
    pending,   \* cells submitted and not handled
    ready,     \* what wait returned and the loop has not handled
    fut,       \* fut[c]: "none", "running", "ok", "error"
    dev,       \* dev[c]: the token the training holds
    due,       \* cells whose future finished and whose callback has not run
    tokens,    \* tokens[d]: free tokens
    broken,    \* a worker was killed: this pool takes nothing more
    row,       \* row[c]: "none", "ok", "error": the result of this launch
    streamed,  \* cells archived as they completed
    kills, errors, relaunches

pool   == <<fut, dev, due, tokens, broken>>
driver == <<left, batch, pc, pending, ready, row, streamed>>
bounds == <<kills, errors, relaunches>>
vars   == <<disk, driver, pool, bounds>>

TypeOK ==
    /\ disk \subseteq Cells
    /\ left \subseteq Cells /\ batch \subseteq Cells
    /\ pc \in {"submit", "wait", "handle", "exit", "raised", "retry", "done", "aborted"}
    /\ pending \subseteq Cells /\ ready \subseteq pending
    /\ fut \in [Cells -> {"none", "running", "ok", "error"}]
    /\ dev \in [Cells -> Devices]
    /\ due \subseteq Cells
    /\ tokens \in [Devices -> Nat]
    /\ broken \in BOOLEAN
    /\ row \in [Cells -> {"none", "ok", "error"}]
    /\ streamed \subseteq Cells
    /\ kills \in 0..MaxKills /\ errors \in 0..MaxErrors
    /\ relaunches \in 0..MaxRelaunches

--------------------------------------------------------------------------------
\* build_test_specs: one spec per cell without a record.
Specs == Cells \ disk

\* The first cells of todo, as many as one pool takes.
Chunk(todo) == {c \in todo : Cardinality({d \in todo : d <= c}) <= RecycleEvery}

FreshPool ==
    /\ tokens' = Slots /\ broken' = FALSE
    /\ fut' = [c \in Cells |-> "none"] /\ due' = {}
    /\ UNCHANGED dev

\* The next RecycleEvery cells of todo, in a pool of their own; the retry at the end.
OpenPool(todo) ==
    /\ batch' = Chunk(todo) /\ left' = todo \ Chunk(todo)
    /\ pc' = IF todo = {} THEN "retry" ELSE "submit"
    /\ pending' = {} /\ ready' = {}
    /\ FreshPool

Launch ==
    /\ OpenPool(Specs)
    /\ row' = [c \in Cells |-> "none"] /\ streamed' = {}

Init ==
    /\ disk = {}
    /\ batch = Chunk(Cells) /\ left = Cells \ Chunk(Cells)
    /\ pc = "submit" /\ pending = {} /\ ready = {}
    /\ fut = [c \in Cells |-> "none"] /\ dev = [c \in Cells |-> "cpu"]
    /\ due = {} /\ tokens = Slots /\ broken = FALSE
    /\ row = [c \in Cells |-> "none"] /\ streamed = {}
    /\ kills = 0 /\ errors = 0 /\ relaunches = 0

--------------------------------------------------------------------------------
\* Mutant: the whole batch is submitted before anything is collected.
RoomForAll == TRUE

\* The sliding window: no more in flight than the pool has slots.
Room == Cardinality(pending) < Capacity

Submits == pc = "submit" /\ batch # {} /\ Room

\* submit_with on a pool that takes work: it blocks for a token of any device.
Submit(c, d) ==
    /\ Submits /\ tokens[d] > 0 /\ ~broken
    /\ c \in batch /\ \A b \in batch : c <= b
    /\ batch' = batch \ {c}
    /\ fut' = [fut EXCEPT ![c] = "running"]
    /\ dev' = [dev EXCEPT ![c] = d]
    /\ pending' = pending \cup {c}
    /\ tokens' = [tokens EXCEPT ![d] = @ - 1]
    /\ UNCHANGED <<disk, left, pc, ready, due, broken, row, streamed, bounds>>

\* On a broken pool the executor raises: the token goes back, and the exception
\* leaves run_recycling through the exit of the pool.
SubmitRaises ==
    /\ Submits /\ broken /\ \E d \in Devices : tokens[d] > 0
    /\ pc' = "raised"
    /\ UNCHANGED <<disk, left, batch, pending, ready, pool, row, streamed, bounds>>

\* The window is full or the batch is out: on to wait, or out of the pool.
WindowFull ==
    /\ pc = "submit" /\ ~(batch # {} /\ Room)
    /\ pc' = IF pending = {} THEN "exit" ELSE "wait"
    /\ UNCHANGED <<disk, left, batch, pending, ready, pool, row, streamed, bounds>>

\* Finished futures, whether or not their callbacks have run.
Finished == {c \in pending : fut[c] \in {"ok", "error"}}

\* wait returns with what has completed.  (A stall only reports and waits again.)
Wake ==
    /\ pc = "wait" /\ Finished # {}
    /\ ready' = Finished /\ pc' = "handle"
    /\ UNCHANGED <<disk, left, batch, pending, pool, row, streamed, bounds>>

--------------------------------------------------------------------------------
\* Mutant: the result counts as archived before the write.
StreamsAlways(wrote, c) == streamed \cup {c}

\* _archive_now: the cells known durable after the callback for c.
Streams(wrote, c) == IF wrote THEN streamed \cup {c} ELSE streamed

\* One completed future: its row, and on_result, whose error is stamped and kept.
Handle(c) ==
    /\ pc = "handle" /\ c \in ready
    /\ pending' = pending \ {c} /\ ready' = ready \ {c}
    /\ row' = [row EXCEPT ![c] = fut[c]]
    /\ pc' = IF ready = {c} THEN "submit" ELSE "handle"
    /\ IF fut[c] = "error"
       THEN UNCHANGED <<disk, streamed, errors>>
       ELSE \E wrote \in BOOLEAN :
              /\ wrote \/ errors < MaxErrors
              /\ streamed' = Streams(wrote, c)
              /\ disk' = IF wrote THEN disk \cup {c} ELSE disk
              /\ errors' = IF wrote THEN errors ELSE errors + 1
    /\ UNCHANGED <<left, batch, pool, kills, relaunches>>

\* The pool's exit waits for its workers and callbacks.
Drained == due = {} /\ \A c \in Cells : fut[c] # "running"

Recycle ==
    /\ pc = "exit" /\ Drained
    /\ OpenPool(left)
    /\ UNCHANGED <<disk, row, streamed, bounds>>

\* The exception leaves the pool's exit, run_recycling and the leg.
Escape ==
    /\ pc = "raised" /\ Drained
    /\ pc' = "aborted"
    /\ UNCHANGED <<disk, left, batch, pending, ready, pool, row, streamed, bounds>>

Unwritten == {c \in Cells : row[c] = "ok" /\ c \notin streamed}

\* The writer after the loop: the rows whose write failed are written again; an
\* error now leaves the leg.
RetryWrite(c) ==
    /\ pc = "retry" /\ c \in Unwritten
    /\ \/ /\ disk' = disk \cup {c} /\ streamed' = streamed \cup {c}
          /\ UNCHANGED <<pc, errors>>
       \/ /\ errors < MaxErrors /\ errors' = errors + 1
          /\ pc' = "aborted" /\ UNCHANGED <<disk, streamed>>
    /\ UNCHANGED <<left, batch, pending, ready, row, pool, kills, relaunches>>

Return ==
    /\ pc = "retry" /\ Unwritten = {}
    /\ pc' = "done"
    /\ UNCHANGED <<disk, left, batch, pending, ready, row, streamed, pool, bounds>>

--------------------------------------------------------------------------------
\* A training ends, or its worker raises; the waiter is told before the callback runs.
WorkerEnds(c) ==
    /\ fut[c] = "running" /\ ~broken
    /\ \E r \in {"ok", "error"} : fut' = [fut EXCEPT ![c] = r]
    /\ due' = due \cup {c}
    /\ UNCHANGED <<disk, driver, dev, tokens, broken, bounds>>

\* The system kills a worker process: the executor marks the pool broken ...
WorkerKilled ==
    /\ kills < MaxKills /\ ~broken /\ \E c \in Cells : fut[c] = "running"
    /\ broken' = TRUE /\ kills' = kills + 1
    /\ UNCHANGED <<disk, driver, fut, dev, due, tokens, errors, relaunches>>

\* ... and fails every future that has not finished, one at a time.
FailFuture(c) ==
    /\ fut[c] = "running" /\ broken
    /\ fut' = [fut EXCEPT ![c] = "error"] /\ due' = due \cup {c}
    /\ UNCHANGED <<disk, driver, dev, tokens, broken, bounds>>

\* Mutant: the callback is attached to the submission that succeeded only.
ReturnsIfOk(c) == IF fut[c] = "ok" THEN [tokens EXCEPT ![dev[c]] = @ + 1] ELSE tokens

\* Mutant: the callback returns the token to the CPU.
ReturnsToCpu(c) == [tokens EXCEPT !["cpu"] = @ + 1]

\* The done-callback of a future puts its token back.
Returned(c) == [tokens EXCEPT ![dev[c]] = @ + 1]

Callback(c) ==
    /\ c \in due
    /\ tokens' = Returned(c) /\ due' = due \ {c}
    /\ UNCHANGED <<disk, driver, fut, dev, broken, bounds>>

\* The driver dies, or has aborted, and is launched again with --resume: the cells
\* with a record are skipped.
Relaunch ==
    /\ relaunches < MaxRelaunches /\ pc # "done"
    /\ relaunches' = relaunches + 1
    /\ Launch
    /\ UNCHANGED <<disk, kills, errors>>

Next ==
    \/ \E c \in Cells, d \in Devices : Submit(c, d)
    \/ SubmitRaises \/ WindowFull \/ Wake
    \/ \E c \in Cells : Handle(c)
    \/ Recycle \/ Escape
    \/ \E c \in Cells : RetryWrite(c)
    \/ Return
    \/ \E c \in Cells : WorkerEnds(c)
    \/ WorkerKilled
    \/ \E c \in Cells : FailFuture(c)
    \/ \E c \in Cells : Callback(c)
    \/ Relaunch

Spec == Init /\ [][Next]_vars

\* The driver and the executor keep running, and every training ends: each is its
\* own bounded loop.  Nobody has to kill a worker or to relaunch the driver.
Fairness ==
    /\ WF_vars(\/ \E c \in Cells, d \in Devices : Submit(c, d)
               \/ SubmitRaises \/ WindowFull \/ Wake
               \/ \E c \in Cells : Handle(c)
               \/ Recycle \/ Escape \/ Return
               \/ \E c \in Cells : RetryWrite(c))
    /\ \A c \in Cells : WF_vars(WorkerEnds(c)) /\ WF_vars(FailFuture(c)) /\ WF_vars(Callback(c))

FairSpec == Spec /\ Fairness

--------------------------------------------------------------------------------
\* No more trainings run on a device than it has slots, a pool that breaks and a
\* callback that runs late included (the pool's docstring).
DeviceLimit ==
    \A d \in Devices : Cardinality({c \in Cells : fut[c] = "running" /\ dev[c] = d}) <= Slots[d]

\* A crash of the driver loses no more finished trainings than the pool has slots:
\* finished work is archived before more is taken (run_recycling's sliding window).
LossIsBounded ==
    Cardinality({c \in Cells : fut[c] = "ok" /\ row[c] = "none"}) <= Capacity

\* When the leg returns, every cell has a durable record or was reported as failed in
\* this launch: recycled pools, disk errors and earlier launches lose none.
WrittenIsDurable == pc = "done" => \A c \in Cells : c \in disk \/ row[c] = "error"

\* The leg returns or aborts unless it is relaunched for ever: no token is lost and no
\* pool's exit waits for a future that nobody finishes.
Drains == <>[](pc \in {"done", "aborted"})

\* run_recycling (parallel.py:668): a worker crash never aborts the batch or the
\* remaining batches.
CrashNeverAborts == pc = "aborted" => errors > 0
================================================================================
