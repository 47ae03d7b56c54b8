---------------------------- MODULE DevicePool_proofs ----------------------------
(***************************************************************************)
(* Theorems of DevicePool, for any number of cells and slots, any size of  *)
(* pools and any number of kills, disk errors and relaunches.              *)
(***************************************************************************)
EXTENDS DevicePool, FiniteSetTheorems, WellFoundedInduction, TLAPS

\* The cells that hold a token of d: in training, or with a callback to come.
Held(d) == {c \in Cells : dev[c] = d /\ (fut[c] = "running" \/ c \in due)}

\* Tokens are neither lost nor made.
TokenInv == \A d \in Devices : tokens[d] + Cardinality(Held(d)) = Slots[d]

\* What the futures say of where a cell is.
FutureInv ==
    /\ \A c \in due \cup ready : fut[c] \in {"ok", "error"}
    /\ \A c \in left \cup batch : fut[c] = "none"
    /\ left \cap batch = {}
    /\ \A c \in Cells : fut[c] # "none" => c \in pending \/ row[c] # "none"

WindowInv == Cardinality(pending) <= Capacity

\* Every cell is durable, to come, under way, or known to the writer.
AccountInv ==
    /\ streamed \subseteq disk
    /\ \A c \in Cells : c \in disk \cup left \cup batch \cup pending \cup Unwritten \/ row[c] = "error"
    /\ pc \in {"exit", "retry", "done"} => batch = {} /\ pending = {}
    /\ pc \in {"retry", "done"} => left = {}
    /\ pc = "done" => Unwritten = {}

IInv == TypeOK /\ TokenInv /\ FutureInv /\ WindowInv /\ AccountInv

--------------------------------------------------------------------------------
\* A pool has a slot, and its devices are countable.
LEMMA PoolFacts ==
  /\ Slots \in [Devices -> Nat] /\ Capacity \in Nat \ {0}
  /\ IsFiniteSet(Cells)
  /\ \A S : S \subseteq Cells => IsFiniteSet(S) /\ Cardinality(S) \in Nat
  /\ \A S : Chunk(S) \subseteq S
<1>1. Slots \in [Devices -> Nat] /\ Capacity \in Nat \ {0}
  BY PoolAssumption DEF Slots, Capacity, Devices
<1>2. IsFiniteSet(Cells)
  BY PoolAssumption, FS_Interval DEF Cells
<1>3. \A S : S \subseteq Cells => IsFiniteSet(S) /\ Cardinality(S) \in Nat
  BY <1>2, FS_Subset, FS_CardinalityType
<1> QED  BY <1>1, <1>2, <1>3 DEF Chunk

\* A pool that opens over cells without a training holds nothing yet.
LEMMA Opens ==
  ASSUME TypeOK, NEW todo \in SUBSET Cells, OpenPool(todo)
  PROVE  /\ left' \subseteq Cells /\ batch' \subseteq Cells /\ pending' = {} /\ ready' = {}
         /\ pc' \in {"submit", "retry"} /\ fut' = [c \in Cells |-> "none"] /\ due' = {}
         /\ dev' = dev /\ tokens' = Slots /\ broken' = FALSE
         /\ left' \cup batch' = todo /\ (pc' = "retry" => todo = {})
         /\ TokenInv' /\ FutureInv' /\ WindowInv'
<1> USE DEF OpenPool, FreshPool
<1>1. /\ left' \subseteq Cells /\ batch' \subseteq Cells /\ pending' = {} /\ ready' = {}
      /\ pc' \in {"submit", "retry"} /\ fut' = [c \in Cells |-> "none"] /\ due' = {}
      /\ dev' = dev /\ tokens' = Slots /\ broken' = FALSE
      /\ left' \cup batch' = todo /\ (pc' = "retry" => todo = {})
  BY PoolFacts
<1>2. TokenInv'
  <2>1. \A d \in Devices : Held(d)' = {}
    BY <1>1 DEF Held
  <2> QED  BY <1>1, <2>1, PoolFacts, FS_EmptySet DEF TokenInv
<1>3. FutureInv'
  BY <1>1 DEF FutureInv
<1>4. WindowInv'
  BY <1>1, PoolFacts, FS_EmptySet DEF WindowInv
<1> QED  BY <1>1, <1>2, <1>3, <1>4

LEMMA InitIInv == Init => IInv
<1> SUFFICES ASSUME Init PROVE IInv
  OBVIOUS
<1> USE DEF Init
<1>1. TypeOK
  <2>1. broken \in BOOLEAN
    OBVIOUS
  <2>2. /\ left \subseteq Cells /\ batch \subseteq Cells
        /\ dev \in [Cells -> Devices] /\ tokens \in [Devices -> Nat]
    BY PoolFacts DEF Devices
  <2> QED  BY <2>1, <2>2, PoolAssumption DEF TypeOK
<1>2. TokenInv
  <2>1. \A d \in Devices : Held(d) = {}
    BY DEF Held
  <2> QED  BY <2>1, PoolFacts, FS_EmptySet DEF TokenInv
<1>3. FutureInv
  BY PoolFacts DEF FutureInv
<1>4. WindowInv
  BY PoolFacts, FS_EmptySet DEF WindowInv
<1>5. AccountInv
  BY PoolFacts DEF AccountInv
<1> QED  BY <1>1, <1>2, <1>3, <1>4, <1>5 DEF IInv

--------------------------------------------------------------------------------
\* The steps of the driver.
LEMMA NextSubmit ==
  ASSUME IInv, NEW x \in Cells, NEW e \in Devices, Submit(x, e)
  PROVE  IInv'
<1> USE DEF IInv, Submit, Submits, Room, bounds
<1>1. fut[x] = "none" /\ x \notin due
  BY DEF FutureInv
<1>2. TypeOK'
  BY DEF TypeOK
<1>3. TokenInv'
  <2> SUFFICES ASSUME NEW d \in Devices
               PROVE  tokens'[d] + Cardinality(Held(d)') = Slots[d]
    BY DEF TokenInv
  <2> USE DEF TypeOK, TokenInv
  <2>1. CASE d = e
    <3>1. Held(d)' = Held(d) \cup {x} /\ x \notin Held(d)
      BY <1>1, <2>1 DEF Held
    <3>2. IsFiniteSet(Held(d)) /\ Cardinality(Held(d)) \in Nat
      BY PoolFacts DEF Held
    <3>3. Cardinality(Held(d)') = Cardinality(Held(d)) + 1
      BY <3>1, <3>2, FS_AddElement
    <3>4. tokens'[d] = tokens[d] - 1 /\ tokens[d] \in Nat
      BY <2>1
    <3>5. tokens[d] + Cardinality(Held(d)) = Slots[d]
      OBVIOUS
    <3> QED  BY <3>2, <3>3, <3>4, <3>5
  <2>2. CASE d # e
    <3>1. Held(d)' = Held(d)
      BY <1>1, <2>2 DEF Held
    <3> QED  BY <2>2, <3>1
  <2> QED  BY <2>1, <2>2
<1>4. FutureInv'
  <2>1. /\ fut'[x] = "running" /\ x \in pending' /\ x \notin batch' /\ x \notin left'
        /\ \A c \in Cells \ {x} : fut'[c] = fut[c]
    BY <1>1 DEF TypeOK, FutureInv
  <2>2. x \notin due \cup ready /\ due \cup ready \subseteq Cells /\ left \cup batch \subseteq Cells
    BY <1>1 DEF FutureInv, TypeOK
  <2>3. \A c \in due' \cup ready' : fut'[c] \in {"ok", "error"}
    BY <2>1, <2>2 DEF FutureInv
  <2>4. \A c \in left' \cup batch' : fut'[c] = "none"
    BY <2>1, <2>2 DEF FutureInv
  <2>5. \A c \in Cells : fut'[c] # "none" => c \in pending' \/ row'[c] # "none"
    BY <2>1 DEF FutureInv
  <2>6. left' \cap batch' = {}
    BY DEF FutureInv
  <2> QED  BY <2>3, <2>4, <2>5, <2>6 DEF FutureInv
<1>5. WindowInv'
  <2>1. IsFiniteSet(pending) /\ Cardinality(pending) \in Nat
    BY PoolFacts DEF TypeOK
  <2>2. Cardinality(pending') \in {Cardinality(pending), Cardinality(pending) + 1}
    BY <2>1, FS_AddElement
  <2> QED  BY <2>1, <2>2, PoolFacts DEF WindowInv
<1>6. AccountInv'
  BY DEF AccountInv, Unwritten, TypeOK
<1> QED  BY <1>2, <1>3, <1>4, <1>5, <1>6

\* Steps that leave cells, futures and tokens alone, and only move the loop.
LEMMA NextMoves ==
  ASSUME IInv, SubmitRaises \/ WindowFull \/ Wake \/ Escape \/ Return
  PROVE  IInv'
<1> USE DEF IInv, pool, bounds
<1>1. UNCHANGED <<disk, left, batch, pending, pool, row, streamed, bounds>>
  BY DEF SubmitRaises, WindowFull, Wake, Escape, Return
<1>2. ready' = ready \/ ready' = {c \in pending : fut[c] \in {"ok", "error"}}
  BY DEF SubmitRaises, WindowFull, Wake, Escape, Return, Finished
<1>3. pc' \in {"raised", "exit", "wait", "handle", "aborted", "done"}
  BY DEF SubmitRaises, WindowFull, Wake, Escape, Return
<1>4. TypeOK'
  BY <1>1, <1>2, <1>3 DEF TypeOK
<1>5. TokenInv'
  <2>1. \A d \in Devices : Held(d)' = Held(d)
    BY <1>1 DEF Held
  <2> QED  BY <1>1, <2>1 DEF TokenInv
<1>6. FutureInv'
  BY <1>1, <1>2 DEF FutureInv
<1>7. WindowInv'
  BY <1>1 DEF WindowInv
<1>8. AccountInv'
  <2>1. pc' = "exit" => batch = {} /\ pending = {}
    <3>1. ASSUME WindowFull, pending = {}
          PROVE  batch = {}
      <4>1. Room
        BY <3>1, PoolFacts, FS_EmptySet DEF Room
      <4> QED  BY <3>1, <4>1 DEF WindowFull
    <3> QED  BY <3>1 DEF SubmitRaises, WindowFull, Wake, Escape, Return
  <2>2. pc' = "done" => pc = "retry" /\ Unwritten = {}
    BY DEF SubmitRaises, WindowFull, Wake, Escape, Return
  <2>3. Unwritten' = Unwritten
    BY <1>1 DEF Unwritten
  <2> QED  BY <1>1, <1>3, <2>1, <2>2, <2>3 DEF AccountInv
<1> QED  BY <1>4, <1>5, <1>6, <1>7, <1>8

\* A result is collected and archived, or kept for the writer.
LEMMA NextHandle ==
  ASSUME IInv, NEW x \in Cells, Handle(x)
  PROVE  IInv'
<1> USE DEF IInv, Handle, pool
<1>1. fut[x] \in {"ok", "error"}
  BY DEF FutureInv
<1>2. TypeOK'
  <2>1. errors' \in 0..MaxErrors
    BY PoolAssumption DEF TypeOK
  <2>2. disk' \subseteq Cells /\ streamed' \subseteq Cells
    BY DEF TypeOK, Streams
  <2>3. row' \in [Cells -> {"none", "ok", "error"}]
    BY <1>1 DEF TypeOK
  <2>4. /\ pending' \subseteq Cells /\ ready' \subseteq pending' /\ pc' \in {"submit", "handle"}
        /\ UNCHANGED <<left, batch, fut, dev, due, tokens, kills, relaunches>>
    BY DEF TypeOK
  <2>5. broken' \in BOOLEAN
    BY DEF TypeOK
  <2> QED  BY <2>1, <2>2, <2>3, <2>4, <2>5 DEF TypeOK
<1>3. TokenInv'
  <2>1. \A d \in Devices : Held(d)' = Held(d)
    BY DEF Held
  <2> QED  BY <2>1 DEF TokenInv
<1>4. FutureInv'
  BY <1>1 DEF FutureInv, TypeOK
<1>5. WindowInv'
  <2>1. IsFiniteSet(pending) /\ pending' \subseteq pending
    BY PoolFacts DEF TypeOK
  <2>2. Cardinality(pending') <= Cardinality(pending) /\ Cardinality(pending) \in Nat
        /\ Cardinality(pending') \in Nat
    BY <2>1, FS_Subset, FS_CardinalityType
  <2> QED  BY <2>2, PoolFacts DEF WindowInv
<1>6. AccountInv'
  <2>1. streamed' \subseteq disk' /\ streamed \subseteq streamed' /\ disk \subseteq disk'
    BY DEF AccountInv, Streams
  <2>2. fut[x] = "ok" => x \in disk' \/ x \in Unwritten'
    BY DEF Unwritten, TypeOK, Streams, AccountInv
  <2>3. row' = [row EXCEPT ![x] = fut[x]] /\ pending' = pending \ {x} /\ left' = left /\ batch' = batch
    OBVIOUS
  <2>4. \A c \in Cells \ {x} : c \in Unwritten => c \in Unwritten' \/ c \in disk'
    BY <2>1, <2>3 DEF Unwritten, TypeOK
  <2>5. \A c \in Cells : c \in disk' \cup left' \cup batch' \cup pending' \cup Unwritten'
                         \/ row'[c] = "error"
    BY <1>1, <2>1, <2>2, <2>3, <2>4 DEF AccountInv, TypeOK
  <2>6. pc' \in {"submit", "handle"}
    OBVIOUS
  <2> QED  BY <2>1, <2>5, <2>6 DEF AccountInv
<1> QED  BY <1>2, <1>3, <1>4, <1>5, <1>6

\* A pool is recycled, or the driver is launched again.
LEMMA NextOpens ==
  ASSUME IInv, Recycle \/ Relaunch
  PROVE  IInv'
<1> USE DEF IInv
<1>1. CASE Recycle
  <2> USE <1>1 DEF Recycle, bounds
  <2>1. OpenPool(left) /\ left \in SUBSET Cells
    BY DEF TypeOK
  <2>2. TypeOK'
    BY <2>1, Opens, PoolFacts DEF TypeOK
  <2>3. AccountInv'
    <3>1. Unwritten' = Unwritten
      BY DEF Unwritten
    <3> QED  BY <2>1, <3>1, Opens DEF AccountInv
  <2> QED  BY <2>1, <2>2, <2>3, Opens
<1>2. CASE Relaunch
  <2> USE <1>2 DEF Relaunch, Launch, Specs
  <2>1. OpenPool(Specs) /\ Specs \in SUBSET Cells
    OBVIOUS
  <2>2. TypeOK'
    <3>1. /\ left' \subseteq Cells /\ batch' \subseteq Cells /\ pending' = {} /\ ready' = {}
          /\ pc' \in {"submit", "retry"} /\ fut' = [c \in Cells |-> "none"] /\ due' = {}
          /\ dev' = dev /\ tokens' = Slots
      BY <2>1, Opens
    <3>2. broken' \in BOOLEAN
      BY <2>1, Opens
    <3>3. relaunches' \in 0..MaxRelaunches
      BY PoolAssumption DEF TypeOK
    <3>4. row' = [c \in Cells |-> "none"] /\ streamed' = {} /\ UNCHANGED <<disk, kills, errors>>
      OBVIOUS
    <3> QED  BY <3>1, <3>2, <3>3, <3>4, PoolFacts DEF TypeOK
  <2>3. AccountInv'
    <3>1. Unwritten' = {}
      BY DEF Unwritten
    <3> QED  BY <2>1, <3>1, Opens DEF AccountInv
  <2> QED  BY <2>1, <2>2, <2>3, Opens
<1> QED  BY <1>1, <1>2

\* The writer after the last pool.
LEMMA NextRetry ==
  ASSUME IInv, NEW x \in Cells, RetryWrite(x)
  PROVE  IInv'
<1> USE DEF IInv, RetryWrite, pool
<1>1. TypeOK'
  BY PoolAssumption DEF TypeOK
<1>2. TokenInv'
  <2>1. \A d \in Devices : Held(d)' = Held(d)
    BY DEF Held
  <2> QED  BY <2>1 DEF TokenInv
<1>3. FutureInv' /\ WindowInv'
  BY DEF FutureInv, WindowInv
<1>4. AccountInv'
  BY DEF AccountInv, Unwritten
<1> QED  BY <1>1, <1>2, <1>3, <1>4

--------------------------------------------------------------------------------
\* The steps of the workers and of the executor's manager.
LEMMA NextFutures ==
  ASSUME IInv, NEW x \in Cells, WorkerEnds(x) \/ FailFuture(x)
  PROVE  IInv'
<1> USE DEF IInv, WorkerEnds, FailFuture, driver, bounds
<1>1. /\ fut[x] = "running" /\ due' = due \cup {x}
      /\ \E r \in {"ok", "error"} : fut' = [fut EXCEPT ![x] = r]
      /\ UNCHANGED <<disk, driver, dev, tokens, broken, bounds>>
  OBVIOUS
<1>2. TypeOK'
  BY <1>1 DEF TypeOK
<1>3. TokenInv'
  <2>1. \A d \in Devices : Held(d)' = Held(d)
    BY <1>1 DEF Held, TypeOK
  <2> QED  BY <1>1, <2>1 DEF TokenInv
<1>4. FutureInv'
  BY <1>1 DEF FutureInv, TypeOK
<1>5. WindowInv' /\ AccountInv'
  BY <1>1 DEF WindowInv, AccountInv, Unwritten
<1> QED  BY <1>2, <1>3, <1>4, <1>5

LEMMA NextCallback ==
  ASSUME IInv, NEW x \in Cells, Callback(x)
  PROVE  IInv'
<1> USE DEF IInv, Callback, Returned, driver, bounds
<1>1. fut[x] # "running"
  BY DEF FutureInv
<1>2. TypeOK'
  BY DEF TypeOK
<1>3. TokenInv'
  <2> SUFFICES ASSUME NEW d \in Devices
               PROVE  tokens'[d] + Cardinality(Held(d)') = Slots[d]
    BY DEF TokenInv
  <2> USE DEF TypeOK, TokenInv
  <2>1. CASE d = dev[x]
    <3>1. Held(d)' = Held(d) \ {x} /\ x \in Held(d)
      BY <1>1, <2>1 DEF Held
    <3>2. IsFiniteSet(Held(d)) /\ Cardinality(Held(d)) \in Nat
      BY PoolFacts DEF Held
    <3>3. Cardinality(Held(d)') = Cardinality(Held(d)) - 1
      BY <3>1, <3>2, FS_RemoveElement
    <3>4. tokens'[d] = tokens[d] + 1 /\ tokens[d] \in Nat
      BY <2>1
    <3>5. tokens[d] + Cardinality(Held(d)) = Slots[d]
      OBVIOUS
    <3> QED  BY <3>2, <3>3, <3>4, <3>5
  <2>2. CASE d # dev[x]
    <3>1. Held(d)' = Held(d)
      BY <2>2 DEF Held
    <3>2. tokens'[d] = tokens[d]
      BY <2>2
    <3> QED  BY <3>1, <3>2
  <2> QED  BY <2>1, <2>2
<1>4. FutureInv' /\ WindowInv' /\ AccountInv'
  BY DEF FutureInv, WindowInv, AccountInv, Unwritten
<1> QED  BY <1>2, <1>3, <1>4

LEMMA NextKilled == IInv /\ (WorkerKilled \/ UNCHANGED vars) => IInv'
<1> SUFFICES ASSUME IInv, WorkerKilled \/ UNCHANGED vars PROVE IInv'
  OBVIOUS
<1> USE DEF IInv, WorkerKilled, vars, driver, bounds, pool
<1>1. UNCHANGED <<disk, left, batch, pc, pending, ready, row, streamed, fut, dev, due, tokens>>
  OBVIOUS
<1>2. TypeOK'
  <2>1. broken' \in BOOLEAN
    BY DEF TypeOK
  <2>2. kills' \in 0..MaxKills /\ errors' = errors /\ relaunches' = relaunches
    BY PoolAssumption DEF TypeOK
  <2> QED  BY <1>1, <2>1, <2>2 DEF TypeOK
<1>3. TokenInv'
  <2>1. \A d \in Devices : Held(d)' = Held(d)
    BY <1>1 DEF Held
  <2> QED  BY <1>1, <2>1 DEF TokenInv
<1>4. FutureInv' /\ WindowInv' /\ AccountInv'
  BY <1>1 DEF FutureInv, WindowInv, AccountInv, Unwritten
<1> QED  BY <1>2, <1>3, <1>4

LEMMA Inductive == Spec => []IInv
<1>1. IInv /\ [Next]_vars => IInv'
  BY NextSubmit, NextMoves, NextHandle, NextOpens, NextRetry, NextFutures, NextCallback, NextKilled
  DEF Next
<1> QED  BY <1>1, InitIInv, PTL DEF Spec

--------------------------------------------------------------------------------
(***************************************************************************)
(* The theorems.                                                           *)
(***************************************************************************)

\* No device runs more trainings than it has slots, whenever callbacks run, workers are
\* killed and pools are recycled: a training holds a token until its callback.
THEOREM DevicesAreBounded == Spec => []DeviceLimit
<1>1. IInv => DeviceLimit
  <2> SUFFICES ASSUME IInv, NEW d \in Devices
               PROVE  Cardinality({c \in Cells : fut[c] = "running" /\ dev[c] = d}) <= Slots[d]
    BY DEF DeviceLimit
  <2> DEFINE R == {c \in Cells : fut[c] = "running" /\ dev[c] = d}
  <2>1. R \subseteq Held(d) /\ Held(d) \subseteq Cells /\ R \subseteq Cells
    BY DEF Held
  <2>2. Cardinality(R) <= Cardinality(Held(d)) /\ Cardinality(R) \in Nat
        /\ Cardinality(Held(d)) \in Nat
    BY <2>1, PoolFacts, FS_Subset
  <2>3. tokens[d] \in Nat /\ tokens[d] + Cardinality(Held(d)) = Slots[d] /\ Slots[d] \in Nat
    BY PoolFacts DEF IInv, TypeOK, TokenInv
  <2> QED  BY <2>2, <2>3
<1> QED  BY Inductive, <1>1, PTL

\* A death of the driver loses no more finished trainings than the pool has slots: what
\* has finished and is not archived is in the window.
THEOREM LossesAreBounded == Spec => []LossIsBounded
<1>1. IInv => LossIsBounded
  <2> SUFFICES ASSUME IInv PROVE LossIsBounded
    OBVIOUS
  <2> DEFINE L == {c \in Cells : fut[c] = "ok" /\ row[c] = "none"}
  <2>1. L \subseteq pending /\ IsFiniteSet(pending)
    BY PoolFacts DEF IInv, FutureInv, TypeOK
  <2>2. Cardinality(L) <= Cardinality(pending) /\ Cardinality(L) \in Nat
        /\ Cardinality(pending) \in Nat
    BY <2>1, FS_Subset, FS_CardinalityType
  <2> QED  BY <2>2, PoolFacts DEF IInv, WindowInv, LossIsBounded
<1> QED  BY Inductive, <1>1, PTL

\* A leg that returns has every cell on the disk or reported as failed: no recycled pool,
\* failed write, killed worker or relaunch loses one.
THEOREM LegsAreDurable == Spec => []WrittenIsDurable
<1>1. IInv => WrittenIsDurable
  BY DEF IInv, AccountInv, WrittenIsDurable
<1> QED  BY Inductive, <1>1, PTL

--------------------------------------------------------------------------------
(***************************************************************************)
(* Nobody waits for ever.                                                  *)
(***************************************************************************)

\* What the loop waits for, or handles, is there.
WaitInv ==
    /\ \A c \in pending : fut[c] # "none"
    /\ pc = "wait" => pending # {}
    /\ pc = "handle" => ready # {}

LEMMA InductiveWait == Spec => []WaitInv
<1>1. Init => WaitInv
  BY DEF Init, WaitInv
<1>2. ASSUME IInv, WaitInv, [Next]_vars
      PROVE  WaitInv'
  <2> USE DEF WaitInv, IInv
  <2>1. ASSUME NEW x \in Cells, NEW d \in Devices, Submit(x, d)
        PROVE  WaitInv'
    BY <1>2, <2>1 DEF Submit, Submits, TypeOK
  <2>2. CASE SubmitRaises \/ WindowFull \/ Wake \/ Escape \/ Return
    BY <1>2, <2>2 DEF SubmitRaises, WindowFull, Wake, Escape, Return, pool
  <2>3. ASSUME NEW x \in Cells, Handle(x)
        PROVE  WaitInv'
    BY <1>2, <2>3 DEF Handle, pool
  <2>4. ASSUME NEW todo \in SUBSET Cells, OpenPool(todo)
        PROVE  WaitInv'
    BY <1>2, <2>4, Opens
  <2>5. CASE Recycle \/ Relaunch
    BY <1>2, <2>4, <2>5 DEF Recycle, Relaunch, Launch, Specs, TypeOK
  <2>6. ASSUME NEW x \in Cells, RetryWrite(x)
        PROVE  WaitInv'
    BY <1>2, <2>6 DEF RetryWrite, pool
  <2>7. ASSUME NEW x \in Cells, WorkerEnds(x) \/ FailFuture(x)
        PROVE  WaitInv'
    BY <1>2, <2>7 DEF WorkerEnds, FailFuture, driver, TypeOK
  <2>8. ASSUME NEW x \in Cells, Callback(x)
        PROVE  WaitInv'
    BY <1>2, <2>8 DEF Callback, driver
  <2>9. CASE WorkerKilled \/ UNCHANGED vars
    BY <1>2, <2>9 DEF WorkerKilled, vars, driver, pool
  <2> QED  BY <1>2, <2>1, <2>2, <2>3, <2>5, <2>6, <2>7, <2>8, <2>9 DEF Next
<1> QED  BY <1>1, <1>2, Inductive, PTL DEF Spec

\* A set of cells has a first one.
LEMMA First ==
  ASSUME NEW T \in SUBSET Cells, T # {}
  PROVE  \E c \in T : \A b \in T : c <= b
<1> DEFINE R == OpToRel(<, Nat)
<1>1. IsWellFoundedOn(R, Nat)
  BY NatLessThanWellFounded
<1>2. \A x, y \in Nat : <<x, y>> \in R <=> x < y
  BY DEF OpToRel
<1>3. T \subseteq Nat
  BY DEF Cells
<1> HIDE DEF R
<1>4. PICK x \in T : \A y \in T : ~(<<y, x>> \in R)
  BY <1>1, <1>3, WFMin
<1>5. ASSUME NEW y \in T PROVE x <= y
  <2>1. x \in Nat /\ y \in Nat /\ ~(y < x)
    BY <1>2, <1>3, <1>4
  <2> QED  BY <2>1
<1> QED  BY <1>5

\* The driver's loop can take a step.
CanSubmit == \E c \in batch, d \in Devices :
               Submits /\ tokens[d] > 0 /\ (broken \/ \A b \in batch : c <= b)
DriverMoves ==
    \/ CanSubmit
    \/ pc = "submit" /\ ~(batch # {} /\ Room)
    \/ pc = "wait" /\ Finished # {}
    \/ pc = "handle" /\ ready # {}
    \/ pc \in {"exit", "raised"} /\ Drained
    \/ pc = "retry"

\* A training runs, or a callback is due; each ends by itself.
Running    == {c \in Cells : fut[c] = "running"}
OthersMove == Running # {} \/ due # {}

\* With no token to take, some cell holds one.
LEMMA SomeoneHolds ==
  ASSUME IInv, \A d \in Devices : tokens[d] = 0
  PROVE  \E d \in Devices : Held(d) # {}
<1>1. PICK d \in Devices : Slots[d] # 0
  BY PoolFacts DEF Capacity, Devices
<1>2. tokens[d] + Cardinality(Held(d)) = Slots[d] /\ tokens[d] = 0
  BY DEF IInv, TokenInv
<1>3. Cardinality(Held(d)) \in Nat
  BY PoolFacts DEF Held
<1>4. Held(d) # {}
  BY <1>1, <1>2, <1>3, FS_EmptySet
<1> QED  BY <1>4

\* There is no deadlock before the leg is over: the loop can take a step, or a training
\* that it waits for runs, or a callback that it waits for is due.  Tokens out, pool
\* broken, writes failed and futures failed one by one included.
THEOREM LegNeverStalls ==
  Spec => [](pc \in {"done", "aborted"} \/ DriverMoves \/ OthersMove)
<1>1. ASSUME IInv, WaitInv
      PROVE  pc \in {"done", "aborted"} \/ DriverMoves \/ OthersMove
  <2> USE DEF IInv
  <2>1. CASE Submits /\ \E d \in Devices : tokens[d] > 0
    <3>1. batch # {} /\ batch \in SUBSET Cells
      BY <1>1, <2>1 DEF Submits, TypeOK
    <3>2. PICK c \in batch : \A b \in batch : c <= b
      BY <3>1, First
    <3>3. CanSubmit
      BY <2>1, <3>2 DEF CanSubmit
    <3> QED  BY <3>3 DEF DriverMoves
  <2>2. CASE Submits /\ ~ \E d \in Devices : tokens[d] > 0
    <3>1. \A d \in Devices : tokens[d] = 0
      BY <1>1, <2>2 DEF TypeOK
    <3> QED  BY <1>1, <3>1, SomeoneHolds DEF Held, OthersMove, Running
  <2>3. CASE pc = "wait"
    <3>1. PICK c \in pending : fut[c] # "none"
      BY <1>1, <2>3 DEF WaitInv
    <3>2. c \in Running \/ c \in Finished
      BY <1>1, <3>1 DEF Running, Finished, TypeOK
    <3> QED  BY <2>3, <3>2 DEF OthersMove, DriverMoves
  <2>4. CASE pc \in {"exit", "raised"}
    BY <2>4 DEF DriverMoves, OthersMove, Drained, Running
  <2>5. CASE pc \in {"handle", "retry"} \/ (pc = "submit" /\ ~Submits)
    BY <1>1, <2>5 DEF DriverMoves, Submits, WaitInv
  <2> QED  BY <1>1, <2>1, <2>2, <2>3, <2>4, <2>5 DEF TypeOK
<1> QED  BY <1>1, Inductive, InductiveWait, PTL

--------------------------------------------------------------------------------
(***************************************************************************)
(* A launch is finite: what it has left to do falls with every step.       *)
(***************************************************************************)

\* Where the loop is, as a number that falls along a pass of the loop.
PcRank == [submit |-> 5, exit |-> 4, wait |-> 3, raised |-> 3, handle |-> 2, retry |-> 1,
           done |-> 0, aborted |-> 0]

\* What a launch has left to do: a cell of a later pool has more than one of this pool,
\* that more than one in flight, that more than one whose row is kept for the writer.
Work ==
    11 * Cardinality(left) + 8 * Cardinality(batch) + 5 * Cardinality(pending)
    + 2 * Cardinality(Running) + Cardinality(due) + Cardinality(Unwritten)
    + (IF broken THEN 0 ELSE 1) + PcRank[pc]

\* The sizes that Work is made of are numbers.
LEMMA Sizes ==
  ASSUME TypeOK
  PROVE  /\ Cardinality(left) \in Nat /\ Cardinality(batch) \in Nat /\ Cardinality(pending) \in Nat
         /\ Cardinality(Running) \in Nat /\ Cardinality(due) \in Nat /\ Cardinality(Unwritten) \in Nat
         /\ PcRank[pc] \in 0 .. 5
<1>1. Running \subseteq Cells /\ Unwritten \subseteq Cells
  BY DEF Running, Unwritten
<1>2. PcRank[pc] \in 0 .. 5
  BY DEF TypeOK, PcRank
<1> QED  BY <1>1, <1>2, PoolFacts DEF TypeOK

LEMMA SizesNext ==
  ASSUME TypeOK'
  PROVE  Work' \in Nat
<1>1. Running' \subseteq Cells /\ Unwritten' \subseteq Cells
  BY DEF Running, Unwritten
<1>2. PcRank[pc'] \in 0 .. 5
  BY DEF TypeOK, PcRank
<1> QED  BY <1>1, <1>2, PoolFacts DEF TypeOK, Work

\* A set of cells that loses one, or gains one, changes its size by one.
LEMMA OneCell ==
  ASSUME NEW S \in SUBSET Cells, NEW c \in Cells
  PROVE  /\ c \in S => Cardinality(S \ {c}) = Cardinality(S) - 1
         /\ c \notin S => Cardinality(S \cup {c}) = Cardinality(S) + 1
BY PoolFacts, FS_RemoveElement, FS_AddElement

LEMMA WorkSubmit ==
  ASSUME IInv, NEW x \in Cells, NEW d \in Devices, Submit(x, d)
  PROVE  Work' < Work
<1> USE DEF IInv, Submit
<1>1. /\ left' = left /\ batch' = batch \ {x} /\ pending' = pending \cup {x}
      /\ due' = due /\ broken' = broken /\ pc' = pc /\ x \in batch
  OBVIOUS
<1>2. Running' = Running \cup {x}
  BY DEF Running, TypeOK
<1>3. Unwritten' = Unwritten
  BY DEF Unwritten
<1>4. /\ batch \in SUBSET Cells /\ pending \in SUBSET Cells /\ Running \in SUBSET Cells
  BY DEF TypeOK, Running
<1>5. Cardinality(pending \cup {x}) \in {Cardinality(pending), Cardinality(pending) + 1}
  BY <1>4, OneCell
<1>6. Cardinality(Running \cup {x}) \in {Cardinality(Running), Cardinality(Running) + 1}
  BY <1>4, OneCell
<1>7. Cardinality(batch \ {x}) = Cardinality(batch) - 1
  BY <1>1, <1>4, OneCell
<1> QED  BY <1>1, <1>2, <1>3, <1>5, <1>6, <1>7, Sizes DEF Work

LEMMA WorkMoves ==
  ASSUME IInv, SubmitRaises \/ WindowFull \/ Wake \/ Escape \/ Return
  PROVE  Work' < Work
<1>1. UNCHANGED <<left, batch, pending, pool, row, streamed>>
  BY DEF SubmitRaises, WindowFull, Wake, Escape, Return
<1>2. UNCHANGED <<left, batch, pending, due, broken, Running, Unwritten>>
  BY <1>1 DEF Running, Unwritten, pool
<1>3. PcRank[pc'] < PcRank[pc] /\ PcRank[pc'] \in Nat
  BY DEF SubmitRaises, Submits, WindowFull, Wake, Escape, Return, PcRank
<1> QED  BY <1>2, <1>3, Sizes DEF IInv, Work

LEMMA WorkHandle ==
  ASSUME IInv, NEW x \in Cells, Handle(x)
  PROVE  Work' < Work
<1> USE DEF IInv, Handle
<1>1. /\ left' = left /\ batch' = batch /\ pending' = pending \ {x}
      /\ due' = due /\ broken' = broken /\ x \in pending
  BY DEF pool, TypeOK
<1>2. Running' = Running
  BY DEF Running, pool
<1>3. Unwritten' \in SUBSET (Unwritten \cup {x}) /\ Unwritten \in SUBSET Cells
  BY DEF Unwritten, Streams, TypeOK
<1>4. PcRank[pc'] \in {2, 5} /\ PcRank[pc] = 2
  BY DEF PcRank
<1>5. Cardinality(pending \ {x}) = Cardinality(pending) - 1
  BY <1>1, OneCell DEF TypeOK
<1>6. Cardinality(Unwritten') \in Nat /\ Cardinality(Unwritten') <= Cardinality(Unwritten) + 1
  <2>1. Cardinality(Unwritten \cup {x}) \in {Cardinality(Unwritten), Cardinality(Unwritten) + 1}
    BY <1>3, OneCell
  <2>2. IsFiniteSet(Unwritten \cup {x}) /\ IsFiniteSet(Unwritten')
    BY <1>3, PoolFacts
  <2>3. Cardinality(Unwritten') <= Cardinality(Unwritten \cup {x})
    BY <1>3, <2>2, FS_Subset
  <2>4. Cardinality(Unwritten') \in Nat
    BY <2>2, FS_CardinalityType
  <2> QED  BY <2>1, <2>3, <2>4, Sizes
<1> QED  BY <1>1, <1>2, <1>4, <1>5, <1>6, Sizes DEF Work

LEMMA WorkRetry ==
  ASSUME IInv, NEW x \in Cells, RetryWrite(x)
  PROVE  Work' < Work
<1> USE DEF IInv, RetryWrite
<1>1. UNCHANGED <<left, batch, pending, due, broken, Running>>
  BY DEF pool, Running
<1>2. CASE streamed' = streamed \cup {x} /\ pc' = pc
  <2>1. Unwritten' = Unwritten \ {x} /\ x \in Unwritten /\ Unwritten \in SUBSET Cells
    BY <1>2 DEF Unwritten
  <2>2. Cardinality(Unwritten') = Cardinality(Unwritten) - 1
    BY <2>1, OneCell
  <2> QED  BY <1>1, <1>2, <2>2, Sizes DEF Work
<1>3. CASE streamed' = streamed /\ pc' = "aborted"
  <2>1. Unwritten' = Unwritten
    BY <1>3 DEF Unwritten
  <2>2. PcRank[pc'] = 0 /\ PcRank[pc] = 1
    BY <1>3 DEF PcRank
  <2> QED  BY <1>1, <2>1, <2>2, Sizes DEF Work
<1> QED  BY <1>2, <1>3

LEMMA WorkFutures ==
  ASSUME IInv, NEW x \in Cells, WorkerEnds(x) \/ FailFuture(x) \/ Callback(x)
  PROVE  Work' < Work
<1> USE DEF IInv
<1>1. UNCHANGED <<left, batch, pending, broken, pc, row, streamed>>
  BY DEF WorkerEnds, FailFuture, Callback, driver
<1>2. Unwritten' = Unwritten
  BY <1>1 DEF Unwritten
<1>3. CASE WorkerEnds(x) \/ FailFuture(x)
  <2> USE <1>3 DEF WorkerEnds, FailFuture
  <2>1. Running' = Running \ {x} /\ x \in Running /\ Running \in SUBSET Cells
    BY DEF Running, TypeOK
  <2>2. due' = due \cup {x} /\ due \in SUBSET Cells
    BY DEF TypeOK
  <2>3. Cardinality(Running') = Cardinality(Running) - 1
    BY <2>1, OneCell
  <2>4. Cardinality(due') \in {Cardinality(due), Cardinality(due) + 1}
    BY <2>2, OneCell
  <2> QED  BY <1>1, <1>2, <2>3, <2>4, Sizes DEF Work
<1>4. CASE Callback(x)
  <2> USE <1>4 DEF Callback
  <2>1. Running' = Running
    BY DEF Running
  <2>2. Cardinality(due') = Cardinality(due) - 1
    BY OneCell DEF TypeOK
  <2> QED  BY <1>1, <1>2, <2>1, <2>2, Sizes DEF Work
<1> QED  BY <1>3, <1>4

LEMMA WorkKilled ==
  ASSUME IInv, WorkerKilled
  PROVE  Work' < Work
<1> USE DEF IInv, WorkerKilled
<1>1. UNCHANGED <<left, batch, pending, due, pc, fut, row, streamed>> /\ ~broken /\ broken'
  BY DEF driver
<1>2. Running' = Running /\ Unwritten' = Unwritten
  BY <1>1 DEF Running, Unwritten
<1> QED  BY <1>1, <1>2, Sizes DEF Work

\* A pool takes at least one cell.
LEMMA ChunkTakes ==
  ASSUME NEW S \in SUBSET Cells, S # {}
  PROVE  Chunk(S) # {}
<1>1. PICK c \in S : \A b \in S : c <= b
  BY First
<1>2. {d \in S : d <= c} = {c}
  <2>1. \A d \in S : d \in Nat /\ (d <= c <=> d = c)
    BY <1>1 DEF Cells
  <2> QED  BY <2>1
<1>3. Cardinality({d \in S : d <= c}) = 1
  BY <1>2, FS_Singleton
<1>4. c \in Chunk(S)
  BY <1>3, PoolAssumption DEF Chunk
<1> QED  BY <1>4

\* A set in two parts.
LEMMA Parts ==
  ASSUME NEW S \in SUBSET Cells, NEW T \in SUBSET S
  PROVE  Cardinality(S) = Cardinality(T) + Cardinality(S \ T)
<1> DEFINE U == S \ T
<1>1. T \cap U = {} /\ T \cup U = S
  OBVIOUS
<1>2. IsFiniteSet(T) /\ IsFiniteSet(U) /\ Cardinality(T) \in Nat /\ Cardinality(U) \in Nat
  BY PoolFacts
<1> HIDE DEF U
<1>3. Cardinality(T \cup U) = Cardinality(T) + Cardinality(U) - Cardinality(T \cap U)
  BY <1>2, FS_Union
<1>4. Cardinality(T \cap U) = 0
  BY <1>1, FS_EmptySet
<1>5. Cardinality(T \cup U) = Cardinality(T) + Cardinality(U)
  BY <1>2, <1>3, <1>4
<1>6. Cardinality(S) = Cardinality(T \cup U)
  BY <1>1, Zenon
<1> QED  BY <1>5, <1>6 DEF U

LEMMA WorkRecycle ==
  ASSUME IInv, Recycle
  PROVE  Work' < Work
<1> USE DEF IInv, Recycle
<1>1. /\ left' = left \ Chunk(left) /\ batch' = Chunk(left) /\ pending' = {} /\ due' = {}
      /\ ~broken' /\ pc' = IF left = {} THEN "retry" ELSE "submit"
  BY DEF OpenPool, FreshPool
<1>2. batch = {} /\ pending = {} /\ due = {} /\ Running = {} /\ pc = "exit"
  BY DEF AccountInv, Drained, Running
<1>3. Running' = {} /\ Unwritten' = Unwritten
  BY DEF Running, Unwritten, OpenPool, FreshPool
<1>4. left \in SUBSET Cells /\ Chunk(left) \in SUBSET left
  BY PoolFacts DEF TypeOK
<1>5. Cardinality(left) = Cardinality(batch') + Cardinality(left')
  BY <1>1, <1>4, Parts
<1>6. Cardinality(batch') \in Nat /\ Cardinality(left') \in Nat /\ Cardinality({}) = 0
  BY <1>1, <1>4, PoolFacts, FS_EmptySet
<1>a. Work = 11 * Cardinality(left) + Cardinality(Unwritten) + (IF broken THEN 0 ELSE 1) + PcRank[pc]
  BY <1>2, <1>6, Sizes DEF Work
<1>b. Work' = 11 * Cardinality(left') + 8 * Cardinality(batch') + Cardinality(Unwritten) + 1 + PcRank[pc']
  <2>1. Cardinality(pending') = 0 /\ Cardinality(due') = 0 /\ Cardinality(Running') = 0
    BY <1>1, <1>3, <1>6
  <2>2. Cardinality(Unwritten') = Cardinality(Unwritten)
    BY <1>3
  <2>3. PcRank[pc'] \in Nat
    BY <1>1 DEF PcRank
  <2> QED  BY <1>1, <1>6, <2>1, <2>2, <2>3, Sizes DEF Work
<1>7. CASE left = {}
  <2>1. PcRank[pc'] = 1 /\ PcRank[pc] = 4
    BY <1>1, <1>2, <1>7 DEF PcRank
  <2>2. batch' = {} /\ left' = {}
    BY <1>1, <1>4, <1>7
  <2>3. Cardinality(left) = 0 /\ Cardinality(batch') = 0 /\ Cardinality(left') = 0
    BY <1>6, <1>7, <2>2
  <2> QED  BY <2>3, <1>a, <1>b, <2>1, <2>2, Sizes
<1>8. CASE left # {}
  <2>1. PcRank[pc'] = 5 /\ PcRank[pc] = 4
    BY <1>1, <1>2, <1>8 DEF PcRank
  <2>2. Cardinality(batch') # 0
    BY <1>1, <1>4, <1>8, ChunkTakes, PoolFacts, FS_EmptySet
  <2> QED  BY <1>5, <1>6, <1>a, <1>b, <2>1, <2>2, Sizes
<1> QED  BY <1>7, <1>8

\* Every step of the driver, the workers and the executor leaves less to do, those of a
\* broken pool included; only a relaunch starts again, with the cells that have no record.
THEOREM LegAdvances ==
  Spec => [][relaunches' = relaunches => Work' < Work]_vars
<1>1. ASSUME IInv, Next, relaunches' = relaunches
      PROVE  Work' < Work
  <2>1. ~Relaunch
    BY <1>1 DEF Relaunch, IInv, TypeOK
  <2> QED  BY <1>1, <2>1, WorkSubmit, WorkMoves, WorkHandle, WorkRetry, WorkFutures, WorkKilled,
           WorkRecycle DEF Next
<1> QED  BY <1>1, Inductive, PTL DEF Spec


\* What a leg that opens over S has before it.
LEMMA WorkOpens ==
  ASSUME NEW S \in SUBSET Cells
  PROVE  11 * Cardinality(S \ Chunk(S)) + 8 * Cardinality(Chunk(S)) <= 11 * NCells
<1>1. Chunk(S) \in SUBSET S /\ S \ Chunk(S) \in SUBSET Cells
  BY PoolFacts
<1>2. Cardinality(S) = Cardinality(Chunk(S)) + Cardinality(S \ Chunk(S))
  BY <1>1, Parts
<1>3. Cardinality(Cells) = NCells
  BY PoolAssumption, FS_Interval DEF Cells
<1>4. Cardinality(S) <= NCells
  BY <1>3, PoolFacts, FS_Subset
<1>5. Cardinality(Chunk(S)) \in Nat /\ Cardinality(S \ Chunk(S)) \in Nat
  BY <1>1, PoolFacts
<1> QED  BY <1>2, <1>4, <1>5, PoolAssumption

\* A launch takes at most 11 * NCells + 6 steps, whatever it meets: that is what it has to
\* do when it opens, and LegAdvances takes one from it with each step.
THEOREM LaunchIsBounded == Spec => [](Work \in 0 .. 11 * NCells + 6)
<1> DEFINE Small == Work <= 11 * NCells + 6
<1>1. Cardinality({}) = 0
  BY FS_EmptySet
<1>2. Init => Small
  <2> SUFFICES ASSUME Init PROVE Small
    OBVIOUS
  <2>1. /\ Running = {} /\ Unwritten = {} /\ pending = {} /\ due = {} /\ PcRank[pc] = 5 /\ ~broken
        /\ batch = Chunk(Cells) /\ left = Cells \ Chunk(Cells)
    BY DEF Init, Running, Unwritten, PcRank
  <2>2. 11 * Cardinality(left) + 8 * Cardinality(batch) <= 11 * NCells
    BY <2>1, WorkOpens
  <2>3. Cardinality(left) \in Nat /\ Cardinality(batch) \in Nat
    BY <2>1, PoolFacts
  <2> QED  BY <1>1, <2>1, <2>2, <2>3, PoolAssumption DEF Work
<1>3. ASSUME IInv, Small, Next, Relaunch
      PROVE  Small'
  <2>1. /\ Running' = {} /\ Unwritten' = {} /\ pending' = {} /\ due' = {} /\ ~broken'
        /\ batch' = Chunk(Specs) /\ left' = Specs \ Chunk(Specs) /\ Specs \in SUBSET Cells
    BY <1>3 DEF Relaunch, Launch, OpenPool, FreshPool, Running, Unwritten, Specs
  <2>2. 11 * Cardinality(left') + 8 * Cardinality(batch') <= 11 * NCells
    BY <2>1, WorkOpens
  <2>3. Cardinality(left') \in Nat /\ Cardinality(batch') \in Nat
    BY <2>1, PoolFacts
  <2>4. PcRank[pc'] \in 0 .. 5
    BY <1>3 DEF Relaunch, Launch, OpenPool, PcRank
  <2>5. Cardinality(pending') = 0 /\ Cardinality(due') = 0 /\ Cardinality(Running') = 0
        /\ Cardinality(Unwritten') = 0
    BY <1>1, <2>1
  <2> QED  BY <2>1, <2>2, <2>3, <2>4, <2>5, PoolAssumption DEF Work
<1>4. ASSUME IInv PROVE Work \in Nat
  BY <1>4, Sizes DEF IInv, Work
<1>5. ASSUME IInv, Small, [Next]_vars, IInv'
      PROVE  Small'
  <2>1. CASE UNCHANGED vars
    BY <1>5, <2>1 DEF vars, driver, pool, Work, Running, Unwritten
  <2>2. ASSUME Next, ~Relaunch
        PROVE  Work' < Work
    BY <1>5, <2>2, WorkSubmit, WorkMoves, WorkHandle, WorkRetry, WorkFutures, WorkKilled,
       WorkRecycle DEF Next
  <2>3. CASE Next /\ ~Relaunch
    <3>1. Work \in Nat /\ Work' \in Int
      BY <1>4, <1>5, SizesNext DEF IInv
    <3> QED  BY <1>5, <2>2, <2>3, <3>1, PoolAssumption
  <2> QED  BY <1>3, <1>5, <2>1, <2>3
<1>6. IInv /\ Small => Work \in 0 .. 11 * NCells + 6
  BY <1>4, PoolAssumption
<1> QED  BY <1>2, <1>5, <1>6, Inductive, PTL DEF Spec

--------------------------------------------------------------------------------
(***************************************************************************)
(* What the loop waits for comes.  The training of the cell ends, or its   *)
(* future is failed, the callback runs, and wait returns what is finished. *)
(***************************************************************************)
TrainingEnds(c)  == []<>~(fut[c] = "running" /\ ~broken) \/ []<><<WorkerEnds(c)>>_vars
FailureEnds(c)   == []<>~(fut[c] = "running" /\ broken) \/ []<><<FailFuture(c)>>_vars
CallbackRuns(c)  == []<>~(c \in due) \/ []<><<Callback(c)>>_vars
WaitReturns      == []<>~(pc = "wait" /\ Finished # {}) \/ []<><<Wake>>_vars
Scheduled(c)     == TrainingEnds(c) /\ FailureEnds(c) /\ CallbackRuns(c) /\ WaitReturns

\* The loop waits, and c is among what it waits for: the result, the token or the exit.
Holds(c) == fut[c] = "running" \/ c \in due
WaitsFor(c) ==
    \/ pc = "wait" /\ c \in pending
    \/ pc = "submit" /\ batch # {} /\ Room /\ (\A d \in Devices : tokens[d] = 0) /\ Holds(c)
    \/ pc \in {"exit", "raised"} /\ Holds(c)

WaitEnds(c) == WaitsFor(c) ~> ~WaitsFor(c)

\* How far the wait for c still has to go.
Stage(c) == IF ~WaitsFor(c) THEN 0
            ELSE IF c \in due THEN 2
            ELSE IF fut[c] # "running" THEN 1
            ELSE IF broken THEN 3 ELSE 4

\* As guards, what the stages are.
LEMMA StageIs ==
  ASSUME IInv, WaitInv, NEW c \in Cells
  PROVE  /\ Stage(c) \in 0 .. 4
         /\ Stage(c) = 0 <=> ~WaitsFor(c)
         /\ Stage(c) = 1 => pc = "wait" /\ c \in Finished
         /\ Stage(c) = 2 => c \in due
         /\ Stage(c) = 3 => fut[c] = "running" /\ broken
         /\ Stage(c) = 4 => fut[c] = "running" /\ ~broken
<1>1. ~(c \in due /\ fut[c] = "running")
  BY DEF IInv, FutureInv
<1>2. WaitsFor(c) /\ ~Holds(c) => pc = "wait" /\ c \in Finished
  BY DEF IInv, TypeOK, WaitInv, WaitsFor, Holds, Finished
<1> QED  BY <1>1, <1>2 DEF Stage, Holds

\* No step takes a wait back, and the step that a stage is for takes it on.
LEMMA StageFalls ==
  ASSUME IInv, WaitInv, [Next]_vars, NEW c \in Cells, WaitsFor(c)
  PROVE  /\ Stage(c)' \in 0 .. Stage(c)
         /\ WorkerEnds(c) \/ FailFuture(c) \/ Wake => Stage(c)' < Stage(c)
         /\ Callback(c) => Stage(c)' < 2
<1> USE DEF IInv
<1>0. ~(c \in due /\ fut[c] = "running") /\ Stage(c) \in 1 .. 4
  BY DEF FutureInv, Stage
<1>1. CASE Wake
  BY <1>0, <1>1 DEF Wake, Stage, WaitsFor, WorkerEnds, FailFuture, Callback, driver
<1>2. CASE Relaunch
  <2>1. fut'[c] = "none" /\ due' = {} /\ pc' \in {"submit", "retry"}
    BY <1>2, Opens DEF Relaunch, Launch, Specs
  <2>2. Stage(c)' = 0
    BY <2>1 DEF Stage, WaitsFor, Holds
  <2> QED  BY <1>0, <2>2
<1>3. ~ \/ \E x \in Cells, d \in Devices : Submit(x, d)
        \/ SubmitRaises \/ WindowFull \/ Return \/ Recycle \/ Escape
        \/ \E x \in Cells : Handle(x) \/ RetryWrite(x)
  <2>1. Drained => ~Holds(c)
    BY DEF Drained, Holds
  <2>2. ~(pc = "submit" /\ batch # {} /\ Room /\ (\A d \in Devices : tokens[d] = 0))
        => pc \in {"wait", "exit", "raised"} /\ (pc = "wait" \/ Holds(c))
    BY DEF WaitsFor
  <2> QED  BY <2>1, <2>2 DEF Submit, SubmitRaises, Submits, WindowFull, Return, Recycle, Escape,
              Handle, RetryWrite, TypeOK
<1>4. CASE WorkerEnds(c) \/ FailFuture(c)
  <2>1. fut[c] = "running" /\ c \notin due /\ fut'[c] # "running" /\ c \in due'
    BY <1>0, <1>4 DEF WorkerEnds, FailFuture, TypeOK
  <2>2. Stage(c) \in {3, 4} /\ Stage(c)' \in {0, 2}
    BY <2>1 DEF Stage
  <2> QED  BY <2>1, <2>2 DEF Callback
<1>5. CASE Callback(c)
  <2>1. Stage(c) = 2 /\ c \notin due' /\ fut'[c] # "running"
    BY <1>0, <1>5 DEF Callback, Stage
  <2> QED  BY <1>0, <1>5, <2>1 DEF Stage, Callback, WorkerEnds, FailFuture, Wake
<1>6. ASSUME NEW x \in Cells, x # c, WorkerEnds(x) \/ FailFuture(x) \/ Callback(x)
      PROVE  Stage(c)' \in {0, Stage(c)} /\ ~Callback(c) /\ ~WorkerEnds(c) /\ ~FailFuture(c) /\ ~Wake
  <2>1. fut'[c] = fut[c] /\ broken' = broken /\ (c \in due' <=> c \in due) /\ pc' = pc
    BY <1>6 DEF WorkerEnds, FailFuture, Callback, TypeOK, driver
  <2>2. ~Callback(c) /\ ~WorkerEnds(c) /\ ~FailFuture(c) /\ ~Wake
    BY <1>6 DEF WorkerEnds, FailFuture, Callback, TypeOK, driver, Wake
  <2> QED  BY <2>1, <2>2 DEF Stage
<1>7. CASE WorkerKilled \/ UNCHANGED vars
  <2>1. fut' = fut /\ due' = due /\ pc' = pc /\ (broken => broken')
    BY <1>7 DEF WorkerKilled, vars, driver, pool
  <2>2. Stage(c)' \in 0 .. Stage(c)
    BY <1>0, <2>1 DEF Stage
  <2> QED  BY <2>1, <2>2, <1>0 DEF WorkerEnds, FailFuture, Callback, Wake, TypeOK
<1> QED  BY <1>0, <1>1, <1>2, <1>3, <1>4, <1>5, <1>6, <1>7 DEF Next

LEMMA ThisWaitEnds ==
  ASSUME NEW c \in Cells
  PROVE  Spec /\ Scheduled(c) => WaitEnds(c)
<1> DEFINE S0 == Stage(c) = 0
           S1 == Stage(c) = 1
           S2 == Stage(c) = 2
           S3 == Stage(c) = 3
           S4 == Stage(c) = 4
<1>1. ASSUME IInv, WaitInv, [Next]_vars, NEW n \in 1 .. 4, Stage(c) = n
      PROVE  /\ Stage(c)' \in 0 .. n
             /\ <<WorkerEnds(c)>>_vars \/ <<FailFuture(c)>>_vars \/ <<Wake>>_vars => Stage(c)' \in 0 .. n - 1
             /\ <<Callback(c)>>_vars => Stage(c)' \in 0 .. 1
  <2>1. WaitsFor(c)
    BY <1>1, StageIs
  <2> QED  BY <1>1, <2>1, StageFalls
<1>2. IInv /\ WaitInv =>
        /\ S0 \/ S1 \/ S2 \/ S3 \/ S4
        /\ S0 <=> ~WaitsFor(c)
        /\ S1 => pc = "wait" /\ Finished # {}
        /\ S2 => c \in due
        /\ S3 => fut[c] = "running" /\ broken
        /\ S4 => fut[c] = "running" /\ ~broken
  BY StageIs
<1>3. IInv /\ WaitInv /\ [Next]_vars /\ S4 =>
        (S0 \/ S1 \/ S2 \/ S3 \/ S4)' /\ (<<WorkerEnds(c)>>_vars => (S0 \/ S1 \/ S2 \/ S3)')
  BY <1>1
<1>4. IInv /\ WaitInv /\ [Next]_vars /\ S3 =>
        (S0 \/ S1 \/ S2 \/ S3)' /\ (<<FailFuture(c)>>_vars => (S0 \/ S1 \/ S2)')
  BY <1>1
<1>5. IInv /\ WaitInv /\ [Next]_vars /\ S2 =>
        (S0 \/ S1 \/ S2)' /\ (<<Callback(c)>>_vars => (S0 \/ S1)')
  BY <1>1
<1>6. IInv /\ WaitInv /\ [Next]_vars /\ S1 => (S0 \/ S1)' /\ (<<Wake>>_vars => S0')
  BY <1>1
<1> HIDE DEF S0, S1, S2, S3, S4
<1> QED  BY <1>2, <1>3, <1>4, <1>5, <1>6, Inductive, InductiveWait, PTL
         DEF Spec, Scheduled, TrainingEnds, FailureEnds, CallbackRuns, WaitReturns, WaitEnds

\* Every wait of the loop ends, for a result, for a token and for the pool's exit: every
\* training ends, the futures of a broken pool are failed and callbacks run.  (WaitInv and
\* SomeoneHolds: there always is a cell that the loop waits for.)
THEOREM WaitsEnd ==
  Spec /\ (\A c \in Cells : Scheduled(c)) => \A c \in Cells : WaitEnds(c)
<1>1. \A c \in Cells : Spec /\ Scheduled(c) => WaitEnds(c)
  BY ThisWaitEnds
<1> QED  BY <1>1
================================================================================
