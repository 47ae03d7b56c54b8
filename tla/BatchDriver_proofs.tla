-------------------------- MODULE BatchDriver_proofs --------------------------
(***************************************************************************)
(* Theorems of BatchDriver, for every set of specs and slots, every chunk  *)
(* size and every bound.  Each safety property of the runs follows from    *)
(* one inductive invariant, IInv, whose conjuncts say what the loop's      *)
(* position pc implies about the queue, the ledger and what is owed.       *)
(***************************************************************************)
EXTENDS BatchDriver, TLAPS

\* The driver is past its look at the queue only if nothing but arrays with a
\* failed qdel were left there.
GuardInv == pc \in {"requeue", "submit"} =>
                \A j \in Jobs : InQueue(j) # {} => j \in stuck

\* Memory agrees with the ledger, except while there is no memory, and once a
\* failed append has left rows that memory does not know of.
LedgerInv == /\ pc # "down" => exhausted \subseteq Ledgered
             /\ pc # "down" /\ ~LedgerMayFail => exhausted = Ledgered
             /\ pc = "down" => owed = {} /\ pend = {} /\ lastParts = {}

MirrorInv == mirror \subseteq archived

\* What is still open is in pend during a cycle, and in owed while a
\* submission is owed.
Open == PendingSpecs(Specs \ exhausted)

OwedInv == /\ pc \in {"qstat", "requeue"} => pend # {} /\ Open \subseteq pend
           /\ pc = "requeue" => owed = {}
           /\ pc = "submit" => owed # {}
           /\ owed # {} => Open \subseteq owed

\* What is about to be submitted was not abandoned for exhausted retries.
FreshInv == ~LedgerMayFail =>
            /\ \A s \in owed : ledger[s] # "retries_exhausted"
            /\ pc \in {"qstat", "requeue"} =>
                    \A s \in pend : ledger[s] # "retries_exhausted"

\* The rows a drain may still read have not been charged.
RowsInv == owed = {} =>
              \/ \A j \in lastParts : acct[j] \subseteq ran
              \/ pc \in {"pull", "diff", "returned"} /\ Open = {}

IInv == /\ TypeOK /\ GuardInv /\ LedgerInv /\ MirrorInv /\ OwedInv /\ FreshInv
        /\ RowsInv /\ NoDoubleTraining

--------------------------------------------------------------------------------
(***************************************************************************)
(* Types.                                                                  *)
(***************************************************************************)

LEMMA InitType == Init => TypeOK
<1> SUFFICES ASSUME Init PROVE TypeOK
  OBVIOUS
<1>1. FlagsOK
  BY DEF Init, FlagsOK
<1> QED
  BY <1>1, ConstantsAssumption DEF Init, TypeOK, TaskStates, Reasons, Steps, Drains

\* The two Booleans, apart from the rest of the types.
LEMMA NextFlags ==
  ASSUME FlagsOK, [Next]_vars
  PROVE  FlagsOK'
<1> USE DEF FlagsOK, memory
<1>1. CASE Cluster \/ OtherPull
  BY <1>1 DEF Cluster, Dispatch, TaskEnds, Reschedule, Purge, EntersEqw, OtherPull
<1>2. CASE Driver
  BY <1>2 DEF Driver, PullFresh, PullCached, PullFail, Dies, Diff, Qstat, QstatEqwExpired,
     Decide, QstatFail, OpsFail, Requeue, RequeueFail, SubmitNothing, SubmitOk, SubmitFail
<1>3. CASE Crash \/ Restart
  BY <1>3 DEF Crash, Dies, Restart
<1>4. CASE UNCHANGED vars
  BY <1>4 DEF vars
<1> QED  BY <1>1, <1>2, <1>3, <1>4 DEF Next

\* The end of a call leaves every variable it resets well typed.
LEMMA DiesType ==
  ASSUME Dies
  PROVE  /\ pc' \in Steps
         /\ exhausted' \in SUBSET Specs
         /\ retries' \in [Specs -> 0 .. MaxRetries]
         /\ pend' \in SUBSET Specs /\ owed' \in SUBSET Specs
         /\ noTrace' \in 0 .. MaxNoTrace
         /\ lastParts' \in SUBSET Jobs
         /\ pullFails' \in 0 .. MaxErrors /\ opsFails' \in 0 .. MaxErrors
         /\ ran' \in SUBSET Specs
  BY ConstantsAssumption DEF Dies, Steps

LEMMA NextType ==
  ASSUME TypeOK, [Next]_vars
  PROVE  TypeOK'
<1>0. FlagsOK'
  BY NextFlags DEF TypeOK
<1> USE <1>0, ConstantsAssumption DEF TypeOK, TaskStates, Reasons, Steps, Drains, cluster,
        disk, memory, history
<1>1. ASSUME NEW j \in Jobs, NEW s \in Specs, Dispatch(j, s)
      PROVE  TypeOK'
  BY <1>1 DEF Dispatch
<1>2. ASSUME NEW j \in Jobs, NEW s \in Specs, TaskEnds(j, s) \/ Reschedule(j, s)
      PROVE  TypeOK'
  <2>1. CASE TaskEnds(j, s)
    BY <2>1 DEF TaskEnds
  <2>2. CASE Reschedule(j, s)
    BY <2>2 DEF Reschedule
  <2> QED  BY <1>2, <2>1, <2>2
<1>3. ASSUME NEW j \in Jobs, Purge(j)
      PROVE  TypeOK'
  BY <1>3 DEF Purge
<1>4. ASSUME NEW j \in Jobs, EntersEqw(j)
      PROVE  TypeOK'
  BY <1>4 DEF EntersEqw
<1>5. CASE PullFresh
  BY <1>5 DEF PullFresh
<1>6. CASE PullCached
  BY <1>6 DEF PullCached
<1>7. CASE PullFail
  <2>1. CASE pullFails + 1 >= MaxErrors
    BY <1>7, <2>1, DiesType DEF PullFail
  <2>2. CASE ~(pullFails + 1 >= MaxErrors)
    BY <1>7, <2>2 DEF PullFail
  <2> QED  BY <2>1, <2>2
<1>8. CASE Diff
  BY <1>8 DEF Diff, Abandon, PendingSpecs
<1>9. CASE Qstat
  BY <1>9 DEF Qstat, Decide
<1>10. CASE QstatEqwExpired
  <2>1. PICK E \in SUBSET Jobs, D \in SUBSET Jobs :
          /\ D \subseteq E
          /\ tasks' = [j \in Jobs |-> IF j \in D THEN [s \in Specs |-> "-"] ELSE tasks[j]]
          /\ acct'  = [j \in Jobs |-> IF j \in D \cap lastParts
                                      THEN acct[j] \cup Running(j) ELSE acct[j]]
          /\ ran'   = ran \cup UNION {Running(j) : j \in D}
          /\ stuck' = stuck \cup (E \ D)
          /\ Decide(Alive \ E)
    BY <1>10 DEF QstatEqwExpired
  <2>2. \A j \in Jobs : Running(j) \subseteq Specs
    BY DEF Running
  <2>3. /\ tasks' \in [Jobs -> [Specs -> TaskStates]]
        /\ acct' \in [Jobs -> SUBSET Specs]
        /\ ran' \in SUBSET Specs
        /\ stuck' \in SUBSET Jobs
    BY <2>1, <2>2
  <2>4. /\ owed' \in SUBSET Specs /\ pend' \in SUBSET Specs
        /\ opsFails' \in 0 .. MaxErrors
        /\ pc' \in Steps
    BY <2>1 DEF Decide
  <2> QED  BY <1>10, <2>3, <2>4 DEF QstatEqwExpired
<1>11. CASE QstatFail
  <2>1. CASE opsFails + 1 >= MaxErrors
    BY <1>11, <2>1, DiesType DEF QstatFail, OpsFail
  <2>2. CASE ~(opsFails + 1 >= MaxErrors)
    BY <1>11, <2>2 DEF QstatFail, OpsFail
  <2> QED  BY <2>1, <2>2
<1>12. CASE Requeue
  <2>1. PICK e \in Evidence : /\ drain' = Kind(e)
                              /\ \/ NoTrace(e) /\ RequeueUnbumped
                                 \/ ~NoTrace(e) /\ RequeueBumped(e)
    BY <1>12 DEF Requeue
  <2>2. drain' \in Drains
    BY <2>1 DEF Kind
  <2>3. CASE NoTrace(e) /\ RequeueUnbumped
    BY <1>12, <2>2, <2>3 DEF Requeue, RequeueUnbumped, NoTrace
  <2>4. CASE RequeueBumped(e)
    <3>1. retries' \in [Specs -> 0 .. MaxRetries]
      BY <2>4 DEF RequeueBumped, Dead
    <3>2. Dead(e) \subseteq Specs
      BY DEF Dead, Bumped
    <3> QED  BY <1>12, <2>2, <2>4, <3>1, <3>2 DEF Requeue, RequeueBumped, Abandon
  <2> QED  BY <2>1, <2>3, <2>4
<1>13. CASE SubmitNothing
  BY <1>13 DEF SubmitNothing
<1>21. CASE RequeueFail
  <2>1. drain' \in Drains
    BY <1>21 DEF RequeueFail, Kind
  <2>2. ledger' \in [Specs -> Reasons]
    BY <1>21 DEF RequeueFail, Abandon
  <2>3. CASE opsFails + 1 >= MaxErrors
    BY <1>21, <2>1, <2>2, <2>3, DiesType DEF RequeueFail, OpsFail
  <2>4. CASE ~(opsFails + 1 >= MaxErrors)
    BY <1>21, <2>1, <2>2, <2>4 DEF RequeueFail, OpsFail
  <2> QED  BY <2>3, <2>4
<1>14. ASSUME NEW part \in [Free -> SUBSET PendingSpecs(owed)], Enqueue(part)
       PROVE  /\ tasks' \in [Jobs -> [Specs -> TaskStates]]
              /\ acct' \in [Jobs -> SUBSET Specs]
              /\ stuck' \in SUBSET Jobs
  BY <1>14 DEF Enqueue
<1>15. CASE SubmitOk
  <2>1. /\ tasks' \in [Jobs -> [Specs -> TaskStates]]
        /\ acct' \in [Jobs -> SUBSET Specs]
        /\ stuck' \in SUBSET Jobs
    BY <1>14, <1>15 DEF SubmitOk
  <2>2. lastParts' \in SUBSET Jobs
    BY <1>15 DEF SubmitOk, Free
  <2> QED  BY <1>15, <2>1, <2>2 DEF SubmitOk
<1>16. CASE SubmitFail
  <2>1. /\ tasks' \in [Jobs -> [Specs -> TaskStates]]
        /\ acct' \in [Jobs -> SUBSET Specs]
        /\ stuck' \in SUBSET Jobs
    BY <1>14, <1>16 DEF SubmitFail
  <2>2. CASE opsFails + 1 >= MaxErrors
    BY <1>16, <2>1, <2>2, DiesType DEF SubmitFail, OpsFail
  <2>3. CASE ~(opsFails + 1 >= MaxErrors)
    BY <1>16, <2>1, <2>3 DEF SubmitFail, OpsFail, PendingSpecs
  <2> QED  BY <2>2, <2>3
<1>17. CASE OtherPull
  BY <1>17 DEF OtherPull
<1>18. CASE Crash
  <2>1. drain' \in Drains
    BY <1>18 DEF Crash, Kind
  <2>2. ledger' \in [Specs -> Reasons]
    BY <1>18 DEF Crash, Abandon
  <2> QED  BY <1>18, <2>1, <2>2, DiesType DEF Crash
<1>19. CASE Restart
  BY <1>19 DEF Restart, Ledgered
<1>20. CASE UNCHANGED vars
  BY <1>20 DEF vars
<1> QED  BY <1>1, <1>2, <1>3, <1>4, <1>5, <1>6, <1>7, <1>8, <1>9, <1>10, <1>11, <1>12,
            <1>13, <1>15, <1>16, <1>17, <1>18, <1>19, <1>20, <1>21 DEF Next, Cluster, Driver

\* Every variable keeps the type the code gives it.
THEOREM TypeCorrect == Spec => []TypeOK
  BY InitType, NextType, PTL DEF Spec

--------------------------------------------------------------------------------
(***************************************************************************)
(* The inductive invariant.                                                *)
(***************************************************************************)

LEMMA InitIInv == Init => IInv
<1> SUFFICES ASSUME Init PROVE IInv
  OBVIOUS
<1>1. TypeOK
  BY InitType
<1>2. \A j \in Jobs : InQueue(j) = {}
  BY DEF Init, InQueue
<1>3. GuardInv /\ NoDoubleTraining
  BY <1>2 DEF GuardInv, NoDoubleTraining
<1>4. LedgerInv /\ MirrorInv /\ OwedInv /\ FreshInv /\ RowsInv
  BY DEF Init, LedgerInv, MirrorInv, OwedInv, FreshInv, RowsInv, Ledgered
<1> QED  BY <1>1, <1>3, <1>4 DEF IInv

\* No step of the cluster, and no qdel, puts a spec in an array.
LEMMA QueueShrinks ==
  ASSUME TypeOK, Cluster \/ QstatEqwExpired
  PROVE  \A j \in Jobs : InQueue(j)' \subseteq InQueue(j)
<1> USE DEF TypeOK, InQueue
<1>1. ASSUME NEW j \in Jobs, NEW s \in Specs,
             Dispatch(j, s) \/ TaskEnds(j, s) \/ Reschedule(j, s)
      PROVE  \A k \in Jobs : InQueue(k)' \subseteq InQueue(k)
  BY <1>1 DEF Dispatch, TaskEnds, Reschedule
<1>2. ASSUME NEW j \in Jobs, Purge(j) \/ EntersEqw(j)
      PROVE  \A k \in Jobs : InQueue(k)' \subseteq InQueue(k)
  BY <1>2 DEF Purge, EntersEqw, Waiting
<1>3. CASE QstatEqwExpired
  BY <1>3 DEF QstatEqwExpired
<1> QED  BY <1>1, <1>2, <1>3 DEF Cluster

\* What a step of the cluster leaves alone.
LEMMA ClusterFrame ==
  ASSUME Cluster
  PROVE  UNCHANGED <<stuck, bad, disk, pc, memory, starts, drain>>
BY DEF Cluster, Dispatch, TaskEnds, Reschedule, Purge, EntersEqw, history

LEMMA NextGuard ==
  ASSUME TypeOK, GuardInv, [Next]_vars
  PROVE  GuardInv'
<1> USE DEF TypeOK, GuardInv
<1>1. CASE Cluster
  BY <1>1, QueueShrinks, ClusterFrame
<1>2. CASE PullFresh \/ PullCached \/ PullFail \/ Diff
  BY <1>2 DEF PullFresh, PullCached, PullFail, Dies, Diff
<1>3. CASE Qstat
  BY <1>3 DEF Qstat, Decide, Alive, InQueue, cluster
<1>4. CASE QstatEqwExpired
  <2>1. PICK E \in SUBSET Jobs, D \in SUBSET Jobs :
          /\ D \subseteq E
          /\ tasks' = [j \in Jobs |-> IF j \in D THEN [s \in Specs |-> "-"] ELSE tasks[j]]
          /\ stuck' = stuck \cup (E \ D)
          /\ Decide(Alive \ E)
    BY <1>4 DEF QstatEqwExpired
  <2>2. ASSUME pc' \in {"requeue", "submit"}, NEW j \in Jobs, InQueue(j)' # {}
        PROVE  j \in stuck'
    <3>1. j \notin D
      BY <2>1, <2>2 DEF InQueue
    <3>2. j \in Alive
      BY <1>4, <2>2, QueueShrinks DEF Alive
    <3>3. Alive \ E = {}
      BY <2>1, <2>2 DEF Decide
    <3> QED  BY <2>1, <3>1, <3>2, <3>3
  <2> QED  BY <2>2
<1>5. CASE QstatFail
  BY <1>5 DEF QstatFail, OpsFail, Dies
<1>6. CASE Requeue \/ RequeueFail
  BY <1>6 DEF Requeue, RequeueFail, OpsFail, Dies, cluster, InQueue
<1>7. CASE SubmitNothing \/ SubmitOk \/ SubmitFail
  BY <1>7 DEF SubmitNothing, SubmitOk, SubmitFail, OpsFail, Dies
<1>8. CASE OtherPull \/ UNCHANGED vars
  BY <1>8 DEF OtherPull, vars, cluster, InQueue
<1>9. CASE Crash \/ Restart
  BY <1>9 DEF Crash, Dies, Restart
<1> QED  BY <1>1, <1>2, <1>3, <1>4, <1>5, <1>6, <1>7, <1>8, <1>9 DEF Next, Driver

LEMMA NextLedger ==
  ASSUME TypeOK, LedgerInv, [Next]_vars
  PROVE  LedgerInv'
<1> USE DEF TypeOK, LedgerInv
<1>1. CASE Cluster
  BY <1>1, ClusterFrame DEF disk, memory, Ledgered
<1>2. CASE PullFresh \/ PullCached \/ PullFail
  BY <1>2 DEF PullFresh, PullCached, PullFail, Dies, Ledgered, disk
<1>3. CASE Diff
  BY <1>3 DEF Diff, Abandon, Ledgered, PendingSpecs
<1>4. CASE Qstat \/ QstatEqwExpired \/ QstatFail
  BY <1>4 DEF Qstat, QstatEqwExpired, Decide, QstatFail, OpsFail, Dies, Ledgered, disk
<1>5. CASE Requeue
  <2>1. PICK e \in Evidence : RequeueUnbumped \/ RequeueBumped(e)
    BY <1>5 DEF Requeue
  <2>2. Dead(e) \subseteq Specs
    BY DEF Dead, Bumped
  <2>3. exhausted' \subseteq Ledgered' /\ (~LedgerMayFail => exhausted' = Ledgered')
    BY <1>5, <2>1, <2>2 DEF Requeue, RequeueUnbumped, RequeueBumped, Abandon, Ledgered
  <2>4. pc' # "down"
    BY <2>1 DEF RequeueUnbumped, RequeueBumped
  <2> QED  BY <2>3, <2>4
<1>9. CASE RequeueFail
  <2>1. Ledgered \subseteq Ledgered'
    BY <1>9 DEF RequeueFail, Abandon, Ledgered
  <2> QED  BY <1>9, <2>1 DEF RequeueFail, OpsFail, Dies
<1>6. CASE SubmitNothing \/ SubmitOk \/ SubmitFail
  BY <1>6 DEF SubmitNothing, SubmitOk, SubmitFail, OpsFail, Dies, Ledgered, disk
<1>7. CASE OtherPull \/ UNCHANGED vars
  BY <1>7 DEF OtherPull, vars, disk, memory, Ledgered
<1>8. CASE Crash \/ Restart
  BY <1>8 DEF Crash, Dies, Restart, Ledgered, disk
<1> QED  BY <1>1, <1>2, <1>3, <1>4, <1>5, <1>6, <1>7, <1>8, <1>9 DEF Next, Driver

LEMMA NextMirror ==
  ASSUME TypeOK, MirrorInv, [Next]_vars
  PROVE  MirrorInv'
<1> USE DEF TypeOK, MirrorInv, cluster, disk
<1>1. CASE Cluster
  BY <1>1 DEF Cluster, Dispatch, TaskEnds, Reschedule, Purge, EntersEqw
<1>2. CASE PullFresh \/ PullCached \/ PullFail \/ OtherPull
  BY <1>2 DEF PullFresh, PullCached, PullFail, OtherPull
<1>3. CASE Diff \/ Qstat \/ QstatEqwExpired \/ QstatFail \/ Requeue \/ RequeueFail
  BY <1>3 DEF Diff, Qstat, QstatEqwExpired, QstatFail, Requeue, RequeueFail
<1>4. CASE SubmitNothing \/ SubmitOk \/ SubmitFail \/ Crash \/ Restart
  BY <1>4 DEF SubmitNothing, SubmitOk, SubmitFail, Crash, Restart
<1>5. CASE UNCHANGED vars
  BY <1>5 DEF vars
<1> QED  BY <1>1, <1>2, <1>3, <1>4, <1>5 DEF Next, Driver

\* No step reopens a spec while the driver has its memory.
LEMMA OpenShrinks ==
  ASSUME TypeOK, MirrorInv, LedgerInv, [Next]_vars, pc' # "down", pc # "down"
  PROVE  Open' \subseteq Open
<1> USE DEF TypeOK, MirrorInv, Open, PendingSpecs, disk
<1>1. CASE Cluster
  BY <1>1, ClusterFrame DEF memory
<1>2. CASE PullFresh \/ PullCached \/ PullFail \/ OtherPull
  BY <1>2 DEF PullFresh, PullCached, PullFail, OtherPull, memory, Dies
<1>3. CASE Diff \/ Qstat \/ QstatEqwExpired \/ QstatFail
  BY <1>3 DEF Diff, Qstat, QstatEqwExpired, QstatFail, OpsFail, Dies
<1>4. CASE Requeue \/ RequeueFail
  BY <1>4 DEF Requeue, RequeueUnbumped, RequeueBumped, RequeueFail, OpsFail, Dies
<1>5. CASE SubmitNothing \/ SubmitOk \/ SubmitFail
  BY <1>5 DEF SubmitNothing, SubmitOk, SubmitFail, OpsFail, Dies
<1>6. CASE Crash \/ Restart \/ UNCHANGED vars
  BY <1>6 DEF Crash, Dies, Restart, vars, memory
<1> QED  BY <1>1, <1>2, <1>3, <1>4, <1>5, <1>6 DEF Next, Driver

LEMMA NextOwed ==
  ASSUME TypeOK, MirrorInv, LedgerInv, OwedInv, [Next]_vars
  PROVE  OwedInv'
<1> USE DEF TypeOK, OwedInv
<1>1. CASE pc' = "down"
  BY <1>1, NextLedger DEF LedgerInv
<1>2. CASE pc = "down" /\ pc' # "down"
  <2>1. Restart
    BY <1>2 DEF Next, Cluster, Dispatch, TaskEnds, Reschedule, Purge, EntersEqw,
       Driver, PullFresh,
       PullCached, PullFail, Diff, Qstat, QstatEqwExpired, QstatFail, Requeue, RequeueFail,
       SubmitNothing, SubmitOk, SubmitFail, OtherPull, Crash, vars
  <2> QED  BY <1>2, <2>1 DEF Restart, LedgerInv
<1>3. CASE pc # "down" /\ pc' # "down"
  <2>1. Open' \subseteq Open
    BY <1>3, OpenShrinks
  <2> USE <1>3, <2>1
  <2>2. CASE Cluster
    BY <2>2, ClusterFrame DEF memory
  <2>3. CASE PullFresh \/ PullCached \/ PullFail \/ OtherPull
    BY <2>3 DEF PullFresh, PullCached, PullFail, OtherPull, memory, Dies
  <2>4. CASE Diff
    <3>1. Open' = pend'
      BY <2>4 DEF Diff, Open, PendingSpecs
    <3>2. pc' = "qstat" => pend' # {}
      BY <2>4 DEF Diff
    <3>3. pc' \in {"returned", "qstat"} /\ owed' = owed
      BY <2>4 DEF Diff
    <3> QED  BY <3>1, <3>2, <3>3
  <2>5. CASE Qstat \/ QstatEqwExpired
    BY <2>5 DEF Qstat, QstatEqwExpired, Decide
  <2>6. CASE QstatFail
    BY <2>6 DEF QstatFail, OpsFail, Dies
  <2>7. CASE Requeue
    <3>1. PICK e \in Evidence : RequeueUnbumped \/ RequeueBumped(e)
      BY <2>7 DEF Requeue
    <3>2. CASE RequeueUnbumped
      BY <2>7, <3>2 DEF Requeue, RequeueUnbumped
    <3>3. CASE RequeueBumped(e)
      <4>1. Open' \subseteq owed'
        BY <2>7, <3>3 DEF Requeue, RequeueBumped, Open, PendingSpecs
      <4>2. pc' = "submit" => owed' # {}
        BY <3>3 DEF RequeueBumped
      <4>3. pc' \in {"pull", "submit"}
        BY <3>3 DEF RequeueBumped
      <4> QED  BY <4>1, <4>2, <4>3
    <3> QED  BY <3>1, <3>2, <3>3
  <2>11. CASE RequeueFail
    BY <2>11 DEF RequeueFail, OpsFail, Dies
  <2>8. CASE SubmitNothing \/ SubmitOk
    BY <2>8 DEF SubmitNothing, SubmitOk
  <2>9. CASE SubmitFail
    <3>1. Open \subseteq PendingSpecs(owed)
      BY <2>9 DEF SubmitFail, Open, PendingSpecs
    <3> QED  BY <2>9, <3>1 DEF SubmitFail, OpsFail, Dies
  <2>10. CASE Crash \/ Restart \/ UNCHANGED vars
    BY <2>10 DEF Crash, Dies, Restart, vars, memory
  <2> QED  BY <2>2, <2>3, <2>4, <2>5, <2>6, <2>7, <2>8, <2>9, <2>10, <2>11
           DEF Next, Driver
<1> QED  BY <1>1, <1>2, <1>3

LEMMA NextFresh ==
  ASSUME TypeOK, LedgerInv, FreshInv, [Next]_vars
  PROVE  FreshInv'
<1> USE DEF TypeOK, FreshInv
<1>1. CASE Cluster
  BY <1>1, ClusterFrame DEF memory, disk
<1>2. CASE PullFresh \/ PullCached \/ PullFail \/ OtherPull
  BY <1>2 DEF PullFresh, PullCached, PullFail, OtherPull, memory, disk, Dies
<1>3. CASE Diff
  <2>1. ~LedgerMayFail => \A s \in owed' : ledger'[s] # "retries_exhausted"
    BY <1>3 DEF Diff, Abandon, PendingSpecs
  <2>2. ~LedgerMayFail => \A s \in pend' : ledger'[s] = "none"
    BY <1>3 DEF Diff, Abandon, PendingSpecs, LedgerInv, Ledgered
  <2> QED  BY <2>1, <2>2
<1>4. CASE Qstat \/ QstatEqwExpired
  BY <1>4 DEF Qstat, QstatEqwExpired, Decide, disk
<1>5. CASE QstatFail
  BY <1>5 DEF QstatFail, OpsFail, Dies, disk
<1>6. CASE Requeue
  <2>1. PICK e \in Evidence : RequeueUnbumped \/ RequeueBumped(e)
    BY <1>6 DEF Requeue
  <2>2. CASE RequeueUnbumped
    BY <1>6, <2>2 DEF Requeue, RequeueUnbumped
  <2>3. CASE RequeueBumped(e)
    <3>1. ~LedgerMayFail => \A s \in owed' : ledger'[s] # "retries_exhausted"
      BY <1>6, <2>3 DEF Requeue, RequeueBumped, Abandon
    <3>2. pc' \in {"pull", "submit"}
      BY <2>3 DEF RequeueBumped
    <3> QED  BY <3>1, <3>2
  <2> QED  BY <2>1, <2>2, <2>3
<1>12. CASE RequeueFail
  BY <1>12 DEF RequeueFail
<1>7. CASE SubmitNothing \/ SubmitOk
  BY <1>7 DEF SubmitNothing, SubmitOk, disk
<1>8. CASE SubmitFail
  BY <1>8 DEF SubmitFail, OpsFail, Dies, disk, PendingSpecs
<1>9. CASE Crash
  BY <1>9 DEF Crash, Dies
<1>10. CASE Restart
  BY <1>10 DEF Restart, LedgerInv
<1>11. CASE UNCHANGED vars
  BY <1>11 DEF vars, memory, disk
<1> QED  BY <1>1, <1>2, <1>3, <1>4, <1>5, <1>6, <1>7, <1>8, <1>9, <1>10, <1>11,
            <1>12 DEF Next, Driver

LEMMA NextRows ==
  ASSUME TypeOK, MirrorInv, LedgerInv, OwedInv, RowsInv, [Next]_vars
  PROVE  RowsInv'
<1> USE DEF TypeOK, RowsInv
<1>1. CASE pc' = "down"
  BY <1>1, NextLedger DEF LedgerInv
<1>2. CASE pc = "down"
  <2>1. lastParts = {}
    BY <1>2 DEF LedgerInv
  <2>2. lastParts' = {}
    BY <1>2, <2>1 DEF Next, Cluster, Dispatch, TaskEnds, Reschedule, Purge, EntersEqw,
       Driver, PullFresh,
       PullCached, PullFail, Diff, Qstat, QstatEqwExpired, QstatFail, Requeue, RequeueFail,
       SubmitNothing, SubmitOk, SubmitFail, OtherPull, Crash, Restart, vars, memory
  <2> QED  BY <2>2
<1>3. CASE pc # "down" /\ pc' # "down"
  <2>1. Open' \subseteq Open
    BY <1>3, OpenShrinks
  <2> USE <1>3, <2>1
  <2>2. CASE \E j \in Jobs, s \in Specs : Dispatch(j, s) \/ Reschedule(j, s)
    BY <2>2 DEF Dispatch, Reschedule, memory, history
  <2>3. ASSUME NEW j \in Jobs, NEW s \in Specs, TaskEnds(j, s)
        PROVE  RowsInv'
    BY <2>3 DEF TaskEnds, memory
  <2>4. CASE \E j \in Jobs : Purge(j) \/ EntersEqw(j)
    BY <2>4 DEF Purge, EntersEqw, memory, history
  <2>5. CASE PullFresh \/ PullCached
    BY <2>5 DEF PullFresh, PullCached, cluster, history
  <2>6. CASE PullFail \/ OtherPull
    BY <2>6 DEF PullFail, OtherPull, Dies, cluster, memory, history
  <2>7. CASE Diff
    <3>1. Open = {} => pc' = "returned"
      BY <2>7 DEF Diff, Open
    <3> QED  BY <2>7, <3>1 DEF Diff, cluster, history
  <2>8. CASE Qstat
    BY <2>8 DEF Qstat, Decide, cluster, history, OwedInv
  <2>9. CASE QstatEqwExpired
    <3>1. PICK E \in SUBSET Jobs, D \in SUBSET Jobs :
            /\ acct'  = [j \in Jobs |-> IF j \in D \cap lastParts
                                        THEN acct[j] \cup Running(j) ELSE acct[j]]
            /\ ran'   = ran \cup UNION {Running(j) : j \in D}
            /\ Decide(Alive \ E)
      BY <2>9 DEF QstatEqwExpired
    <3>2. owed' = {} => owed = {} /\ pc = "qstat"
      BY <2>9, <3>1 DEF QstatEqwExpired, Decide, OwedInv
    <3>3. ASSUME \A j \in lastParts : acct[j] \subseteq ran
          PROVE  \A j \in lastParts : acct'[j] \subseteq ran'
      BY <3>1, <3>3
    <3> QED  BY <2>9, <3>2, <3>3 DEF QstatEqwExpired
  <2>10. CASE QstatFail
    BY <2>10 DEF QstatFail, OpsFail, Dies, cluster, OwedInv
  <2>11. CASE Requeue
    <3>1. PICK e \in Evidence : RequeueUnbumped \/ RequeueBumped(e)
      BY <2>11 DEF Requeue
    <3>2. CASE RequeueUnbumped
      BY <2>11, <3>2 DEF Requeue, RequeueUnbumped, OwedInv
    <3>3. CASE RequeueBumped(e)
      <4>1. owed' = {} => Open' = {} /\ pc' = "pull"
        BY <2>11, <3>3 DEF Requeue, RequeueBumped, Open, PendingSpecs, OwedInv
      <4> QED  BY <4>1
    <3> QED  BY <3>1, <3>2, <3>3
  <2>17. CASE RequeueFail
    BY <2>17 DEF RequeueFail, OpsFail, Dies, cluster, OwedInv
  <2>12. CASE SubmitNothing
    <3>1. Open = {}
      BY <2>12 DEF SubmitNothing, Open, PendingSpecs, OwedInv
    <3> QED  BY <2>12, <3>1 DEF SubmitNothing
  <2>13. CASE SubmitOk
    BY <2>13 DEF SubmitOk, Enqueue, Free
  <2>14. CASE SubmitFail
    BY <2>14 DEF SubmitFail, OpsFail, Dies
  <2>15. CASE Crash \/ Restart
    BY <2>15 DEF Crash, Dies, Restart
  <2>16. CASE UNCHANGED vars
    BY <2>16 DEF vars, memory, cluster, history
  <2> QED  BY <2>2, <2>3, <2>4, <2>5, <2>6, <2>7, <2>8, <2>9, <2>10, <2>11, <2>12, <2>13,
              <2>14, <2>15, <2>16, <2>17 DEF Next, Cluster, Driver
<1> QED  BY <1>1, <1>2, <1>3

\* The arrays of one round share no spec, and the round is submitted only when
\* every array left in the queue is stuck.
LEMMA EnqueueKeepsApart ==
  ASSUME TypeOK, GuardInv, NoDoubleTraining, pc = "submit",
         NEW part \in [Free -> SUBSET PendingSpecs(owed)],
         IsLayout(part, PendingSpecs(owed)), Enqueue(part)
  PROVE  NoDoubleTraining'
<1> DEFINE new == {j \in Free : part[j] # {}}
<1>1. \A j \in Jobs : j \in new => InQueue(j)' = part[j] \cap Specs
  BY DEF Enqueue, InQueue
<1>2. \A j \in Jobs : j \notin new => InQueue(j)' = InQueue(j)
  BY DEF Enqueue, InQueue
<1>3. stuck' = stuck \ new
  BY DEF Enqueue
<1>4. ASSUME NEW j \in Jobs, NEW k \in Jobs, j # k, InQueue(j)' \cap InQueue(k)' # {}
      PROVE  j \in stuck' \/ k \in stuck'
  <2>1. CASE j \in new /\ k \in new
    <3>1. part[j] \cap part[k] = {}
      BY <1>4, <2>1 DEF IsLayout
    <3> QED  BY <1>1, <1>4, <2>1, <3>1
  <2>2. CASE j \notin new
    <3>1. InQueue(j) # {}
      BY <1>2, <1>4, <2>2
    <3> QED  BY <1>3, <2>2, <3>1 DEF GuardInv
  <2>3. CASE k \notin new
    <3>1. InQueue(k) # {}
      BY <1>2, <1>4, <2>3
    <3> QED  BY <1>3, <2>3, <3>1 DEF GuardInv
  <2> QED  BY <2>1, <2>2, <2>3
<1> QED  BY <1>4 DEF NoDoubleTraining

LEMMA NextNoDouble ==
  ASSUME TypeOK, GuardInv, NoDoubleTraining, [Next]_vars
  PROVE  NoDoubleTraining'
<1>1. CASE Cluster
  <2>1. stuck' = stuck
    BY <1>1, ClusterFrame
  <2> QED  BY <1>1, <2>1, QueueShrinks DEF NoDoubleTraining
<1>2. CASE QstatEqwExpired
  <2>1. stuck \subseteq stuck'
    BY <1>2 DEF QstatEqwExpired
  <2> QED  BY <1>2, <2>1, QueueShrinks DEF NoDoubleTraining
<1>3. CASE SubmitOk
  BY <1>3, EnqueueKeepsApart DEF SubmitOk
<1>4. CASE SubmitFail
  BY <1>4, EnqueueKeepsApart DEF SubmitFail
<1>5. CASE UNCHANGED <<tasks, stuck>>
  BY <1>5 DEF NoDoubleTraining, InQueue
<1>6. CASE PullFresh \/ PullCached \/ PullFail \/ Diff \/ Qstat \/ QstatFail
  BY <1>5, <1>6 DEF PullFresh, PullCached, PullFail, Diff, Qstat, QstatFail, cluster
<1>7. CASE \/ Requeue \/ RequeueFail \/ SubmitNothing
           \/ OtherPull \/ Crash \/ Restart \/ UNCHANGED vars
  BY <1>5, <1>7 DEF Requeue, RequeueFail, SubmitNothing, OtherPull, Crash, Restart, vars,
     cluster
<1> QED  BY <1>1, <1>2, <1>3, <1>4, <1>6, <1>7 DEF Next, Driver

LEMMA NextIInv == IInv /\ [Next]_vars => IInv'
BY NextType, NextGuard, NextLedger, NextMirror, NextOwed, NextFresh, NextRows,
   NextNoDouble DEF IInv

\* The inductive invariant holds of every state.
THEOREM Inductive == Spec => []IInv
  BY InitIInv, NextIInv, PTL DEF Spec

\* The double-submit guard: no two arrays in the queue hold the same spec,
\* unless the qdel of one of them failed.
THEOREM NeverDoubleTrains == Spec => []NoDoubleTraining
<1>1. IInv => NoDoubleTraining
  BY DEF IInv
<1> QED  BY <1>1, Inductive, PTL

--------------------------------------------------------------------------------
(***************************************************************************)
(* The action properties.                                                  *)
(***************************************************************************)

\* What a drain bumps was run, or the drain could not tell.
LEMMA BumpedRan ==
  ASSUME IInv, pc = "requeue", NEW e \in Evidence, ~NoTrace(e),
         drain' = Kind(e), NEW s \in Bumped(e)
  PROVE  \/ s \in ran
         \/ drain' = "unnamed"
         \/ drain' = "nothing" /\ noTrace >= MaxNoTrace
<1>1. CASE e.rows = {}
  <2>1. drain' = "nothing"
    BY <1>1 DEF Kind
  <2>2. noTrace >= MaxNoTrace
    BY <1>1, ConstantsAssumption DEF NoTrace, IInv, TypeOK
  <2> QED  BY <2>1, <2>2
<1>2. CASE e.rows # {} /\ e.named = {}
  BY <1>2 DEF Kind
<1>3. CASE e.named # {}
  <2>1. \A j \in lastParts : acct[j] \subseteq ran
    BY DEF IInv, RowsInv, OwedInv
  <2>2. e.named \subseteq UNION {acct[j] : j \in lastParts}
    BY DEF Evidence
  <2> QED  BY <1>3, <2>1, <2>2 DEF Bumped
<1> QED  BY <1>1, <1>2, <1>3

\* Only a drain charges, and only what it bumps.
LEMMA OnlyDrainsCharge ==
  ASSUME IInv, [Next]_vars, NEW s \in Specs, Charged(s)
  PROVE  /\ pc = "requeue"
         /\ \E e \in Evidence : ~NoTrace(e) /\ drain' = Kind(e) /\ s \in Bumped(e)
<1> USE DEF Charged
<1> TypeOK
  BY DEF IInv
<1>1. CASE Cluster
  BY <1>1, ClusterFrame DEF memory, disk, TypeOK
<1>2. ASSUME Dies
      PROVE  ~(retries'[s] > retries[s])
  BY <1>2, ConstantsAssumption DEF Dies, TypeOK
<1>3. CASE PullFresh \/ PullCached \/ PullFail \/ OtherPull
  BY <1>2, <1>3 DEF PullFresh, PullCached, PullFail, OtherPull, disk, memory, TypeOK
<1>4. CASE Diff
  BY <1>4 DEF Diff, Abandon, TypeOK
<1>5. CASE Qstat \/ QstatEqwExpired \/ QstatFail
  BY <1>2, <1>5 DEF Qstat, QstatEqwExpired, QstatFail, OpsFail, disk, TypeOK
<1>6. CASE Requeue
  <2>1. PICK e \in Evidence : /\ drain' = Kind(e)
                              /\ \/ NoTrace(e) /\ RequeueUnbumped
                                 \/ ~NoTrace(e) /\ RequeueBumped(e)
    BY <1>6 DEF Requeue
  <2>2. CASE NoTrace(e) /\ RequeueUnbumped
    BY <2>2 DEF RequeueUnbumped, TypeOK
  <2>3. CASE ~NoTrace(e) /\ RequeueBumped(e)
    <3>1. s \in Bumped(e)
      BY <2>3 DEF RequeueBumped, Abandon, Dead, TypeOK
    <3> QED  BY <1>6, <2>1, <2>3, <3>1 DEF Requeue
  <2> QED  BY <2>1, <2>2, <2>3
<1>7. CASE SubmitNothing \/ SubmitOk \/ SubmitFail
  BY <1>2, <1>7 DEF SubmitNothing, SubmitOk, SubmitFail, OpsFail, disk, TypeOK
<1>8. CASE Restart \/ UNCHANGED vars
  BY <1>8 DEF Restart, vars, disk, memory, TypeOK
<1>10. CASE RequeueFail
  <2>1. ~(retries'[s] > retries[s])
    BY <1>2, <1>10 DEF RequeueFail, OpsFail, TypeOK
  <2>2. PICK e \in Evidence : \E S \in SUBSET Dead(e) :
          /\ pc = "requeue"
          /\ ~NoTrace(e)
          /\ drain' = Kind(e)
          /\ Abandon(S, "retries_exhausted")
    BY <1>10 DEF RequeueFail
  <2>3. s \in Bumped(e)
    BY <2>1, <2>2 DEF Abandon, Dead
  <2> QED  BY <2>2, <2>3
<1>9. CASE Crash
  <2>1. ~(retries'[s] > retries[s])
    BY <1>2, <1>9 DEF Crash
  <2>2. PICK e \in Evidence : \E S \in SUBSET Dead(e) :
          /\ pc = "requeue"
          /\ ~NoTrace(e)
          /\ drain' = Kind(e)
          /\ Abandon(S, "retries_exhausted")
    BY <1>9, <2>1 DEF Crash, Abandon
  <2>3. s \in Bumped(e)
    BY <2>1, <2>2 DEF Abandon, Dead
  <2> QED  BY <2>2, <2>3
<1> QED  BY <1>1, <1>3, <1>4, <1>5, <1>6, <1>7, <1>8, <1>9, <1>10 DEF Next, Driver

\* Every retry is charged to an attempt of the spec itself that no earlier
\* drain has charged, but for the drains that cannot tell which specs ran.
THEOREM RetriesAreEarned == Spec => ChargedPerAttempt
<1>1. ASSUME IInv, [Next]_vars
      PROVE  [\A s \in Specs :
                 Charged(s) => \/ s \in ran
                               \/ drain' = "unnamed"
                               \/ drain' = "nothing" /\ noTrace >= MaxNoTrace]_vars
  BY <1>1, OnlyDrainsCharge, BumpedRan
<1> QED  BY <1>1, Inductive, PTL DEF Spec, ChargedPerAttempt

\* Only a submission puts a spec in the queue, and only an owed one that the
\* mirror lacks.
LEMMA EntersOwed ==
  ASSUME TypeOK, [Next]_vars, NEW j \in Jobs, NEW s \in Specs,
         tasks[j][s] = "-", tasks'[j][s] = "qw"
  PROVE  s \in PendingSpecs(owed)
<1> USE DEF TypeOK, cluster
<1>1. CASE Cluster
  BY <1>1, QueueShrinks DEF InQueue
<1>2. CASE QstatEqwExpired
  BY <1>2, QueueShrinks DEF InQueue
<1>3. CASE SubmitOk \/ SubmitFail
  BY <1>3 DEF SubmitOk, SubmitFail, Enqueue
<1>4. CASE PullFresh \/ PullCached \/ PullFail \/ Diff \/ Qstat \/ QstatFail
  BY <1>4 DEF PullFresh, PullCached, PullFail, Diff, Qstat, QstatFail
<1>5. CASE \/ Requeue \/ RequeueFail \/ SubmitNothing
           \/ OtherPull \/ Crash \/ Restart \/ UNCHANGED vars
  BY <1>5 DEF Requeue, RequeueFail, SubmitNothing, OtherPull, Crash, Restart, vars
<1> QED  BY <1>1, <1>2, <1>3, <1>4, <1>5 DEF Next, Driver

\* A spec abandoned for exhausted retries, or known to be archived, never
\* enters the queue again, across any number of crashes, if no append to the
\* ledger fails.
THEOREM ExhaustedNeverReturns ==
  ASSUME ~LedgerMayFail
  PROVE  Spec => ExhaustedStaysOut
<1>1. ASSUME IInv, [Next]_vars
      PROVE  [\A j \in Jobs, s \in Specs :
                tasks[j][s] = "-" /\ tasks'[j][s] = "qw"
                => ledger[s] # "retries_exhausted" /\ s \notin mirror]_vars
  BY <1>1, EntersOwed DEF IInv, FreshInv, PendingSpecs
<1> QED  BY <1>1, Inductive, PTL DEF Spec, ExhaustedStaysOut

--------------------------------------------------------------------------------
(***************************************************************************)
(* The loop implements BatchOutcome.                                       *)
(***************************************************************************)

\* Neither the mirror nor the ledger ever loses an entry.
LEMMA DiskGrows ==
  ASSUME IInv, [Next]_vars
  PROVE  mirror \subseteq mirror' /\ Ledgered \subseteq Ledgered'
<1> TypeOK /\ MirrorInv
  BY DEF IInv
<1> USE DEF TypeOK, MirrorInv, disk, Ledgered, Abandon
<1>1. CASE Cluster
  BY <1>1, ClusterFrame
<1>2. CASE PullFresh \/ PullCached \/ PullFail \/ OtherPull \/ UNCHANGED vars
  BY <1>2 DEF PullFresh, PullCached, PullFail, OtherPull, vars
<1>3. CASE Diff \/ Qstat \/ QstatEqwExpired \/ QstatFail
  BY <1>3 DEF Diff, Qstat, QstatEqwExpired, QstatFail
<1>4. CASE Requeue \/ RequeueFail
  BY <1>4 DEF Requeue, RequeueUnbumped, RequeueBumped, RequeueFail
<1>5. CASE SubmitNothing \/ SubmitOk \/ SubmitFail \/ Crash \/ Restart
  BY <1>5 DEF SubmitNothing, SubmitOk, SubmitFail, Crash, Restart
<1> QED  BY <1>1, <1>2, <1>3, <1>4, <1>5 DEF Next, Driver

\* The loop returns from the diff, with nothing left open.
LEMMA ReturnsFromDiff ==
  ASSUME ~LedgerMayFail, IInv, [Next]_vars, pc # "returned", pc' = "returned"
  PROVE  /\ mirror' \cup Ledgered' = Specs
         /\ exhausted' = Ledgered'
<1> TypeOK /\ LedgerInv /\ LedgerInv'
  BY NextIInv DEF IInv
<1>1. Diff
  BY ClusterFrame DEF Next, Driver, PullFresh, PullCached, PullFail, Qstat, QstatEqwExpired,
     Decide, QstatFail, OpsFail, Requeue, RequeueUnbumped, RequeueBumped, RequeueFail,
     SubmitNothing, SubmitOk, SubmitFail, Dies, OtherPull, Crash, Restart, vars
<1>2. exhausted' = Ledgered'
  BY DEF LedgerInv
<1>3. Specs \subseteq mirror' \cup exhausted'
  BY <1>1 DEF Diff, PendingSpecs
<1>4. mirror' \subseteq Specs /\ Ledgered' \subseteq Specs
  BY <1>1 DEF Diff, TypeOK, Ledgered
<1> QED  BY <1>2, <1>3, <1>4

\* After the return only the cluster and other pulls move.
LEMMA AfterReturn ==
  ASSUME IInv, [Next]_vars, pc = "returned"
  PROVE  UNCHANGED <<ledger, pc, exhausted>>
<1>1. CASE Cluster
  BY <1>1, ClusterFrame DEF disk, memory
<1>2. CASE OtherPull \/ UNCHANGED vars
  BY <1>2 DEF OtherPull, vars, disk, memory
<1> QED  BY <1>1, <1>2 DEF Next, Driver, PullFresh, PullCached, PullFail, Diff, Qstat,
     QstatEqwExpired, QstatFail, Requeue, RequeueFail, SubmitNothing, SubmitOk, SubmitFail,
     Crash, Restart

\* Whatever the queue, the transport and the crashes do, the caller sees
\* BatchOutcome: specs are settled for good, and the summary is returned once,
\* when nothing is open, with ok set exactly when nothing was abandoned, if no
\* append to the ledger fails.
THEOREM LoopKeepsPromise ==
  ASSUME ~LedgerMayFail
  PROVE  Spec => KeepsPromise
<1> DEFINE verd == IF pc # "returned" THEN "running"
                   ELSE IF exhausted = {} THEN "ok" ELSE "incomplete"
<1>1. Init => Outcome!Init
  BY DEF Init, Outcome!Init, Ledgered
<1>2. ASSUME IInv, [Next]_vars
      PROVE  [Outcome!Next]_(Outcome!outcome)
  <2>1. mirror \subseteq mirror' /\ Ledgered \subseteq Ledgered'
    BY <1>2, DiskGrows
  <2>2. mirror' \in SUBSET Specs /\ Ledgered' \in SUBSET Specs
    BY <1>2, NextIInv DEF IInv, TypeOK, Ledgered
  <2>3. CASE pc # "returned" /\ pc' # "returned"
    BY <2>1, <2>2, <2>3 DEF Outcome!Next, Outcome!Settle
  <2>4. CASE pc # "returned" /\ pc' = "returned"
    <3>1. mirror' \cup Ledgered' = Specs /\ exhausted' = Ledgered'
      BY <1>2, <2>4, ReturnsFromDiff
    <3> QED  BY <2>1, <2>2, <2>4, <3>1 DEF Outcome!Next, Outcome!Settle
  <2>5. CASE pc = "returned"
    <3>1. UNCHANGED <<ledger, pc, exhausted>>
      BY <1>2, <2>5, AfterReturn
    <3>2. Ledgered' = Ledgered
      BY <3>1 DEF Ledgered
    <3> QED  BY <2>1, <2>2, <2>5, <3>1, <3>2 DEF Outcome!Next, Outcome!Late
  <2> QED  BY <2>3, <2>4, <2>5
<1> QED  BY <1>1, <1>2, Inductive, PTL DEF Spec, KeepsPromise, Outcome!Spec
================================================================================
