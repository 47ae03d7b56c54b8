------------------------------ MODULE BatchDriver ------------------------------
(***************************************************************************)
(* One cluster batch driver, src/cluster/driver.py: run_batch's loop over  *)
(* the scheduler's queue, the remote archive, the local mirror of it and   *)
(* the permanent ledger.  The driver owns no state that must survive it:   *)
(* a crash loses its memory and run_batch() is called again.               *)
(*                                                                         *)
(* Three places hold the truth and move on their own:                      *)
(*   cluster  tasks, acct, stuck, archived, markers (jobs run and finish)  *)
(*   disk     mirror, mmarkers, ledger              (survive the driver)   *)
(*   memory   every other variable                  (lost with it)         *)
(* A cycle of the loop is the steps pull, diff, qstat, requeue, submit;    *)
(* jobs, purges and the pulls of other lines happen between any two.       *)
(***************************************************************************)
EXTENDS Naturals, FiniteSets

CONSTANTS
    Specs,        \* the run_ids of flat_specs
    Jobs,         \* array slots of the queue (a bound: a freed slot is reused)
    ChunkTasks,   \* chunk_tasks: specs per array of a round
    MaxRetries,   \* ledger.MAX_RETRIES
    MaxNoTrace,   \* drains without a qacct trace tolerated in a row
    MaxErrors,    \* max_consecutive_errors
    SharedPull,   \* the pull is campaign.shared_pull and the mirror is shared
    QdelMayFail,  \* the best-effort qdel of an Eqw array may fail
    LedgerMayFail, \* an append to the ledger may fail (OSError) inside a drain
    MaxStarts     \* bound on the number of run_batch() calls

ASSUME ConstantsAssumption ==
    /\ ChunkTasks \in Nat \ {0}
    /\ MaxRetries \in Nat
    /\ MaxNoTrace \in Nat
    /\ MaxErrors \in Nat \ {0}
    /\ MaxStarts \in Nat \ {0}
    /\ SharedPull \in BOOLEAN
    /\ QdelMayFail \in BOOLEAN
    /\ LedgerMayFail \in BOOLEAN

VARIABLES
    tasks,        \* tasks[j][s]: the task of array j that trains s ("-": none left)
    acct,         \* acct[j]: specs of a last part j whose task has a qacct row
    stuck,        \* arrays whose qdel failed
    archived,     \* run_ids with a committed record on the cluster
    markers,      \* run_ids with a permanent reject marker on the cluster
    bad,          \* specs whose source the node's validation always rejects
    mirror,       \* run_ids with a record in the local mirror
    mmarkers,     \* run_ids with a permanent reject marker in the mirror
    ledger,       \* the permanent ledger: why each spec was abandoned
    pc,           \* the step of the loop the driver is about to take
    exhausted,    \* run_ids abandoned; live is Specs \ exhausted
    retries,      \* _cluster_retries of each spec
    pend,         \* pending, from the diff to the end of the cycle
    owed,         \* pending_submit ({} is None)
    aliveSeen,    \* alive_seen
    noTrace,      \* evidenceless_drains
    dwell,        \* eqw_since is set
    lastParts,    \* last_parts
    pullFails,    \* pull_failures
    opsFails,     \* ops_failures
    starts,       \* number of run_batch() calls made
    ran,          \* history: specs with a qacct row no drain has charged yet
    drain         \* history: what the drain of this cycle learnt from qacct

cluster == <<tasks, acct, stuck, archived, markers, bad>>
disk    == <<mirror, mmarkers, ledger>>
memory  == <<exhausted, retries, pend, owed, aliveSeen, noTrace, dwell,
             lastParts, pullFails, opsFails>>
history == <<ran, drain>>
vars    == <<cluster, disk, pc, memory, starts, history>>

TaskStates == {"-", "qw", "Eqw", "r"}
Reasons    == {"none", "permanent_node_reject", "retries_exhausted"}
Drains     == {"none", "named", "unnamed", "nothing"}
Steps      == {"pull", "diff", "qstat", "requeue", "submit", "down", "returned"}

\* The specs of array j still in the queue, and the arrays qstat -r lists.
InQueue(j) == {s \in Specs : tasks[j][s] # "-"}
Waiting(j) == {s \in Specs : tasks[j][s] \in {"qw", "Eqw"}}
Running(j) == {s \in Specs : tasks[j][s] = "r"}
InError(j) == \E s \in Specs : tasks[j][s] = "Eqw"
Alive      == {j \in Jobs : InQueue(j) # {}}

\* A slot is free when its array is gone and no drain will ask qacct about it.
Free == {j \in Jobs : InQueue(j) = {} /\ (j \in lastParts => owed # {})}

Ledgered == {s \in Specs : ledger[s] # "none"}

--------------------------------------------------------------------------------
(***************************************************************************)
(* The cluster.                                                            *)
(***************************************************************************)

\* Grid Engine starts a waiting task, of an array that is not in error state.
Dispatch(j, s) ==
    /\ tasks[j][s] = "qw"
    /\ tasks' = [tasks EXCEPT ![j][s] = "r"]
    /\ UNCHANGED <<acct, stuck, archived, markers, bad, disk, pc, memory,
                   starts, history>>

\* A running task ends: run_one archived its spec (or found it archived),
\* wrote a permanent reject marker, or died without a trace of either.
TaskEnds(j, s) ==
    /\ tasks[j][s] = "r"
    /\ tasks' = [tasks EXCEPT ![j][s] = "-"]
    /\ acct'  = [acct EXCEPT ![j] = IF j \in lastParts THEN @ \cup {s} ELSE @]
    /\ ran'   = ran \cup {s}
    /\ \/ s \notin bad /\ archived' = archived \cup {s} /\ UNCHANGED markers
       \/ s \in bad /\ markers' = markers \cup {s} /\ UNCHANGED archived
       \/ UNCHANGED <<archived, markers>>
    /\ UNCHANGED <<stuck, bad, disk, pc, memory, starts, drain>>

\* The node of a running task fails: Grid Engine queues the task again (-r y).
Reschedule(j, s) ==
    /\ tasks[j][s] = "r"
    /\ tasks' = [tasks EXCEPT ![j][s] = "qw"]
    /\ UNCHANGED <<acct, stuck, archived, markers, bad, disk, pc, memory,
                   starts, history>>

\* An administrator deletes the waiting tasks of an array: no qacct row.
Purge(j) ==
    /\ Waiting(j) # {}
    /\ tasks' = [tasks EXCEPT ![j] =
                    [s \in Specs |-> IF s \in Waiting(j) THEN "-" ELSE @[s]]]
    /\ UNCHANGED <<acct, stuck, archived, markers, bad, disk, pc, memory,
                   starts, history>>

\* The scheduler puts an array with waiting tasks in error state: it never
\* dispatches again, while its running tasks run on.
EntersEqw(j) ==
    /\ \E s \in Specs : tasks[j][s] = "qw"
    /\ tasks' = [tasks EXCEPT ![j] =
                    [s \in Specs |-> IF @[s] = "qw" THEN "Eqw" ELSE @[s]]]
    /\ UNCHANGED <<acct, stuck, archived, markers, bad, disk, pc, memory, starts,
                   history>>

--------------------------------------------------------------------------------
(***************************************************************************)
(* The end of a run_batch() call that did not return: its memory is lost.  *)
(***************************************************************************)

Dies ==
    /\ starts < MaxStarts
    /\ pc' = "down"
    /\ exhausted' = {}
    /\ retries'   = [s \in Specs |-> 0]
    /\ pend'      = {}
    /\ owed'      = {}
    /\ aliveSeen' = FALSE
    /\ noTrace'   = 0
    /\ dwell'     = FALSE
    /\ lastParts' = {}
    /\ pullFails' = 0
    /\ opsFails'  = 0
    /\ ran'       = {}

--------------------------------------------------------------------------------
(***************************************************************************)
(* Step 1: refresh the mirror.                                             *)
(***************************************************************************)

\* A full pull.  It compares markers by name: a permanent one is not fetched
\* when an earlier, transient failure of the spec left a marker in the mirror.
PullFresh ==
    /\ pc = "pull"
    /\ mirror' = archived
    /\ \E S \in SUBSET markers : mmarkers' = mmarkers \cup S
    /\ pullFails' = 0
    /\ pc' = "diff"
    /\ UNCHANGED <<cluster, ledger, exhausted, retries, pend, owed, aliveSeen,
                   noTrace, dwell, lastParts, opsFails, starts, history>>

\* shared_pull while another thread's pull runs, or soon after one ended: it
\* returns that pull's count and the mirror stays as it is.
PullCached ==
    /\ pc = "pull"
    /\ SharedPull
    /\ pullFails' = 0
    /\ pc' = "diff"
    /\ UNCHANGED <<cluster, disk, exhausted, retries, pend, owed, aliveSeen,
                   noTrace, dwell, lastParts, opsFails, starts, history>>

\* Transport fails after some chunks landed.  The cycle ends here, or the call
\* when the streak reaches its bound.
PullFail ==
    /\ pc = "pull"
    /\ \E S \in SUBSET archived : mirror' = mirror \cup S
    /\ \E S \in SUBSET markers : mmarkers' = mmarkers \cup S
    /\ IF pullFails + 1 >= MaxErrors
       THEN Dies
       ELSE /\ pullFails' = pullFails + 1
            /\ UNCHANGED <<pc, exhausted, retries, pend, owed, aliveSeen, noTrace,
                           dwell, lastParts, opsFails, ran>>
    /\ drain' = "none"
    /\ UNCHANGED <<cluster, ledger, starts>>

\* Another line's driver pulls into the shared mirror at any moment.
OtherPull ==
    /\ SharedPull
    /\ \E S \in SUBSET archived : mirror' = mirror \cup S
    /\ \E S \in SUBSET markers : mmarkers' = mmarkers \cup S
    /\ UNCHANGED <<cluster, ledger, pc, memory, starts, history>>

--------------------------------------------------------------------------------
(***************************************************************************)
(* Step 2: the archive-truth diff, and the return.                         *)
(***************************************************************************)

\* Append one row per member of S.  A crash may keep any part of them.
Abandon(S, why) ==
    ledger' = [s \in Specs |-> IF s \in S THEN why ELSE ledger[s]]

PendingSpecs(S) == S \ mirror

\* Mutant: a reject is abandoned in memory, without its ledger row.
DiffWithoutRow ==
    LET pending == PendingSpecs(Specs \ exhausted)
        dead    == pending \cap mmarkers
    IN  /\ pc = "diff"
        /\ exhausted' = exhausted \cup dead
        /\ pend' = pending \ dead
        /\ pc' = IF pending \subseteq dead THEN "returned" ELSE "qstat"
        /\ UNCHANGED <<cluster, disk, retries, owed, aliveSeen, noTrace, dwell,
                       lastParts, pullFails, opsFails, starts, history>>

Diff ==
    LET pending == PendingSpecs(Specs \ exhausted)
        dead    == pending \cap mmarkers
    IN  /\ pc = "diff"
        /\ Abandon(dead, "permanent_node_reject")
        /\ exhausted' = exhausted \cup dead
        /\ pend' = pending \ dead
        /\ pc' = IF pending \subseteq dead THEN "returned" ELSE "qstat"
        /\ UNCHANGED <<cluster, mirror, mmarkers, retries, owed, aliveSeen,
                       noTrace, dwell, lastParts, pullFails, opsFails, starts,
                       history>>

--------------------------------------------------------------------------------
(***************************************************************************)
(* Step 3: act on the queue.                                               *)
(***************************************************************************)

\* Mutant: only arrays this call submitted keep it from submitting.
DecideUnlessOurs(names) ==
    IF names # {} /\ aliveSeen
    THEN /\ opsFails' = 0
         /\ pend' = {}
         /\ pc' = "pull"
         /\ UNCHANGED <<owed, aliveSeen>>
    ELSE /\ pc'   = IF aliveSeen /\ owed = {} THEN "requeue" ELSE "submit"
         /\ owed' = IF ~aliveSeen /\ owed = {} THEN pend ELSE owed
         /\ UNCHANGED <<aliveSeen, opsFails, pend>>

\* What follows a look at the queue that left the arrays in names alive.
Decide(names) ==
    IF names # {}
    THEN /\ aliveSeen' = TRUE
         /\ opsFails' = 0
         /\ pend' = {}
         /\ pc' = "pull"
         /\ UNCHANGED owed
    ELSE /\ pc'   = IF aliveSeen /\ owed = {} THEN "requeue" ELSE "submit"
         /\ owed' = IF ~aliveSeen /\ owed = {} THEN pend ELSE owed
         /\ UNCHANGED <<aliveSeen, opsFails, pend>>

\* The Eqw arrays of one qstat: an array in error whose siblings still run may
\* show the state of one of those instead.
SeenEqw(E) ==
    /\ E \subseteq {j \in Alive : InError(j)}
    /\ {j \in Alive : InError(j) /\ Running(j) = {}} \subseteq E

Qstat ==
    /\ pc = "qstat"
    /\ \E E \in SUBSET Jobs : SeenEqw(E) /\ dwell' = (E # {})
    /\ Decide(Alive)
    /\ UNCHANGED <<cluster, disk, exhausted, retries, noTrace, lastParts,
                   pullFails, starts, history>>

\* Mutant: an Eqw array is waited for like any other.
NoEqwBound == FALSE

\* The dwell is over: qdel every Eqw array (D of them really go) and carry on
\* as if none were left.  Tasks that ran leave a qacct row.
QstatEqwExpired ==
    /\ pc = "qstat"
    /\ dwell
    /\ dwell' = FALSE
    /\ \E E \in SUBSET Jobs \ {{}}, D \in SUBSET Jobs :
        /\ SeenEqw(E)
        /\ D \in IF QdelMayFail THEN SUBSET E ELSE {E}
        /\ tasks' = [j \in Jobs |-> IF j \in D THEN [s \in Specs |-> "-"] ELSE tasks[j]]
        /\ acct'  = [j \in Jobs |-> IF j \in D \cap lastParts
                                    THEN acct[j] \cup Running(j) ELSE acct[j]]
        /\ ran'   = ran \cup UNION {Running(j) : j \in D}
        /\ stuck' = stuck \cup (E \ D)
        /\ Decide(Alive \ E)
    /\ UNCHANGED <<archived, markers, bad, disk, exhausted, retries, noTrace,
                   lastParts, pullFails, starts, drain>>

\* What counts as a transport error in step 3: it leaves S owed, parts the last
\* round, and n drains without a trace.  The cycle ends, or the call when the
\* streak is too long.
OpsFail(S, parts, n) ==
    /\ IF opsFails + 1 >= MaxErrors
       THEN Dies
       ELSE /\ opsFails' = opsFails + 1
            /\ owed' = S
            /\ lastParts' = parts
            /\ noTrace' = n
            /\ pend' = {}
            /\ pc' = "pull"
            /\ UNCHANGED <<exhausted, retries, aliveSeen, dwell, pullFails, ran>>

QstatFail ==
    /\ pc = "qstat"
    /\ OpsFail(owed, lastParts, noTrace)
    /\ drain' = "none"
    /\ UNCHANGED <<cluster, disk, starts>>

--------------------------------------------------------------------------------
(***************************************************************************)
(* The drain: a round left the queue with work remaining.                  *)
(***************************************************************************)

\* What qacct answers for the parts of the last round: the specs with a row,
\* and those of them whose rows name a task file that can be read.
Evidence ==
    {[rows  |-> UNION {acct[j] : j \in got},
      named |-> UNION {acct[j] : j \in got \cap readable}] :
        got \in SUBSET lastParts, readable \in SUBSET lastParts}

Kind(e) == IF e.rows = {} THEN "nothing"
           ELSE IF e.named = {} THEN "unnamed" ELSE "named"

\* No row at all is the purge class, tolerated MaxNoTrace times in a row.
NoTrace(e) == e.rows = {} /\ noTrace < MaxNoTrace

\* Which pending specs a drain bumps: the attempted ones, or all of them when
\* no row names a task.
BumpEverything(e) == pend            \* mutant: every drain bumps all
Bumped(e) == IF e.named = {} THEN pend ELSE pend \cap e.named
OneTooMany(e) == {s \in Bumped(e) : retries[s] > MaxRetries}    \* mutant
Dead(e)   == {s \in Bumped(e) : retries[s] >= MaxRetries}

\* A drain with no qacct trace at all: requeue, nothing bumped.
RequeueUnbumped ==
    /\ noTrace' = noTrace + 1
    /\ owed' = pend
    /\ pc' = "submit"
    /\ UNCHANGED <<ledger, exhausted, retries, pend, ran>>

\* requeue_specs: one more retry for each, or a permanent ledger row.
RequeueBumped(e) ==
    /\ noTrace' = 0
    /\ ran' = ran \ Bumped(e)
    /\ Abandon(Dead(e), "retries_exhausted")
    /\ exhausted' = exhausted \cup Dead(e)
    /\ retries' = [s \in Specs |-> IF s \in Bumped(e) \ Dead(e)
                                   THEN retries[s] + 1 ELSE retries[s]]
    /\ owed' = pend \ Dead(e)
    /\ IF pend \subseteq Dead(e)
       THEN pc' = "pull" /\ pend' = {}
       ELSE pc' = "submit" /\ UNCHANGED pend

Requeue ==
    /\ pc = "requeue"
    /\ aliveSeen' = FALSE
    /\ \E e \in Evidence :
        /\ drain' = Kind(e)
        /\ \/ NoTrace(e) /\ RequeueUnbumped
           \/ ~NoTrace(e) /\ RequeueBumped(e)
    /\ UNCHANGED <<cluster, mirror, mmarkers, dwell, lastParts, pullFails,
                   opsFails, starts>>

\* The append of a row fails, after those of S: the OSError is taken for a
\* transport error, and nothing is abandoned or bumped in memory.
RequeueFail ==
    /\ pc = "requeue"
    /\ LedgerMayFail
    /\ \E e \in Evidence : \E S \in SUBSET Dead(e) \ {Dead(e)} :
        /\ ~NoTrace(e)
        /\ Abandon(S, "retries_exhausted")
        /\ drain' = Kind(e)
    /\ OpsFail({}, lastParts, 0)
    /\ UNCHANGED <<cluster, mirror, mmarkers, starts>>

--------------------------------------------------------------------------------
(***************************************************************************)
(* The submission: one array per chunk, pushed and qsub'ed in turn.        *)
(***************************************************************************)

\* part[j]: the specs the array in slot j takes from S ({} for none).  Every
\* array but the last of a round is full.
IsLayout(part, S) ==
    /\ \A j, k \in DOMAIN part : j # k => part[j] \cap part[k] = {}
    /\ \A j \in DOMAIN part : Cardinality(part[j]) <= ChunkTasks
    /\ \A j, k \in DOMAIN part :
        /\ part[j] # {} /\ Cardinality(part[j]) < ChunkTasks
        /\ part[k] # {} /\ Cardinality(part[k]) < ChunkTasks
        => j = k

\* The arrays of part reach the queue.  The rows of earlier rounds are never
\* asked for again.
Enqueue(part) ==
    LET new == {j \in DOMAIN part : part[j] # {}}
    IN  /\ tasks' = [j \in Jobs |->
                        IF j \in new
                        THEN [s \in Specs |-> IF s \in part[j] THEN "qw" ELSE "-"]
                        ELSE tasks[j]]
        /\ acct'  = [j \in Jobs |-> {}]
        /\ stuck' = stuck \ new

\* Everything owed was completed meanwhile.
SubmitNothing ==
    /\ pc = "submit"
    /\ PendingSpecs(owed) = {}
    /\ owed' = {}
    /\ pend' = {}
    /\ pc' = "pull"
    /\ drain' = "none"
    /\ UNCHANGED <<cluster, disk, exhausted, retries, aliveSeen, noTrace, dwell,
                   lastParts, pullFails, opsFails, starts, ran>>

SubmitOk ==
    /\ pc = "submit"
    /\ PendingSpecs(owed) # {}
    /\ \E part \in [Free -> SUBSET PendingSpecs(owed)] :
        /\ IsLayout(part, PendingSpecs(owed))
        /\ UNION {part[j] : j \in Free} = PendingSpecs(owed)
        /\ Enqueue(part)
        /\ lastParts' = {j \in Free : part[j] # {}}
    /\ owed' = {}
    /\ pend' = {}
    /\ aliveSeen' = TRUE
    /\ opsFails' = 0
    /\ pc' = "pull"
    /\ drain' = "none"
    /\ UNCHANGED <<archived, markers, bad, disk, exhausted, retries, noTrace,
                   dwell, pullFails, starts, ran>>

\* Some arrays (all of them, when only a reply was lost) reach the queue and
\* the round fails.  What is owed stays owed; last_parts is not read before a
\* round succeeds, so it is forgotten here.
SubmitFail ==
    /\ pc = "submit"
    /\ PendingSpecs(owed) # {}
    /\ \E part \in [Free -> SUBSET PendingSpecs(owed)] :
        IsLayout(part, PendingSpecs(owed)) /\ Enqueue(part)
    /\ OpsFail(PendingSpecs(owed), {}, noTrace)
    /\ drain' = "none"
    /\ UNCHANGED <<archived, markers, bad, disk, starts>>

--------------------------------------------------------------------------------
(***************************************************************************)
(* Crash and restart of the driver.                                        *)
(***************************************************************************)

\* The process dies between two steps, or while it appends the ledger rows of
\* the diff or of a drain: any part of the rows may be left.
Crash ==
    /\ pc \notin {"down", "returned"}
    /\ Dies
    /\ \/ drain' = "none" /\ UNCHANGED ledger
       \/ /\ pc = "diff" /\ drain' = "none"
          /\ \E S \in SUBSET (PendingSpecs(Specs \ exhausted) \cap mmarkers) :
                Abandon(S, "permanent_node_reject")
       \/ /\ pc = "requeue"
          /\ \E e \in Evidence : \E S \in SUBSET Dead(e) :
                /\ ~NoTrace(e)
                /\ drain' = Kind(e)
                /\ Abandon(S, "retries_exhausted")
    /\ UNCHANGED <<cluster, mirror, mmarkers, starts>>

\* Mutant: the ledger is not read back.
RestartForgets ==
    /\ pc = "down"
    /\ starts < MaxStarts
    /\ starts' = starts + 1
    /\ pc' = "pull"
    /\ drain' = "none"
    /\ UNCHANGED <<cluster, disk, exhausted, retries, pend, owed, aliveSeen,
                   noTrace, dwell, lastParts, pullFails, opsFails, ran>>

\* The supervisor calls run_batch() again (--resume): the ledger is read back.
Restart ==
    /\ pc = "down"
    /\ starts < MaxStarts
    /\ starts' = starts + 1
    /\ exhausted' = Ledgered
    /\ pc' = "pull"
    /\ drain' = "none"
    /\ UNCHANGED <<cluster, disk, retries, pend, owed, aliveSeen, noTrace, dwell,
                   lastParts, pullFails, opsFails, ran>>

--------------------------------------------------------------------------------
Init ==
    /\ tasks = [j \in Jobs |-> [s \in Specs |-> "-"]]
    /\ acct = [j \in Jobs |-> {}]
    /\ stuck = {}
    /\ archived = {} /\ markers = {}
    /\ bad \in SUBSET Specs
    /\ mirror = {} /\ mmarkers = {}
    /\ ledger = [s \in Specs |-> "none"]
    /\ pc = "pull"
    /\ exhausted = {}
    /\ retries = [s \in Specs |-> 0]
    /\ pend = {} /\ owed = {}
    /\ aliveSeen = FALSE
    /\ noTrace = 0
    /\ dwell = FALSE
    /\ lastParts = {}
    /\ pullFails = 0 /\ opsFails = 0
    /\ starts = 1
    /\ ran = {} /\ drain = "none"

Cluster ==
    \/ \E j \in Jobs, s \in Specs :
            Dispatch(j, s) \/ TaskEnds(j, s) \/ Reschedule(j, s)
    \/ \E j \in Jobs : Purge(j) \/ EntersEqw(j)

Driver ==
    \/ PullFresh \/ PullCached \/ PullFail
    \/ Diff
    \/ Qstat \/ QstatEqwExpired \/ QstatFail
    \/ Requeue \/ RequeueFail
    \/ SubmitNothing \/ SubmitOk \/ SubmitFail

Next == Cluster \/ Driver \/ OtherPull \/ Crash \/ Restart

Spec == Init /\ [][Next]_vars

\* Grid Engine starts what it holds, and a node does not fail for ever under the
\* same task; the supervisor relaunches a dead call; transport is down often,
\* but not for ever.
Fairness ==
    /\ \A j \in Jobs, s \in Specs : WF_vars(Dispatch(j, s)) /\ SF_vars(TaskEnds(j, s))
    /\ WF_vars(Diff) /\ WF_vars(Requeue) /\ WF_vars(SubmitNothing) /\ WF_vars(Restart)
    /\ SF_vars(PullFresh) /\ SF_vars(Qstat) /\ SF_vars(QstatEqwExpired)
    /\ SF_vars(SubmitOk)

FairSpec == Spec /\ Fairness

--------------------------------------------------------------------------------
(***************************************************************************)
(* Properties.                                                             *)
(***************************************************************************)

FlagsOK == aliveSeen \in BOOLEAN /\ dwell \in BOOLEAN

\* Every variable has the type the code gives it.
TypeOK ==
    /\ tasks \in [Jobs -> [Specs -> TaskStates]]
    /\ acct \in [Jobs -> SUBSET Specs]
    /\ stuck \in SUBSET Jobs
    /\ archived \in SUBSET Specs /\ markers \in SUBSET Specs
    /\ bad \in SUBSET Specs
    /\ mirror \in SUBSET Specs /\ mmarkers \in SUBSET Specs
    /\ ledger \in [Specs -> Reasons]
    /\ pc \in Steps
    /\ exhausted \in SUBSET Specs
    /\ retries \in [Specs -> 0 .. MaxRetries]
    /\ pend \in SUBSET Specs /\ owed \in SUBSET Specs
    /\ FlagsOK
    /\ noTrace \in 0 .. MaxNoTrace
    /\ lastParts \in SUBSET Jobs
    /\ pullFails \in 0 .. MaxErrors /\ opsFails \in 0 .. MaxErrors
    /\ starts \in 1 .. MaxStarts
    /\ ran \in SUBSET Specs
    /\ drain \in Drains

\* The double-submit guard: whatever was adopted after a crash, partly
\* submitted or purged, two arrays in the queue never hold the same spec,
\* unless one of them is an Eqw array whose qdel failed.
NoDoubleTraining ==
    \A j, k \in Jobs : j # k /\ InQueue(j) \cap InQueue(k) # {}
                      => j \in stuck \/ k \in stuck

\* Every retry is charged to one attempt of the spec itself: a qacct row that
\* no earlier drain has charged.  A purge, a lost reply or a failed submission
\* costs nothing.  The exceptions are the bump-all drains: rows that name no
\* task, or no row at all after MaxNoTrace such drains in a row.
Charged(s) ==
    \/ retries'[s] > retries[s]
    \/ ledger[s] # "retries_exhausted" /\ ledger'[s] = "retries_exhausted"

ChargedPerAttempt ==
    [][\A s \in Specs :
        Charged(s) => \/ s \in ran
                      \/ drain' = "unnamed"
                      \/ drain' = "nothing" /\ noTrace >= MaxNoTrace]_vars

\* A spec abandoned for exhausted retries never enters the queue again, in
\* this call or after any number of crashes.
ExhaustedStaysOut ==
    [][\A j \in Jobs, s \in Specs :
        tasks[j][s] = "-" /\ tasks'[j][s] = "qw"
        => ledger[s] # "retries_exhausted" /\ s \notin mirror]_vars

\* The loop keeps the promise of BatchOutcome.
Outcome == INSTANCE BatchOutcome WITH
    complete  <- mirror,
    abandoned <- Ledgered,
    verdict   <- IF pc # "returned" THEN "running"
                 ELSE IF exhausted = {} THEN "ok" ELSE "incomplete"

KeepsPromise == Outcome!Spec

\* The batch ends: no purge, Eqw, lost reply, restart or failing spec keeps the
\* loop from returning its summary.
Returns == <>(pc = "returned")

\* The docstring: ok is True iff every spec's run_id is archived.
OkIffArchived == pc = "returned" => (exhausted = {} <=> Specs \subseteq mirror)

\* A spec with a permanent reject marker is abandoned immediately: it is not
\* submitted after the driver ledgered it.
AbandonedStaysOut ==
    [][\A j \in Jobs, s \in Specs :
        tasks[j][s] = "-" /\ tasks'[j][s] = "qw" => s \notin Ledgered]_vars

================================================================================
