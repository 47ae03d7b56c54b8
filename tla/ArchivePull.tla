------------------------------ MODULE ArchivePull ------------------------------
(***************************************************************************)
(* From a finished training to the local mirror.  On the cluster, task     *)
(* executions archive their run: env.json, reward.py and last record.json, *)
(* whose rename commits the run directory (run_one.py, parallel._archive,  *)
(* results.write_run), or they leave a reject marker.  On the laptop,      *)
(* several driver processes pull what their common mirror lacks            *)
(* (poll.pull_archive): list, fetch a chunk into a staging directory of    *)
(* their own, and rename each item into the mirror.                        *)
(***************************************************************************)
EXTENDS Naturals, FiniteSets

CONSTANTS
    Runs,       \* run_ids
    Execs,      \* task executions (a bound: each trains one run, once)
    None,       \* no execution, no run
    Pullers,    \* processes that call pull_archive
    Chunk,      \* chunk: items per transfer
    Exclusive   \* no two executions of a run at once (BatchDriver!NoDoubleTraining)

ASSUME ConstantsAssumption ==
    /\ None \notin Execs \cup Runs
    /\ Chunk \in Nat \ {0}
    /\ Exclusive \in BOOLEAN

VARIABLES
    step,     \* what each execution is about to do
    run,      \* the run it trains, None before it starts
    env,      \* the execution whose environment env.json holds, or "torn"
    src,      \* reward.py and prompt.txt: "none", "torn" or "whole"
    rec,      \* the execution whose record.json is committed
    unlinked, \* executions whose record carries no digest of env.json
    mark,     \* the reject marker: "none", "transient" or "permanent"
    bad,      \* runs whose source the node's validation rejects
    mirror,   \* mirror[k][r]: the item of kind k in the mirror, {} if there is none
    pc,       \* what each puller is about to do
    todo,     \* todo[p][k]: items listed and not yet handled
    staged,   \* staged[p][r]: the chunk in p's staging directory
    cur,      \* the item p has found missing and is about to rename
    listed    \* history: what the cluster held when p's pull began

cluster == <<step, run, env, src, rec, unlinked, mark, bad>>
laptop  == <<mirror, pc, todo, staged, cur, listed>>
vars    == <<cluster, laptop>>

Kinds  == {"dir", "mark"}
Torn   == "torn"
Resting == {"idle", "returned"}

Live(e) == step[e] \notin {"new", "done"}

--------------------------------------------------------------------------------
(***************************************************************************)
(* The cluster: one execution archives one run.                            *)
(***************************************************************************)

GoExec(e, s) == step' = [step EXCEPT ![e] = s]

\* Mutant: the re-execution guard is gone.
StartAlways(e, r) ==
    /\ step[e] = "new"
    /\ Exclusive => \A x \in Execs : Live(x) => run[x] # r
    /\ run' = [run EXCEPT ![e] = r]
    /\ GoExec(e, "train")
    /\ UNCHANGED <<env, src, rec, unlinked, mark, bad, laptop>>

\* A task starts on r; a run with a record is skipped (_already_archived).
Start(e, r) ==
    /\ step[e] = "new"
    /\ Exclusive => \A x \in Execs : Live(x) => run[x] # r
    /\ run' = [run EXCEPT ![e] = r]
    /\ GoExec(e, IF rec[r] # None THEN "done" ELSE "train")
    /\ UNCHANGED <<env, src, rec, unlinked, mark, bad, laptop>>

\* Training succeeds, is rejected by the node's validation, or fails before
\* or after it; a failure replaces the run's marker in one rename.
TrainEnds(e) ==
    /\ step[e] = "train"
    /\ \/ run[e] \notin bad /\ GoExec(e, "env") /\ UNCHANGED mark
       \/ \E why \in {"transient"} \cup {"permanent" : r \in bad \cap {run[e]}} :
            mark' = [mark EXCEPT ![run[e]] = why] /\ GoExec(e, "done")
    /\ UNCHANGED <<run, env, src, rec, unlinked, bad, laptop>>

\* _run_env_fp truncates and writes env.json.
OpenEnv(e) ==
    /\ step[e] = "env"
    /\ env' = [env EXCEPT ![run[e]] = Torn]
    /\ GoExec(e, "env written")
    /\ UNCHANGED <<run, src, rec, unlinked, mark, bad, laptop>>

CloseEnv(e) ==
    /\ step[e] = "env written"
    /\ env' = [env EXCEPT ![run[e]] = e]
    /\ GoExec(e, "src")
    /\ UNCHANGED <<run, src, rec, unlinked, mark, bad, laptop>>

\* The capture of the environment, or its write, fails: the record will carry
\* a "capture-failed" label and no digest, and env.json stays as it is.
CaptureFails(e) ==
    /\ step[e] \in {"env", "env written"}
    /\ unlinked' = unlinked \cup {e}
    /\ GoExec(e, "src")
    /\ UNCHANGED <<run, env, src, rec, mark, bad, laptop>>

\* write_run: the sidecars, then the record in one rename.  Every execution of
\* a run writes the same sidecars, which come with the spec.
OpenSrc(e) ==
    /\ step[e] = "src"
    /\ src' = [src EXCEPT ![run[e]] = Torn]
    /\ GoExec(e, "src written")
    /\ UNCHANGED <<run, env, rec, unlinked, mark, bad, laptop>>

CloseSrc(e) ==
    /\ step[e] = "src written"
    /\ src' = [src EXCEPT ![run[e]] = "whole"]
    /\ GoExec(e, "commit")
    /\ UNCHANGED <<run, env, rec, unlinked, mark, bad, laptop>>

\* Mutant: the record is committed before the sidecars are closed.
CommitEarly(e) ==
    /\ step[e] \in {"src written", "commit"}
    /\ rec' = [rec EXCEPT ![run[e]] = e]
    /\ IF step[e] = "commit" THEN GoExec(e, "done") ELSE UNCHANGED step
    /\ UNCHANGED <<run, env, src, unlinked, mark, bad, laptop>>

Commit(e) ==
    /\ step[e] = "commit"
    /\ rec' = [rec EXCEPT ![run[e]] = e]
    /\ GoExec(e, "done")
    /\ UNCHANGED <<run, env, src, unlinked, mark, bad, laptop>>

\* The node fails, or the walltime ends, between any two writes.
Die(e) ==
    /\ Live(e)
    /\ GoExec(e, "done")
    /\ UNCHANGED <<run, env, src, rec, unlinked, mark, bad, laptop>>

--------------------------------------------------------------------------------
(***************************************************************************)
(* The laptop: pull_archive.                                               *)
(***************************************************************************)

\* The item of kind k a transfer finds on the cluster for r now.
Remote(k, r) ==
    IF k = "mark" THEN {mark[r]} \ {"none"}
    ELSE {[env |-> env[r], src |-> src[r], rec |-> x] : x \in {rec[r]} \ {None}}

Here(k) == {r \in Runs : mirror[k][r] # {}}
There(k) == {r \in Runs : Remote(k, r) # {}}

\* The run directories come before the markers.
Kind(p) == IF todo[p]["dir"] # {} THEN "dir" ELSE "mark"

Empty == [r \in Runs |-> {}]
Batch(p) == {r \in Runs : staged[p][r] # {}}

\* Sweep our own staging directory, list the cluster and the mirror.
List(p) ==
    LET missing == [k \in Kinds |-> There(k) \ Here(k)]
    IN  /\ pc[p] \in Resting
        /\ todo' = [todo EXCEPT ![p] = missing]
        /\ listed' = [listed EXCEPT ![p] =
                        [k \in Kinds |-> IF k = "dir" THEN There(k)
                                         ELSE {r \in Runs : mark[r] = "permanent"}]]
        /\ pc' = [pc EXCEPT ![p] = IF \A k \in Kinds : missing[k] = {}
                                   THEN "returned" ELSE "fetch"]
        /\ staged' = [staged EXCEPT ![p] = Empty]
        /\ UNCHANGED <<mirror, cur, cluster>>

\* A chunk of the list arrives whole in the staging directory.
Fetch(p) ==
    /\ pc[p] = "fetch"
    /\ \E B \in SUBSET todo[p][Kind(p)] \ {{}} :
        /\ Cardinality(B) <= Chunk
        /\ staged' = [staged EXCEPT ![p] =
                        [r \in Runs |-> IF r \in B THEN Remote(Kind(p), r) ELSE {}]]
    /\ pc' = [pc EXCEPT ![p] = "check"]
    /\ UNCHANGED <<mirror, todo, cur, listed, cluster>>

\* Drop r from the chunk and the list, and go on.
Handled(p, r) ==
    /\ staged' = [staged EXCEPT ![p][r] = {}]
    /\ todo' = [todo EXCEPT ![p][Kind(p)] = @ \ {r}]
    /\ pc' = [pc EXCEPT ![p] =
                IF Batch(p) # {r} THEN "check"
                ELSE IF \A k \in Kinds : todo'[p][k] = {} THEN "returned" ELSE "fetch"]

\* dest.exists(): keep the copy in the mirror, or go on to rename ours.
Check(p, r) ==
    /\ pc[p] = "check"
    /\ r \in Batch(p)
    /\ \/ /\ mirror[Kind(p)][r] # {}
          /\ Handled(p, r)
          /\ UNCHANGED cur
       \/ /\ mirror[Kind(p)][r] = {}
          /\ pc' = [pc EXCEPT ![p] = "rename"]
          /\ cur' = [cur EXCEPT ![p] = r]
          /\ UNCHANGED <<staged, todo>>
    /\ UNCHANGED <<mirror, listed, cluster>>

\* Mutant: losing the race abandons the rest of the list.
RenameGivesUp(p) ==
    /\ pc[p] = "rename"
    /\ IF mirror[Kind(p)][cur[p]] = {}
       THEN /\ mirror' = [mirror EXCEPT ![Kind(p)][cur[p]] = staged[p][cur[p]]]
            /\ Handled(p, cur[p])
       ELSE /\ pc' = [pc EXCEPT ![p] = "returned"]
            /\ UNCHANGED <<mirror, staged, todo>>
    /\ cur' = [cur EXCEPT ![p] = None]
    /\ UNCHANGED <<listed, cluster>>

\* os.rename: a directory never replaces one that is there; a marker file
\* replaces one on POSIX and not on Windows.
Rename(p) ==
    LET k == Kind(p)
        r == cur[p]
    IN  /\ pc[p] = "rename"
        /\ \/ /\ mirror[k][r] = {} \/ k = "mark"
              /\ mirror' = [mirror EXCEPT ![k][r] = staged[p][r]]
           \/ mirror[k][r] # {} /\ UNCHANGED mirror
        /\ Handled(p, r)
        /\ cur' = [cur EXCEPT ![p] = None]
        /\ UNCHANGED <<listed, cluster>>

\* Mutant: a failed transfer is swallowed, and the pull returns as if it were done.
PullEndsWell(p) ==
    /\ pc[p] \notin Resting
    /\ pc' = [pc EXCEPT ![p] = "returned"]
    /\ staged' = [staged EXCEPT ![p] = Empty]
    /\ todo' = [todo EXCEPT ![p] = [k \in Kinds |-> {}]]
    /\ cur' = [cur EXCEPT ![p] = None]
    /\ UNCHANGED <<mirror, listed, cluster>>

\* A listing or a transfer fails, or the process dies.  Its staging directory
\* is not part of the mirror, and its next pull sweeps it.
PullEnds(p) ==
    /\ pc[p] \notin Resting
    /\ pc' = [pc EXCEPT ![p] = "idle"]
    /\ staged' = [staged EXCEPT ![p] = Empty]
    /\ todo' = [todo EXCEPT ![p] = [k \in Kinds |-> {}]]
    /\ cur' = [cur EXCEPT ![p] = None]
    /\ UNCHANGED <<mirror, listed, cluster>>

--------------------------------------------------------------------------------
Init ==
    /\ step = [e \in Execs |-> "new"]
    /\ run = [e \in Execs |-> None]
    /\ env = [r \in Runs |-> None]
    /\ src = [r \in Runs |-> "none"]
    /\ rec = [r \in Runs |-> None]
    /\ unlinked = {}
    /\ mark = [r \in Runs |-> "none"]
    /\ bad \in SUBSET Runs
    /\ mirror = [k \in Kinds |-> Empty]
    /\ pc = [p \in Pullers |-> "idle"]
    /\ todo = [p \in Pullers |-> [k \in Kinds |-> {}]]
    /\ staged = [p \in Pullers |-> Empty]
    /\ cur = [p \in Pullers |-> None]
    /\ listed = [p \in Pullers |-> [k \in Kinds |-> {}]]

Execution(e) ==
    \/ \E r \in Runs : Start(e, r)
    \/ TrainEnds(e)
    \/ OpenEnv(e) \/ CloseEnv(e) \/ CaptureFails(e)
    \/ OpenSrc(e) \/ CloseSrc(e) \/ Commit(e)
    \/ Die(e)

Pull(p) ==
    \/ List(p) \/ Fetch(p)
    \/ \E r \in Runs : Check(p, r)
    \/ Rename(p) \/ PullEnds(p)

Next == (\E e \in Execs : Execution(e)) \/ (\E p \in Pullers : Pull(p))

Spec == Init /\ [][Next]_vars

--------------------------------------------------------------------------------
(***************************************************************************)
(* Properties.                                                             *)
(***************************************************************************)

Dirs == [env : Execs \cup {None, Torn}, src : {"none", "torn", "whole"}, rec : Execs]

\* Every variable has the type the code gives it.
TypeOK ==
    /\ step \in [Execs -> {"new", "train", "env", "env written", "src", "src written",
                           "commit", "done"}]
    /\ run \in [Execs -> Runs \cup {None}]
    /\ env \in [Runs -> Execs \cup {None, Torn}]
    /\ src \in [Runs -> {"none", "torn", "whole"}]
    /\ rec \in [Runs -> Execs \cup {None}]
    /\ unlinked \in SUBSET Execs
    /\ mark \in [Runs -> {"none", "transient", "permanent"}]
    /\ bad \in SUBSET Runs
    /\ mirror["dir"] \in [Runs -> SUBSET Dirs]
    /\ mirror["mark"] \in [Runs -> SUBSET {"transient", "permanent"}]
    /\ pc \in [Pullers -> Resting \cup {"fetch", "check", "rename"}]
    /\ todo \in [Pullers -> [Kinds -> SUBSET Runs]]
    /\ cur \in [Pullers -> Runs \cup {None}]
    /\ listed \in [Pullers -> [Kinds -> SUBSET Runs]]

\* load_run's verification of a run directory: env.json has the digest the
\* record carries, if it carries one, and the sources are those in the record.
EnvMatches(x) == x.rec \in unlinked \/ x.env \in {None, x.rec}
Verified(x) == EnvMatches(x) /\ x.src # Torn

\* A directory in the mirror verifies and is the cluster's committed one, for
\* good: no crash, torn transfer or race of two pullers puts another there.
MirrorFaithful ==
    \A r \in Here("dir") :
        /\ mirror["dir"][r] = Remote("dir", r)
        /\ \A x \in mirror["dir"][r] : Verified(x) /\ x.src = "whole"

\* A pull that returns has delivered all that was complete when it began, even
\* when another puller delivered some of it.
PullDelivers ==
    \A p \in Pullers, k \in Kinds : pc[p] = "returned" => listed[p][k] \subseteq Here(k)

\* A committed record is never written again: a task that runs twice neither
\* retrains the run nor parts the record from its mirrored copy.
RecordStands == [][\A r \in Runs : rec[r] # None => rec'[r] = rec[r]]_vars

\* What the processes that share the mirror see of it keeps PullPromise: records are
\* committed once, copied whole and kept, and a pull is told done only when all it
\* owed is there.
Whole == {x \in Dirs : x.src = "whole"}

Promise == INSTANCE PullPromise WITH
    Records <- Whole,
    committed <- [r \in Runs |-> Remote("dir", r)],
    mirrored <- mirror["dir"],
    due <- [p \in Pullers |-> listed[p]["dir"]],
    verdict <- [p \in Pullers |-> IF pc[p] \in Resting THEN pc[p] ELSE "pulling"]

PullKeepsPromise == Promise!Spec

\* The comment of write_run: whatever crashed, a committed record verifies when
\* no execution is writing its directory.
OldStateStands ==
    \A r \in Runs :
        (\A e \in Execs : run[e] = r => step[e] \in {"new", "train", "done"})
        => \A x \in Remote("dir", r) : Verified(x)

\* The comment of pull_archive: the permanent rejects on the cluster ride the
\* pull, so that the driver can abandon them without waiting.
RejectsSeen ==
    \A p \in Pullers : pc[p] = "returned" =>
        \A r \in listed[p]["mark"] :
            mark[r] = "permanent" => mirror["mark"][r] = {"permanent"}

================================================================================
