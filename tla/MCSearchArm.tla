------------------------------ MODULE MCSearchArm ------------------------------
(***************************************************************************)
(* The instances of SearchArm that TLC checks.                             *)
(***************************************************************************)
EXTENDS SearchArm

NoRuns == {}
FirstRun == {<<<<1, 1>>, 1>>}

First(x, y) == Before(x[1], y[1]) \/ (x[1] = y[1] /\ x[2] < y[2])

\* What a batch makes of its tasks depends on how each of them ends, not on the order:
\* they end in the order of the runs, each in every way, where a pass may notice.
TasksInOrder ==
    \A x \in Runs : task[x] # 0 /\ task'[x] = 0 =>
        /\ pc \in {"author", "batch", "down"}
        /\ pc = "author" => x[1][1] = gen
        /\ \A y \in Runs : First(y, x) => task[y] = 0

\* A source of the first generation may be rejected, by its first seed.
FirstSeedRejects == \A x \in rejects' \ rejects : x = <<<<1, 1>>, 1>>

\* A pull brings the runs of the generation at hand from the first on, when the pass is
\* about to look for them.
LateNext(y) == seen'[y] # rec[y] \/ y \in rejects \ marked'
Pulled(x) == seen'[x] # seen[x] \/ x \in marked' \ marked
PullsInTime ==
    \A x \in Runs : Pulled(x) =>
        /\ pc' \in {"author", "batch"} /\ (pc' = "batch" => Queued = {})
        /\ pc = pc' => /\ x[1][1] = gen
                       /\ \A y \in Runs : First(y, x) /\ y[1] = x[1] => ~LateNext(y)

\* The first pass has nothing to refresh.
FirstPassPulls == behind' => launches' > 1

\* What the last generation reflects on is of interest, not its own training.
LastIsOnlyWritten == \A c \in Cands : c[1] = NGens => fresh'[c] = 0

LittleOrder == TasksInOrder /\ FirstSeedRejects /\ PullsInTime /\ FirstPassPulls /\ LastIsOnlyWritten
================================================================================
