------------------------------ MODULE FamilyChain ------------------------------
(***************************************************************************)
(* A search that proposes each candidate from the scores of the earlier    *)
(* ones (bayes_opt, tpe, cma_es).  It has no saved state: a resumed chain  *)
(* is told the scores of the archive again and derives the same proposals. *)
(* Two programs run it: the driver, one array per candidate or per group   *)
(* of candidates that are proposed together (src/cluster/campaign.py:      *)
(* run_family_search_arm), and one job on a node, bayes_opt's only         *)
(* (src/cluster/bayes_chain.py: run_bayes_chain).                          *)
(***************************************************************************)
EXTENDS Naturals, FiniteSets

CONSTANTS
    Budget,       \* candidates of the search
    Plans,        \* for each kind of arm, the groups that are proposed together
    Sides,        \* programs that may run the chain: "driver", "node"
    Handover,     \* a chain of one program may be resumed by the other
    PerJob,       \* trainings that fit in the wall budget of a node's job
    MaxFails,     \* bound: trainings without a record
    MaxDeaths     \* bound: deaths of the program, and markers not written

Cands == 1..Budget
Spans == {m..n : m, n \in Cands} \ {{}}

ASSUME ChainAssumption ==
    /\ Budget \in Nat \ {0}
    /\ \A P \in Plans : P \subseteq Spans /\ \A G, H \in P : G = H \/ G \cap H = {}
    /\ Sides \subseteq {"driver", "node"} /\ Handover \in BOOLEAN
    /\ PerJob \in Nat \ {0} /\ MaxFails \in Nat /\ MaxDeaths \in Nat

(***************************************************************************)
(* The coefficients of a candidate are what the optimiser was told before: *)
(* the set of candidates that came back with the sentinel before its group *)
(* was proposed.  bayes_opt and tpe have one group, a start that comes     *)
(* from the generator alone; cma_es has one for every generation.          *)
(***************************************************************************)
VARIABLES
    groups,       \* the groups of this arm
    recs,         \* candidates with a record on the cluster
    coeffs,       \* coeffs[i]: what the record of i was trained on
    seen,         \* records in the driver's mirror
    marks,        \* marks[side]: failed.json markers that side can see
    tasks,        \* trainings under way
    side,         \* who runs the chain
    pc,           \* "down", "eval", "wait", "done"
    next,         \* the index of the next evaluation
    asked,        \* the candidates under evaluation
    hist,         \* the sentinels told in this pass
    left,         \* trainings left in this job
    told,         \* history: what was told of each candidate, first
    redone,       \* history: candidates that were told something else later
    lost,         \* history: candidates whose marker could not be written
    fails, deaths \* counters of the bounds

archive == <<recs, coeffs, seen, marks, tasks>>
memory  == <<pc, next, asked, hist, left>>
history == <<told, redone, lost>>
vars    == <<groups, archive, side, memory, history, fails, deaths>>

TypeOK ==
    /\ groups \in Plans
    /\ recs \subseteq Cands /\ seen \subseteq recs /\ tasks \subseteq Cands
    /\ coeffs \in [Cands -> SUBSET Cands]
    /\ marks \in [Sides -> SUBSET Cands]
    /\ side \in Sides
    /\ pc \in {"down", "eval", "wait", "done"}
    /\ next \in 1..(Budget + 1)
    /\ asked \subseteq Cands /\ hist \subseteq Cands
    /\ left \in 0..PerJob
    /\ told \in [Cands -> {"nothing", "score", "sentinel"}]
    /\ redone \subseteq Cands /\ lost \subseteq Cands
    /\ fails \in 0..MaxFails /\ deaths \in 0..MaxDeaths

\* The node's program knows a start only.
RunsOn(s) == s = "driver" \/ \A G \in groups : 1 \in G

Init ==
    /\ groups \in Plans
    /\ recs = {} /\ seen = {} /\ tasks = {}
    /\ coeffs = [i \in Cands |-> {}]
    /\ marks = [s \in Sides |-> {}]
    /\ side \in Sides /\ RunsOn(side)
    /\ pc = "down" /\ next = 1 /\ asked = {} /\ hist = {} /\ left = PerJob
    /\ told = [i \in Cands |-> "nothing"]
    /\ redone = {} /\ lost = {}
    /\ fails = 0 /\ deaths = 0

--------------------------------------------------------------------------------
\* What the running side can read: a node reads the archive itself, a driver the
\* mirror of it, which does not bring the markers along.
Readable == IF side = "node" THEN recs ELSE seen
Marked   == marks[side]

\* The candidates that this side sends in arrays of a whole group.
Batched == IF side = "driver" THEN UNION groups ELSE {}

\* The candidates whose outcome was told when i was proposed.
Earlier(i) == {j \in Cands : j < i /\ \A G \in groups : i \in G => \A k \in G : j < k}

\* The proposal for i after what this pass was told.
Proposal(i) == hist \cap Earlier(i)

(***************************************************************************)
(* Passes.                                                                 *)
(***************************************************************************)
Launch(s) ==
    /\ pc \in {"down", "done"}
    /\ Handover \/ s = side
    /\ RunsOn(s)
    /\ side' = s
    /\ pc' = "eval" /\ next' = 1 /\ asked' = {} /\ hist' = {} /\ left' = PerJob
    /\ UNCHANGED <<groups, archive, history, fails, deaths>>

\* A node's job takes its training along, an array of the driver goes on.
Ends ==
    /\ pc' = "down"
    /\ next' = 1 /\ asked' = {} /\ hist' = {} /\ left' = PerJob
    /\ tasks' = IF side = "node" THEN {} ELSE tasks
    /\ UNCHANGED <<groups, recs, coeffs, seen, marks, side, history, fails>>

Dies ==
    /\ pc \in {"eval", "wait"} /\ deaths < MaxDeaths
    /\ deaths' = deaths + 1
    /\ Ends

Pull ==
    /\ side = "driver" /\ seen # recs
    /\ seen' = recs
    /\ UNCHANGED <<groups, recs, coeffs, marks, tasks, side, memory, history, fails, deaths>>

--------------------------------------------------------------------------------
(***************************************************************************)
(* One evaluation: a replay, a known failure, or a training.               *)
(***************************************************************************)

\* What the optimiser is told of S becomes history.
Recorded(S, F) ==
    /\ next' = next + Cardinality(S)
    /\ told' = [i \in Cands |-> IF i \in S /\ told[i] = "nothing"
                                THEN IF i \in F THEN "sentinel" ELSE "score"
                                ELSE told[i]]
    /\ redone' = redone \cup
          {i \in S : told[i] = (IF i \in F THEN "score" ELSE "sentinel")}

\* Mutant: a failure that is replayed is not told to the optimiser.
TellsFresh(S, F) ==
    /\ Recorded(S, F)
    /\ hist' = IF pc = "eval" THEN hist ELSE hist \cup F

\* The optimiser is told the outcome of the candidates S, F of which failed.
Tells(S, F) ==
    /\ Recorded(S, F)
    /\ hist' = hist \cup F

Evaluates(i) == pc = "eval" /\ next = i /\ i \in Cands \ Batched

Replays(i) ==
    /\ Evaluates(i) /\ i \in Readable
    /\ Tells({i}, {})
    /\ UNCHANGED <<groups, archive, side, pc, asked, left, lost, fails, deaths>>

\* Mutant: a failure of an earlier pass is not looked up.
NeverFailedBefore(i) == FALSE
FailedBefore(i) == i \in Marked

ReplaysFailure(i) ==
    /\ Evaluates(i) /\ i \notin Readable /\ FailedBefore(i)
    /\ Tells({i}, {i})
    /\ UNCHANGED <<groups, archive, side, pc, asked, left, lost, fails, deaths>>

\* Mutant: a reserve as large as the job.
FullReserve == side = "node" /\ left <= PerJob

\* ChainStopped: the job has no time for one more.
OutOfTime == side = "node" /\ left = 0

Stops ==
    /\ \E i \in Cands : Evaluates(i) /\ i \notin Readable /\ ~FailedBefore(i)
    /\ OutOfTime
    /\ Ends /\ UNCHANGED deaths

\* Arrays that are in the queue by name are adopted, whatever they train.
Sends(S) ==
    /\ tasks' = tasks \cup (S \ recs)
    /\ coeffs' = [i \in Cands |-> IF i \in S \ (tasks \cup recs) THEN Proposal(i) ELSE coeffs[i]]
    /\ asked' = S
    /\ pc' = "wait"
    /\ left' = IF side = "node" THEN left - 1 ELSE left

Trains(i) ==
    /\ Evaluates(i) /\ i \notin Readable /\ ~FailedBefore(i)
    /\ ~OutOfTime
    /\ Sends({i})
    /\ UNCHANGED <<groups, recs, seen, marks, side, next, hist, history, fails, deaths>>

\* The record is written, unless the training fails.
TaskEnds(i, ok) ==
    /\ i \in tasks
    /\ ok \/ fails < MaxFails
    /\ tasks' = tasks \ {i}
    /\ recs' = IF ok THEN recs \cup {i} ELSE recs
    /\ fails' = IF ok THEN fails ELSE fails + 1
    /\ UNCHANGED <<groups, coeffs, seen, marks, side, memory, history, deaths>>

\* The evaluation is over: the batch has drained and its records are pulled.
Settled == pc = "wait" /\ asked \cap tasks = {} /\ asked \cap recs \subseteq Readable

TellsScore(i) ==
    /\ Settled /\ asked = {i} /\ i \notin Batched /\ i \in Readable
    /\ Tells({i}, {})
    /\ pc' = "eval" /\ asked' = {}
    /\ UNCHANGED <<groups, archive, side, left, lost, fails, deaths>>

\* The marker is written before the optimiser is told; a write that fails is only
\* logged.
TellsFailure(i, marked) ==
    /\ Settled /\ asked = {i} /\ i \notin Batched /\ i \notin Readable
    /\ marked \/ deaths < MaxDeaths
    /\ marks' = IF marked THEN [marks EXCEPT ![side] = @ \cup {i}] ELSE marks
    /\ lost' = IF marked THEN lost ELSE lost \cup {i}
    /\ deaths' = IF marked THEN deaths ELSE deaths + 1
    /\ Tells({i}, {i})
    /\ pc' = "eval" /\ asked' = {}
    /\ UNCHANGED <<groups, recs, coeffs, seen, tasks, side, left, fails>>

--------------------------------------------------------------------------------
(***************************************************************************)
(* A group on the driver: one array for all of it, with neither a look at  *)
(* the markers nor a marker of its own.                                    *)
(***************************************************************************)
AtGroup(G) == pc = "eval" /\ side = "driver" /\ next \in G

ArrayReplays(G) ==
    /\ AtGroup(G) /\ G \subseteq Readable
    /\ Tells(G, {})
    /\ UNCHANGED <<groups, archive, side, pc, asked, left, lost, fails, deaths>>

ArrayTrains(G) ==
    /\ AtGroup(G) /\ ~(G \subseteq Readable)
    /\ Sends(G \ Readable)
    /\ UNCHANGED <<groups, recs, seen, marks, side, next, hist, history, fails, deaths>>

ArrayTells(G) ==
    /\ Settled /\ side = "driver" /\ asked # {} /\ asked \subseteq G
    /\ Tells(G, G \ Readable)
    /\ pc' = "eval" /\ asked' = {}
    /\ UNCHANGED <<groups, archive, side, left, lost, fails, deaths>>

Finishes ==
    /\ pc = "eval" /\ next = Budget + 1
    /\ pc' = "done"
    /\ UNCHANGED <<groups, archive, side, next, asked, hist, left, history, fails, deaths>>

--------------------------------------------------------------------------------
Eval(i) == \/ Replays(i) \/ ReplaysFailure(i) \/ Trains(i) \/ TellsScore(i)
           \/ \E marked \in BOOLEAN : TellsFailure(i, marked)
Group(G) == ArrayReplays(G) \/ ArrayTrains(G) \/ ArrayTells(G)
Pass    == (\E i \in Cands : Eval(i)) \/ (\E G \in groups : Group(G)) \/ Stops \/ Finishes
Tasks   == \E i \in Cands, ok \in BOOLEAN : TaskEnds(i, ok)
Launches == \E s \in Sides : Launch(s)

Next == Launches \/ Dies \/ Pull \/ Tasks \/ Pass

Spec == Init /\ [][Next]_vars

\* A chain that stopped or died is launched again, tasks end, the driver pulls.
FairSpec == Spec /\ WF_vars(Launches) /\ WF_vars(Pass) /\ WF_vars(Tasks) /\ WF_vars(Pull)

--------------------------------------------------------------------------------
(***************************************************************************)
(* Properties.                                                             *)
(***************************************************************************)

\* A resumed chain is told of every candidate what the first pass was told, wherever
\* the passes between were cut off: a score always, and a failure unless its marker
\* could not be written or it belongs to a group, which a driver sends without markers.
SameOutcome ==
    /\ redone \subseteq (UNION groups) \cup lost
    /\ \A i \in redone : told[i] = "sentinel"

\* The optimiser is told the score of a record for i, by itself or with its group.
Scores(i) == \/ Replays(i) \/ TellsScore(i)
             \/ \E G \in groups : i \in G \cap Readable /\ (ArrayReplays(G) \/ ArrayTells(G))

\* Until such an exception the records are those of this search: a score that the
\* optimiser is told was trained on the very proposal that it was asked for.
ScoresTheProposal ==
    [][\A i \in Cands : Scores(i) => redone \cup lost # {} \/ coeffs[i] = Proposal(i)]_vars

\* However small the wall budget of a job, the relaunched chain spends its budget.
Completes == <>(pc = "done")

\* campaign.py: the sentinel of a failed candidate is replayed.  Not so for those of a
\* group: a failure in its array leaves no marker, and a resumed chain trains it again.
ReplaysSentinels == redone \subseteq lost
================================================================================
