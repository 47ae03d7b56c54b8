----------------------------- MODULE TieredCampaign -----------------------------
(***************************************************************************)
(* One line of a tiered campaign, src/cluster/campaign.py:                 *)
(* run_campaign_tiered.  A pass runs the arms' search, freeze and core     *)
(* test in threads beside the canary and the baselines, then the pair      *)
(* test, the review gate and the sweep.  It may die anywhere; the next     *)
(* launch resumes from the disk.                                           *)
(*                                                                         *)
(*   disk     best, budget, frozen, rewards, full, sweep, report,          *)
(*            approval                               (survive a pass)      *)
(*   memory   pc, arm, win, canary, rest, approved, health, gated, block   *)
(***************************************************************************)
EXTENDS Naturals, FiniteSets

CONSTANTS
    LLMArms,      \* arms whose candidates a language model writes
    FamilyArms,   \* random_search and bayes_opt arms
    H2Arms,       \* arms tested together in the pair array
    Rewards,      \* rewards of candidates; 0 is none
    Unhashed,     \* rewards whose search records have an empty hash
    Canary,       \* a canary is configured
    NBlocks,      \* assurance blocks of the sweep
    HoldAtGate,   \* --hold-at-gate
    ApproveFlag,  \* people relaunch with --approve-tier1
    MaxDrift,     \* bound: candidates whose records arrive after their search
    MaxGrants,    \* bound: approvals that a person creates
    MaxLaunches   \* bound: launches of the line

Arms   == LLMArms \cup FamilyArms
Blocks == 1..NBlocks

ASSUME TieredAssumption ==
    /\ LLMArms \cap FamilyArms = {}
    /\ {"canary", "rest"} \cap Arms = {}
    /\ H2Arms \subseteq Arms
    /\ 0 \notin Rewards /\ Unhashed \subseteq Rewards
    /\ NBlocks \in Nat
    /\ Canary \in BOOLEAN /\ HoldAtGate \in BOOLEAN /\ ApproveFlag \in BOOLEAN

VARIABLES
    best,         \* best[a]: the reward select_winner returns for a now (0: none)
    budget,       \* arms whose search has all the candidates of its budget
    frozen,       \* frozen[a]: the reward of a's frozen winner (0: none)
    rewards,      \* rewards[a]: the rewards that test records of a carry
    full,         \* units with a record for every core seed
    sweep,        \* sweep[i]: records of block i
    report,       \* the integrity report exists
    approval,     \* the approval file: absent, older than the report, current
    pc,           \* the step of the pass
    arm,          \* arm[a]: where the thread of a is
    win,          \* winners: the reward in memory (0: none)
    canary,       \* the canary's thread
    rest,         \* the thread of the other baselines
    gated,        \* this pass did not skip its review gate
    approved,     \* the approval counted when this pass read it
    health,       \* health_ok of the report this pass wrote
    block,        \* block[i]: the test leg of block i in this pass
    outcome,      \* how the last pass ended
    flagged,      \* launched with --approve-tier1, after a stop for review
    pipelined,    \* launched with --pipeline-rungs
    drift, grants, launches,    \* counters of the bounds
    passages      \* history: gate passages on an approval

disk   == <<best, budget, frozen, rewards, full, sweep, report, approval>>
thread == <<arm, win, canary, rest>>
gate   == <<gated, approved, health>>
launch == <<flagged, pipelined, launches>>
vars   == <<disk, pc, thread, gate, block, outcome, launch, drift, grants, passages>>

Baselines == IF Canary THEN {"canary", "rest"} ELSE {"rest"}
Units     == Arms \cup Baselines
Steps     == {"down", "core", "pair", "read", "report", "decide", "sweep"}
Outcomes  == {"none", "crash", "canary", "arm_crash", "review", "incomplete", "done"}
ArmStates == {"start", "search", "select", "freeze", "test", "ok", "reason", "error"}
Ended     == {"ok", "reason", "error"}

TypeOK ==
    /\ best \in [Arms -> Rewards \cup {0}]
    /\ budget \subseteq Arms
    /\ frozen \in [Arms -> Rewards \cup {0}]
    /\ rewards \in [Arms -> SUBSET Rewards]
    /\ full \subseteq Units
    /\ sweep \in [Blocks -> {"none", "part", "full"}]
    /\ report \in BOOLEAN
    /\ approval \in {"absent", "stale", "current"}
    /\ pc \in Steps
    /\ arm \in [Arms -> ArmStates]
    /\ win \in [Arms -> Rewards \cup {0}]
    /\ canary \in {"running", "ok", "failed"}
    /\ rest \in {"running", "ok", "short", "error"}
    /\ gated \in BOOLEAN /\ approved \in BOOLEAN /\ health \in BOOLEAN
    /\ block \in [Blocks -> {"todo", "running", "ok", "short"}]
    /\ outcome \in Outcomes
    /\ flagged \in BOOLEAN /\ pipelined \in BOOLEAN
    /\ drift \in Nat /\ grants \in Nat /\ launches \in Nat /\ passages \in Nat

\* Without a canary nothing holds the arms.
CanaryAtStart == IF Canary THEN "running" ELSE "ok"

\* A pass ends: its outcome is known and its memory is gone.
PassOver(o) ==
    /\ pc' = "down" /\ outcome' = o
    /\ arm' = [a \in Arms |-> "start"]
    /\ win' = [a \in Arms |-> 0]
    /\ canary' = CanaryAtStart /\ rest' = "running"
    /\ gated' = TRUE /\ approved' = FALSE /\ health' = FALSE
    /\ block' = [i \in Blocks |-> "todo"]
    /\ flagged' = FALSE /\ pipelined' = FALSE

Init ==
    /\ budget = {} /\ full = {}
    /\ best = [a \in Arms |-> 0]
    /\ frozen = [a \in Arms |-> 0]
    /\ rewards = [a \in Arms |-> {}]
    /\ sweep = [i \in Blocks |-> "none"]
    /\ report = FALSE /\ approval = "absent"
    /\ pc = "down"
    /\ arm = [a \in Arms |-> "start"]
    /\ win = [a \in Arms |-> 0]
    /\ canary = CanaryAtStart /\ rest = "running"
    /\ gated = TRUE /\ approved = FALSE /\ health = FALSE
    /\ block = [i \in Blocks |-> "todo"]
    /\ outcome = "none" /\ flagged = FALSE /\ pipelined = FALSE
    /\ drift = 0 /\ grants = 0 /\ launches = 0 /\ passages = 0

--------------------------------------------------------------------------------
(***************************************************************************)
(* Around a pass: launches, deaths, the person, and late records.          *)
(***************************************************************************)

\* The line is launched, with --resume.  --approve-tier1 writes TIER1_APPROVED,
\* which is not the file the gate of a line reads.
Launch(pipe) ==
    /\ pc = "down" /\ outcome # "done"
    /\ launches < MaxLaunches
    /\ launches' = launches + 1
    /\ pc' = "core"
    /\ outcome' = "none"
    /\ flagged' = (ApproveFlag /\ outcome = "review")
    /\ pipelined' = pipe
    /\ UNCHANGED <<disk, thread, gate, block, drift, grants, passages>>

Crash ==
    /\ pc # "down"
    /\ PassOver("crash")
    /\ UNCHANGED <<disk, launches, drift, grants, passages>>

\* A person creates the approval file of the line; it counts against the report
\* that is there at that moment.
Approves ==
    /\ grants < MaxGrants
    /\ grants' = grants + 1
    /\ approval' = IF report THEN "current" ELSE "stale"
    /\ UNCHANGED <<best, budget, frozen, rewards, full, sweep, report,
                   pc, thread, gate, block, outcome, launch, drift, passages>>

\* The record of a candidate that the search had given up arrives: what
\* select_winner returns for the arm changes.
LateRecord(a, r) ==
    /\ drift < MaxDrift
    /\ best[a] # 0 /\ best[a] # r
    /\ drift' = drift + 1
    /\ best' = [best EXCEPT ![a] = r]
    /\ UNCHANGED <<budget, frozen, rewards, full, sweep, report, approval,
                   pc, thread, gate, block, outcome, launch, grants, passages>>

--------------------------------------------------------------------------------
(***************************************************************************)
(* The core: the arms, the canary and the baselines, in threads.           *)
(***************************************************************************)

\* An arm that spends waits for the canary's verdict: one event or the other.
MayAuthor == canary = "ok"
Abort     == canary = "failed"

StartsSearch(a) ==
    /\ pc = "core" /\ arm[a] = "start"
    /\ a \in LLMArms => MayAuthor
    /\ arm' = [arm EXCEPT ![a] = "search"]
    /\ UNCHANGED <<disk, pc, win, canary, rest, gate, block, outcome, launch, drift,
                   grants, passages>>

\* The canary failed: the arm returns without having written anything.
GivesUp(a) ==
    /\ pc = "core" /\ arm[a] = "start"
    /\ a \in LLMArms /\ Abort
    /\ arm' = [arm EXCEPT ![a] = "reason"]
    /\ UNCHANGED <<disk, pc, win, canary, rest, gate, block, outcome, launch, drift,
                   grants, passages>>

\* The search returns: with its whole budget or not, and with a candidate
\* worth freezing or not (a resumed search has what its archive had).
SearchReturns(a, r, whole) ==
    /\ pc = "core" /\ arm[a] = "search"
    /\ best[a] # 0 => r = best[a]
    /\ best' = [best EXCEPT ![a] = r]
    /\ budget' = IF whole THEN budget \cup {a} ELSE budget
    /\ arm' = [arm EXCEPT ![a] = "select"]
    /\ UNCHANGED <<frozen, rewards, full, sweep, report, approval, pc, win,
                   canary, rest, gate, block, outcome, launch, drift, grants, passages>>

\* An exception in the thread of an arm: search, selection or test leg.
ArmCrashes(a) ==
    /\ pc = "core" /\ arm[a] \in {"search", "select", "freeze", "test"}
    /\ arm' = [arm EXCEPT ![a] = "error"]
    /\ UNCHANGED <<disk, pc, win, canary, rest, gate, block, outcome, launch, drift,
                   grants, passages>>

\* No candidate, or none that is eligible.
NoWinner(a) ==
    /\ pc = "core" /\ arm[a] = "select"
    /\ best[a] = 0
    /\ arm' = [arm EXCEPT ![a] = "reason"]
    /\ UNCHANGED <<disk, pc, win, canary, rest, gate, block, outcome, launch, drift,
                   grants, passages>>

Selects(a) ==
    /\ pc = "core" /\ arm[a] = "select"
    /\ best[a] # 0
    /\ win' = [win EXCEPT ![a] = best[a]]
    /\ arm' = [arm EXCEPT ![a] = "freeze"]
    /\ UNCHANGED <<disk, pc, canary, rest, gate, block, outcome, launch, drift, grants,
                   passages>>

\* Mutant: no refusal.
NeverSwapped(a) == FALSE

\* _refuse_winner_swap: another reward is frozen already.  A frozen record always
\* has a hash; a selected one without is not compared.
Swapped(a) == frozen[a] # 0 /\ frozen[a] # win[a] /\ win[a] \notin Unhashed
RefusesSwap(a) ==
    /\ pc = "core" /\ arm[a] = "freeze"
    /\ Swapped(a)
    /\ win' = [win EXCEPT ![a] = 0]
    /\ arm' = [arm EXCEPT ![a] = "error"]
    /\ UNCHANGED <<disk, pc, canary, rest, gate, block, outcome, launch, drift, grants,
                   passages>>

\* The winner is frozen; an arm of the pair leaves its test to the pair array.
Freezes(a) ==
    /\ pc = "core" /\ arm[a] = "freeze"
    /\ ~Swapped(a)
    /\ frozen' = [frozen EXCEPT ![a] = win[a]]
    /\ arm' = [arm EXCEPT ![a] = IF a \in H2Arms THEN "ok" ELSE "test"]
    /\ UNCHANGED <<best, budget, rewards, full, sweep, report, approval, pc,
                   win, canary, rest, gate, block, outcome, launch, drift, grants,
                   passages>>

\* A test leg trains the winners in memory of the arms S; units that have every
\* record submit nothing.
Trains(S) ==
    rewards' = [a \in Arms |-> IF a \in S \ full THEN rewards[a] \cup {win[a]}
                                                ELSE rewards[a]]

\* The core test of an arm runs, and returns; its verdict is not looked at.
CoreTest(a, whole) ==
    /\ pc = "core" /\ arm[a] = "test"
    /\ Trains({a})
    /\ full' = IF whole THEN full \cup {a} ELSE full
    /\ arm' = [arm EXCEPT ![a] = "ok"]
    /\ UNCHANGED <<best, budget, frozen, sweep, report, approval, pc, win,
                   canary, rest, gate, block, outcome, launch, drift, grants, passages>>

\* Mutants: a batch that raises sets neither event; a short batch is let pass.
RaisesUnseen(how) ==
    CASE how = "whole" -> "ok" [] how = "raises" -> "silent" [] OTHER -> "failed"
LetsShortPass(how) == IF how \in {"whole", "short"} THEN "ok" ELSE "failed"

\* The event that the end of the canary sets: its records are there and the reader
\* parses them, or it is short, unreadable or raises, and all of those abort.
Verdict(how) == IF how = "whole" THEN "ok" ELSE "failed"

CanaryEnds(how) ==
    /\ Canary /\ pc = "core" /\ canary = "running"
    /\ canary' = Verdict(how)
    /\ full' = IF how \in {"whole", "unreadable"} THEN full \cup {"canary"} ELSE full
    /\ UNCHANGED <<best, budget, frozen, rewards, sweep, report, approval, pc,
                   arm, win, rest, gate, block, outcome, launch, drift, grants, passages>>

RestEnds(verdict) ==
    /\ pc = "core" /\ rest = "running"
    /\ rest' = verdict
    /\ full' = IF verdict = "ok" THEN full \cup {"rest"} ELSE full
    /\ UNCHANGED <<best, budget, frozen, rewards, sweep, report, approval, pc,
                   arm, win, canary, gate, block, outcome, launch, drift, grants,
                   passages>>

\* All threads have ended.
Drained ==
    /\ pc = "core"
    /\ \A a \in Arms : arm[a] \in Ended
    /\ canary # "running" /\ rest # "running"

\* Mutant: the survivors go on.
SurvivorsGoOn == FALSE

\* D14: only an arm that raised stops the pass.
Crashed == (\E a \in Arms : arm[a] = "error") \/ rest = "error"
CoreFails ==
    /\ Drained
    /\ canary = "failed" \/ Crashed
    /\ PassOver(IF canary = "failed" THEN "canary" ELSE "arm_crash")
    /\ UNCHANGED <<disk, launches, drift, grants, passages>>

CoreIsOver ==
    /\ Drained
    /\ canary # "failed" /\ ~Crashed
    /\ pc' = "pair"
    /\ UNCHANGED <<disk, thread, gate, block, outcome, launch, drift, grants, passages>>

\* The pair array of the H2 arms that have a winner.
Pair == {a \in H2Arms : win[a] # 0}

PairTest(whole) ==
    /\ pc = "pair"
    /\ Trains(Pair)
    /\ full' = IF whole THEN full \cup Pair ELSE full
    /\ pc' = "read"
    /\ UNCHANGED <<best, budget, frozen, sweep, report, approval, thread, gate,
                   block, outcome, launch, drift, grants, passages>>

CoreOk == (\A a \in Arms : arm[a] = "ok") /\ rest = "ok"

--------------------------------------------------------------------------------
(***************************************************************************)
(* The review gate.                                                        *)
(***************************************************************************)

\* An approval counts if it is not older than the report that is there.
Counts == approval = "current"
GateReads ==
    /\ pc = "read"
    /\ approved' = Counts
    /\ pc' = "report"
    /\ UNCHANGED <<disk, thread, gated, health, block, outcome, launch, drift, grants,
                   passages>>

\* --no-review-gate, which is refused with --hold-at-gate.
SkipsGate ==
    /\ pc = "read" /\ ~HoldAtGate
    /\ gated' = FALSE
    /\ pc' = "sweep"
    /\ UNCHANGED <<disk, thread, approved, health, block, outcome, launch, drift, grants,
                   passages>>

\* Mutant: the verdicts of the threads stand for the census of the records.
HealthyThreads == CoreOk

\* health_ok: every unit complete, every budget matched, one reward per unit.
Healthy ==
    /\ full = Units
    /\ budget = Arms
    /\ \A a \in Arms : Cardinality(rewards[a]) <= 1

\* Mutant: a report that is there is not written again.
KeepsItsAge == approval

\* The report is rewritten by every pass, and is then newer than any approval.
Aged == IF approval = "current" THEN "stale" ELSE approval

\* An inhomogeneity of devices or substrates makes the report red too.
GateReports(defect) ==
    /\ pc = "report"
    /\ report' = TRUE
    /\ approval' = Aged
    /\ health' = (Healthy /\ ~defect)
    /\ pc' = "decide"
    /\ UNCHANGED <<best, budget, frozen, rewards, full, sweep, thread, gated, approved,
                   block, outcome, launch, drift, grants, passages>>

GateStops ==
    /\ pc = "decide"
    /\ ~approved /\ (~health \/ HoldAtGate)
    /\ PassOver("review")
    /\ UNCHANGED <<disk, launches, drift, grants, passages>>

\* An approval is consumed: unlinked, unless the unlink fails.
GatePasses ==
    /\ pc = "decide"
    /\ approved \/ (health /\ ~HoldAtGate)
    /\ pc' = "sweep"
    /\ IF approved THEN approval' \in {"absent", approval} ELSE approval' = approval
    /\ passages' = IF approved THEN passages + 1 ELSE passages
    /\ UNCHANGED <<best, budget, frozen, rewards, full, sweep, report, thread,
                   gate, block, outcome, launch, drift, grants>>

--------------------------------------------------------------------------------
(***************************************************************************)
(* The sweep: the units with a winner, in blocks of seeds.                 *)
(***************************************************************************)
Swept == {a \in Arms : win[a] # 0}

\* Mutant: the ladder goes on over a short block.
StartsAnyway(i) == pipelined \/ \A j \in 1..(i - 1) : block[j] \in {"ok", "short"}

\* One after the other while they come back whole, or all at once.
MayStart(i) == pipelined \/ \A j \in 1..(i - 1) : block[j] = "ok"
BlockStarts(i) ==
    /\ pc = "sweep" /\ block[i] = "todo"
    /\ MayStart(i)
    /\ block' = [block EXCEPT ![i] = "running"]
    /\ sweep' = [sweep EXCEPT ![i] = IF @ = "none" THEN "part" ELSE @]
    /\ rewards' = [a \in Arms |-> IF a \in Swept /\ sweep[i] # "full"
                                  THEN rewards[a] \cup {win[a]} ELSE rewards[a]]
    /\ UNCHANGED <<best, budget, frozen, full, report, approval, pc, thread,
                   gate, outcome, launch, drift, grants, passages>>

BlockReturns(i, whole) ==
    /\ pc = "sweep" /\ block[i] = "running"
    /\ sweep[i] = "full" => whole
    /\ block' = [block EXCEPT ![i] = IF whole THEN "ok" ELSE "short"]
    /\ sweep' = [sweep EXCEPT ![i] = IF whole THEN "full" ELSE @]
    /\ UNCHANGED <<best, budget, frozen, rewards, full, report, approval, pc,
                   thread, gate, outcome, launch, drift, grants, passages>>

\* Mutant: only the last block that was due is looked at.
SweepOkLast == NBlocks = 0 \/ block[NBlocks] # "short"
SweepOk == \A i \in Blocks : block[i] # "short"

\* No block runs and none may start.
SweepOver == \A i \in Blocks : block[i] # "running" /\ (block[i] = "todo" => ~MayStart(i))

SweepEnds ==
    /\ pc = "sweep"
    /\ SweepOver
    /\ PassOver(IF CoreOk /\ SweepOk THEN "done" ELSE "incomplete")
    /\ UNCHANGED <<disk, launches, drift, grants, passages>>

--------------------------------------------------------------------------------
ArmStep(a) ==
    \/ StartsSearch(a) \/ GivesUp(a) \/ ArmCrashes(a) \/ NoWinner(a) \/ Selects(a)
    \/ RefusesSwap(a) \/ Freezes(a)
    \/ \E r \in Rewards \cup {0}, whole \in BOOLEAN : SearchReturns(a, r, whole)
    \/ \E whole \in BOOLEAN : CoreTest(a, whole)

CoreEnds   == CoreFails \/ CoreIsOver
CanaryStep == \E how \in {"whole", "short", "unreadable", "raises"} : CanaryEnds(how)
RestStep   == \E v \in {"ok", "short", "error"} : RestEnds(v)

GateStep == \/ \E whole \in BOOLEAN : PairTest(whole)
            \/ GateReads \/ SkipsGate
            \/ \E defect \in BOOLEAN : GateReports(defect)
            \/ GateStops \/ GatePasses

BlockStep(i) == BlockStarts(i) \/ \E whole \in BOOLEAN : BlockReturns(i, whole)

World ==
    \/ \E pipe \in BOOLEAN : Launch(pipe)
    \/ Crash \/ Approves
    \/ \E a \in Arms, r \in Rewards : LateRecord(a, r)

Next ==
    \/ World
    \/ \E a \in Arms : ArmStep(a)
    \/ CanaryStep \/ RestStep \/ CoreEnds \/ GateStep
    \/ \E i \in Blocks : BlockStep(i)
    \/ SweepEnds

Spec == Init /\ [][Next]_vars

--------------------------------------------------------------------------------
(***************************************************************************)
(* Properties.                                                             *)
(***************************************************************************)

\* No arm that is billed for its candidates is at work, in any pass, unless the
\* canary of that very pass came back whole: not in a resumed pass that starts from
\* the arm's own archive either, nor over a canary that was whole in an earlier one.
CanaryGuardsSpend ==
    \A a \in LLMArms :
        arm[a] \in {"search", "select", "freeze", "test", "ok"} =>
            canary = "ok" /\ (Canary => "canary" \in full)

\* The pair test is never built over a crashed thread, and an H2 arm that is
\* absent from it is absent by a result of the experiment.
PairIsWhole ==
    pc = "pair" =>
        /\ rest # "error" /\ \A a \in Arms : arm[a] # "error"
        /\ \A a \in H2Arms : win[a] = frozen[a] \/ arm[a] = "reason"

\* An approval opens the gate at most once, even if the pass dies between the
\* new report and the unlink, or the unlink fails.
OneApprovalOnePassage == passages <= grants

\* A sweep behind the gate runs over a core in which every record of every unit is
\* there, or over one that a person approved.
SweepOverCompleteCore ==
    pc = "sweep" /\ gated => approved \/ (full = Units /\ budget = Arms)

\* A line that exits 0 has the records of every block and a test for every arm.
DoneIsComplete ==
    outcome = "done" =>
        /\ \A i \in Blocks : sweep[i] = "full"
        /\ \A a \in Arms : frozen[a] # 0 /\ rewards[a] = {frozen[a]}

\* Without --pipeline-rungs no block is started over one that is not whole,
\* whatever earlier passes left behind.
LadderClean ==
    [][\A i \in Blocks : block[i] = "todo" /\ block'[i] = "running" /\ ~pipelined =>
            \A j \in 1..(i - 1) : sweep[j] = "full"]_vars

\* Whatever dies, drifts or is relaunched: one reward per arm is frozen, and it is
\* the one its test records carry.
Promise == INSTANCE WinnerPromise
    WITH chosen <- [a \in Arms |-> {frozen[a]} \ {0}], trained <- rewards
OneWinner == Promise!Spec

\* Nobody waits for a verdict that does not come: until the core is over some thread
\* of it can step, whichever of them failed, and a sweep with nothing left to start
\* has had every block back, or a short one.  (The steps between the core and the
\* sweep wait for nothing.)
CanStep(a) ==
    /\ arm[a] \notin Ended
    /\ arm[a] = "start" /\ a \in LLMArms => MayAuthor \/ Abort

PassMovesOn ==
    /\ pc = "core" => \/ Drained
                      \/ canary = "running" \/ rest = "running"
                      \/ \E a \in Arms : CanStep(a)
    /\ pc = "sweep" /\ SweepOver => \/ \A i \in Blocks : block[i] # "todo"
                                   \/ \E i \in Blocks : block[i] = "short"

\* A rerun with --approve-tier1 after a review is not stopped for review again
\* (not so: the flag writes a file that no gate reads).
ApprovedRerunPasses == [][flagged => outcome' # "review"]_vars
================================================================================
