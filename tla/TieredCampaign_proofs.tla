------------------------- MODULE TieredCampaign_proofs -------------------------
(***************************************************************************)
(* Theorems of TieredCampaign, for any arms, blocks, rewards and numbers   *)
(* of launches, approvals and late records.                                *)
(***************************************************************************)
EXTENDS TieredCampaign, FiniteSetTheorems, WellFoundedInduction, TLAPS

\* After the core every arm has a winner or a reason not to.
Later == {"pair", "read", "report", "decide", "sweep"}

\* The winner in the memory of a pass is the frozen one from the freeze on.
WinInv ==
    \A a \in Arms :
        /\ arm[a] \in {"start", "search", "select", "reason"} => win[a] = 0
        /\ arm[a] = "freeze" => win[a] \in Rewards
        /\ arm[a] \in {"test", "ok"} => win[a] \in Rewards /\ win[a] = frozen[a]
        /\ pc \in Later => arm[a] \in {"ok", "reason"}

\* A pass that is past its core had no error in the baselines.
RestInv == pc \in Later => rest # "error"

\* Approvals: those that count or have been read, and the passages, were granted.
Credit == (IF approval = "current" THEN 1 ELSE 0) + (IF pc = "decide" /\ approved THEN 1 ELSE 0)
ApprovalInv ==
    /\ approval = "current" => report
    /\ pc = "report" /\ approved => approval = "current"
    /\ passages + Credit <= grants

\* The verdicts of a pass stand for records on the disk, and an arm that is billed has
\* seen the verdict of the canary.
CanaryInv ==
    /\ canary = "ok" => (Canary => "canary" \in full)
    /\ \A a \in LLMArms : arm[a] \in {"search", "select", "freeze", "test", "ok"} => canary = "ok"
BlockInv  == \A i \in Blocks : block[i] = "ok" => sweep[i] = "full"

--------------------------------------------------------------------------------
\* Before the first launch nothing is there that a part could be false of.
LEMMA InitInv == Init => TypeOK /\ WinInv /\ RestInv /\ ApprovalInv /\ CanaryInv /\ BlockInv
<1> SUFFICES ASSUME Init
             PROVE  TypeOK /\ WinInv /\ RestInv /\ ApprovalInv /\ CanaryInv /\ BlockInv
  OBVIOUS
<1> USE DEF Init
<1>1. report \in BOOLEAN /\ gated \in BOOLEAN /\ approved \in BOOLEAN /\ health \in BOOLEAN
      /\ flagged \in BOOLEAN /\ pipelined \in BOOLEAN
  OBVIOUS
<1>2. TypeOK
  BY <1>1 DEF TypeOK, Steps, Outcomes, ArmStates, CanaryAtStart
<1>3. WinInv /\ RestInv /\ ApprovalInv /\ CanaryInv /\ BlockInv
  BY DEF WinInv, RestInv, ApprovalInv, Credit, CanaryInv, BlockInv, Later, CanaryAtStart, Arms
<1> QED  BY <1>2, <1>3

\* A pass that is over has the types of Init.
LEMMA PassOverType ==
  ASSUME TypeOK, NEW o \in Outcomes, PassOver(o), UNCHANGED <<disk, launches, drift, grants, passages>>
  PROVE  TypeOK'
<1> USE DEF TypeOK, PassOver, disk
<1>1. /\ gated' \in BOOLEAN /\ approved' \in BOOLEAN /\ health' \in BOOLEAN
      /\ flagged' \in BOOLEAN /\ pipelined' \in BOOLEAN /\ report' \in BOOLEAN
  OBVIOUS
<1>2. /\ pc' \in Steps /\ arm' \in [Arms -> ArmStates] /\ win' \in [Arms -> Rewards \cup {0}]
      /\ canary' \in {"running", "ok", "failed"}
      /\ rest' \in {"running", "ok", "short", "error"}
      /\ block' \in [Blocks -> {"todo", "running", "ok", "short"}]
      /\ outcome' \in Outcomes
  BY DEF Steps, ArmStates, CanaryAtStart
<1> QED  BY <1>1, <1>2

LEMMA NextType ==
  ASSUME TypeOK, WinInv, [Next]_vars
  PROVE  TypeOK'
<1> USE DEF TypeOK, disk, thread, gate, launch
<1>0. ASSUME NEW o \in Outcomes, PassOver(o), UNCHANGED <<disk, launches, drift, grants, passages>>
      PROVE  TypeOK'
  BY <1>0, PassOverType
<1>1. CASE World
  <2>1. ASSUME NEW pipe \in BOOLEAN, Launch(pipe) PROVE TypeOK'
    <3>1. flagged' \in BOOLEAN /\ pipelined' \in BOOLEAN
      BY <2>1 DEF Launch
    <3>2. pc' \in Steps /\ outcome' \in Outcomes /\ launches' \in Nat
      BY <2>1 DEF Launch, Steps, Outcomes
    <3> QED  BY <2>1, <3>1, <3>2 DEF Launch
  <2>2. CASE Crash
    BY <1>0, <2>2 DEF Crash, Outcomes
  <2>3. CASE Approves
    BY <2>3 DEF Approves
  <2>4. ASSUME NEW a \in Arms, NEW r \in Rewards, LateRecord(a, r) PROVE TypeOK'
    BY <2>4 DEF LateRecord
  <2> QED  BY <1>1, <2>1, <2>2, <2>3, <2>4 DEF World
<1>2. ASSUME NEW a \in Arms, ArmStep(a) PROVE TypeOK'
  <2> USE DEF ArmStates
  <2>1. CASE StartsSearch(a)
    BY <2>1 DEF StartsSearch
  <2>2. CASE GivesUp(a) \/ ArmCrashes(a) \/ NoWinner(a)
    BY <2>2 DEF GivesUp, ArmCrashes, NoWinner
  <2>3. CASE Selects(a) \/ RefusesSwap(a) \/ Freezes(a)
    BY <2>3 DEF Selects, RefusesSwap, Freezes
  <2>4. ASSUME NEW r \in Rewards \cup {0}, NEW whole \in BOOLEAN, SearchReturns(a, r, whole)
        PROVE  TypeOK'
    BY <2>4 DEF SearchReturns
  <2>5. ASSUME NEW whole \in BOOLEAN, CoreTest(a, whole)
        PROVE  TypeOK'
    <3>1. win[a] \in Rewards
      BY <2>5 DEF CoreTest, WinInv
    <3>2. rewards' \in [Arms -> SUBSET Rewards]
      BY <2>5, <3>1 DEF CoreTest, Trains
    <3>3. full' \subseteq Units
      BY <2>5 DEF CoreTest, Units
    <3>4. arm' \in [Arms -> ArmStates]
      BY <2>5 DEF CoreTest
    <3>5. UNCHANGED <<best, budget, frozen, sweep, report, approval, pc, win, canary, rest, gate,
                      block, outcome, launch, drift, grants, passages>>
      BY <2>5 DEF CoreTest
    <3> QED  BY <3>2, <3>3, <3>4, <3>5
  <2> QED  BY <1>2, <2>1, <2>2, <2>3, <2>4, <2>5 DEF ArmStep
<1>3. ASSUME NEW how, CanaryEnds(how)
      PROVE  TypeOK'
  <2>1. full' \subseteq Units /\ canary' \in {"running", "ok", "failed"}
    BY <1>3 DEF CanaryEnds, Verdict, Units, Baselines
  <2> QED  BY <1>3, <2>1 DEF CanaryEnds
<1>4. ASSUME NEW v \in {"ok", "short", "error"}, RestEnds(v)
      PROVE  TypeOK'
  <2>1. full' \subseteq Units /\ rest' \in {"running", "ok", "short", "error"}
    BY <1>4 DEF RestEnds, Units, Baselines
  <2> QED  BY <1>4, <2>1 DEF RestEnds
<1>5. CASE CoreEnds
  <2>1. CASE CoreFails
    BY <1>0, <2>1 DEF CoreFails, Outcomes
  <2>2. CASE CoreIsOver
    BY <2>2 DEF CoreIsOver, Steps
  <2> QED  BY <1>5, <2>1, <2>2 DEF CoreEnds
<1>6. CASE GateStep
  <2> USE DEF Steps
  <2>1. ASSUME NEW whole \in BOOLEAN, PairTest(whole) PROVE TypeOK'
    <3>1. rewards' \in [Arms -> SUBSET Rewards]
      BY <2>1 DEF PairTest, Trains, Pair
    <3>2. full' \subseteq Units
      BY <2>1, TieredAssumption DEF PairTest, Units, Pair
    <3> QED  BY <2>1, <3>1, <3>2 DEF PairTest
  <2>6. CASE SkipsGate
    <3>1. gated' \in BOOLEAN
      BY <2>6 DEF SkipsGate
    <3> QED  BY <2>6, <3>1 DEF SkipsGate
  <2>2. CASE GateReads
    <3>1. approved' \in BOOLEAN
      BY <2>2 DEF GateReads, Counts
    <3> QED  BY <2>2, <3>1 DEF GateReads
  <2>3. ASSUME NEW defect \in BOOLEAN, GateReports(defect) PROVE TypeOK'
    <3>1. health' \in BOOLEAN
      BY <2>3, Zenon DEF GateReports, Healthy
    <3>2. report' \in BOOLEAN /\ approval' \in {"absent", "stale", "current"} /\ pc' \in Steps
      BY <2>3 DEF GateReports, Aged
    <3> QED  BY <2>3, <3>1, <3>2 DEF GateReports
  <2>4. CASE GateStops
    BY <1>0, <2>4 DEF GateStops, Outcomes
  <2>5. CASE GatePasses
    BY <2>5 DEF GatePasses
  <2> QED  BY <1>6, <2>1, <2>2, <2>3, <2>4, <2>5, <2>6 DEF GateStep
<1>7. ASSUME NEW i \in Blocks, BlockStep(i) PROVE TypeOK'
  <2>1. CASE BlockStarts(i)
    <3>1. rewards' \in [Arms -> SUBSET Rewards]
      BY <2>1 DEF BlockStarts, Swept
    <3>2. /\ sweep' \in [Blocks -> {"none", "part", "full"}]
          /\ block' \in [Blocks -> {"todo", "running", "ok", "short"}]
      BY <2>1 DEF BlockStarts
    <3> QED  BY <2>1, <3>1, <3>2 DEF BlockStarts
  <2>2. ASSUME NEW whole \in BOOLEAN, BlockReturns(i, whole) PROVE TypeOK'
    <3>1. /\ sweep' \in [Blocks -> {"none", "part", "full"}]
          /\ block' \in [Blocks -> {"todo", "running", "ok", "short"}]
      BY <2>2 DEF BlockReturns
    <3> QED  BY <2>2, <3>1 DEF BlockReturns
  <2> QED  BY <1>7, <2>1, <2>2 DEF BlockStep
<1>8. CASE SweepEnds
  BY <1>0, <1>8 DEF SweepEnds, Outcomes
<1>9. CASE UNCHANGED vars
  BY <1>9 DEF vars
<1> QED  BY <1>1, <1>2, <1>3, <1>4, <1>5, <1>6, <1>7, <1>8, <1>9
         DEF Next, CanaryStep, RestStep
--------------------------------------------------------------------------------
(***************************************************************************)
(* The invariants, one topic at a time.                                    *)
(***************************************************************************)

LEMMA NextWin ==
  ASSUME TypeOK, WinInv, RestInv, [Next]_vars
  PROVE  WinInv' /\ RestInv'
<1> USE DEF WinInv, RestInv, disk, thread, launch
<1>1. ASSUME NEW o \in Outcomes, PassOver(o)
      PROVE  WinInv' /\ RestInv'
  BY <1>1 DEF PassOver, Later
<1>2. ASSUME UNCHANGED <<arm, win, frozen, rest>>, pc' \in Later => pc \in Later
      PROVE  WinInv' /\ RestInv'
  BY <1>2
<1>3. CASE World
  <2>1. CASE Crash
    BY <1>1, <2>1 DEF Crash, Outcomes
  <2>2. CASE ~Crash
    BY <1>2, <1>3, <2>2 DEF World, Launch, Approves, LateRecord, Later
  <2> QED  BY <2>1, <2>2
<1>4. ASSUME NEW a \in Arms, ArmStep(a) PROVE WinInv' /\ RestInv'
  <2>0. pc = "core" /\ pc' = "core" /\ pc' \notin Later
    BY <1>4 DEF ArmStep, StartsSearch, GivesUp, ArmCrashes, NoWinner, Selects, RefusesSwap, Freezes,
                SearchReturns, CoreTest, Later
  <2>1. CASE StartsSearch(a) \/ GivesUp(a) \/ ArmCrashes(a) \/ NoWinner(a)
    <3>1. UNCHANGED <<win, frozen>>
      BY <2>1 DEF StartsSearch, GivesUp, ArmCrashes, NoWinner
    <3>2. \/ arm[a] \in {"start", "search", "select"} /\ \E s \in {"search", "reason"} : arm' = [arm EXCEPT ![a] = s]
          \/ arm' = [arm EXCEPT ![a] = "error"]
      BY <2>1 DEF StartsSearch, GivesUp, ArmCrashes, NoWinner
    <3> QED  BY <2>0, <3>1, <3>2 DEF TypeOK
  <2>2. CASE Selects(a)
    BY <2>0, <2>2 DEF Selects, TypeOK
  <2>3. CASE RefusesSwap(a) \/ Freezes(a)
    BY <2>0, <2>3 DEF RefusesSwap, Freezes, TypeOK
  <2>4. ASSUME NEW r \in Rewards \cup {0}, NEW whole \in BOOLEAN,
               SearchReturns(a, r, whole) \/ CoreTest(a, whole)
        PROVE  WinInv' /\ RestInv'
    BY <2>0, <2>4 DEF SearchReturns, CoreTest, TypeOK
  <2> QED  BY <1>4, <2>1, <2>2, <2>3, <2>4 DEF ArmStep
<1>5. CASE CanaryStep \/ RestStep
  <2>1. pc' = "core" /\ UNCHANGED <<arm, win, frozen>>
    BY <1>5 DEF CanaryStep, CanaryEnds, RestStep, RestEnds
  <2> QED  BY <2>1 DEF Later
<1>6. CASE CoreEnds
  <2>1. CASE CoreFails
    BY <1>1, <2>1 DEF CoreFails, Outcomes
  <2>2. CASE CoreIsOver
    BY <2>2 DEF CoreIsOver, Drained, Crashed, Ended
  <2> QED  BY <1>6, <2>1, <2>2 DEF CoreEnds
<1>7. CASE GateStep
  BY <1>1, <1>2, <1>7 DEF GateStep, PairTest, GateReads, SkipsGate, GateReports, GateStops, GatePasses, Outcomes, Later
<1>8. ASSUME NEW i \in Blocks, BlockStep(i) PROVE WinInv' /\ RestInv'
  BY <1>2, <1>8 DEF BlockStep, BlockStarts, BlockReturns
<1>9. CASE SweepEnds
  BY <1>1, <1>9 DEF SweepEnds, Outcomes
<1>10. CASE UNCHANGED vars
  BY <1>2, <1>10 DEF vars
<1> QED  BY <1>3, <1>4, <1>5, <1>6, <1>7, <1>8, <1>9, <1>10 DEF Next

LEMMA NextApproval ==
  ASSUME TypeOK, ApprovalInv, [Next]_vars
  PROVE  ApprovalInv'
<1> USE DEF ApprovalInv, Credit, TypeOK, disk, gate
<1>1. ASSUME UNCHANGED <<approval, report, passages, grants>>, pc' # "decide", pc' # "report"
      PROVE  ApprovalInv'
  BY <1>1
<1>2. ASSUME NEW o \in Outcomes, PassOver(o), UNCHANGED <<approval, report, passages, grants>>
      PROVE  ApprovalInv'
  BY <1>1, <1>2 DEF PassOver
<1>3. CASE World
  <2>1. CASE Approves
    BY <2>1 DEF Approves
  <2>2. ASSUME NEW pipe \in BOOLEAN, Launch(pipe) PROVE ApprovalInv'
    BY <1>1, <2>2 DEF Launch
  <2>3. CASE Crash
    BY <1>2, <2>3 DEF Crash, Outcomes
  <2>4. ASSUME NEW a \in Arms, NEW r \in Rewards, LateRecord(a, r) PROVE ApprovalInv'
    BY <2>4 DEF LateRecord
  <2> QED  BY <1>3, <2>1, <2>2, <2>3, <2>4 DEF World
<1>4. ASSUME NEW a \in Arms, ArmStep(a) PROVE ApprovalInv'
  BY <1>1, <1>4 DEF ArmStep, StartsSearch, GivesUp, ArmCrashes, NoWinner, Selects, RefusesSwap,
                    Freezes, SearchReturns, CoreTest
<1>5. CASE CanaryStep \/ RestStep
  BY <1>1, <1>5 DEF CanaryStep, CanaryEnds, RestStep, RestEnds
<1>6. CASE CoreEnds
  BY <1>1, <1>2, <1>6 DEF CoreEnds, CoreFails, CoreIsOver, Outcomes
<1>7. CASE GateStep
  <2>1. ASSUME NEW whole \in BOOLEAN, PairTest(whole) PROVE ApprovalInv'
    BY <1>1, <2>1 DEF PairTest
  <2>2. CASE GateReads \/ SkipsGate
    BY <1>1, <2>2 DEF GateReads, SkipsGate, Counts
  <2>3. ASSUME NEW defect \in BOOLEAN, GateReports(defect) PROVE ApprovalInv'
    BY <2>3 DEF GateReports, Aged
  <2>4. CASE GateStops
    BY <1>2, <2>4 DEF GateStops, Outcomes
  <2>5. CASE GatePasses
    BY <2>5 DEF GatePasses
  <2> QED  BY <1>7, <2>1, <2>2, <2>3, <2>4, <2>5 DEF GateStep
<1>8. ASSUME NEW i \in Blocks, BlockStep(i) PROVE ApprovalInv'
  BY <1>1, <1>8 DEF BlockStep, BlockStarts, BlockReturns
<1>9. CASE SweepEnds
  BY <1>2, <1>9 DEF SweepEnds, Outcomes
<1>10. CASE UNCHANGED vars
  BY <1>10 DEF vars
<1> QED  BY <1>3, <1>4, <1>5, <1>6, <1>7, <1>8, <1>9, <1>10 DEF Next
LEMMA NextCanaryBlock ==
  ASSUME TypeOK, CanaryInv, BlockInv, [Next]_vars
  PROVE  CanaryInv' /\ BlockInv'
<1> USE DEF TypeOK, CanaryInv, BlockInv, disk, thread
<1>1. ASSUME full \subseteq full', UNCHANGED <<arm, canary, block, sweep>>
      PROVE  CanaryInv' /\ BlockInv'
  BY <1>1
<1>2. ASSUME NEW o \in Outcomes, PassOver(o), UNCHANGED full
      PROVE  CanaryInv' /\ BlockInv'
  BY <1>2 DEF PassOver, CanaryAtStart, Arms
<1>3. CASE World
  BY <1>1, <1>2, <1>3 DEF World, Launch, Crash, Approves, LateRecord, Outcomes
<1>4. ASSUME NEW a \in Arms, ArmStep(a) PROVE CanaryInv' /\ BlockInv'
  <2>1. full \subseteq full' /\ UNCHANGED <<canary, block, sweep>>
    BY <1>4 DEF ArmStep, StartsSearch, GivesUp, ArmCrashes, NoWinner, Selects, RefusesSwap,
                Freezes, SearchReturns, CoreTest
  <2>2. /\ \A b \in Arms \ {a} : arm'[b] = arm[b]
        /\ \/ arm'[a] \in {"reason", "error"}
           \/ arm[a] \in {"search", "select", "freeze", "test"}
           \/ a \in LLMArms => canary = "ok"
    BY <1>4 DEF ArmStep, StartsSearch, MayAuthor, GivesUp, ArmCrashes, NoWinner, Selects,
                RefusesSwap, Freezes, SearchReturns, CoreTest
  <2>3. \A b \in LLMArms : arm'[b] \in {"search", "select", "freeze", "test", "ok"} => canary = "ok"
    BY <2>2 DEF Arms
  <2> QED  BY <2>1, <2>3
<1>5. CASE CanaryStep
  <2>1. PICK how \in {"whole", "short", "unreadable", "raises"} : CanaryEnds(how)
    BY <1>5 DEF CanaryStep
  <2>2. canary = "running" /\ UNCHANGED <<arm, block, sweep>> /\ full \subseteq full'
    BY <2>1 DEF CanaryEnds
  <2>3. canary' = "ok" => "canary" \in full'
    BY <2>1 DEF CanaryEnds, Verdict
  <2> QED  BY <2>2, <2>3
<1>6. CASE RestStep
  BY <1>1, <1>6 DEF RestStep, RestEnds
<1>7. CASE CoreEnds
  BY <1>1, <1>2, <1>7 DEF CoreEnds, CoreFails, CoreIsOver, Outcomes
<1>8. CASE GateStep
  BY <1>1, <1>2, <1>8 DEF GateStep, PairTest, GateReads, SkipsGate, GateReports, GateStops, GatePasses, Outcomes
<1>9. ASSUME NEW i \in Blocks, BlockStep(i) PROVE CanaryInv' /\ BlockInv'
  BY <1>9 DEF BlockStep, BlockStarts, BlockReturns
<1>10. CASE SweepEnds
  BY <1>2, <1>10 DEF SweepEnds, Outcomes
<1>11. CASE UNCHANGED vars
  BY <1>11 DEF vars
<1> QED  BY <1>3, <1>4, <1>5, <1>6, <1>7, <1>8, <1>9, <1>10, <1>11 DEF Next

IInv == TypeOK /\ WinInv /\ RestInv /\ ApprovalInv /\ CanaryInv /\ BlockInv

LEMMA Inductive == Spec => []IInv
<1>1. IInv /\ [Next]_vars => IInv'
  BY NextType, NextWin, NextApproval, NextCanaryBlock DEF IInv
<1>2. Init => IInv
  BY InitInv DEF IInv
<1> QED  BY <1>1, <1>2, PTL DEF Spec

--------------------------------------------------------------------------------
(***************************************************************************)
(* The theorems.                                                           *)
(***************************************************************************)

\* The state has its types in every pass and between passes.
THEOREM TypeCorrect == Spec => []TypeOK
BY Inductive, PTL DEF IInv

\* The gate lets no more sweeps pass on approvals than a person granted, wherever passes
\* die and however many of them read the same file.
THEOREM ApprovalsAreSpent == Spec => []OneApprovalOnePassage
<1>1. IInv => OneApprovalOnePassage
  BY DEF IInv, TypeOK, ApprovalInv, Credit, OneApprovalOnePassage
<1> QED  BY Inductive, <1>1, PTL

\* The pair test is built of winners that are frozen, and over no crashed thread.
THEOREM PairsAreWhole == Spec => []PairIsWhole
<1>1. IInv => PairIsWhole
  BY TieredAssumption DEF IInv, WinInv, RestInv, PairIsWhole, Later
<1> QED  BY Inductive, <1>1, PTL

\* No model is at work, and billed, in a pass whose canary has not come back whole:
\* resumed or not, and whatever an earlier pass found of its own canary.
THEOREM SpendIsGuarded == Spec => []CanaryGuardsSpend
<1>1. IInv => CanaryGuardsSpend
  BY DEF IInv, CanaryInv, CanaryGuardsSpend
<1> QED  BY Inductive, <1>1, PTL

\* Without --pipeline-rungs a block is started only over blocks with all their records.
THEOREM LadderIsClean == Spec => LadderClean
<1>1. IInv /\ [Next]_vars =>
        [\A i \in Blocks : block[i] = "todo" /\ block'[i] = "running" /\ ~pipelined =>
            \A j \in 1..(i - 1) : sweep[j] = "full"]_vars
  <2> SUFFICES ASSUME IInv, Next, NEW i \in Blocks, block[i] = "todo", block'[i] = "running",
                      ~pipelined, NEW j \in 1..(i - 1)
               PROVE  sweep[j] = "full"
    OBVIOUS
  <2>1. j \in Blocks
    BY TieredAssumption DEF Blocks
  <2>2. \E k \in Blocks : BlockStep(k)
    BY DEF Next, World, Launch, Crash, Approves, LateRecord, ArmStep, StartsSearch, GivesUp,
           ArmCrashes, NoWinner, Selects, RefusesSwap, Freezes, SearchReturns, CoreTest,
           CanaryStep, CanaryEnds, RestStep,
           RestEnds, CoreEnds, CoreFails, CoreIsOver, GateStep, PairTest, GateReads, SkipsGate, GateReports,
           GateStops, GatePasses, SweepEnds, PassOver
  <2>3. BlockStarts(i)
    BY <2>2 DEF BlockStep, BlockStarts, BlockReturns, IInv, TypeOK
  <2>4. block[j] = "ok"
    BY <2>3 DEF BlockStarts, MayStart
  <2> QED  BY <2>1, <2>4 DEF IInv, BlockInv
<1> QED  BY Inductive, <1>1, PTL DEF Spec, LadderClean
--------------------------------------------------------------------------------
(***************************************************************************)
(* The refinement.                                                         *)
(***************************************************************************)
LEMMA PromiseInit == Init => Promise!Init
<1> SUFFICES ASSUME Init PROVE Promise!Init
  OBVIOUS
<1>1. \A a \in Arms : {frozen[a]} \ {0} = {}
  BY DEF Init
<1> QED  BY <1>1 DEF Init, Promise!Init

\* Trainings on the winner in memory are trainings on what was chosen.
LEMMA TrainsTheChosen ==
  ASSUME TypeOK, WinInv, NEW S \in SUBSET Arms, UNCHANGED frozen,
         \A a \in S : win[a] \in Rewards /\ win[a] = frozen[a],
         rewards' = [a \in Arms |-> IF a \in S THEN rewards[a] \cup {win[a]} ELSE rewards[a]]
  PROVE  Promise!Train(S)
<1>1. \A a \in S : {frozen[a]} \ {0} = {win[a]}
  BY TieredAssumption
<1> QED  BY <1>1 DEF Promise!Train

\* The steps that neither freeze nor train.
LEMMA PromiseFrame ==
  ASSUME World \/ CanaryStep \/ RestStep \/ CoreEnds \/ GateStep \/ SweepEnds \/ UNCHANGED vars,
         ~ \E whole \in BOOLEAN : PairTest(whole)
  PROVE  UNCHANGED <<frozen, rewards>>
BY DEF World, Launch, Crash, Approves, LateRecord, CanaryStep, CanaryEnds, RestStep, RestEnds,
       CoreEnds, CoreFails, CoreIsOver, GateStep, GateReads, SkipsGate, GateReports, GateStops, GatePasses,
       SweepEnds, vars, disk

LEMMA PromiseStep ==
  ASSUME Unhashed = {}, IInv, [Next]_vars
  PROVE  [Promise!Next]_Promise!vars
<1> USE DEF IInv
<1>1. ASSUME UNCHANGED <<frozen, rewards>>
      PROVE  UNCHANGED Promise!vars
  BY <1>1 DEF Promise!vars
<1>2. ASSUME NEW S \in SUBSET Arms, Promise!Train(S)
      PROVE  Promise!Next
  BY <1>2 DEF Promise!Next
<1>3. ASSUME NEW a \in Arms, ArmStep(a)
      PROVE  [Promise!Next]_Promise!vars
  <2>1. ASSUME ~ Freezes(a), ~ \E whole \in BOOLEAN : CoreTest(a, whole)
        PROVE  UNCHANGED <<frozen, rewards>>
    BY <1>3, <2>1 DEF ArmStep, StartsSearch, GivesUp, ArmCrashes, NoWinner, Selects, RefusesSwap,
                      SearchReturns, disk
  <2>2. CASE Freezes(a)
    <3>1. win[a] \in Rewards /\ win[a] # 0 /\ UNCHANGED rewards
      BY <2>2, TieredAssumption DEF Freezes, WinInv
    <3>2. CASE frozen[a] = win[a]
      <4>1. frozen' = frozen
        BY <2>2, <3>2 DEF Freezes, TypeOK
      <4> QED  BY <1>1, <3>1, <4>1
    <3>3. CASE frozen[a] # win[a]
      <4>1. frozen[a] = 0
        BY <2>2, <3>3 DEF Freezes, Swapped
      <4>2. frozen' = [frozen EXCEPT ![a] = win[a]]
        BY <2>2 DEF Freezes
      <4>3. /\ frozen'[a] = win[a]
            /\ \A b \in Arms : b # a => frozen'[b] = frozen[b]
        BY <4>2 DEF TypeOK
      <4>4. [b \in Arms |-> {frozen'[b]} \ {0}] =
              [[b \in Arms |-> {frozen[b]} \ {0}] EXCEPT ![a] = {win[a]}]
        BY <3>1, <4>3
      <4>5. PICK r \in Rewards : r = win[a]
        BY <3>1
      <4>6. Promise!Choose(a, r)
        BY <3>1, <4>1, <4>4, <4>5 DEF Promise!Choose
      <4> QED  BY <4>6 DEF Promise!Next
    <3> QED  BY <3>2, <3>3
  <2>3. ASSUME NEW whole \in BOOLEAN, CoreTest(a, whole)
        PROVE  [Promise!Next]_Promise!vars
    <3>1. win[a] \in Rewards /\ win[a] = frozen[a] /\ UNCHANGED frozen
      BY <2>3 DEF CoreTest, WinInv
    <3>2. rewards' = [b \in Arms |-> IF b \in {a} \ full THEN rewards[b] \cup {win[b]} ELSE rewards[b]]
      BY <2>3 DEF CoreTest, Trains
    <3>3. PICK S \in SUBSET Arms : S = {a} \ full
      OBVIOUS
    <3>4. Promise!Train(S)
      BY <3>1, <3>2, <3>3, TrainsTheChosen
    <3> QED  BY <1>2, <3>4
  <2> QED  BY <1>1, <1>3, <2>1, <2>2, <2>3
<1>4. ASSUME NEW whole \in BOOLEAN, PairTest(whole)
      PROVE  [Promise!Next]_Promise!vars
  <2>1. /\ rewards' = [b \in Arms |-> IF b \in Pair \ full THEN rewards[b] \cup {win[b]} ELSE rewards[b]]
        /\ UNCHANGED frozen /\ pc = "pair"
    BY <1>4 DEF PairTest, Trains
  <2>2. \A a \in Arms : win[a] # 0 => win[a] \in Rewards /\ win[a] = frozen[a]
    BY <2>1 DEF WinInv, Later
  <2>3. PICK S \in SUBSET Arms : S = Pair \ full
    BY TieredAssumption DEF Pair
  <2>4. Promise!Train(S)
    BY <2>1, <2>2, <2>3, TrainsTheChosen DEF Pair
  <2> QED  BY <1>2, <2>4
<1>5. ASSUME NEW i \in Blocks, BlockStep(i)
      PROVE  [Promise!Next]_Promise!vars
  <2>1. CASE BlockStarts(i)
    <3>1. PICK S \in SUBSET Arms : S = IF sweep[i] # "full" THEN Swept ELSE {}
      BY DEF Swept
    <3>2. /\ rewards' = [b \in Arms |-> IF b \in S THEN rewards[b] \cup {win[b]} ELSE rewards[b]]
          /\ UNCHANGED frozen /\ pc = "sweep"
      BY <2>1, <3>1 DEF BlockStarts
    <3>3. \A a \in S : win[a] # 0
      BY <3>1 DEF Swept
    <3>4. \A a \in S : win[a] \in Rewards /\ win[a] = frozen[a]
      BY <3>2, <3>3 DEF WinInv, Later
    <3>5. Promise!Train(S)
      BY <3>2, <3>4, TrainsTheChosen
    <3> QED  BY <1>2, <3>5
  <2>2. ASSUME NEW whole \in BOOLEAN, BlockReturns(i, whole)
        PROVE  UNCHANGED <<frozen, rewards>>
    BY <2>2 DEF BlockReturns
  <2> QED  BY <1>1, <1>5, <2>1, <2>2 DEF BlockStep
<1> QED  BY <1>1, <1>3, <1>4, <1>5, PromiseFrame DEF Next

\* Whatever dies, drifts, crashes or is relaunched, a line implements the promise: one
\* reward per arm is chosen, and every sealed test record of the arm carries it.  (A
\* record of the search with an empty hash would pass the comparison.)
THEOREM KeepsThePromise == Unhashed = {} => (Spec => OneWinner)
<1> SUFFICES ASSUME Unhashed = {} PROVE Spec => OneWinner
  OBVIOUS
<1>1. IInv /\ [Next]_vars => [Promise!Next]_Promise!vars
  BY PromiseStep
<1> QED  BY Inductive, PromiseInit, <1>1, PTL DEF Spec, OneWinner, Promise!Spec
--------------------------------------------------------------------------------
(***************************************************************************)
(* Complete cores and complete lines.                                      *)
(***************************************************************************)

\* A unit that is full has records, every arm that comes back ok has been tested, and
\* the report's health stays true of the records.
TestedInv ==
    \A a \in Arms :
        /\ \A r \in rewards[a] : r = frozen[a] /\ r # 0
        /\ a \in full => frozen[a] \in rewards[a]
        /\ arm[a] = "ok" /\ (a \notin H2Arms \/ pc \in Later \ {"pair"})
              => frozen[a] \in rewards[a]

HealthInv ==
    /\ pc = "decide" \/ (pc = "sweep" /\ gated) => (health => full = Units /\ budget = Arms)
    /\ pc = "sweep" /\ gated => approved \/ health

DoneInv == outcome = "done" => pc = "down" /\ DoneIsComplete

\* A ladder that has come to rest, none of whose blocks is short, has climbed them all.
LEMMA LadderEnds ==
  ASSUME TypeOK, SweepOk, SweepOver
  PROVE  \A i \in Blocks : block[i] = "ok"
<1> USE DEF SweepOver
<1> DEFINE T == {i \in Blocks : block[i] = "todo"}
<1> SUFFICES ASSUME T # {} PROVE FALSE
  BY DEF TypeOK, SweepOk
<1>1. T \subseteq Nat
  BY DEF Blocks
<1> DEFINE R == {ss \in Nat \X Nat : ss[1] < ss[2]}
<1>0. IsWellFoundedOn(R, Nat)
  BY NatLessThanWellFounded DEF OpToRel
<1> HIDE DEF T, R
<1>2. PICK x \in T : \A y \in T : ~ (<<y, x>> \in R)
  BY <1>0, <1>1, WFMin
<1> USE DEF T, R
<1>3. \A j \in 1..(x - 1) : j \in Blocks /\ j < x
  BY <1>2, TieredAssumption DEF Blocks
<1>4. \A j \in 1..(x - 1) : j \notin T
  BY <1>1, <1>2, <1>3
<1>5. \A j \in 1..(x - 1) : block[j] = "ok"
  BY <1>3, <1>4 DEF TypeOK, SweepOk
<1> QED  BY <1>2, <1>5 DEF MayStart

\* A test leg over arms whose winner is frozen leaves records in all of them.
LEMMA TrainsTested ==
  ASSUME TypeOK, TestedInv, NEW S \in SUBSET Arms, UNCHANGED frozen,
         \A a \in S : win[a] \in Rewards /\ win[a] = frozen[a],
         Trains(S)
  PROVE  \A a \in Arms : /\ \A r \in rewards'[a] : r = frozen'[a] /\ r # 0
                         /\ frozen[a] \in rewards[a] => frozen'[a] \in rewards'[a]
                         /\ a \in S => frozen'[a] \in rewards'[a]
<1> SUFFICES ASSUME NEW a \in Arms
             PROVE  /\ \A r \in rewards'[a] : r = frozen'[a] /\ r # 0
                    /\ frozen[a] \in rewards[a] => frozen'[a] \in rewards'[a]
                    /\ a \in S => frozen'[a] \in rewards'[a]
  OBVIOUS
<1>1. CASE a \in S \ full
  <2>1. rewards'[a] = rewards[a] \cup {win[a]}
    BY <1>1 DEF Trains
  <2>2. win[a] = frozen[a] /\ win[a] # 0
    BY <1>1, TieredAssumption
  <2> QED  BY <2>1, <2>2 DEF TestedInv
<1>2. CASE a \notin S \ full
  <2>1. rewards'[a] = rewards[a]
    BY <1>2 DEF Trains
  <2> QED  BY <1>2, <2>1 DEF TestedInv
<1> QED  BY <1>1, <1>2

LEMMA NextTested ==
  ASSUME Unhashed = {}, TypeOK, WinInv, TestedInv, [Next]_vars
  PROVE  TestedInv'
<1> USE DEF disk, thread, launch
<1>1. ASSUME NEW o \in Outcomes, PassOver(o), UNCHANGED <<rewards, frozen, full>>
      PROVE  TestedInv'
  BY <1>1 DEF PassOver, TestedInv
<1>2. ASSUME UNCHANGED <<rewards, frozen, arm>>, full' \cap Arms \subseteq full,
             pc' \in Later \ {"pair"} => pc \in Later \ {"pair"}
      PROVE  TestedInv'
  BY <1>2 DEF TestedInv
<1>3. CASE World
  BY <1>1, <1>2, <1>3 DEF World, Launch, Crash, Approves, LateRecord, Outcomes, Later
<1>4. ASSUME NEW a \in Arms, ArmStep(a) PROVE TestedInv'
  <2>0. pc = "core" /\ pc' = "core" /\ pc' \notin Later
    BY <1>4 DEF ArmStep, StartsSearch, GivesUp, ArmCrashes, NoWinner, Selects, RefusesSwap, Freezes,
                SearchReturns, CoreTest, Later
  <2>1. ASSUME ~ Freezes(a), ~ \E whole \in BOOLEAN : CoreTest(a, whole)
        PROVE  TestedInv'
    <3>1. UNCHANGED <<rewards, frozen, full>>
      BY <1>4, <2>1 DEF ArmStep, StartsSearch, GivesUp, ArmCrashes, NoWinner, Selects, RefusesSwap,
                        SearchReturns
    <3>2. \E s \in ArmStates \ {"ok"} : arm' = [arm EXCEPT ![a] = s]
      BY <1>4, <2>1 DEF ArmStep, StartsSearch, GivesUp, ArmCrashes, NoWinner, Selects, RefusesSwap,
                        SearchReturns, ArmStates
    <3> QED  BY <2>0, <3>1, <3>2 DEF TestedInv, TypeOK
  <2>2. CASE Freezes(a)
    <3>1. /\ frozen' = [frozen EXCEPT ![a] = win[a]] /\ UNCHANGED <<rewards, full>>
          /\ arm' = [arm EXCEPT ![a] = IF a \in H2Arms THEN "ok" ELSE "test"]
          /\ frozen[a] = 0 \/ frozen[a] = win[a]
      BY <2>2 DEF Freezes, Swapped
    <3> QED  BY <2>0, <3>1 DEF TestedInv, TypeOK
  <2>3. ASSUME NEW whole \in BOOLEAN, CoreTest(a, whole)
        PROVE  TestedInv'
    <3>1. /\ Trains({a}) /\ UNCHANGED frozen /\ full' \subseteq full \cup {a}
          /\ arm' = [arm EXCEPT ![a] = "ok"] /\ win[a] \in Rewards /\ win[a] = frozen[a]
      BY <2>3 DEF CoreTest, WinInv
    <3>2. \A b \in Arms : /\ \A r \in rewards'[b] : r = frozen'[b] /\ r # 0
                          /\ frozen[b] \in rewards[b] => frozen'[b] \in rewards'[b]
                          /\ b = a => frozen'[b] \in rewards'[b]
      BY <3>1, TrainsTested
    <3>3. \A b \in Arms : b # a => arm'[b] = arm[b]
      BY <3>1 DEF TypeOK
    <3>4. \A b \in Arms : b \in full' => frozen'[b] \in rewards'[b]
      BY <3>1, <3>2 DEF TestedInv
    <3>5. \A b \in Arms : arm'[b] = "ok" /\ b \notin H2Arms => frozen'[b] \in rewards'[b]
      BY <3>2, <3>3 DEF TestedInv
    <3> QED  BY <2>0, <3>2, <3>4, <3>5 DEF TestedInv
  <2> QED  BY <2>1, <2>2, <2>3
<1>5. CASE CanaryStep \/ RestStep
  <2>1. UNCHANGED <<rewards, frozen, arm>> /\ pc' = "core" /\ full' \subseteq full \cup Baselines
    BY <1>5 DEF CanaryStep, CanaryEnds, RestStep, RestEnds, Baselines
  <2>2. Baselines \cap Arms = {}
    BY TieredAssumption DEF Baselines
  <2> QED  BY <1>2, <2>1, <2>2 DEF Later
<1>6. CASE CoreEnds
  BY <1>1, <1>2, <1>6 DEF CoreEnds, CoreFails, CoreIsOver, Outcomes, Later
<1>7. ASSUME NEW whole \in BOOLEAN, PairTest(whole)
      PROVE  TestedInv'
  <2>1. /\ Trains(Pair) /\ UNCHANGED <<frozen, arm>> /\ full' \subseteq full \cup Pair
        /\ pc = "pair"
    BY <1>7 DEF PairTest
  <2>2. PICK S \in SUBSET Arms : S = Pair
    BY TieredAssumption DEF Pair
  <2>3. \A a \in S : win[a] \in Rewards /\ win[a] = frozen[a]
    BY <2>1, <2>2 DEF WinInv, Pair, Later
  <2>4. \A a \in Arms : /\ \A r \in rewards'[a] : r = frozen'[a] /\ r # 0
                        /\ frozen[a] \in rewards[a] => frozen'[a] \in rewards'[a]
                        /\ a \in S => frozen'[a] \in rewards'[a]
    BY <2>1, <2>2, <2>3, TrainsTested
  <2>5. \A a \in H2Arms : arm[a] = "ok" => a \in Pair
    BY TieredAssumption DEF WinInv, Pair
  <2>8. \A a \in Arms : frozen[a] \in rewards[a] \/ a \in S => frozen'[a] \in rewards'[a]
    BY <2>4
  <2>6. \A a \in Arms : a \in full' => frozen'[a] \in rewards'[a]
    <3> HIDE DEF Pair
    <3>1. \A a \in Arms : a \in full' => a \in full \/ a \in S
      BY <2>1, <2>2
    <3> QED  BY <2>8, <3>1 DEF TestedInv
  <2>7. \A a \in Arms : arm'[a] = "ok" => frozen'[a] \in rewards'[a]
    <3> SUFFICES ASSUME NEW a \in Arms, arm[a] = "ok" PROVE frozen'[a] \in rewards'[a]
      BY <2>1
    <3>1. CASE a \in H2Arms
      <4>1. a \in S
        BY <2>2, <2>5, <3>1
      <4> QED  BY <2>8, <4>1
    <3>2. CASE a \notin H2Arms
      <4>1. frozen[a] \in rewards[a]
        BY <3>2 DEF TestedInv
      <4> QED  BY <2>8, <4>1
    <3> QED  BY <3>1, <3>2
  <2> QED  BY <2>4, <2>6, <2>7 DEF TestedInv
<1>8. CASE GateStep /\ ~ \E whole \in BOOLEAN : PairTest(whole)
  <2>1. CASE GateStops
    BY <1>1, <2>1 DEF GateStops, Outcomes
  <2>2. CASE ~GateStops
    BY <1>2, <1>8, <2>2 DEF GateStep, GateReads, SkipsGate, GateReports, GatePasses, Later
  <2> QED  BY <2>1, <2>2
<1>9. ASSUME NEW i \in Blocks, BlockStarts(i) PROVE TestedInv'
  <2>1. /\ UNCHANGED <<frozen, arm, full, pc>> /\ pc = "sweep"
        /\ \A a \in Arms : rewards'[a] \in {rewards[a], rewards[a] \cup {win[a]}}
        /\ \A a \in Arms : win[a] = 0 => rewards'[a] = rewards[a]
    BY <1>9 DEF BlockStarts, Swept
  <2>2. \A a \in Arms : win[a] # 0 => win[a] = frozen[a]
    BY <2>1 DEF WinInv, Later
  <2>3. \A a \in Arms : /\ \A r \in rewards'[a] : r = frozen'[a] /\ r # 0
                        /\ frozen[a] \in rewards[a] => frozen'[a] \in rewards'[a]
    BY <2>1, <2>2 DEF TestedInv
  <2> QED  BY <2>1, <2>3 DEF TestedInv
<1>10. ASSUME NEW i \in Blocks, NEW whole \in BOOLEAN, BlockReturns(i, whole) PROVE TestedInv'
  BY <1>2, <1>10 DEF BlockReturns
<1>11. CASE SweepEnds
  BY <1>1, <1>11 DEF SweepEnds, Outcomes
<1>12. CASE UNCHANGED vars
  BY <1>2, <1>12 DEF vars
<1> QED  BY <1>3, <1>4, <1>5, <1>6, <1>7, <1>8, <1>9, <1>10, <1>11, <1>12
         DEF Next, GateStep, BlockStep

LEMMA NextHealth ==
  ASSUME HealthInv, [Next]_vars
  PROVE  HealthInv'
<1> USE DEF disk, thread, gate, launch, HealthInv
<1>1. ASSUME NEW o \in Outcomes, PassOver(o) PROVE HealthInv'
  BY <1>1 DEF PassOver
<1>2. ASSUME pc' \notin {"decide", "sweep"} PROVE HealthInv'
  BY <1>2
<1>3. ASSUME UNCHANGED <<pc, gated, health, approved, full, budget>> PROVE HealthInv'
  BY <1>3
<1>4. CASE World
  BY <1>1, <1>2, <1>3, <1>4 DEF World, Launch, Crash, Approves, LateRecord, Outcomes
<1>5. ASSUME NEW a \in Arms, ArmStep(a) PROVE HealthInv'
  <2>1. pc' = "core"
    BY <1>5 DEF ArmStep, StartsSearch, GivesUp, ArmCrashes, NoWinner, Selects, RefusesSwap, Freezes,
                SearchReturns, CoreTest
  <2> QED  BY <1>2, <2>1
<1>6. CASE CanaryStep \/ RestStep
  BY <1>2, <1>6 DEF CanaryStep, CanaryEnds, RestStep, RestEnds
<1>7. CASE CoreEnds
  BY <1>1, <1>2, <1>7 DEF CoreEnds, CoreFails, CoreIsOver, Outcomes
<1>8. CASE GateStep
  <2>1. CASE GateStops
    BY <1>1, <2>1 DEF GateStops, Outcomes
  <2>2. CASE GatePasses
    BY <2>2 DEF GatePasses
  <2>5. CASE SkipsGate
    BY <2>5 DEF SkipsGate
  <2>3. ASSUME NEW defect \in BOOLEAN, GateReports(defect) PROVE HealthInv'
    <3>1. pc' = "decide" /\ health' = (Healthy /\ ~defect) /\ UNCHANGED <<full, budget>>
      BY <2>3 DEF GateReports
    <3>2. health' => Healthy
      BY <3>1
    <3>3. Healthy => full = Units /\ budget = Arms
      BY DEF Healthy
    <3>4. UNCHANGED Units
      OBVIOUS
    <3> HIDE DEF Units
    <3> QED  BY <3>1, <3>2, <3>3, <3>4
  <2>4. CASE GateReads \/ \E whole \in BOOLEAN : PairTest(whole)
    BY <1>2, <2>4 DEF GateReads, PairTest
  <2> QED  BY <1>8, <2>1, <2>2, <2>3, <2>4, <2>5 DEF GateStep
<1>9. ASSUME NEW i \in Blocks, BlockStep(i) PROVE HealthInv'
  BY <1>3, <1>9 DEF BlockStep, BlockStarts, BlockReturns
<1>10. CASE SweepEnds
  BY <1>1, <1>10 DEF SweepEnds, Outcomes
<1>11. CASE UNCHANGED vars
  BY <1>3, <1>11 DEF vars
<1> QED  BY <1>4, <1>5, <1>6, <1>7, <1>8, <1>9, <1>10, <1>11 DEF Next

LEMMA NextDone ==
  ASSUME IInv, TestedInv, DoneInv, [Next]_vars
  PROVE  DoneInv'
<1> USE DEF disk, thread, gate, launch
<1>1. ASSUME outcome' # "done" PROVE DoneInv'
  BY <1>1 DEF DoneInv
<1>2. ASSUME UNCHANGED <<outcome, pc, sweep, frozen, rewards>> PROVE DoneInv'
  BY <1>2 DEF DoneInv, DoneIsComplete
<1>3. ASSUME pc # "down", UNCHANGED outcome PROVE DoneInv'
  BY <1>1, <1>3 DEF DoneInv
<1>4. CASE World
  <2>1. CASE Crash
    BY <1>1, <2>1 DEF Crash, PassOver
  <2>2. ASSUME NEW pipe \in BOOLEAN, Launch(pipe) PROVE DoneInv'
    BY <1>1, <2>2 DEF Launch
  <2>3. CASE Approves \/ \E a \in Arms, r \in Rewards : LateRecord(a, r)
    BY <1>2, <2>3 DEF Approves, LateRecord
  <2> QED  BY <1>4, <2>1, <2>2, <2>3 DEF World
<1>5. ASSUME NEW a \in Arms, ArmStep(a) PROVE DoneInv'
  <2>1. pc = "core" /\ UNCHANGED outcome
    BY <1>5 DEF ArmStep, StartsSearch, GivesUp, ArmCrashes, NoWinner, Selects, RefusesSwap, Freezes,
                SearchReturns, CoreTest
  <2> QED  BY <1>3, <2>1
<1>6. CASE CanaryStep \/ RestStep
  BY <1>3, <1>6 DEF CanaryStep, CanaryEnds, RestStep, RestEnds
<1>7. CASE CoreEnds
  BY <1>1, <1>3, <1>7 DEF CoreEnds, CoreFails, CoreIsOver, PassOver, Drained
<1>8. CASE GateStep
  <2>1. CASE GateStops
    BY <1>1, <2>1 DEF GateStops, PassOver
  <2>2. CASE ~GateStops
    BY <1>3, <1>8, <2>2 DEF GateStep, GateReads, SkipsGate, GateReports, GatePasses, PairTest
  <2> QED  BY <2>1, <2>2
<1>9. ASSUME NEW i \in Blocks, BlockStep(i) PROVE DoneInv'
  BY <1>3, <1>9 DEF BlockStep, BlockStarts, BlockReturns
<1>10. CASE SweepEnds
  <2>1. CASE ~ (CoreOk /\ SweepOk)
    BY <1>1, <1>10, <2>1 DEF SweepEnds, PassOver
  <2>2. CASE CoreOk /\ SweepOk
    <3>1. /\ pc = "sweep" /\ pc' = "down" /\ UNCHANGED <<sweep, frozen, rewards>>
          /\ SweepOver
      BY <1>10 DEF SweepEnds, PassOver
    <3>2. \A i \in Blocks : sweep[i] = "full"
      BY <2>2, <3>1, LadderEnds DEF IInv, BlockInv
    <3>3. ASSUME NEW a \in Arms PROVE frozen[a] # 0 /\ rewards[a] = {frozen[a]}
      <4>1. arm[a] = "ok"
        BY <2>2 DEF CoreOk
      <4>2. frozen[a] \in Rewards
        BY <4>1 DEF IInv, WinInv
      <4>3. frozen[a] \in rewards[a] /\ \A r \in rewards[a] : r = frozen[a]
        BY <3>1, <4>1 DEF TestedInv, Later
      <4> QED  BY <4>2, <4>3, TieredAssumption
    <3> QED  BY <3>1, <3>2, <3>3 DEF DoneInv, DoneIsComplete
  <2> QED  BY <2>1, <2>2
<1>11. CASE UNCHANGED vars
  BY <1>2, <1>11 DEF vars
<1> QED  BY <1>4, <1>5, <1>6, <1>7, <1>8, <1>9, <1>10, <1>11 DEF Next

LEMMA InductiveTested == Unhashed = {} => (Spec => [](TestedInv /\ DoneInv))
<1> SUFFICES ASSUME Unhashed = {} PROVE Spec => [](TestedInv /\ DoneInv)
  OBVIOUS
<1>1. Init => TestedInv /\ DoneInv
  BY DEF Init, TestedInv, DoneInv
<1>2. IInv /\ TestedInv /\ DoneInv /\ [Next]_vars => TestedInv' /\ DoneInv'
  BY NextTested, NextDone DEF IInv
<1> QED  BY Inductive, <1>1, <1>2, PTL DEF Spec

LEMMA InductiveHealth == Spec => []HealthInv
<1>1. Init => HealthInv
  BY DEF Init, HealthInv
<1> QED  BY <1>1, NextHealth, PTL DEF Spec

\* A sweep behind the gate runs over a core whose every unit and budget is complete, or
\* over one that a person approved: the health of the report stays true while it runs.
THEOREM SweepsAreWarranted == Spec => []SweepOverCompleteCore
<1>1. HealthInv => SweepOverCompleteCore
  BY DEF HealthInv, SweepOverCompleteCore
<1> QED  BY InductiveHealth, <1>1, PTL

\* A line that has exited 0 holds every record of every block and, for every arm, test
\* records that carry the reward of its frozen winner, and no other, if every record of
\* the search has its hash.
THEOREM DoneMeansComplete == Unhashed = {} => (Spec => []DoneIsComplete)
<1> SUFFICES ASSUME Unhashed = {} PROVE Spec => []DoneIsComplete
  OBVIOUS
<1>1. DoneInv => DoneIsComplete
  BY DEF DoneInv, DoneIsComplete
<1> QED  BY InductiveTested, <1>1, PTL

--------------------------------------------------------------------------------
(***************************************************************************)
(* A pass moves on.                                                        *)
(***************************************************************************)

\* No pass stalls: whichever threads failed, some thread of a core that is not over can
\* step, and a sweep that has nothing left to start had every block back, or a short one.
THEOREM PassNeverStalls == Spec => []PassMovesOn
<1>1. ASSUME IInv
      PROVE  PassMovesOn
  <2> USE DEF IInv, TypeOK
  <2>1. ASSUME canary # "running", rest # "running", \A a \in Arms : ~CanStep(a)
        PROVE  \A a \in Arms : arm[a] \in Ended
    BY <1>1, <2>1 DEF CanStep, MayAuthor, Abort
  <2>2. pc = "core" => Drained \/ canary = "running" \/ rest = "running" \/ \E a \in Arms : CanStep(a)
    BY <2>1 DEF Drained
  <2>3. SweepOver => (\A i \in Blocks : block[i] # "todo") \/ (\E i \in Blocks : block[i] = "short")
    BY <1>1, LadderEnds DEF SweepOk
  <2> QED  BY <2>2, <2>3 DEF PassMovesOn
<1> QED  BY <1>1, Inductive, PTL

(***************************************************************************)
(* An arm returns from its core.  Its thread and the canary's are          *)
(* scheduled while they can step; nothing is asked of the other arms, of   *)
(* the baselines or of the person.                                         *)
(***************************************************************************)
CanaryScheduled == []<>~(pc = "core" /\ canary = "running") \/ []<><<CanaryStep>>_vars
ArmScheduled(a) == []<>~(pc = "core" /\ CanStep(a)) \/ []<><<ArmStep(a)>>_vars

\* The stages of the thread of an arm; Out when it has ended, or the pass has.
Waiting(a) == pc = "core" /\ arm[a] = "start" /\ canary = "running"
Stage(a)   == IF pc # "core" \/ arm[a] \in Ended THEN 0
              ELSE CASE arm[a] = "start"  -> 5
                     [] arm[a] = "search" -> 4
                     [] arm[a] = "select" -> 3
                     [] arm[a] = "freeze" -> 2
                     [] arm[a] = "test"   -> 1

Returns(a) == pc = "core" /\ arm[a] = "start" ~> pc # "core" \/ arm[a] \in Ended

LEMMA StageType ==
  ASSUME TypeOK, NEW a \in Arms
  PROVE  Stage(a) \in 0 .. 5 /\ (Stage(a) = 0 <=> pc # "core" \/ arm[a] \in Ended)
BY DEF TypeOK, ArmStates, Ended, Stage

LEMMA StageTypeNext ==
  ASSUME TypeOK, WinInv, [Next]_vars, NEW a \in Arms
  PROVE  Stage(a)' \in 0 .. 5
<1>1. TypeOK'
  BY NextType
<1> QED  BY <1>1 DEF TypeOK, ArmStates, Ended, Stage

\* A step of the arm takes it on, and no other step takes it back.
LEMMA StageFalls ==
  ASSUME TypeOK, [Next]_vars, NEW a \in Arms, Stage(a) # 0
  PROVE  /\ Stage(a)' = Stage(a) \/ Stage(a)' < Stage(a)
         /\ ArmStep(a) => Stage(a)' < Stage(a)
         /\ Waiting(a)' => Waiting(a)
         /\ CanaryStep => ~Waiting(a)'
<1>0. pc = "core" /\ arm[a] \notin Ended
  BY DEF Stage
<1> USE DEF TypeOK, ArmStates, Ended
<1>1. ASSUME ArmStep(a)
      PROVE  Stage(a)' < Stage(a) /\ ~Waiting(a)' /\ ~CanaryStep
  <2>1. CASE StartsSearch(a) \/ GivesUp(a)
    BY <1>0, <2>1 DEF StartsSearch, GivesUp, Stage, Waiting, CanaryStep, CanaryEnds
  <2>2. CASE ArmCrashes(a)
    BY <1>0, <2>2 DEF ArmCrashes, Stage, Waiting, CanaryStep, CanaryEnds
  <2>3. CASE NoWinner(a) \/ Selects(a) \/ RefusesSwap(a)
    BY <1>0, <2>3 DEF NoWinner, Selects, RefusesSwap, Stage, Waiting, CanaryStep, CanaryEnds
  <2>4. CASE Freezes(a)
    BY <1>0, <2>4 DEF Freezes, Stage, Waiting, CanaryStep, CanaryEnds
  <2>5. CASE \E r \in Rewards \cup {0}, whole \in BOOLEAN : SearchReturns(a, r, whole)
    BY <1>0, <2>5 DEF SearchReturns, Stage, Waiting, CanaryStep, CanaryEnds
  <2>6. CASE \E whole \in BOOLEAN : CoreTest(a, whole)
    BY <1>0, <2>6 DEF CoreTest, Stage, Waiting, CanaryStep, CanaryEnds
  <2> QED  BY <1>1, <2>1, <2>2, <2>3, <2>4, <2>5, <2>6 DEF ArmStep
<1>2. ASSUME ~ArmStep(a)
      PROVE  \/ pc' # "core"
             \/ pc' = pc /\ arm'[a] = arm[a] /\ canary' \in {canary, "ok", "failed"}
  <2>1. CASE World
    BY <1>0, <2>1 DEF World, Launch, Crash, PassOver, Approves, LateRecord, thread
  <2>2. ASSUME NEW b \in Arms \ {a}, ArmStep(b)
        PROVE  pc' = pc /\ arm'[a] = arm[a] /\ canary' = canary
    BY <2>2 DEF ArmStep, StartsSearch, GivesUp, ArmCrashes, NoWinner, Selects, RefusesSwap,
                Freezes, SearchReturns, CoreTest
  <2>3. CASE CanaryStep \/ RestStep
    BY <2>3 DEF CanaryStep, CanaryEnds, Verdict, RestStep, RestEnds
  <2>4. CASE CoreEnds
    BY <2>4 DEF CoreEnds, CoreFails, CoreIsOver, PassOver
  <2>5. CASE GateStep \/ SweepEnds \/ \E i \in Blocks : BlockStep(i)
    BY <1>0, <2>5 DEF GateStep, PairTest, GateReads, SkipsGate, GateReports, GateStops, GatePasses,
                      SweepEnds, BlockStep, BlockStarts, BlockReturns
  <2>6. CASE UNCHANGED vars
    BY <2>6 DEF vars, thread
  <2> QED  BY <1>2, <2>1, <2>2, <2>3, <2>4, <2>5, <2>6 DEF Next
<1>3. CASE pc' # "core"
  <2>1. Stage(a)' = 0 /\ Stage(a) \in 1 .. 5
    BY <1>3, StageType DEF Stage
  <2> QED  BY <1>3, <2>1 DEF Waiting
<1>4. ASSUME CanaryStep PROVE canary' # "running"
  BY <1>4 DEF CanaryStep, CanaryEnds, Verdict
<1>5. CASE ~ArmStep(a) /\ pc' = "core"
  BY <1>2, <1>4, <1>5 DEF Stage, Waiting
<1>6. CASE ArmStep(a)
  BY <1>1, <1>6
<1> QED  BY <1>3, <1>5, <1>6

LEMMA ArmReturns ==
  ASSUME NEW a \in Arms
  PROVE  Spec /\ CanaryScheduled /\ ArmScheduled(a) => Returns(a)
<1> DEFINE S0 == Stage(a) = 0
           S1 == Stage(a) = 1
           S2 == Stage(a) = 2
           S3 == Stage(a) = 3
           S4 == Stage(a) = 4
           S5 == Stage(a) = 5
           W  == Waiting(a)
           C  == pc = "core" /\ canary = "running"
           G  == pc = "core" /\ CanStep(a)
<1>1. ASSUME IInv, [Next]_vars, NEW n \in 1 .. 5, Stage(a) = n
      PROVE  /\ Stage(a)' \in 0 .. n
             /\ <<ArmStep(a)>>_vars => Stage(a)' \in 0 .. n - 1
             /\ W' => W
             /\ <<CanaryStep>>_vars => ~W'
  <2>1. Stage(a)' \in 0 .. 5
    BY <1>1, StageTypeNext DEF IInv
  <2> QED  BY <1>1, <2>1, StageFalls DEF IInv
<1>2. IInv => /\ S0 \/ S1 \/ S2 \/ S3 \/ S4 \/ S5
              /\ S0 <=> pc # "core" \/ arm[a] \in Ended
              /\ W => C
              /\ ~S0 /\ ~W => G
  <2> SUFFICES ASSUME IInv PROVE /\ S0 \/ S1 \/ S2 \/ S3 \/ S4 \/ S5
                                 /\ S0 <=> pc # "core" \/ arm[a] \in Ended
                                 /\ W => C
                                 /\ ~S0 /\ ~W => G
    OBVIOUS
  <2>1. ~S0 /\ ~W => G
    BY StageType DEF IInv, TypeOK, Waiting, CanStep, MayAuthor, Abort
  <2> QED  BY <2>1, StageType DEF IInv, Waiting
<1>3. IInv /\ [Next]_vars /\ ~S0 => /\ W' => W
                                    /\ <<CanaryStep>>_vars => ~W'
  BY <1>1, StageType DEF IInv
<1>4. IInv /\ [Next]_vars /\ S5 =>
        (S0 \/ S1 \/ S2 \/ S3 \/ S4 \/ S5)' /\ (<<ArmStep(a)>>_vars => (S0 \/ S1 \/ S2 \/ S3 \/ S4)')
  BY <1>1
<1>5. IInv /\ [Next]_vars /\ S4 =>
        (S0 \/ S1 \/ S2 \/ S3 \/ S4)' /\ (<<ArmStep(a)>>_vars => (S0 \/ S1 \/ S2 \/ S3)')
  BY <1>1
<1>6. IInv /\ [Next]_vars /\ S3 =>
        (S0 \/ S1 \/ S2 \/ S3)' /\ (<<ArmStep(a)>>_vars => (S0 \/ S1 \/ S2)')
  BY <1>1
<1>7. IInv /\ [Next]_vars /\ S2 => (S0 \/ S1 \/ S2)' /\ (<<ArmStep(a)>>_vars => (S0 \/ S1)')
  BY <1>1
<1>8. IInv /\ [Next]_vars /\ S1 => (S0 \/ S1)' /\ (<<ArmStep(a)>>_vars => S0')
  BY <1>1
<1> HIDE DEF W
<1> QED  BY <1>2, <1>3, <1>4, <1>5, <1>6, <1>7, <1>8, Inductive, PTL
         DEF Spec, CanaryScheduled, ArmScheduled, Returns

\* Every arm returns: it searches, freezes and tests, or is told that the canary failed,
\* whatever the other arms and the baselines do and whoever of them raises.
THEOREM ArmsReturn ==
  Spec /\ CanaryScheduled /\ (\A a \in Arms : ArmScheduled(a)) => \A a \in Arms : Returns(a)
<1>1. \A a \in Arms : Spec /\ CanaryScheduled /\ ArmScheduled(a) => Returns(a)
  BY ArmReturns
<1> QED  BY <1>1

(***************************************************************************)
(* A pass ends: what it has left is the steps to its end, the stages of    *)
(* the arms' threads, the two threads beside them, and the blocks.         *)
(***************************************************************************)
Rank == CASE pc = "core"   -> 6
          [] pc = "pair"   -> 5
          [] pc = "read"   -> 4
          [] pc = "report" -> 3
          [] pc = "decide" -> 2
          [] pc = "sweep"  -> 1
          [] OTHER         -> 0

AtLeast(n) == {a \in Arms : Stage(a) >= n}
ArmsLeft   == Cardinality(AtLeast(1)) + Cardinality(AtLeast(2)) + Cardinality(AtLeast(3))
              + Cardinality(AtLeast(4)) + Cardinality(AtLeast(5))
Beside     == (IF canary = "running" THEN 1 ELSE 0) + (IF rest = "running" THEN 1 ELSE 0)
BlocksIn(T) == {i \in Blocks : block[i] \in T}
BlocksLeft == Cardinality(BlocksIn({"todo"})) + Cardinality(BlocksIn({"todo", "running"}))

Work == IF pc = "down" THEN 0 ELSE Rank + ArmsLeft + Beside + BlocksLeft

\* Not of the pass: a person approves, a record arrives late.
Outside == Approves \/ \E a \in Arms, r \in Rewards : LateRecord(a, r)

\* A set that loses members, and one in particular.
LEMMA Shrinks ==
  ASSUME NEW S, NEW T, IsFiniteSet(S), T \subseteq S
  PROVE  /\ Cardinality(S) \in Nat /\ Cardinality(T) \in Nat /\ Cardinality(T) <= Cardinality(S)
         /\ T # S => Cardinality(T) < Cardinality(S)
<1>1. IsFiniteSet(T) /\ Cardinality(T) <= Cardinality(S)
  BY FS_Subset
<1>2. Cardinality(S) \in Nat /\ Cardinality(T) \in Nat
  BY <1>1, FS_CardinalityType
<1>3. T # S => Cardinality(T) < Cardinality(S)
  <2> SUFFICES ASSUME T # S PROVE Cardinality(T) # Cardinality(S)
    BY <1>1, <1>2
  <2> QED  BY FS_Subset
<1> QED  BY <1>1, <1>2, <1>3

LEMMA ArmsAndBlocksFinite ==
  ASSUME IsFiniteSet(Arms)
  PROVE  /\ \A n \in 1 .. 5 : IsFiniteSet(AtLeast(n)) /\ Cardinality(AtLeast(n)) \in Nat
         /\ \A T : IsFiniteSet(BlocksIn(T)) /\ Cardinality(BlocksIn(T)) \in Nat
<1>1. \A n \in 1 .. 5 : IsFiniteSet(AtLeast(n)) /\ Cardinality(AtLeast(n)) \in Nat
  BY FS_Subset, FS_CardinalityType DEF AtLeast
<1>2. IsFiniteSet(Blocks)
  BY TieredAssumption, FS_Interval DEF Blocks
<1>3. \A T : IsFiniteSet(BlocksIn(T)) /\ Cardinality(BlocksIn(T)) \in Nat
  BY <1>2, FS_Subset, FS_CardinalityType DEF BlocksIn
<1> QED  BY <1>1, <1>3

\* Within a pass no thread of an arm goes back.
LEMMA NoArmGoesBack ==
  ASSUME TypeOK, WinInv, Next, pc # "down", NEW a \in Arms
  PROVE  /\ Stage(a)' <= Stage(a) /\ Stage(a) \in 0 .. 5 /\ Stage(a)' \in 0 .. 5
         /\ ArmStep(a) => Stage(a)' < Stage(a)
<1>1. Stage(a) \in 0 .. 5 /\ Stage(a)' \in 0 .. 5
  BY StageType, StageTypeNext
<1>2. CASE Stage(a) # 0
  BY <1>1, <1>2, StageFalls
<1>3. ASSUME Stage(a) = 0
      PROVE  Stage(a)' = 0 /\ ~ArmStep(a)
  <2>1. pc # "core" \/ arm[a] \in Ended
    BY <1>3, StageType
  <2>2. ~ArmStep(a)
    BY <2>1 DEF ArmStep, StartsSearch, GivesUp, ArmCrashes, NoWinner, Selects, RefusesSwap,
                Freezes, SearchReturns, CoreTest, Ended
  <2>3. pc' # "core" \/ (pc = "core" /\ arm'[a] = arm[a])
    <3>1. CASE World
      BY <3>1 DEF World, Launch, Crash, PassOver, Approves, LateRecord, thread
    <3>2. ASSUME NEW b \in Arms \ {a}, ArmStep(b)
          PROVE  pc = "core" /\ arm'[a] = arm[a]
      BY <3>2 DEF ArmStep, StartsSearch, GivesUp, ArmCrashes, NoWinner, Selects, RefusesSwap,
                  Freezes, SearchReturns, CoreTest, TypeOK
    <3>3. CASE CanaryStep \/ RestStep
      BY <3>3 DEF CanaryStep, CanaryEnds, RestStep, RestEnds
    <3>4. CASE CoreEnds
      BY <3>4 DEF CoreEnds, CoreFails, CoreIsOver, PassOver
    <3>5. CASE GateStep \/ SweepEnds \/ \E i \in Blocks : BlockStep(i)
      BY <3>5 DEF GateStep, PairTest, GateReads, SkipsGate, GateReports, GateStops, GatePasses, PassOver,
                  SweepEnds, BlockStep, BlockStarts, BlockReturns
    <3> QED  BY <2>2, <3>1, <3>2, <3>3, <3>4, <3>5 DEF Next
  <2> QED  BY <2>1, <2>2, <2>3 DEF Stage
<1>4. CASE Stage(a) = 0
  BY <1>3, <1>4
<1> QED  BY <1>1, <1>2, <1>4

LEMMA ArmsLeftFalls ==
  ASSUME IsFiniteSet(Arms), TypeOK, WinInv, Next, pc # "down"
  PROVE  /\ ArmsLeft \in Nat /\ ArmsLeft' \in Nat /\ ArmsLeft' <= ArmsLeft
         /\ (\E a \in Arms : ArmStep(a)) => ArmsLeft' < ArmsLeft
<1>1. \A n \in 1 .. 5 : AtLeast(n)' \subseteq AtLeast(n)
  BY NoArmGoesBack DEF AtLeast
<1>2. \A n \in 1 .. 5 : /\ Cardinality(AtLeast(n)) \in Nat /\ Cardinality(AtLeast(n)') \in Nat
                        /\ Cardinality(AtLeast(n)') <= Cardinality(AtLeast(n))
                        /\ AtLeast(n)' # AtLeast(n) =>
                              Cardinality(AtLeast(n)') < Cardinality(AtLeast(n))
  BY <1>1, ArmsAndBlocksFinite, Shrinks
<1>3. /\ ArmsLeft = Cardinality(AtLeast(1)) + Cardinality(AtLeast(2)) + Cardinality(AtLeast(3))
                    + Cardinality(AtLeast(4)) + Cardinality(AtLeast(5))
      /\ ArmsLeft' = Cardinality(AtLeast(1)') + Cardinality(AtLeast(2)') + Cardinality(AtLeast(3)')
                    + Cardinality(AtLeast(4)') + Cardinality(AtLeast(5)')
  BY DEF ArmsLeft
<1>4. ASSUME NEW a \in Arms, ArmStep(a)
      PROVE  \E n \in 1 .. 5 : AtLeast(n)' # AtLeast(n)
  <2>1. Stage(a) \in 1 .. 5 /\ ~(Stage(a)' >= Stage(a))
    BY <1>4, NoArmGoesBack
  <2>2. a \in AtLeast(Stage(a))
    BY <2>1 DEF AtLeast
  <2>3. \A n \in 1 .. 5 : n = Stage(a) => a \notin AtLeast(n)'
    BY <2>1 DEF AtLeast
  <2> QED  BY <2>1, <2>2, <2>3
<1> HIDE DEF AtLeast
<1>5. 1 \in 1 .. 5 /\ 2 \in 1 .. 5 /\ 3 \in 1 .. 5 /\ 4 \in 1 .. 5 /\ 5 \in 1 .. 5
  OBVIOUS
<1>6. ArmsLeft \in Nat /\ ArmsLeft' \in Nat /\ ArmsLeft' <= ArmsLeft
  BY <1>2, <1>3, <1>5
<1>7. ASSUME NEW n \in 1 .. 5, AtLeast(n)' # AtLeast(n)
      PROVE  ArmsLeft' < ArmsLeft
  <2>1. Cardinality(AtLeast(n)') < Cardinality(AtLeast(n))
    BY <1>2, <1>7
  <2>2. n = 1 \/ n = 2 \/ n = 3 \/ n = 4 \/ n = 5
    OBVIOUS
  <2> QED  BY <1>2, <1>3, <1>5, <2>1, <2>2
<1> QED  BY <1>4, <1>6, <1>7

LEMMA BlocksLeftFalls ==
  ASSUME IsFiniteSet(Arms), TypeOK
  PROVE  /\ BlocksLeft \in Nat
         /\ block' = block => BlocksLeft' = BlocksLeft
         /\ \A i \in Blocks : BlockStep(i) => BlocksLeft' \in Nat /\ BlocksLeft' < BlocksLeft
<1> DEFINE A == BlocksIn({"todo"})
           B == BlocksIn({"todo", "running"})
<1>1. /\ IsFiniteSet(A) /\ IsFiniteSet(B)
      /\ Cardinality(A) \in Nat /\ Cardinality(B) \in Nat
  BY ArmsAndBlocksFinite
<1>2. BlocksLeft = Cardinality(A) + Cardinality(B) /\ BlocksLeft' = Cardinality(A') + Cardinality(B')
  BY DEF BlocksLeft
<1>3. block' = block => A' = A /\ B' = B
  BY DEF BlocksIn
<1>4. ASSUME NEW i \in Blocks, BlockStarts(i)
      PROVE  A' \subseteq A /\ A' # A /\ B' = B
  <2>1. block[i] = "todo" /\ block' = [block EXCEPT ![i] = "running"]
    BY <1>4 DEF BlockStarts
  <2> QED  BY <2>1 DEF BlocksIn, TypeOK
<1>5. ASSUME NEW i \in Blocks, NEW whole \in BOOLEAN, BlockReturns(i, whole)
      PROVE  A' = A /\ B' \subseteq B /\ B' # B
  <2>1. block[i] = "running" /\ block' = [block EXCEPT ![i] = IF whole THEN "ok" ELSE "short"]
    BY <1>5 DEF BlockReturns
  <2> QED  BY <2>1 DEF BlocksIn, TypeOK
<1> HIDE DEF A, B
<1>6. ASSUME A' \subseteq A, B' \subseteq B, A' # A \/ B' # B
      PROVE  BlocksLeft' \in Nat /\ BlocksLeft' < BlocksLeft
  <2>1. /\ Cardinality(A') \in Nat /\ Cardinality(A') <= Cardinality(A)
        /\ A' # A => Cardinality(A') < Cardinality(A)
    BY <1>1, <1>6, Shrinks
  <2>2. /\ Cardinality(B') \in Nat /\ Cardinality(B') <= Cardinality(B)
        /\ B' # B => Cardinality(B') < Cardinality(B)
    BY <1>1, <1>6, Shrinks
  <2> QED  BY <1>1, <1>2, <1>6, <2>1, <2>2
<1>7. block' = block => BlocksLeft' = BlocksLeft
  BY <1>2, <1>3
<1>8. \A i \in Blocks : BlockStep(i) => BlocksLeft' \in Nat /\ BlocksLeft' < BlocksLeft
  BY <1>4, <1>5, <1>6 DEF BlockStep
<1> QED  BY <1>1, <1>2, <1>7, <1>8

\* Which part of what is left a step of the pass uses up.
LEMMA PassSteps ==
  ASSUME IsFiniteSet(Arms), TypeOK, TypeOK', WinInv, Next, pc # "down", pc' # "down"
  PROVE  /\ BlocksLeft' \in Nat /\ BlocksLeft' <= BlocksLeft
         /\ Beside' <= Beside /\ Rank' <= Rank
         /\ Outside => UNCHANGED <<pc, arm, canary, rest, block>>
         /\ ~Outside => \/ \E a \in Arms : ArmStep(a)
                        \/ BlocksLeft' < BlocksLeft \/ Beside' < Beside \/ Rank' < Rank
<1> USE DEF Steps
<1>0. BlocksLeft \in Nat /\ (block' = block => BlocksLeft' = BlocksLeft)
  BY BlocksLeftFalls
<1>1. CASE Outside
  <2>1. UNCHANGED <<pc, arm, canary, rest, block>>
    BY <1>1 DEF Outside, Approves, LateRecord, thread
  <2> QED  BY <1>0, <1>1, <2>1 DEF Beside, Rank
<1>2. ASSUME NEW a \in Arms, ArmStep(a)
      PROVE  UNCHANGED <<pc, canary, rest, block, grants, drift>>
  BY <1>2 DEF ArmStep, StartsSearch, GivesUp, ArmCrashes, NoWinner, Selects, RefusesSwap,
              Freezes, SearchReturns, CoreTest
<1>3. CASE \E a \in Arms : ArmStep(a)
  <2>1. UNCHANGED <<pc, canary, rest, block, grants, drift>>
    BY <1>2, <1>3
  <2>2. ~Outside
    BY <2>1 DEF Outside, Approves, LateRecord, TypeOK
  <2> QED  BY <1>0, <1>3, <2>1, <2>2 DEF Beside, Rank
<1>4. CASE CanaryStep \/ RestStep
  <2>1. /\ UNCHANGED <<pc, block, grants, drift>>
        /\ \/ canary = "running" /\ canary' # "running" /\ rest' = rest
           \/ rest = "running" /\ rest' # "running" /\ canary' = canary
    BY <1>4 DEF CanaryStep, CanaryEnds, Verdict, RestStep, RestEnds
  <2>2. Beside' < Beside
    BY <2>1 DEF Beside
  <2>3. ~Outside
    BY <2>1 DEF Outside, Approves, LateRecord, TypeOK
  <2> QED  BY <1>0, <2>1, <2>2, <2>3 DEF Beside, Rank
<1>5. CASE CoreEnds \/ GateStep \/ SweepEnds
  <2>1. /\ UNCHANGED <<canary, rest, block, grants, drift>>
        /\ \/ pc = "core" /\ pc' = "pair"
           \/ pc = "pair" /\ pc' = "read"
           \/ pc = "read" /\ pc' \in {"report", "sweep"}
           \/ pc = "report" /\ pc' = "decide"
           \/ pc = "decide" /\ pc' = "sweep"
    BY <1>5 DEF CoreEnds, CoreFails, CoreIsOver, Drained, GateStep, PairTest, GateReads,
                SkipsGate, GateReports, GateStops, GatePasses, SweepEnds, PassOver, thread
  <2>2. Rank' < Rank /\ Rank' <= Rank
    BY <2>1 DEF Rank
  <2>3. ~Outside
    BY <2>1 DEF Outside, Approves, LateRecord, TypeOK
  <2>4. Beside' <= Beside
    BY <2>1 DEF Beside
  <2>5. BlocksLeft' \in Nat /\ BlocksLeft' <= BlocksLeft
    BY <1>0, <2>1
  <2> QED  BY <2>2, <2>3, <2>4, <2>5
<1>6. ASSUME NEW i \in Blocks, BlockStep(i)
      PROVE  UNCHANGED <<pc, canary, rest, grants, drift>>
  BY <1>6 DEF BlockStep, BlockStarts, BlockReturns, thread
<1>7. CASE \E i \in Blocks : BlockStep(i)
  <2>1. UNCHANGED <<pc, canary, rest, grants, drift>>
    BY <1>6, <1>7
  <2>2. BlocksLeft' \in Nat /\ BlocksLeft' < BlocksLeft
    BY <1>7, BlocksLeftFalls
  <2>3. ~Outside
    BY <2>1 DEF Outside, Approves, LateRecord, TypeOK
  <2> QED  BY <1>0, <2>1, <2>2, <2>3 DEF Beside, Rank
<1>8. ~Crash /\ ~ \E pipe \in BOOLEAN : Launch(pipe)
  BY DEF Crash, PassOver, Launch
<1> QED  BY <1>1, <1>3, <1>4, <1>5, <1>7, <1>8 DEF Next, World, Outside

\* With every step of its own a pass comes nearer to its end, through crashing arms, a
\* failed canary, short blocks and a gate that stops it: what it has left is a number that
\* falls.  The person and the late records, which may come at any time, give it nothing
\* more to do.
THEOREM PassAdvances ==
  IsFiniteSet(Arms) =>
    (Spec => [](Work \in Nat)
             /\ [][pc # "down" => IF Outside THEN Work' = Work ELSE Work' < Work]_vars)
<1> SUFFICES ASSUME IsFiniteSet(Arms)
             PROVE  Spec => [](Work \in Nat)
                            /\ [][pc # "down" => IF Outside THEN Work' = Work
                                                            ELSE Work' < Work]_vars
  OBVIOUS
<1>1. ASSUME TypeOK
      PROVE  /\ ArmsLeft \in Nat /\ BlocksLeft \in Nat /\ Beside \in 0 .. 2 /\ Rank \in 0 .. 6
             /\ pc # "down" => Rank >= 1
  <2>1. ArmsLeft \in Nat
    BY ArmsAndBlocksFinite DEF ArmsLeft
  <2>2. Rank \in 0 .. 6 /\ (pc # "down" => Rank >= 1)
    BY <1>1 DEF Rank, TypeOK, Steps
  <2> QED  BY <1>1, <2>1, <2>2, BlocksLeftFalls DEF Beside
<1>2. IInv => Work \in Nat
  BY <1>1 DEF IInv, Work
<1>3. IInv /\ IInv' /\ [Next]_vars =>
        [pc # "down" => IF Outside THEN Work' = Work ELSE Work' < Work]_vars
  <2> SUFFICES ASSUME IInv, IInv', Next, pc # "down"
               PROVE  IF Outside THEN Work' = Work ELSE Work' < Work
    OBVIOUS
  <2> USE DEF IInv
  <2>1. CASE pc' = "down"
    <3>1. ~Outside
      BY <2>1 DEF Outside, Approves, LateRecord
    <3>2. Work' = 0 /\ Work > 0
      BY <1>1, <2>1 DEF Work
    <3> QED  BY <3>1, <3>2
  <2>2. CASE pc' # "down"
    <3>1. /\ ArmsLeft \in Nat /\ ArmsLeft' \in Nat /\ ArmsLeft' <= ArmsLeft
          /\ (\E a \in Arms : ArmStep(a)) => ArmsLeft' < ArmsLeft
      BY ArmsLeftFalls
    <3>2. /\ BlocksLeft' \in Nat /\ BlocksLeft' <= BlocksLeft
          /\ Beside' <= Beside /\ Rank' <= Rank
          /\ Outside => UNCHANGED <<pc, arm, canary, rest, block>>
          /\ ~Outside => \/ \E a \in Arms : ArmStep(a)
                         \/ BlocksLeft' < BlocksLeft \/ Beside' < Beside \/ Rank' < Rank
      BY <2>2, PassSteps
    <3>3. Beside' \in Nat /\ Rank' \in Nat
      <4>1. Beside' \in Nat
        BY DEF Beside
      <4>2. Rank' \in Nat
        BY DEF Rank
      <4> QED  BY <4>1, <4>2
    <3>4. /\ Work = Rank + ArmsLeft + Beside + BlocksLeft
          /\ Work' = Rank' + ArmsLeft' + Beside' + BlocksLeft'
      BY <2>2 DEF Work
    <3>5. CASE Outside
      <4>1. UNCHANGED <<pc, arm, canary, rest, block>>
        BY <3>2, <3>5
      <4>2. /\ Rank' = Rank /\ Beside' = Beside /\ BlocksLeft' = BlocksLeft
        BY <4>1, BlocksLeftFalls DEF Rank, Beside
      <4>3. ArmsLeft' = ArmsLeft
        <5>1. \A n \in 1 .. 5 : AtLeast(n)' = AtLeast(n)
          BY <4>1 DEF AtLeast, Stage
        <5>2. 1 \in 1 .. 5 /\ 2 \in 1 .. 5 /\ 3 \in 1 .. 5 /\ 4 \in 1 .. 5 /\ 5 \in 1 .. 5
          OBVIOUS
        <5> HIDE DEF AtLeast
        <5> QED  BY <5>1, <5>2 DEF ArmsLeft
      <4> QED  BY <3>4, <3>5, <4>2, <4>3
    <3>6. CASE ~Outside
      BY <1>1, <3>1, <3>2, <3>3, <3>4, <3>6
    <3> QED  BY <3>5, <3>6
  <2> QED  BY <2>1, <2>2
<1> QED  BY <1>2, <1>3, Inductive, PTL DEF Spec
================================================================================
