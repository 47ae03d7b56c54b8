-------------------------- MODULE CampaignPull_proofs --------------------------
(***************************************************************************)
(* Theorems of KillSwitch and CampaignPull, for any number of lines, tasks *)
(* and hosts and for every value of the thresholds.                        *)
(***************************************************************************)
EXTENDS CampaignPull, FiniteSetTheorems, TLAPS

\* The rows are finitely many at any time: the kill switch may count them.
FiniteRows == IsFiniteSet(rows)

\* A batch that goes on has failures left.
StreakInv == \A l \in Lines : pc[l] \in {"pull", "pulling", "act"} => streak[l] < MaxErrors

\* The Boolean part of the types.
FlagsOK == person \in BOOLEAN /\ busy \in BOOLEAN /\ window \in BOOLEAN /\ failed \in BOOLEAN

IInv == TypeOK /\ OnePuller /\ FiniteRows /\ StreakInv

--------------------------------------------------------------------------------
(***************************************************************************)
(* The classifier.                                                         *)
(***************************************************************************)

\* Finitely many rows come from finitely many hosts.
LEMMA HostsFinite ==
  ASSUME NEW R, IsFiniteSet(R)
  PROVE  IsFiniteSet(HostsOf(R))
<1> DEFINE f == [r \in R |-> r.host]
<1>1. f \in Surjection(R, HostsOf(R))
  BY DEF HostsOf, Surjection
<1> QED  BY <1>1, FS_Surjection

\* A tick of the clock makes no row.
LEMMA OlderFinite ==
  ASSUME NEW R, IsFiniteSet(R)
  PROVE  IsFiniteSet({Older(r) : r \in R})
<1> DEFINE f == [r \in R |-> Older(r)]
<1>1. f \in Surjection(R, {Older(r) : r \in R})
  BY DEF Surjection
<1> QED  BY <1>1, FS_Surjection

\* Fewer rows are on fewer hosts.
LEMMA HostsGrow ==
  ASSUME NEW R, NEW D, IsFiniteSet(R), D \subseteq R
  PROVE  /\ Cardinality(D) \in Nat /\ Cardinality(R) \in Nat
         /\ Cardinality(D) <= Cardinality(R)
         /\ Cardinality(HostsOf(D)) \in Nat /\ Cardinality(HostsOf(R)) \in Nat
         /\ Cardinality(HostsOf(D)) <= Cardinality(HostsOf(R))
<1>1. IsFiniteSet(D) /\ Cardinality(D) <= Cardinality(R)
  BY FS_Subset
<1>2. HostsOf(D) \subseteq HostsOf(R)
  BY DEF HostsOf
<1>3. IsFiniteSet(HostsOf(R)) /\ IsFiniteSet(HostsOf(D))
  BY <1>1, HostsFinite
<1>4. Cardinality(HostsOf(D)) <= Cardinality(HostsOf(R))
  BY <1>2, <1>3, FS_Subset
<1> QED  BY <1>1, <1>3, <1>4, FS_CardinalityType

\* Short of the largest walltime is short of some walltime, and without a walltime every
\* death is off it.
LEMMA UntimelyIsOffWalltime ==
  ASSUME NEW R \in SUBSET Row
  PROVE  Untimely(R) = {r \in R : r.dated /\ r.age <= Window /\ ~r.own /\ OffWalltime(r)}
<1>1. ASSUME NEW n \in Nat
      PROVE  (Limit # 0 => 10 * n < 9 * Limit) <=>
                (HRt = 0 /\ SearchHRt = 0) \/ \E h \in {HRt, SearchHRt} : h # 0 /\ 10 * n < 9 * h
  BY KillAssumption DEF Limit
<1>2. \A r \in R : r.secs \in Nat
  BY KillAssumption DEF Row
<1>3. \A r \in R : (Limit # 0 => 10 * r.secs < 9 * Limit) <=> OffWalltime(r)
  BY <1>1, <1>2 DEF OffWalltime
<1>4. Untimely(R) = {r \in R : /\ r.dated /\ r.age <= Window /\ ~r.own
                               /\ Limit # 0 => 10 * r.secs < 9 * Limit}
  BY DEF Untimely, Deaths, Recent
<1> QED  BY <1>3, <1>4

\* The verdict "admin_kill" is given exactly for a burst: the filters, thresholds and cases
\* of classify_task_deaths (killswitch.py) neither fake one nor hide one, in any finite set
\* of rows, for any thresholds of at least one death and two hosts, and for a campaign that
\* asks for two walltimes, for one or for none.
THEOREM ClassifierIsExact ==
  ASSUME NEW R \in SUBSET Row, IsFiniteSet(R)
  PROVE  Classify(R) = "admin_kill" <=> Burst(R)
<1> USE KillAssumption
<1>0. Untimely(R) \subseteq Deaths(R) /\ Untimely(R) \subseteq R
  BY DEF Untimely, Deaths, Recent
<1>1. ASSUME Burst(R) PROVE Classify(R) = "admin_kill"
  <2>1. PICK D \in SUBSET R : /\ \A r \in D : r.dated /\ r.age <= Window /\ ~r.own /\ OffWalltime(r)
                              /\ Cardinality(D) >= MinDeaths
                              /\ Cardinality(HostsOf(D)) >= MinHosts
    BY <1>1 DEF Burst
  <2>2. D \subseteq Untimely(R)
    BY <2>1, UntimelyIsOffWalltime
  <2>3. IsFiniteSet(Untimely(R))
    BY <1>0, FS_Subset
  <2>4. /\ Cardinality(Untimely(R)) \in Nat /\ Cardinality(Untimely(R)) >= MinDeaths
        /\ Cardinality(HostsOf(Untimely(R))) \in Nat /\ Cardinality(HostsOf(Untimely(R))) >= MinHosts
    BY <2>1, <2>2, <2>3, HostsGrow
  <2>5. Untimely(R) # {}
    BY <2>4, FS_EmptySet
  <2>6. Deaths(R) # {}
    BY <1>0, <2>5
  <2>7. Cardinality(HostsOf(Untimely(R))) # 1
    BY <2>4
  <2> QED  BY <2>4, <2>5, <2>6, <2>7 DEF Classify
<1>2. ASSUME Classify(R) = "admin_kill" PROVE Burst(R)
  <2>1. /\ Cardinality(Untimely(R)) >= MinDeaths
        /\ Cardinality(HostsOf(Untimely(R))) >= MinHosts
    BY <1>2 DEF Classify
  <2>2. \A r \in Untimely(R) : r.dated /\ r.age <= Window /\ ~r.own /\ OffWalltime(r)
    BY UntimelyIsOffWalltime
  <2> QED  BY <1>0, <2>1, <2>2 DEF Burst
<1> QED  BY <1>1, <1>2

--------------------------------------------------------------------------------
(***************************************************************************)
(* The inductive invariant.                                                *)
(***************************************************************************)
LEMMA InitIInv == Init => IInv
<1> SUFFICES ASSUME Init PROVE IInv
  OBVIOUS
<1>1. person \in BOOLEAN /\ busy \in BOOLEAN /\ window \in BOOLEAN /\ failed \in BOOLEAN
  BY DEF Init
<1>2. TypeOK
  BY <1>1, PullAssumption DEF Init, TypeOK, Places
<1>3. OnePuller /\ StreakInv
  BY PullAssumption DEF Init, OnePuller, StreakInv
<1>4. FiniteRows
  BY FS_EmptySet DEF Init, FiniteRows
<1> QED  BY <1>2, <1>3, <1>4 DEF IInv

LEMMA NextRows ==
  ASSUME TypeOK, FiniteRows, [Next]_vars
  PROVE  rows' \subseteq Row /\ FiniteRows'
<1> USE DEF TypeOK, FiniteRows
<1>1. ASSUME NEW t \in Tasks, NEW h \in Hosts, NEW o \in BOOLEAN, NEW s \in RunSecs,
             NEW d \in BOOLEAN, TaskDies(t, h, o, s, d)
      PROVE  rows' \subseteq Row /\ FiniteRows'
  <2> DEFINE r == [task |-> t, host |-> h, own |-> o, secs |-> s, dated |-> d,
                   age |-> IF d THEN 0 ELSE Old]
  <2>1. r \in Row
    BY KillAssumption DEF Row, Old
  <2>2. rows' = rows \cup {r}
    BY <1>1 DEF TaskDies
  <2>3. IsFiniteSet(rows \cup {r})
    BY FS_AddElement
  <2> QED  BY <2>1, <2>2, <2>3
<1>2. CASE Tick
  <2>1. rows' = {Older(r) : r \in rows}
    BY <1>2 DEF Tick
  <2>2. \A r \in Row : Older(r) \in Row
    BY KillAssumption DEF Older, Row, Old
  <2> QED  BY <2>1, <2>2, OlderFinite
<1>3. CASE WindowEnds \/ ReadsIncident \/ ClearsIncident
  BY <1>3 DEF WindowEnds, ReadsIncident, ClearsIncident, kill
<1>4. ASSUME NEW l \in Lines, Line(l)
      PROVE  UNCHANGED rows
  BY <1>4 DEF Line, Enter, Refused, Relaunch, Calls, CachedSuccess, CachedFailure, BeginPull,
              Pulls, PullSynced, PullUnsynced, PullFails, Acts, Submit, Waits, Returns, kill
<1>5. CASE UNCHANGED vars
  BY <1>5 DEF vars, kill
<1> QED  BY <1>1, <1>2, <1>3, <1>4, <1>5 DEF Next, World, Dying

LEMMA NextFlags ==
  ASSUME FlagsOK, [Next]_vars
  PROVE  FlagsOK'
<1> USE DEF FlagsOK, kill, lines, shared
<1>1. CASE World
  BY <1>1 DEF World, Dying, TaskDies, Tick, WindowEnds, ReadsIncident, ClearsIncident
<1>2. ASSUME NEW l \in Lines, Enter(l) \/ Refused(l) \/ Relaunch(l) \/ Calls(l) \/ Acts(l)
      PROVE  FlagsOK'
  BY <1>2 DEF Enter, Refused, Relaunch, Calls, CachedSuccess, CachedFailure, BeginPull,
              Acts, Submit, Waits, Returns
<1>3. ASSUME NEW l \in Lines, Pulls(l)
      PROVE  FlagsOK'
  BY <1>3 DEF Pulls, PullSynced, PullUnsynced, PullFails, EndsPull
<1>4. CASE UNCHANGED vars
  BY <1>4 DEF vars
<1> QED  BY <1>1, <1>2, <1>3, <1>4 DEF Next, Line

LEMMA NextType ==
  ASSUME TypeOK, FiniteRows, StreakInv, [Next]_vars
  PROVE  TypeOK' /\ StreakInv'
<1>0. rows' \subseteq Row
  BY NextRows
<1>00. FlagsOK'
  BY NextFlags DEF FlagsOK, TypeOK
<1> SUFFICES ASSUME incident \in {"absent", "open", "cleared"}, pc \in [Lines -> Places],
                    streak \in [Lines -> 0 .. MaxErrors], rounds \in [Lines -> 0 .. MaxRounds],
                    StreakInv
             PROVE  /\ incident' \in {"absent", "open", "cleared"} /\ pc' \in [Lines -> Places]
                    /\ streak' \in [Lines -> 0 .. MaxErrors]
                    /\ rounds' \in [Lines -> 0 .. MaxRounds]
                    /\ StreakInv'
  BY <1>0, <1>00 DEF TypeOK, FlagsOK
<1> USE PullAssumption DEF Places, StreakInv, kill, lines, shared
<1>1. CASE World
  BY <1>1 DEF World, Dying, TaskDies, Tick, WindowEnds, ReadsIncident, ClearsIncident
<1>2. ASSUME NEW l \in Lines, Enter(l) \/ Refused(l) \/ Relaunch(l) \/ BeginPull(l) \/ Acts(l)
      PROVE  /\ incident' \in {"absent", "open", "cleared"} /\ pc' \in [Lines -> Places]
             /\ streak' \in [Lines -> 0 .. MaxErrors]
             /\ rounds' \in [Lines -> 0 .. MaxRounds]
             /\ StreakInv'
  BY <1>2 DEF Enter, Refused, Relaunch, BeginPull, Acts, Submit, Waits, Returns
<1>3. ASSUME NEW l \in Lines, pc[l] \in {"pull", "pulling"}, CountsSuccess(l) \/ CountsFailure(l),
             rounds' = rounds, incident' \in {"open", incident}
      PROVE  /\ incident' \in {"absent", "open", "cleared"} /\ pc' \in [Lines -> Places]
             /\ streak' \in [Lines -> 0 .. MaxErrors]
             /\ rounds' \in [Lines -> 0 .. MaxRounds]
             /\ StreakInv'
  <2>1. CASE CountsSuccess(l)
    BY <1>3, <2>1 DEF CountsSuccess
  <2>2. CASE CountsFailure(l)
    BY <1>3, <2>2 DEF CountsFailure
  <2> QED  BY <1>3, <2>1, <2>2
<1>4. ASSUME NEW l \in Lines, CachedSuccess(l) \/ CachedFailure(l) \/ Pulls(l)
      PROVE  /\ pc[l] \in {"pull", "pulling"} /\ (CountsSuccess(l) \/ CountsFailure(l))
             /\ rounds' = rounds /\ incident' \in {"open", incident}
  BY <1>4 DEF CachedSuccess, CachedFailure, Pulls, PullSynced, PullUnsynced, PullFails, EndsPull
<1>5. CASE UNCHANGED vars
  BY <1>5 DEF vars
<1> QED  BY <1>1, <1>2, <1>3, <1>4, <1>5 DEF Next, Line, Calls

LEMMA NextOnePuller ==
  ASSUME TypeOK, OnePuller, [Next]_vars
  PROVE  OnePuller'
<1> USE DEF TypeOK, OnePuller, Places, kill, lines, shared
<1>1. CASE World \/ UNCHANGED vars
  BY <1>1 DEF World, Dying, TaskDies, Tick, WindowEnds, ReadsIncident, ClearsIncident, vars
<1>2. ASSUME NEW l \in Lines, UNCHANGED busy, pc[l] # "pulling",
             NEW p \in Places \ {"pulling"}, pc' = [pc EXCEPT ![l] = p]
      PROVE  OnePuller'
  BY <1>2
<1>3. ASSUME NEW l \in Lines,
             Enter(l) \/ Refused(l) \/ Relaunch(l) \/ CachedSuccess(l) \/ CachedFailure(l) \/ Acts(l)
      PROVE  /\ UNCHANGED busy /\ pc[l] # "pulling"
             /\ \E p \in Places \ {"pulling"} : pc' = [pc EXCEPT ![l] = p]
  BY <1>3 DEF Enter, Refused, Relaunch, CachedSuccess, CachedFailure, CountsSuccess, CountsFailure,
              Acts, Submit, Waits, Returns
<1>4. ASSUME NEW l \in Lines, BeginPull(l)
      PROVE  OnePuller'
  BY <1>4 DEF BeginPull, Throttled
<1>5. ASSUME NEW l \in Lines, Pulls(l)
      PROVE  OnePuller'
  <2>1. pc[l] = "pulling" /\ busy' = FALSE
    BY <1>5 DEF Pulls, PullSynced, PullUnsynced, PullFails, EndsPull
  <2>2. PICK p \in Places \ {"pulling"} : pc' = [pc EXCEPT ![l] = p]
    BY <1>5 DEF Pulls, PullSynced, PullUnsynced, PullFails, CountsSuccess, CountsFailure
  <2> QED  BY <2>1, <2>2
<1> QED  BY <1>1, <1>2, <1>3, <1>4, <1>5 DEF Next, Line, Calls

LEMMA Inductive == Spec => []IInv
<1>1. IInv /\ [Next]_vars => IInv'
  BY NextRows, NextType, NextOnePuller DEF IInv
<1> QED  BY InitIInv, <1>1, PTL DEF Spec

--------------------------------------------------------------------------------
(***************************************************************************)
(* The theorems.                                                           *)
(***************************************************************************)

\* The state has its types; in particular no streak exceeds the limit that ends a batch.
THEOREM TypeCorrect == Spec => []TypeOK
BY Inductive, PTL DEF IInv

\* However many lines call shared_pull, one of them pulls, and the flag tells the truth.
THEOREM PullIsExclusive == Spec => []OnePuller
BY Inductive, PTL DEF IInv

\* A pull with its rows opens an incident for a burst only, whatever rows are undated, and
\* for every burst when none is.
THEOREM RetreatIsWarranted == Spec => RetreatsOnBursts
<1>1. IInv /\ [Next]_vars => [\A l \in Lines : PullSynced(l) =>
            /\ incident # "open" /\ incident' = "open" => Burst(rows)
            /\ Burst(rows) /\ (\A r \in rows : r.dated) => incident' = "open"]_vars
  <2> SUFFICES ASSUME IInv, NEW l \in Lines, PullSynced(l)
               PROVE  /\ incident # "open" /\ incident' = "open" => Burst(rows)
                      /\ Burst(rows) => incident' = "open"
    OBVIOUS
  <2>1. Classify(rows) = "admin_kill" <=> Burst(rows)
    BY ClassifierIsExact DEF IInv, TypeOK, FiniteRows
  <2>2. Retreats(rows) <=> Burst(rows)
    BY <2>1 DEF Retreats, ReportsUndated
  <2> QED  BY <2>2 DEF PullSynced
<1> QED  BY Inductive, <1>1, PTL DEF Spec, RetreatsOnBursts

\* No pull, verdict or relaunch closes an open incident.
THEOREM IncidentStands == Spec => OnlyAPersonReopens
<1>1. [Next]_vars => [incident = "open" /\ incident' # "open" => person /\ ~person']_vars
  <2> SUFFICES ASSUME Next, incident = "open", incident' # "open" PROVE person /\ ~person'
    OBVIOUS
  <2>1. CASE World
    BY <2>1 DEF World, Dying, TaskDies, Tick, WindowEnds, ReadsIncident, ClearsIncident, kill
  <2>2. ASSUME NEW l \in Lines, Line(l) PROVE FALSE
    BY <2>2 DEF Line, Enter, Refused, Relaunch, Calls, CachedSuccess, CachedFailure, BeginPull,
                Pulls, PullSynced, PullUnsynced, PullFails, Acts, Submit, Waits, Returns, kill
  <2> QED  BY <2>1, <2>2 DEF Next
<1> QED  BY <1>1, PTL DEF Spec, OnlyAPersonReopens

\* The rounds of submissions that the batches have made only grow, by one each.
SpendsRounds ==
    \A l \in Lines : /\ rounds'[l] <= MaxRounds
                     /\ rounds'[l] # rounds[l] => rounds'[l] = rounds[l] + 1

\* While an incident is open no batch begins: every submission uses up one of the rounds
\* that the batches under way have left, and none is given back.
THEOREM IncidentWindsDown == Spec => [][incident = "open" => SpendsRounds]_vars
<1>1. IInv /\ IInv' /\ [Next]_vars => [incident = "open" => SpendsRounds]_vars
  <2> SUFFICES ASSUME IInv, IInv', Next, incident = "open", NEW l \in Lines
               PROVE  /\ rounds'[l] <= MaxRounds
                      /\ rounds'[l] # rounds[l] => rounds'[l] = rounds[l] + 1
    BY DEF SpendsRounds
  <2>1. rounds' \in [Lines -> 0..MaxRounds] /\ rounds \in [Lines -> 0..MaxRounds]
    BY DEF IInv, TypeOK
  <2>2. rounds' = rounds \/ \E k \in Lines : rounds' = [rounds EXCEPT ![k] = @ + 1]
    <3>1. CASE World
      BY <3>1 DEF World, Dying, TaskDies, Tick, WindowEnds, ReadsIncident, ClearsIncident, lines
    <3>2. ASSUME NEW k \in Lines, Line(k)
          PROVE  rounds' = rounds \/ rounds' = [rounds EXCEPT ![k] = @ + 1]
      <4>1. ~Enter(k)
        BY DEF Enter, Blocked
      <4> QED  BY <3>2, <4>1 DEF Line, Refused, Relaunch, Calls, CachedSuccess, CachedFailure,
                 BeginPull, Pulls, PullSynced, PullUnsynced, PullFails, Acts, Submit, Waits, Returns
    <3> QED  BY <3>1, <3>2 DEF Next
  <2> QED  BY <2>1, <2>2
<1> QED  BY Inductive, <1>1, PTL DEF Spec

\* So an incident that stays open ends the submissions: no line goes on for ever to submit
\* a round for the n-th time, whichever round that is.
THEOREM EachRoundRunsOut ==
  \A l \in Lines : \A n \in Nat :
    Spec /\ <>[](incident = "open") => <>[][rounds[l] = n => rounds'[l] <= n]_vars
<1> SUFFICES ASSUME NEW l \in Lines, NEW n \in Nat
             PROVE  Spec /\ <>[](incident = "open") => <>[][rounds[l] = n => rounds'[l] <= n]_vars
  OBVIOUS
<1> DEFINE Past == IInv /\ rounds[l] > n
<1>1. Past /\ incident = "open" /\ IInv' /\ [incident = "open" => SpendsRounds]_vars => Past'
  <2> SUFFICES ASSUME Past, incident = "open", IInv', [incident = "open" => SpendsRounds]_vars
               PROVE  Past'
    OBVIOUS
  <2>1. rounds[l] \in Nat /\ rounds'[l] \in Nat
    BY DEF IInv, TypeOK
  <2>2. rounds'[l] = rounds[l] \/ rounds'[l] = rounds[l] + 1
    BY DEF vars, lines, SpendsRounds
  <2> QED  BY <2>1, <2>2
<1>2. Past => [rounds[l] = n => rounds'[l] <= n]_vars
  BY DEF IInv, TypeOK
<1>3. IInv /\ IInv' /\ ~Past' => [rounds[l] = n => rounds'[l] <= n]_vars
  <2>1. IInv /\ IInv' => rounds'[l] \in Nat
    BY DEF IInv, TypeOK
  <2> QED  BY <2>1
<1> HIDE DEF Past
<1> QED  BY Inductive, IncidentWindsDown, <1>1, <1>2, <1>3, PTL

--------------------------------------------------------------------------------
(***************************************************************************)
(* The throttle does not starve the campaign.  The fairness of FairSpec is *)
(* stated with the guards in place of ENABLED: a line can always step, and *)
(* the interval can pass while it runs.  That a line is scheduled does not *)
(* depend on the moment it is asked at: [] may stand before the lines.     *)
(***************************************************************************)
LineScheduled(l) == []<><<Line(l)>>_vars
LinesScheduled == \A l \in Lines : LineScheduled(l)
WindowPasses == []<>~window \/ []<><<WindowEnds>>_vars

Asking == \E l \in Lines : pc[l] = "pull"
Pulling == \E l \in Lines : pc[l] = "pulling"
Quiet == []IInv /\ [][Next]_vars /\ []~busy /\ []~window
AtLast == <>Pulling

\* What a step does to a line that asks, when nothing throttles it.
LEMMA AskingLine ==
  ASSUME IInv, Next, NEW l \in Lines, pc[l] = "pull", ~busy, ~window
  PROVE  /\ Line(l) => Pulling'
         /\ pc'[l] = "pull" \/ Pulling'
<1> USE DEF IInv, TypeOK
<1>1. ASSUME Line(l)
      PROVE  pc'[l] = "pulling"
  <2>1. BeginPull(l)
    BY <1>1 DEF Line, Enter, Refused, Relaunch, Calls, CachedSuccess, CachedFailure, Throttled,
                Pulls, PullSynced, PullUnsynced, PullFails, EndsPull, Acts, Submit, Waits, Returns
  <2> QED  BY <2>1 DEF BeginPull
<1>2. ASSUME NEW k \in Lines \ {l}, Line(k)
      PROVE  pc'[l] = pc[l]
  BY <1>2 DEF Line, Enter, Refused, Relaunch, Calls, CachedSuccess, CachedFailure, BeginPull,
              Pulls, PullSynced, PullUnsynced, PullFails, CountsSuccess, CountsFailure,
              Acts, Submit, Waits, Returns
<1>3. CASE World
  BY <1>1, <1>3 DEF World, Dying, TaskDies, Tick, WindowEnds, ReadsIncident, ClearsIncident, lines, Pulling
<1> QED  BY <1>1, <1>2, <1>3 DEF Next, Pulling

LEMMA AskingLinePulls ==
  ASSUME NEW l \in Lines
  PROVE  Quiet /\ LineScheduled(l) => (pc[l] = "pull" => AtLast)
<1>1. IInv /\ [Next]_vars /\ ~busy /\ ~window /\ pc[l] = "pull" =>
        /\ <<Line(l)>>_vars => Pulling'
        /\ (pc[l] = "pull")' \/ Pulling'
  <2> SUFFICES ASSUME IInv, [Next]_vars, ~busy, ~window, pc[l] = "pull"
               PROVE  /\ <<Line(l)>>_vars => Pulling'
                      /\ (pc[l] = "pull")' \/ Pulling'
    OBVIOUS
  <2>1. CASE Next
    BY <2>1, AskingLine
  <2>2. CASE UNCHANGED vars
    BY <2>2 DEF vars, lines
  <2> QED  BY <2>1, <2>2
<1> QED  BY <1>1, PTL DEF Quiet, LineScheduled, AtLast

\* While no pull is made the window stays closed once it has closed.
LEMMA NoPullNoWindow ==
  ASSUME IInv, [Next]_vars, ~busy, ~window
  PROVE  ~window'
<1>1. \A l \in Lines : pc[l] # "pulling"
  BY DEF IInv, OnePuller
<1>2. CASE World
  BY <1>2 DEF World, Dying, TaskDies, Tick, WindowEnds, ReadsIncident, ClearsIncident, shared
<1>3. ASSUME NEW l \in Lines, Line(l)
      PROVE  ~window'
  BY <1>1, <1>3 DEF Line, Enter, Refused, Relaunch, Calls, CachedSuccess, CachedFailure, BeginPull,
              Pulls, PullSynced, PullUnsynced, PullFails, EndsPull, Acts, Submit, Waits, Returns, shared
<1>4. CASE UNCHANGED vars
  BY <1>4 DEF vars, shared
<1> QED  BY <1>2, <1>3, <1>4 DEF Next

\* However many lines share the pull, and whatever fails: as long as some line goes on
\* asking, real pulls go on being made.  Neither the window nor the flag of the line that
\* is pulling can turn every call into a cached one.
THEOREM PullsNeverStarve ==
  Spec /\ WindowPasses /\ []LinesScheduled => PullsGoOn
<1>1. Quiet /\ LinesScheduled => (Asking => AtLast)
  <2>1. \A l \in Lines : Quiet /\ LineScheduled(l) => (pc[l] = "pull" => AtLast)
    BY AskingLinePulls
  <2> QED  BY <2>1 DEF LinesScheduled, Asking
<1>2. IInv => (busy <=> Pulling)
  BY DEF IInv, OnePuller, Pulling
<1>3. IInv /\ [Next]_vars /\ ~busy /\ ~window => ~window'
  BY NoPullNoWindow
<1>4. <<WindowEnds>>_vars => ~window'
  BY DEF WindowEnds
<1>5. Spec /\ WindowPasses /\ []LinesScheduled => ([]<>Asking => []<>Pulling)
  BY <1>1, <1>2, <1>3, <1>4, Inductive, PTL DEF Spec, WindowPasses, Quiet, AtLast
<1> QED  BY <1>5, PTL DEF PullsGoOn, Asking, Pulling
================================================================================
