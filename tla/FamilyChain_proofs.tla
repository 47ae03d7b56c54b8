--------------------------- MODULE FamilyChain_proofs ---------------------------
(***************************************************************************)
(* Theorems of FamilyChain, for any budget, groups and wall budget.        *)
(***************************************************************************)
EXTENDS FamilyChain, FiniteSetTheorems, TLAPS

\* Where the pass is: a driver is never inside a group, and what is under evaluation
\* is the next candidate or a part of the next group.
First(G) == next \in G /\ \A j \in G : next <= j

WhereInv ==
    /\ side = "driver" => \A G \in groups : next \in G => First(G)
    /\ pc = "wait" => \/ asked = {next} /\ next \in Cands \ Batched
                      \/ /\ side = "driver" /\ asked # {}
                         /\ \E G \in groups : asked \subseteq G /\ First(G)

\* What a later pass will find of a candidate that was told.
Kept(i) ==
    /\ told[i] = "sentinel" => i \in marks[side] /\ i \notin recs \cup tasks
    /\ i \in marks[side] => told[i] = "sentinel"

KeptInv ==
    /\ \A i \in Cands \ ((UNION groups) \cup lost) : Kept(i)
    /\ \A i \in Cands : /\ told[i] = "score" => i \in Readable
                        /\ i \in marks[side] => told[i] # "nothing"

\* The failures told before candidate i, and before the group of i was proposed, which
\* its proposal is made of.
Before(i) == {j \in Cands : j < i /\ told[j] = "sentinel"}
Known(i)  == \A j \in Cands : j < i => told[j] # "nothing"
Causes(i) == {j \in Earlier(i) : told[j] = "sentinel"}
Settling(i) == \A j \in Earlier(i) : told[j] # "nothing"

\* While nothing was told twice in different ways, the memory of a pass and the
\* coefficients of every training are functions of the history.
ReplayInv ==
    redone \cup lost = {} =>
        /\ Known(next) /\ hist = Before(next)
        /\ \A i \in recs \cup tasks : Settling(i) /\ coeffs[i] = Causes(i)

--------------------------------------------------------------------------------
LEMMA GroupFacts ==
  ASSUME TypeOK
  PROVE  /\ \A i \in Cands : Cardinality({i}) = 1
         /\ groups \subseteq SUBSET Cands /\ Batched \subseteq Cands /\ UNION groups \subseteq Cands
         /\ \A G, H \in groups : G = H \/ G \cap H = {}
         /\ \A G \in groups : \E m, n \in Cands : m <= n /\ G = m..n /\ Cardinality(G) = n - m + 1
<1>1. \A i \in Cands : Cardinality({i}) = 1
  BY FS_Singleton
<1>2. groups \subseteq Spans /\ \A G, H \in groups : G = H \/ G \cap H = {}
  BY ChainAssumption DEF TypeOK
<1>3. \A G \in groups : \E m, n \in Cands : m <= n /\ G = m..n
  BY <1>2 DEF Spans, Cands
<1>4. ASSUME NEW m \in Cands, NEW n \in Cands, m <= n
      PROVE  Cardinality(m..n) = n - m + 1 /\ m..n \subseteq Cands
  <2>1. m \in Int /\ n \in Int
    BY DEF Cands
  <2>2. Cardinality(m..n) = IF m > n THEN 0 ELSE n - m + 1
    BY <2>1, FS_Interval
  <2>3. m..n \subseteq Cands
    BY <1>4, ChainAssumption DEF Cands
  <2> QED  BY <1>4, <2>1, <2>2, <2>3
<1>5. \A G \in groups : \E m, n \in Cands : m <= n /\ G = m..n /\ Cardinality(G) = n - m + 1
  BY <1>3, <1>4
<1>6. \A G \in groups : G \subseteq Cands
  BY <1>3, <1>4
<1> QED  BY <1>1, <1>2, <1>5, <1>6 DEF Batched

\* A group whose turn it is goes from the next candidate to its last.
LEMMA TurnFacts ==
  ASSUME TypeOK, NEW G \in groups, First(G)
  PROVE  /\ next \in Cands /\ G \subseteq Cands /\ Cardinality(G) \in Nat \ {0}
         /\ G = {j \in Cands : next <= j /\ j < next + Cardinality(G)}
         /\ next + Cardinality(G) \in 1..(Budget + 1)
<1>1. PICK m \in Cands, n \in Cands : m <= n /\ G = m..n /\ Cardinality(G) = n - m + 1
  BY GroupFacts
<1>2. m = next
  BY <1>1 DEF First, Cands
<1>3. next + Cardinality(G) = n + 1
  BY <1>1, <1>2 DEF Cands
<1> QED  BY <1>1, <1>2, <1>3, ChainAssumption DEF Cands

LEMMA InitInv == Init => TypeOK /\ WhereInv /\ KeptInv /\ ReplayInv
<1> SUFFICES ASSUME Init PROVE TypeOK /\ WhereInv /\ KeptInv /\ ReplayInv
  OBVIOUS
<1> USE ChainAssumption DEF Init
<1>1. TypeOK
  BY DEF TypeOK, Cands
<1>2. WhereInv
  <2>1. \A G \in groups : \A j \in G : j \in Nat /\ 1 <= j
    BY <1>1, GroupFacts DEF Cands
  <2> QED  BY <2>1 DEF WhereInv, First
<1>3. KeptInv
  BY DEF KeptInv, Kept, Readable, Cands
<1>4. Known(1) /\ Before(1) = {}
  BY DEF Known, Before, Cands
<1> QED  BY <1>1, <1>2, <1>3, <1>4 DEF ReplayInv

\* What telling one candidate, or a group, does to the memory.
LEMMA TellsType ==
  ASSUME TypeOK, NEW S, NEW F, Tells(S, F), F \subseteq S,
         \/ S \in groups /\ First(S)
         \/ S = {next} /\ next \in Cands
  PROVE  /\ next' \in 1..(Budget + 1)
         /\ hist' \subseteq Cands /\ redone' \subseteq Cands
         /\ told' \in [Cands -> {"nothing", "score", "sentinel"}]
         /\ next \in Cands /\ Cardinality(S) \in Nat \ {0} /\ S \subseteq Cands
         /\ next' = next + Cardinality(S)
         /\ S = {j \in Cands : next <= j /\ j < next'}
<1> USE ChainAssumption
<1>1. /\ next \in Cands /\ S \subseteq Cands /\ Cardinality(S) \in Nat \ {0}
      /\ S = {j \in Cands : next <= j /\ j < next + Cardinality(S)}
      /\ next + Cardinality(S) \in 1..(Budget + 1)
  <2>1. CASE S \in groups /\ First(S)
    BY <2>1, TurnFacts
  <2>2. CASE S = {next} /\ next \in Cands
    BY <2>2, GroupFacts DEF Cands
  <2> QED  BY <2>1, <2>2
<1>2. next' = next + Cardinality(S)
  BY DEF Tells, Recorded
<1> USE DEF TypeOK, Tells, Recorded
<1>3. told' \in [Cands -> {"nothing", "score", "sentinel"}]
  OBVIOUS
<1>4. redone' \subseteq Cands /\ hist' \subseteq Cands
  BY <1>1
<1> HIDE DEF TypeOK, Tells, Recorded
<1> QED  BY <1>1, <1>2, <1>3, <1>4

\* After a candidate of its own, or a group, no group is entered but at its first.
LEMMA Onwards ==
  ASSUME TypeOK, WhereInv, side = "driver", NEW S, next' \in Nat,
         \/ S \in groups /\ First(S)
         \/ S = {next} /\ next \in Cands \ Batched,
         S = {j \in Cands : next <= j /\ j < next'}, next < next', groups' = groups
  PROVE  \A G \in groups' : next' \in G => First(G)'
<1> SUFFICES ASSUME NEW G \in groups, next' \in G, NEW j \in G, ~(next' <= j) PROVE FALSE
  BY DEF First
<1>1. PICK m \in Cands, n \in Cands : m <= n /\ G = m..n
  BY GroupFacts
<1>2. next \in Nat
  BY DEF TypeOK, Cands
<1>3. m < next' /\ next' <= n
  BY <1>1 DEF Cands
<1>4. CASE next <= m
  <2>1. m \in S /\ m \in G /\ next' \notin S
    BY <1>1, <1>2, <1>3, <1>4 DEF Cands
  <2>2. S \in groups
    <3>1. CASE S = {next} /\ next \in Cands \ Batched
      <4>1. m \in Batched
        BY <2>1 DEF Batched
      <4> QED  BY <2>1, <3>1, <4>1
    <3> QED  BY <3>1
  <2>3. S \cap G # {} /\ S # G
    BY <2>1
  <2> QED  BY <2>2, <2>3, GroupFacts, Zenon
<1>5. CASE ~(next <= m)
  <2>1. next \in G
    BY <1>1, <1>2, <1>3, <1>5 DEF Cands
  <2>2. First(G)
    BY <2>1 DEF WhereInv
  <2>3. next <= m
    BY <1>1, <2>2 DEF First, Cands
  <2> QED  BY <1>5, <2>3
<1> QED  BY <1>4, <1>5

\* A step of a group is taken when it is the group's turn.
LEMMA ItsTurn ==
  ASSUME TypeOK, WhereInv, NEW G \in groups, Group(G)
  PROVE  First(G) /\ side = "driver"
<1>1. CASE ArrayReplays(G) \/ ArrayTrains(G)
  BY <1>1 DEF ArrayReplays, ArrayTrains, AtGroup, WhereInv
<1>2. CASE ArrayTells(G)
  <2>1. pc = "wait" /\ side = "driver" /\ asked # {} /\ asked \subseteq G
    BY <1>2 DEF ArrayTells, Settled
  <2>2. CASE asked = {next} /\ next \in Cands \ Batched
    BY <2>1, <2>2 DEF Batched
  <2>3. ASSUME NEW H \in groups, asked \subseteq H, First(H)
        PROVE  First(G)
    <3>1. G \cap H # {}
      BY <2>1, <2>3
    <3>2. G = H
      BY <3>1, GroupFacts
    <3> QED  BY <2>3, <3>2
  <2> QED  BY <2>1, <2>2, <2>3 DEF WhereInv
<1> QED  BY <1>1, <1>2 DEF Group

LEMMA NextType ==
  ASSUME TypeOK, WhereInv, [Next]_vars
  PROVE  TypeOK' /\ WhereInv'
<1> USE ChainAssumption DEF TypeOK, archive, memory, history
<1>1. ASSUME groups' = groups, side' = side, next' = next, pc' = pc, asked' = asked
      PROVE  WhereInv'
  BY <1>1 DEF WhereInv, First, Batched
<1>2. ASSUME groups' = groups, next' = 1, pc' # "wait"
      PROVE  WhereInv'
  <2>1. \A G \in groups : \A j \in G : j \in Nat /\ 1 <= j
    BY GroupFacts DEF Cands
  <2> QED  BY <1>2, <2>1 DEF WhereInv, First
<1>3. ASSUME NEW s \in Sides, Launch(s)
      PROVE  TypeOK' /\ WhereInv'
  BY <1>2, <1>3 DEF Launch
<1>4. ASSUME Ends, deaths' \in 0 .. MaxDeaths
      PROVE  TypeOK' /\ WhereInv'
  <2>1. /\ UNCHANGED <<groups, recs, coeffs, seen, marks, side, told, redone, lost, fails>>
        /\ pc' = "down" /\ next' = 1 /\ asked' = {} /\ hist' = {} /\ left' = PerJob
        /\ tasks' \subseteq tasks
    BY <1>4 DEF Ends
  <2>2. TypeOK'
    BY <1>4, <2>1
  <2> QED  BY <1>2, <2>1, <2>2
<1>5. CASE Dies \/ Stops
  <2>1. Ends /\ deaths' \in 0 .. MaxDeaths
    BY <1>5 DEF Dies, Stops
  <2> QED  BY <1>4, <2>1
<1>6. CASE Pull
  BY <1>1, <1>6 DEF Pull
<1>7. ASSUME NEW i \in Cands, NEW ok \in BOOLEAN, TaskEnds(i, ok)
      PROVE  TypeOK' /\ WhereInv'
  BY <1>1, <1>7 DEF TaskEnds
<1>8. ASSUME NEW S, NEW F, Tells(S, F), F \subseteq S,
             \/ S \in groups /\ First(S) /\ side = "driver"
             \/ S = {next} /\ next \in Cands \ Batched,
             UNCHANGED <<groups, recs, coeffs, seen, tasks, side, left, fails>>, pc' = "eval",
             asked' \subseteq Cands, lost' \subseteq Cands, deaths' \in 0 .. MaxDeaths,
             marks' \in [Sides -> SUBSET Cands]
      PROVE  TypeOK' /\ WhereInv'
  <2> HIDE DEF TypeOK
  <2>1. /\ next' \in 1..(Budget + 1)
        /\ hist' \subseteq Cands /\ redone' \subseteq Cands
        /\ told' \in [Cands -> {"nothing", "score", "sentinel"}]
        /\ next \in Cands /\ next < next'
        /\ S = {j \in Cands : next <= j /\ j < next'}
    <3>1. /\ next' \in 1..(Budget + 1)
          /\ hist' \subseteq Cands /\ redone' \subseteq Cands
          /\ told' \in [Cands -> {"nothing", "score", "sentinel"}]
          /\ next \in Cands /\ next' = next + Cardinality(S) /\ Cardinality(S) \in Nat \ {0}
          /\ S = {j \in Cands : next <= j /\ j < next'}
      BY <1>8, TellsType
    <3>2. next < next'
      BY <3>1 DEF Cands
    <3> QED  BY <3>1, <3>2
  <2>2. TypeOK'
    BY <1>8, <2>1 DEF TypeOK
  <2>3. side' = "driver" => \A G \in groups' : next' \in G => First(G)'
    <3> SUFFICES ASSUME side = "driver"
                 PROVE  \A G \in groups' : next' \in G => First(G)'
      BY <1>8
    <3>1. next' \in Nat
      BY <2>1
    <3> QED  BY <1>8, <2>1, <3>1, Onwards
  <2> QED  BY <1>8, <2>2, <2>3 DEF WhereInv
<1>9. ASSUME NEW i \in Cands, Replays(i) \/ ReplaysFailure(i)
      PROVE  TypeOK' /\ WhereInv'
  <2>1. PICK F \in SUBSET {next} : Tells({next}, F)
    BY <1>9 DEF Replays, ReplaysFailure, Evaluates
  <2>2. /\ next \in Cands \ Batched /\ pc' = "eval"
        /\ UNCHANGED <<groups, recs, coeffs, seen, marks, tasks, side, asked, left, lost, fails, deaths>>
    BY <1>9 DEF Replays, ReplaysFailure, Evaluates
  <2> QED  BY <1>8, <2>1, <2>2
<1>10. ASSUME NEW S \in SUBSET Cands, Sends(S), ~OutOfTime,
              UNCHANGED <<groups, recs, seen, marks, side, next, hist, told, redone, lost, fails, deaths>>
       PROVE  TypeOK'
  <2>1. coeffs' \in [Cands -> SUBSET Cands]
    BY <1>10 DEF Sends, Proposal
  <2>2. left' \in 0 .. PerJob
    BY <1>10 DEF Sends, OutOfTime
  <2> QED  BY <1>10, <2>1, <2>2 DEF Sends
<1>11. ASSUME NEW i \in Cands, Trains(i)
       PROVE  TypeOK' /\ WhereInv'
  <2>1. TypeOK'
    BY <1>10, <1>11 DEF Trains
  <2>2. /\ asked' = {next} /\ next \in Cands \ Batched /\ pc' = "wait"
        /\ UNCHANGED <<groups, side, next>>
    BY <1>11 DEF Trains, Sends, Evaluates
  <2> QED  BY <2>1, <2>2 DEF WhereInv, First, Batched
<1>12. ASSUME NEW i \in Cands, NEW m \in BOOLEAN, TellsScore(i) \/ TellsFailure(i, m)
       PROVE  TypeOK' /\ WhereInv'
  <2>1. pc = "wait" /\ asked = {i} /\ i \notin Batched
    BY <1>12 DEF TellsScore, TellsFailure, Settled
  <2>2. i = next
    <3>1. \A G \in groups : asked \subseteq G /\ side = "driver" => i \in Batched
      BY <2>1 DEF Batched
    <3> QED  BY <2>1, <3>1 DEF WhereInv
  <2>3. PICK F \in SUBSET {next} : Tells({next}, F)
    BY <1>12, <2>2 DEF TellsScore, TellsFailure
  <2>4. /\ UNCHANGED <<groups, recs, coeffs, seen, tasks, side, left, fails>>
        /\ pc' = "eval" /\ asked' = {}
        /\ lost' \subseteq Cands /\ deaths' \in 0 .. MaxDeaths
        /\ marks' \in [Sides -> SUBSET Cands]
    <3>1. CASE TellsScore(i)
      BY <3>1 DEF TellsScore
    <3>2. CASE TellsFailure(i, m)
      BY <3>2 DEF TellsFailure
    <3> QED  BY <1>12, <3>1, <3>2
  <2>5. next \in Cands \ Batched /\ asked' \subseteq Cands
    BY <2>1, <2>2, <2>4
  <2> HIDE DEF TypeOK
  <2> QED  BY <1>8, <2>3, <2>4, <2>5
<1>13. ASSUME NEW G \in groups, ArrayReplays(G) \/ ArrayTells(G)
       PROVE  TypeOK' /\ WhereInv'
  <2>1. First(G) /\ side = "driver"
    <3>1. Group(G)
      BY <1>13 DEF Group
    <3> HIDE DEF TypeOK
    <3> QED  BY <3>1, ItsTurn
  <2>2. PICK F \in SUBSET G : Tells(G, F)
    BY <1>13 DEF ArrayReplays, ArrayTells
  <2>3. /\ UNCHANGED <<groups, recs, coeffs, seen, marks, tasks, side, left, lost, fails, deaths>>
        /\ pc' = "eval" /\ asked' \subseteq Cands
    BY <1>13 DEF ArrayReplays, ArrayTells, AtGroup
  <2> QED  BY <1>8, <2>1, <2>2, <2>3
<1>14. ASSUME NEW G \in groups, ArrayTrains(G)
       PROVE  TypeOK' /\ WhereInv'
  <2>1. First(G) /\ side = "driver" /\ G \subseteq Cands
    <3>1. Group(G)
      BY <1>14 DEF Group
    <3> HIDE DEF TypeOK
    <3> QED  BY <3>1, ItsTurn, GroupFacts
  <2>2. TypeOK'
    <3>1. G \ Readable \in SUBSET Cands /\ ~OutOfTime
      BY <2>1 DEF OutOfTime
    <3> QED  BY <1>10, <1>14, <3>1 DEF ArrayTrains
  <2>3. /\ asked' = G \ Readable /\ asked' # {} /\ UNCHANGED <<groups, side, next>>
    BY <1>14 DEF ArrayTrains, Sends
  <2> QED  BY <2>1, <2>2, <2>3 DEF WhereInv, First
<1>15. CASE Finishes
  <2>1. TypeOK' /\ pc' = "done" /\ UNCHANGED <<groups, side, next>>
    BY <1>15 DEF Finishes
  <2> QED  BY <2>1 DEF WhereInv, First
<1>16. CASE UNCHANGED vars
  BY <1>1, <1>16 DEF vars
<1> QED  BY <1>3, <1>5, <1>6, <1>7, <1>9, <1>11, <1>12, <1>13, <1>14, <1>15, <1>16
         DEF Next, Launches, Tasks, Pass, Eval, Group

\* The types hold in every state: the index never leaves the budget, the job never
\* spends more than it has, and a driver is never inside a group.
THEOREM TypeCorrect == Spec => []TypeOK
<1>1. TypeOK /\ WhereInv /\ [Next]_vars => (TypeOK /\ WhereInv)'
  BY NextType
<1> QED  BY InitInv, <1>1, PTL DEF Spec

--------------------------------------------------------------------------------
\* A step that tells nobody anything keeps what later passes find.
LEMMA KeptFrame ==
  ASSUME TypeOK, KeptInv, UNCHANGED <<groups, told, redone, lost, marks, side>>,
         recs \subseteq recs', seen \subseteq seen', recs' \cup tasks' \subseteq recs \cup tasks
  PROVE  KeptInv' /\ redone' = redone
BY DEF TypeOK, KeptInv, Kept, Readable

LEMMA NextKept ==
  ASSUME ~Handover, TypeOK, WhereInv, KeptInv, SameOutcome, [Next]_vars
  PROVE  KeptInv' /\ SameOutcome'
<1> USE DEF TypeOK, SameOutcome, archive, memory, history
<1>1. ASSUME UNCHANGED <<groups, told, redone, lost, marks, side>>,
             recs \subseteq recs', seen \subseteq seen', recs' \cup tasks' \subseteq recs \cup tasks
      PROVE  KeptInv' /\ SameOutcome'
  BY <1>1, KeptFrame
<1>2. CASE Launches \/ Dies \/ Stops \/ Pull \/ Tasks \/ Finishes \/ UNCHANGED vars
  <2>1. CASE Launches
    BY <1>1, <2>1 DEF Launches, Launch
  <2>2. CASE Dies \/ Stops
    BY <1>1, <2>2 DEF Dies, Stops, Ends
  <2>3. CASE Pull \/ Finishes \/ UNCHANGED vars
    BY <1>1, <2>3 DEF Pull, Finishes, vars
  <2>4. ASSUME NEW i \in Cands, NEW ok \in BOOLEAN, TaskEnds(i, ok)
        PROVE  KeptInv' /\ SameOutcome'
    BY <1>1, <2>4 DEF TaskEnds
  <2> QED  BY <1>2, <2>1, <2>2, <2>3, <2>4 DEF Tasks
<1>3. ASSUME NEW i \in Cands, Replays(i) \/ TellsScore(i)
      PROVE  KeptInv' /\ SameOutcome'
  <2>1. /\ Tells({i}, {}) /\ i \in Readable /\ Readable \subseteq recs
        /\ UNCHANGED <<groups, recs, seen, tasks, marks, side, lost>>
    BY <1>3 DEF Replays, TellsScore, Readable
  <2>2. i \in (UNION groups) \cup lost \/ told[i] # "sentinel"
    BY <2>1 DEF KeptInv, Kept
  <2>3. SameOutcome'
    BY <2>1, <2>2 DEF Tells, Recorded
  <2>4. KeptInv'
    BY <2>1 DEF KeptInv, Kept, Readable, Tells, Recorded
  <2> QED  BY <2>3, <2>4
<1>4. ASSUME NEW i \in Cands, ReplaysFailure(i)
      PROVE  KeptInv' /\ SameOutcome'
  <2>1. /\ Tells({i}, {i}) /\ i \notin Readable /\ i \in marks[side]
        /\ UNCHANGED <<groups, recs, seen, tasks, marks, side, lost>>
    BY <1>4 DEF ReplaysFailure, FailedBefore, Marked
  <2>2. told[i] = "sentinel"
    BY <2>1 DEF KeptInv
  <2>3. told' = told /\ redone' = redone
    BY <2>1, <2>2 DEF Tells, Recorded
  <2> QED  BY <2>1, <2>3 DEF KeptInv, Kept, Readable
<1>5. ASSUME NEW i \in Cands, NEW m \in BOOLEAN, TellsFailure(i, m)
      PROVE  KeptInv' /\ SameOutcome'
  <2>1. /\ Tells({i}, {i}) /\ i \notin Readable /\ i \notin recs \cup tasks
        /\ UNCHANGED <<groups, recs, seen, tasks, side>>
    BY <1>5 DEF TellsFailure, Settled
  <2>2. \/ marks' = [marks EXCEPT ![side] = @ \cup {i}] /\ lost' = lost
        \/ marks' = marks /\ lost' = lost \cup {i}
    BY <1>5 DEF TellsFailure
  <2>3. told[i] # "score"
    BY <2>1 DEF KeptInv
  <2>4. redone' = redone /\ told'[i] = "sentinel" /\ \A j \in Cands \ {i} : told'[j] = told[j]
    BY <2>1, <2>3 DEF Tells, Recorded
  <2>5. SameOutcome'
    BY <2>1, <2>2, <2>4
  <2>6. ASSUME NEW j \in Cands, j \notin (UNION groups) \cup lost'
        PROVE  Kept(j)'
    <3>1. CASE j # i
      <4>1. Kept(j) /\ told'[j] = told[j] /\ (j \in marks'[side] <=> j \in marks[side])
        BY <2>2, <2>4, <2>6, <3>1 DEF KeptInv
      <4> QED  BY <2>1, <4>1 DEF Kept
    <3>2. CASE j = i
      <4>0. marks' = [marks EXCEPT ![side] = @ \cup {i}]
        <5>1. i \notin lost'
          BY <2>6, <3>2
        <5> QED  BY <2>2, <5>1
      <4>1. i \in marks'[side]
        BY <4>0
      <4> QED  BY <2>1, <2>4, <3>2, <4>1 DEF Kept
    <3> QED  BY <3>1, <3>2
  <2>7. ASSUME NEW j \in Cands
        PROVE  (told'[j] = "score" => j \in Readable') /\ (j \in marks'[side'] => told'[j] # "nothing")
    BY <2>1, <2>2, <2>4 DEF KeptInv, Readable
  <2> QED  BY <2>1, <2>5, <2>6, <2>7 DEF KeptInv
<1>6. ASSUME NEW i \in Cands, Trains(i)
      PROVE  KeptInv' /\ SameOutcome'
  <2>1. /\ i \notin Readable /\ i \notin marks[side] /\ tasks' \subseteq tasks \cup {i}
        /\ UNCHANGED <<groups, recs, seen, marks, side, told, redone, lost>>
    BY <1>6 DEF Trains, Sends, FailedBefore, Marked
  <2> QED  BY <2>1 DEF KeptInv, Kept, Readable
<1>7. ASSUME NEW G \in groups, ArrayTrains(G)
      PROVE  KeptInv' /\ SameOutcome'
  <2>1. /\ tasks' \subseteq tasks \cup UNION groups
        /\ UNCHANGED <<groups, recs, seen, marks, side, told, redone, lost>>
    BY <1>7 DEF ArrayTrains, Sends
  <2> QED  BY <2>1 DEF KeptInv, Kept, Readable
<1>8. ASSUME NEW G \in groups, ArrayReplays(G) \/ ArrayTells(G)
      PROVE  KeptInv' /\ SameOutcome'
  <2>1. PICK F \in SUBSET G : Tells(G, F) /\ F \cap Readable = {} /\ G \ Readable \subseteq F
    BY <1>8 DEF ArrayReplays, ArrayTells
  <2>2. UNCHANGED <<groups, recs, seen, tasks, marks, side, lost>> /\ G \subseteq UNION groups
    BY <1>8 DEF ArrayReplays, ArrayTells
  <2>3. \A j \in G \cap Cands : told[j] = "score" => j \notin F
    BY <2>1 DEF KeptInv
  <2>4. /\ redone' \subseteq redone \cup G
        /\ \A j \in Cands : /\ j \notin G \/ told[j] # "nothing" => told'[j] = told[j]
                            /\ told'[j] # told[j] => told'[j] = IF j \in F THEN "sentinel" ELSE "score"
    BY <2>1 DEF Tells, Recorded
  <2>5. \A j \in redone' \ redone : told[j] = "sentinel" /\ j \in G
    <3>1. G \subseteq Cands
      BY GroupFacts
    <3> QED  BY <2>1, <2>3, <3>1 DEF Tells, Recorded
  <2>6. SameOutcome'
    <3>1. \A j \in redone' : j \in Cands /\ told[j] = "sentinel"
      BY <2>5, GroupFacts
    <3> QED  BY <2>2, <2>4, <3>1
  <2>7. \A j \in Cands \ ((UNION groups) \cup lost) : Kept(j)'
    BY <2>2, <2>4 DEF KeptInv, Kept
  <2>8. \A j \in Cands : /\ told'[j] = "score" => j \in Readable'
                         /\ j \in marks[side] => told'[j] # "nothing"
    <3>1. ASSUME NEW j \in Cands, told'[j] = "score", told[j] # "score"
          PROVE  j \in Readable
      <4>1. j \in G /\ j \notin F
        BY <2>4, <3>1
      <4> QED  BY <2>1, <4>1
    <3>2. Readable' = Readable
      BY <2>2 DEF Readable
    <3> QED  BY <2>4, <3>1, <3>2 DEF KeptInv
  <2> QED  BY <2>2, <2>6, <2>7, <2>8 DEF KeptInv
<1> QED  BY <1>2, <1>3, <1>4, <1>5, <1>6, <1>7, <1>8 DEF Next, Pass, Eval, Group

\* A chain that one program runs to its end, through any number of deaths, relaunches and
\* spent jobs, is told of every candidate what it was told first: of a score always, and
\* of a failure unless its marker could not be written or the driver sent it in the array
\* of a group, as it does with every generation of cma_es.
THEOREM OutcomesRepeat == ~Handover => (Spec => []SameOutcome)
<1> SUFFICES ASSUME ~Handover PROVE Spec => []SameOutcome
  OBVIOUS
<1>1. Init => SameOutcome
  BY DEF Init, SameOutcome
<1>2. TypeOK /\ WhereInv /\ KeptInv /\ SameOutcome /\ [Next]_vars
        => (TypeOK /\ WhereInv /\ KeptInv /\ SameOutcome)'
  BY NextType, NextKept
<1> QED  BY InitInv, <1>1, <1>2, PTL DEF Spec

--------------------------------------------------------------------------------
\* What is known before a candidate, or before its group, does not change.
LEMMA KnownStays ==
  ASSUME TypeOK, NEW S, NEW F, Recorded(S, F), groups' = groups
  PROVE  /\ \A n \in Nat : Known(n) => Known(n)' /\ Before(n)' = Before(n)
         /\ \A i \in Cands : Settling(i) => Settling(i)' /\ Causes(i)' = Causes(i)
<1>1. \A j \in Cands : told[j] # "nothing" => told'[j] = told[j]
  BY DEF TypeOK, Recorded
<1>2. \A i \in Cands : Earlier(i)' = Earlier(i) /\ Earlier(i) \subseteq Cands
  BY DEF Earlier
<1>3. ASSUME NEW n \in Nat, Known(n)
      PROVE  Known(n)' /\ Before(n)' = Before(n)
  BY <1>1, <1>3 DEF Known, Before
<1>4. ASSUME NEW i \in Cands, Settling(i)
      PROVE  Settling(i)' /\ Causes(i)' = Causes(i)
  <2>1. \A j \in Earlier(i) : told'[j] = told[j] /\ told[j] # "nothing"
    BY <1>1, <1>2, <1>4 DEF Settling
  <2> QED  BY <1>2, <2>1 DEF Settling, Causes
<1> QED  BY <1>3, <1>4

\* The proposal for the next candidate, or for one of the next group, is made of what
\* this pass was told of the candidates before it.
LEMMA ProposalsKnown ==
  ASSUME TypeOK, NEW i \in Cands, Known(next), hist = Before(next),
         \/ i = next
         \/ \E G \in groups : i \in G /\ First(G)
  PROVE  Settling(i) /\ Proposal(i) = Causes(i)
<1>1. \A j \in Earlier(i) : j \in Cands /\ j < next
  <2>1. CASE i = next
    BY <2>1 DEF Earlier
  <2>2. CASE \E G \in groups : i \in G /\ First(G)
    BY <2>2 DEF Earlier, First
  <2> QED  BY <2>1, <2>2
<1> QED  BY <1>1 DEF Settling, Known, Proposal, Causes, Before

\* A step that tells nobody anything, and starts nothing, keeps the memory or clears it.
LEMMA ReplayFrame ==
  ASSUME TypeOK, ReplayInv, UNCHANGED <<groups, told, redone, lost, coeffs>>,
         recs' \cup tasks' \subseteq recs \cup tasks,
         \/ UNCHANGED <<next, hist>>
         \/ next' = 1 /\ hist' = {}
  PROVE  ReplayInv'
<1> SUFFICES ASSUME redone \cup lost = {} PROVE ReplayInv'
  BY DEF ReplayInv
<1>1. \A i : Settling(i)' = Settling(i) /\ Causes(i)' = Causes(i)
  BY DEF Settling, Causes, Earlier
<1>2. Known(next)' /\ hist' = Before(next)'
  <2>1. CASE UNCHANGED <<next, hist>>
    BY <2>1 DEF ReplayInv, Known, Before
  <2>2. CASE next' = 1 /\ hist' = {}
    BY <2>2 DEF Known, Before, Cands
  <2> QED  BY <2>1, <2>2
<1>3. ASSUME NEW i \in recs' \cup tasks'
      PROVE  Settling(i)' /\ coeffs'[i] = Causes(i)'
  <2>1. i \in recs \cup tasks
    BY <1>3
  <2> QED  BY <1>1, <2>1 DEF ReplayInv
<1> QED  BY <1>2, <1>3 DEF ReplayInv

LEMMA NextReplay ==
  ASSUME TypeOK, WhereInv, ReplayInv, [Next]_vars
  PROVE  ReplayInv'
<1> USE ChainAssumption DEF archive, memory, history
<1>1. CASE Launches
  BY <1>1, ReplayFrame DEF Launches, Launch
<1>2. CASE Dies \/ Stops
  <2>1. /\ UNCHANGED <<groups, told, redone, lost, coeffs, recs>> /\ tasks' \subseteq tasks
        /\ next' = 1 /\ hist' = {}
    BY <1>2 DEF Dies, Stops, Ends
  <2> QED  BY <2>1, ReplayFrame
<1>3. CASE Pull \/ Finishes \/ UNCHANGED vars
  <2>1. UNCHANGED <<groups, told, redone, lost, coeffs, recs, tasks, next, hist>>
    BY <1>3 DEF Pull, Finishes, vars
  <2> QED  BY <2>1, ReplayFrame
<1>4. ASSUME NEW i \in Cands, NEW ok \in BOOLEAN, TaskEnds(i, ok)
      PROVE  ReplayInv'
  <2>1. /\ UNCHANGED <<groups, told, redone, lost, coeffs, next, hist>>
        /\ recs' \cup tasks' \subseteq recs \cup tasks
    BY <1>4 DEF TaskEnds
  <2> QED  BY <2>1, ReplayFrame
<1>5. ASSUME NEW S, NEW F, Tells(S, F), F \subseteq S,
             \/ S \in groups /\ First(S)
             \/ S = {next} /\ next \in Cands,
             UNCHANGED <<groups, recs, tasks, coeffs>>, lost \subseteq lost'
      PROVE  ReplayInv'
  <2> SUFFICES ASSUME redone' = {}, lost' = {}
               PROVE  ReplayInv'
    BY DEF ReplayInv
  <2>1. /\ Recorded(S, F) /\ hist' = hist \cup F
        /\ next \in Cands /\ next' \in Nat /\ next <= next'
        /\ S = {j \in Cands : next <= j /\ j < next'}
    <3>1. /\ next' \in 1..(Budget + 1) /\ next \in Cands /\ next' = next + Cardinality(S)
          /\ Cardinality(S) \in Nat \ {0} /\ S = {j \in Cands : next <= j /\ j < next'}
      BY <1>5, TellsType
    <3>2. next' \in Nat /\ next <= next'
      BY <3>1 DEF Cands
    <3> QED  BY <1>5, <3>1, <3>2 DEF Tells
  <2>2. redone \cup lost = {}
    BY <1>5, <2>1 DEF Recorded
  <2>3. Known(next) /\ hist = Before(next)
    BY <2>2 DEF ReplayInv
  <2>4. /\ \A j \in Cands : j < next => told'[j] = told[j] /\ told[j] # "nothing"
        /\ \A j \in S : told'[j] = IF j \in F THEN "sentinel" ELSE "score"
    <3>1. Cands \subseteq Nat /\ next \in Nat
      BY <2>1 DEF Cands
    <3>2. told' = [j \in Cands |-> IF j \in S /\ told[j] = "nothing"
                                   THEN IF j \in F THEN "sentinel" ELSE "score" ELSE told[j]]
          /\ \A j \in S : told[j] = (IF j \in F THEN "score" ELSE "sentinel") => j \in redone'
      BY <2>1 DEF Recorded
    <3>3. \A j \in S : j \in Cands /\ told[j] # (IF j \in F THEN "score" ELSE "sentinel")
      BY <2>1, <3>2
    <3> QED  BY <2>1, <2>3, <3>1, <3>2, <3>3 DEF TypeOK, Known
  <2>5. \A j \in Cands : j < next' <=> j < next \/ j \in S
    BY <2>1 DEF Cands
  <2>6. Known(next)'
    BY <2>4, <2>5 DEF Known
  <2>7. hist' = Before(next)'
    <3>1. \A j \in S : ~(j < next)
      BY <2>1 DEF Cands
    <3> QED  BY <1>5, <2>1, <2>3, <2>4, <2>5, <3>1 DEF Before
  <2>8. ASSUME NEW i \in recs' \cup tasks'
        PROVE  Settling(i)' /\ coeffs'[i] = Causes(i)'
    <3>1. i \in Cands /\ Settling(i) /\ coeffs[i] = Causes(i)
      BY <1>5, <2>2, <2>8 DEF TypeOK, ReplayInv
    <3> QED  BY <1>5, <2>1, <3>1, KnownStays
  <2> QED  BY <2>6, <2>7, <2>8 DEF ReplayInv
<1>6. ASSUME NEW i \in Cands, Replays(i) \/ ReplaysFailure(i)
      PROVE  ReplayInv'
  <2>1. \E F \in SUBSET {next} : Tells({next}, F)
    BY <1>6 DEF Replays, ReplaysFailure, Evaluates
  <2>2. next \in Cands /\ UNCHANGED <<groups, recs, tasks, coeffs, lost>>
    BY <1>6 DEF Replays, ReplaysFailure, Evaluates
  <2> QED  BY <1>5, <2>1, <2>2
<1>7. ASSUME NEW i \in Cands, NEW m \in BOOLEAN, TellsScore(i) \/ TellsFailure(i, m)
      PROVE  ReplayInv'
  <2>1. pc = "wait" /\ asked = {i} /\ i \notin Batched
    BY <1>7 DEF TellsScore, TellsFailure, Settled
  <2>2. i = next
    <3>1. \A G \in groups : asked \subseteq G /\ side = "driver" => i \in Batched
      BY <2>1 DEF Batched
    <3> QED  BY <2>1, <3>1 DEF WhereInv
  <2>3. \E F \in SUBSET {next} : Tells({next}, F)
    BY <1>7, <2>2 DEF TellsScore, TellsFailure
  <2>4. UNCHANGED <<groups, recs, tasks, coeffs>> /\ lost \subseteq lost'
    BY <1>7 DEF TellsScore, TellsFailure
  <2> QED  BY <1>5, <2>2, <2>3, <2>4
<1>8. ASSUME NEW G \in groups, ArrayReplays(G) \/ ArrayTells(G)
      PROVE  ReplayInv'
  <2>1. First(G)
    BY <1>8, ItsTurn DEF Group
  <2>2. \E F \in SUBSET G : Tells(G, F)
    BY <1>8 DEF ArrayReplays, ArrayTells
  <2>3. UNCHANGED <<groups, recs, tasks, coeffs, lost>>
    BY <1>8 DEF ArrayReplays, ArrayTells
  <2> QED  BY <1>5, <2>1, <2>2, <2>3
<1>9. ASSUME NEW S \in SUBSET Cands, Sends(S), S = {next} \/ \E G \in groups : S \subseteq G /\ First(G),
             UNCHANGED <<groups, recs, next, hist, told, redone, lost>>
      PROVE  ReplayInv'
  <2> SUFFICES ASSUME redone \cup lost = {}
               PROVE  ReplayInv'
    BY <1>9 DEF ReplayInv
  <2>1. Known(next) /\ hist = Before(next)
    BY DEF ReplayInv
  <2>2. Known(next)' /\ hist' = Before(next)'
    BY <1>9, <2>1 DEF Known, Before
  <2>3. \A i : Settling(i)' = Settling(i) /\ Causes(i)' = Causes(i)
    BY <1>9 DEF Settling, Causes, Earlier
  <2>4. ASSUME NEW i \in recs' \cup tasks'
        PROVE  Settling(i) /\ coeffs'[i] = Causes(i)
    <3>1. i \in Cands
      BY <1>9, <2>4 DEF TypeOK, Sends
    <3>2. CASE i \in recs \cup tasks
      BY <1>9, <3>1, <3>2 DEF ReplayInv, Sends
    <3>3. CASE i \notin recs \cup tasks
      <4>1. i \in S /\ coeffs'[i] = Proposal(i)
        BY <1>9, <2>4, <3>1, <3>3 DEF Sends
      <4>2. i = next \/ \E G \in groups : i \in G /\ First(G)
        BY <1>9, <4>1
      <4> QED  BY <2>1, <3>1, <4>1, <4>2, ProposalsKnown
    <3> QED  BY <3>2, <3>3
  <2> QED  BY <2>2, <2>3, <2>4 DEF ReplayInv
<1>10. ASSUME NEW i \in Cands, Trains(i)
       PROVE  ReplayInv'
  <2>1. Sends({i}) /\ i = next /\ UNCHANGED <<groups, recs, next, hist, told, redone, lost>>
    BY <1>10 DEF Trains, Evaluates
  <2> QED  BY <1>9, <2>1
<1>11. ASSUME NEW G \in groups, ArrayTrains(G)
       PROVE  ReplayInv'
  <2>1. First(G) /\ G \ Readable \in SUBSET Cands
    BY <1>11, ItsTurn, GroupFacts DEF Group
  <2>2. Sends(G \ Readable) /\ UNCHANGED <<groups, recs, next, hist, told, redone, lost>>
    BY <1>11 DEF ArrayTrains
  <2> QED  BY <1>9, <2>1, <2>2
<1> QED  BY <1>1, <1>2, <1>3, <1>4, <1>6, <1>7, <1>8, <1>10, <1>11
         DEF Next, Tasks, Pass, Eval, Group

\* Until something was told twice in different ways, a score that the optimiser is told
\* is that of the very proposal it asked for: for single candidates and for those of an
\* array, through deaths, handovers from one program to the other, and trainings that
\* outlive the pass that sent them.
THEOREM ScoresAreOfProposals == Spec => ScoresTheProposal
<1>1. TypeOK /\ WhereInv /\ ReplayInv /\ [Next]_vars => (TypeOK /\ WhereInv /\ ReplayInv)'
  BY NextType, NextReplay
<1>2. TypeOK /\ WhereInv /\ ReplayInv /\ [Next]_vars =>
        [\A i \in Cands : Scores(i) => redone \cup lost # {} \/ coeffs[i] = Proposal(i)]_vars
  <2> SUFFICES ASSUME TypeOK, WhereInv, ReplayInv, NEW i \in Cands,
                      Scores(i), redone \cup lost = {}
               PROVE  coeffs[i] = Proposal(i)
    OBVIOUS
  <2>1. Known(next) /\ hist = Before(next) /\ (i \in recs => coeffs[i] = Causes(i))
    BY DEF ReplayInv
  <2>2. CASE Replays(i) \/ TellsScore(i)
    <3>1. CASE Replays(i)
      <4>1. i = next /\ i \in recs
        BY <3>1 DEF Replays, Evaluates, Readable, TypeOK
      <4> QED  BY <2>1, <4>1, ProposalsKnown
    <3>2. CASE TellsScore(i)
      <4>1. pc = "wait" /\ asked = {i} /\ i \notin Batched /\ i \in recs
        BY <3>2 DEF TellsScore, Settled, Readable, TypeOK
      <4>2. \A G \in groups : asked \subseteq G /\ side = "driver" => i \in Batched
        BY <4>1 DEF Batched
      <4>3. i = next
        BY <4>1, <4>2 DEF WhereInv
      <4> QED  BY <2>1, <4>1, <4>3, ProposalsKnown
    <3> QED  BY <2>2, <3>1, <3>2
  <2>3. ASSUME NEW G \in groups, i \in G \cap Readable, ArrayReplays(G) \/ ArrayTells(G)
        PROVE  coeffs[i] = Proposal(i)
    <3>1. First(G)
      BY <2>3, ItsTurn DEF Group
    <3>2. i \in recs
      BY <2>3 DEF Readable, TypeOK
    <3> QED  BY <2>1, <2>3, <3>1, <3>2, ProposalsKnown
  <2> QED  BY <2>2, <2>3 DEF Scores
<1> QED  BY InitInv, <1>1, <1>2, PTL DEF Spec, ScoresTheProposal

--------------------------------------------------------------------------------
(***************************************************************************)
(* The chain goes on to its end, job after job.                            *)
(***************************************************************************)

\* The chain can go on by itself.
PassMoves == pc = "eval" \/ Settled

\* A training that is under way ends, and a driver pulls what its mirror lacks.
OthersMove == tasks # {} \/ (side = "driver" /\ seen # recs)

\* A pass that waits, waits for a training or for a pull, and when neither is left to come
\* it is told the outcome; so it never hangs on a candidate that failed or is late.
THEOREM ChainNeverStalls == Spec => [](pc \in {"down", "done"} \/ PassMoves \/ OthersMove)
<1>1. ASSUME TypeOK
      PROVE  pc \in {"down", "done"} \/ PassMoves \/ OthersMove
  <2>1. CASE pc = "wait" /\ ~Settled
    <3>1. asked \cap tasks # {} \/ ~(asked \cap recs \subseteq Readable)
      BY <2>1 DEF Settled
    <3>2. ~(asked \cap recs \subseteq Readable) => side = "driver" /\ seen # recs
      BY <1>1, ChainAssumption DEF TypeOK, Readable
    <3> QED  BY <3>1, <3>2 DEF OthersMove
  <2> QED  BY <1>1, <2>1 DEF TypeOK, PassMoves
<1> QED  BY <1>1, TypeCorrect, PTL

\* A node's job has what it trains in its own hands, and trains nothing that it knows.
JobInv ==
    /\ tasks \cap recs = {}
    /\ side = "driver" => left = PerJob
    /\ side = "node" => tasks \subseteq (IF pc = "wait" THEN asked ELSE {})
    /\ side = "node" /\ pc = "wait" => asked \cap marks[side] = {}

LEMMA NextJob ==
  ASSUME ~Handover, TypeOK, WhereInv, JobInv, [Next]_vars
  PROVE  JobInv'
<1> USE ChainAssumption DEF TypeOK, JobInv, archive, memory, history
<1>1. ASSUME NEW s \in Sides, Launch(s)
      PROVE  JobInv'
  BY <1>1 DEF Launch
<1>2. CASE Dies \/ Stops
  BY <1>2 DEF Dies, Stops, Ends
<1>3. CASE Pull \/ Finishes \/ UNCHANGED vars
  BY <1>3 DEF Pull, Finishes, vars
<1>4. ASSUME NEW i \in Cands, NEW ok \in BOOLEAN, TaskEnds(i, ok)
      PROVE  JobInv'
  BY <1>4 DEF TaskEnds
<1>5. ASSUME NEW i \in Cands, Replays(i) \/ ReplaysFailure(i)
      PROVE  JobInv'
  BY <1>5 DEF Replays, ReplaysFailure, Evaluates
<1>6. ASSUME NEW i \in Cands, Trains(i)
      PROVE  JobInv'
  <2>1. /\ pc = "eval" /\ i \notin marks[side] /\ asked' = {i} /\ pc' = "wait"
        /\ tasks' = tasks \cup ({i} \ recs) /\ (side = "driver" => left' = left)
        /\ UNCHANGED <<recs, marks, side>>
    BY <1>6 DEF Trains, Sends, Evaluates, FailedBefore, Marked
  <2> QED  BY <2>1
<1>7. ASSUME NEW i \in Cands, NEW m \in BOOLEAN, TellsScore(i) \/ TellsFailure(i, m)
      PROVE  JobInv'
  <2>1. /\ asked \cap tasks = {} /\ pc = "wait" /\ pc' = "eval"
        /\ UNCHANGED <<recs, tasks, side, left>>
    BY <1>7 DEF TellsScore, TellsFailure, Settled
  <2> QED  BY <2>1
<1>8. ASSUME NEW G \in groups, Group(G)
      PROVE  JobInv'
  <2>1. side = "driver"
    BY <1>8 DEF Group, ArrayReplays, ArrayTrains, ArrayTells, AtGroup
  <2>2. side' = side /\ left' = left
    BY <1>8, <2>1 DEF Group, ArrayReplays, ArrayTrains, ArrayTells, Sends
  <2>3. recs' = recs /\ (tasks' \cap recs = {})
    BY <1>8 DEF Group, ArrayReplays, ArrayTrains, ArrayTells, Sends
  <2> QED  BY <2>1, <2>2, <2>3
<1> QED  BY <1>1, <1>2, <1>3, <1>4, <1>5, <1>6, <1>7, <1>8 DEF Next, Launches, Tasks, Pass, Eval

(***************************************************************************)
(* What a chain has left to do, as one number.  A candidate of which       *)
(* neither a record nor a failure is known is worth a whole round, that is *)
(* a relaunch and the walk over the archive up to where it stops.          *)
(***************************************************************************)
Round    == 5 * Budget + 3
Unknown  == Cands \ (recs \cup marks[side])
Debt     == Cardinality(Unknown) + (MaxDeaths - deaths)
Errands  == 2 * Cardinality(tasks) + Cardinality(recs \ seen)

\* This job has learnt the outcome of a training of its own.
Paid == left < PerJob - 1 \/ (left = PerJob - 1 /\ (pc = "eval" \/ asked \subseteq recs))

Walk == IF pc = "eval" THEN 5 * (Budget + 1 - next) + 2
                       ELSE 5 * (Budget + 1 - next) + 1 - 2 * Cardinality(asked)
Rest == IF pc = "down" THEN Round
        ELSE IF pc = "done" THEN 0
        ELSE Walk + IF Paid THEN Round ELSE 0

Ahead == (Round + 1) * Debt + Rest + Errands

LEMMA Descends ==
  ASSUME NEW r \in Nat, NEW u \in Nat, NEW v \in Nat, NEW a \in Int, NEW b \in Int,
         (v = u /\ b < a) \/ (v < u /\ b <= a + r)
  PROVE  (r + 1) * v + b < (r + 1) * u + a
<1>1. CASE v = u /\ b < a
  BY <1>1
<1>2. CASE v < u /\ b <= a + r
  <2>1. PICK w \in Nat : u = v + 1 + w
    <3>1. u - v - 1 \in Nat /\ u = v + 1 + (u - v - 1)
      BY <1>2
    <3> QED  BY <3>1
  <2>2. (r + 1) * u = (r + 1) * v + (r + 1) + (r + 1) * w
    BY <2>1
  <2>3. (r + 1) * w \in Nat /\ (r + 1) * v \in Nat
    OBVIOUS
  <2> QED  BY <1>2, <2>2, <2>3
<1> QED  BY <1>1, <1>2

LEMMA CandsFinite == \A S \in SUBSET Cands : IsFiniteSet(S) /\ Cardinality(S) \in Nat
<1>1. IsFiniteSet(Cands)
  BY ChainAssumption, FS_Interval DEF Cands
<1> QED  BY <1>1, FS_Subset, FS_CardinalityType

\* The sizes are numbers, and a walk is never below zero.
LEMMA Sizes ==
  ASSUME TypeOK, WhereInv
  PROVE  /\ Round \in Nat /\ Debt \in Nat /\ Errands \in Nat /\ Rest \in Nat
         /\ Cardinality(Unknown) \in Nat /\ Cardinality(tasks) \in Nat
         /\ Cardinality(recs \ seen) \in Nat /\ Cardinality(asked) \in Nat
         /\ \A S \in SUBSET Cands : IsFiniteSet(S)
<1> USE ChainAssumption DEF TypeOK
<1>1. \A S \in SUBSET Cands : IsFiniteSet(S)
  BY CandsFinite
<1>2. \A S \in SUBSET Cands : Cardinality(S) \in Nat
  BY CandsFinite
<1>3. /\ Cardinality(Unknown) \in Nat /\ Cardinality(tasks) \in Nat
      /\ Cardinality(recs \ seen) \in Nat /\ Cardinality(asked) \in Nat
  BY <1>2 DEF Unknown
<1>4. MaxDeaths - deaths \in Nat /\ Round \in Nat
  BY DEF Round
<1>5. pc = "wait" => Cardinality(asked) <= Budget + 1 - next
  <2>1. CASE asked = {next} /\ next \in Cands
    <3>1. Cardinality(asked) = 1
      BY <2>1, FS_Singleton
    <3> QED  BY <2>1, <3>1 DEF Cands
  <2>2. ASSUME NEW G \in groups, asked \subseteq G, First(G)
        PROVE  Cardinality(asked) <= Budget + 1 - next
    <3> HIDE DEF TypeOK
    <3>1. /\ next + Cardinality(G) \in 1..(Budget + 1) /\ next \in Cands
          /\ G \subseteq Cands /\ Cardinality(G) \in Nat
      BY <2>2, TurnFacts
    <3>2. Cardinality(asked) <= Cardinality(G)
      BY <1>1, <2>2, <3>1, FS_Subset
    <3> QED  BY <1>3, <3>1, <3>2 DEF Cands
  <2> QED  BY <2>1, <2>2 DEF WhereInv
<1>6. pc \in {"eval", "wait"} => Walk \in Nat
  BY <1>3, <1>5 DEF Walk
<1>7. Rest \in Nat
  BY <1>4, <1>6 DEF Rest
<1> QED  BY <1>1, <1>3, <1>4, <1>7 DEF Debt, Errands

LEMMA SizesNext ==
  ASSUME TypeOK', WhereInv'
  PROVE  /\ Debt' \in Nat /\ Errands' \in Nat /\ Rest' \in Int
         /\ Cardinality(Unknown') \in Nat /\ Cardinality(tasks') \in Nat
         /\ Cardinality(recs' \ seen') \in Nat
<1> USE ChainAssumption DEF TypeOK
<1>1. \A S \in SUBSET Cands : Cardinality(S) \in Nat
  BY CandsFinite
<1>2. /\ Cardinality(Unknown') \in Nat /\ Cardinality(tasks') \in Nat
      /\ Cardinality(recs' \ seen') \in Nat /\ Cardinality(asked') \in Nat
  BY <1>1 DEF Unknown
<1>3. MaxDeaths - deaths' \in Nat
  <2>1. \A d \in 0..MaxDeaths : MaxDeaths - d \in Nat
    OBVIOUS
  <2>2. deaths' \in 0..MaxDeaths
    OBVIOUS
  <2> QED  BY <2>1, <2>2, Zenon
<1>4. Round \in Nat
  BY DEF Round
<1>5. Rest' \in Int
  BY <1>2, <1>4 DEF Rest, Walk
<1> QED  BY <1>2, <1>3, <1>5 DEF Debt, Errands

\* The number falls, or a debt is paid with what one round may cost.
Falls ==
    \/ Debt' = Debt /\ Rest' + Errands' < Rest + Errands
    \/ Debt' < Debt /\ Rest' + Errands' <= Rest + Errands + Round

\* A set of candidates that loses one, or gains some.
LEMMA OneCand ==
  ASSUME NEW S \in SUBSET Cands, NEW c \in Cands, NEW T \in SUBSET Cands
  PROVE  /\ c \in S => Cardinality(S \ {c}) = Cardinality(S) - 1
         /\ Cardinality(S \cup {c}) <= Cardinality(S) + 1
         /\ Cardinality(S \cup T) <= Cardinality(S) + Cardinality(T)
         /\ S \subseteq T => Cardinality(S) <= Cardinality(T)
         /\ S # {} => Cardinality(S) >= 1
<1>1. \A X \in SUBSET Cands : IsFiniteSet(X) /\ Cardinality(X) \in Nat
  BY CandsFinite
<1>2. Cardinality(S \cup T) = Cardinality(S) + Cardinality(T) - Cardinality(S \cap T)
  BY <1>1, FS_Union
<1>3. Cardinality(S \cap T) \in Nat
  BY <1>1
<1>4. /\ c \in S => Cardinality(S \ {c}) = Cardinality(S) - 1
      /\ Cardinality(S \cup {c}) <= Cardinality(S) + 1
  BY <1>1, FS_RemoveElement, FS_AddElement
<1>5. S \subseteq T => Cardinality(S) <= Cardinality(T)
  BY <1>1, FS_Subset
<1>6. S # {} => Cardinality(S) >= 1
  BY <1>1, FS_EmptySet
<1>7. Cardinality(S \cup T) <= Cardinality(S) + Cardinality(T)
  BY <1>1, <1>2, <1>3
<1> QED  BY <1>4, <1>5, <1>6, <1>7

\* Launches and ends of a pass.
LEMMA PassesFall ==
  ASSUME ~Handover, TypeOK, WhereInv, JobInv, pc # "done", TypeOK', WhereInv',
         Launches \/ Dies \/ Stops \/ Finishes
  PROVE  Falls
<1> USE ChainAssumption DEF TypeOK
<1>1. CASE Launches
  <2>1. /\ pc = "down" /\ pc' = "eval" /\ next' = 1 /\ left' = PerJob
        /\ UNCHANGED <<recs, seen, marks, tasks, side, deaths>>
    BY <1>1 DEF Launches, Launch, archive
  <2>2. Debt' = Debt /\ Errands' = Errands
    BY <2>1 DEF Debt, Unknown, Errands
  <2>3. Rest = Round /\ Rest' = 5 * Budget + 2
    BY <2>1 DEF Rest, Walk, Paid
  <2> QED  BY <2>2, <2>3, Sizes DEF Falls, Round
<1>2. ASSUME Dies \/ Stops
      PROVE  /\ Rest' = Round /\ Errands' <= Errands
             /\ Debt' = Cardinality(Unknown) + (MaxDeaths - deaths')
  <2>1. /\ pc' = "down" /\ tasks' \subseteq tasks /\ UNCHANGED <<recs, seen, marks, side>>
    BY <1>2 DEF Dies, Stops, Ends
  <2>2. Cardinality(tasks') <= Cardinality(tasks)
    BY <2>1, Sizes, FS_Subset
  <2>3. Cardinality(recs' \ seen') = Cardinality(recs \ seen) /\ Cardinality(tasks') \in Nat
    BY <2>1, SizesNext
  <2>4. Unknown' = Unknown
    BY <2>1 DEF Unknown
  <2>5. Errands' <= Errands
    BY <2>2, <2>3, Sizes DEF Errands
  <2>6. Rest' = Round
    BY <2>1 DEF Rest, Round
  <2> QED  BY <2>4, <2>5, <2>6 DEF Debt
<1>3. CASE Dies
  <2>1. deaths' = deaths + 1
    BY <1>3 DEF Dies
  <2> QED  BY <1>2, <1>3, <2>1, Sizes, SizesNext DEF Falls, Debt
<1>4. CASE Stops
  <2>1. deaths' = deaths /\ pc = "eval" /\ left = 0
    BY <1>4 DEF Stops, OutOfTime, Evaluates
  <2>2. Rest = 5 * (Budget + 1 - next) + 2 + Round
    BY <2>1 DEF Rest, Walk, Paid
  <2> QED  BY <1>2, <1>4, <2>1, <2>2, Sizes, SizesNext DEF Falls, Debt, Round
<1>5. CASE Finishes
  <2>1. /\ pc = "eval" /\ pc' = "done" /\ UNCHANGED <<recs, seen, marks, tasks, side, deaths>>
    BY <1>5 DEF Finishes, archive
  <2>2. Debt' = Debt /\ Errands' = Errands /\ Rest' = 0
    BY <2>1 DEF Debt, Unknown, Errands, Rest
  <2>3. Rest > 0
    BY <2>1, Sizes DEF Rest, Walk, Round
  <2> QED  BY <2>2, <2>3, Sizes DEF Falls
<1> QED  BY <1>1, <1>3, <1>4, <1>5

\* Pulls and trainings.
LEMMA WorldFalls ==
  ASSUME ~Handover, TypeOK, WhereInv, JobInv, pc # "done", TypeOK', WhereInv',
         Pull \/ Tasks
  PROVE  Falls
<1> USE ChainAssumption DEF TypeOK
<1>1. CASE Pull
  <2>1. /\ seen' = recs /\ seen # recs /\ UNCHANGED <<recs, marks, tasks, side, pc, next, asked, left, deaths>>
    BY <1>1 DEF Pull, memory
  <2>2. Debt' = Debt /\ Rest' = Rest
    BY <2>1 DEF Debt, Unknown, Rest, Walk, Paid
  <2>3. Cardinality(recs \ seen) >= 1
    <3>1. recs \ seen # {} /\ recs \ seen \in SUBSET Cands
      <4>1. seen \subseteq recs /\ recs \subseteq Cands /\ seen # recs
        BY <2>1
      <4> HIDE DEF TypeOK
      <4> QED  BY <4>1
    <3>2. PICK c \in Cands : c \in recs \ seen
      BY <3>1
    <3> QED  BY <3>1, <3>2, OneCand
  <2>4. Cardinality(recs' \ seen') = 0
    <3>1. recs' \ seen' = {}
      BY <2>1
    <3> QED  BY <3>1, FS_EmptySet
  <2> QED  BY <2>1, <2>2, <2>3, <2>4, Sizes DEF Falls, Errands
<1>2. ASSUME NEW i \in Cands, NEW ok \in BOOLEAN, TaskEnds(i, ok)
      PROVE  Falls
  <2>1. /\ i \in tasks /\ tasks' = tasks \ {i} /\ i \notin recs
        /\ UNCHANGED <<seen, marks, side, pc, next, asked, left, deaths>>
    BY <1>2 DEF TaskEnds, memory, JobInv
  <2>2. Cardinality(tasks') = Cardinality(tasks) - 1
    BY <2>1, OneCand
  <2>3. CASE ~ok
    <3>1. recs' = recs
      BY <1>2, <2>3 DEF TaskEnds
    <3>2. Debt' = Debt /\ Rest' = Rest
      BY <2>1, <3>1 DEF Debt, Unknown, Rest, Walk, Paid
    <3> QED  BY <2>1, <2>2, <3>1, <3>2, Sizes DEF Falls, Errands
  <2>4. CASE ok
    <3>1. recs' = recs \cup {i}
      BY <1>2, <2>4 DEF TaskEnds
    <3>2. recs' \ seen' = (recs \ seen) \cup {i} /\ recs \ seen \in SUBSET Cands
      BY <2>1, <3>1
    <3>3. Cardinality(recs' \ seen') <= Cardinality(recs \ seen) + 1
      BY <3>2, OneCand
    <3>4. Errands' < Errands
      BY <2>2, <3>3, Sizes, SizesNext DEF Errands
    <3>5. Unknown' = Unknown \ {i} /\ Unknown \in SUBSET Cands
      BY <2>1, <3>1 DEF Unknown
    <3>6. Debt' <= Debt /\ (i \in Unknown => Debt' = Debt - 1)
      <4>1. i \in Unknown => Cardinality(Unknown') = Cardinality(Unknown) - 1
        BY <3>5, OneCand
      <4>2. i \notin Unknown => Unknown' = Unknown
        BY <3>5
      <4> QED  BY <2>1, <4>1, <4>2, Sizes DEF Debt
    <3>7. Walk' = Walk
      BY <2>1 DEF Walk
    <3>8. CASE side = "driver"
      <4>1. ~Paid /\ ~Paid'
        BY <2>1, <3>8 DEF JobInv, Paid
      <4>2. Rest' = Rest
        BY <2>1, <3>7, <4>1 DEF Rest
      <4> QED  BY <3>4, <3>6, <4>2, Sizes, SizesNext DEF Falls
    <3>9. CASE side = "node"
      <4>1. i \in Unknown /\ pc = "wait"
        BY <2>1, <3>9 DEF JobInv, Unknown
      <4>2. Rest' <= Rest + Round
        <5>1. Walk \in Int
          BY <4>1, Sizes DEF Walk
        <5>2. Rest = Walk + (IF Paid THEN Round ELSE 0)
          BY <4>1 DEF Rest
        <5>3. Rest' = Walk + (IF Paid' THEN Round ELSE 0)
          BY <2>1, <3>7, <4>1 DEF Rest, Round
        <5>4. Paid => Paid'
          BY <2>1, <3>1 DEF Paid
        <5> QED  BY <5>1, <5>2, <5>3, <5>4, Sizes
      <4> QED  BY <3>4, <3>6, <4>1, <4>2, Sizes, SizesNext DEF Falls
    <3> QED  BY <3>8, <3>9
  <2> QED  BY <2>3, <2>4
<1> QED  BY <1>1, <1>2 DEF Tasks

\* A step of the evaluation that keeps the archive leaves debts and errands alone.
LEMMA Frame ==
  ASSUME UNCHANGED <<archive, side, deaths>>
  PROVE  Debt' = Debt /\ Errands' = Errands /\ recs' = recs /\ side' = side
BY DEF archive, Debt, Errands, Unknown

\* What the evaluation of one candidate costs.
LEMMA EvalsFall ==
  ASSUME ~Handover, TypeOK, WhereInv, JobInv, TypeOK', WhereInv',
         NEW i \in Cands, Replays(i) \/ ReplaysFailure(i) \/ Trains(i) \/ TellsScore(i)
  PROVE  Falls
<1> USE ChainAssumption DEF TypeOK
<1>1. CASE Replays(i) \/ ReplaysFailure(i)
  <2>1. /\ pc = "eval" /\ pc' = pc /\ next' = next + 1 /\ left' = left
        /\ Debt' = Debt /\ Errands' = Errands
    <3>1. /\ pc = "eval" /\ pc' = pc /\ next' = next + Cardinality({i}) /\ left' = left
          /\ UNCHANGED <<archive, side, deaths>>
      BY <1>1 DEF Replays, ReplaysFailure, Evaluates, Tells, Recorded
    <3> QED  BY <3>1, Frame, GroupFacts
  <2>2. Paid' = Paid /\ Walk' = Walk - 5
    BY <2>1 DEF Paid, Walk
  <2>3. Rest' = Rest - 5
    BY <2>1, <2>2, Sizes DEF Rest, Walk
  <2> QED  BY <2>1, <2>3, Sizes DEF Falls
<1>2. CASE Trains(i)
  <2>1. /\ pc = "eval" /\ pc' = "wait" /\ asked' = {i} /\ tasks' = tasks \cup ({i} \ recs)
        /\ left' = (IF side = "node" THEN left - 1 ELSE left) /\ i \notin Readable
        /\ ~(side = "node" /\ left = 0)
        /\ UNCHANGED <<recs, seen, marks, side, next, deaths>>
    BY <1>2 DEF Trains, Sends, Evaluates, OutOfTime
  <2>2. Debt' = Debt
    BY <2>1 DEF Debt, Unknown
  <2>3. Errands' <= Errands + 2
    <3>1. Cardinality(tasks') <= Cardinality(tasks) + 1
      <4>1. CASE i \in recs
        <5>1. tasks' = tasks
          BY <2>1, <4>1
        <5> QED  BY <5>1, Sizes
      <4>2. CASE i \notin recs
        <5>1. tasks' = tasks \cup {i}
          BY <2>1, <4>2
        <5>2. Cardinality(tasks \cup {i}) <= Cardinality(tasks) + 1
          BY OneCand
        <5> QED  BY <5>1, <5>2
      <4> QED  BY <4>1, <4>2
    <3>2. Cardinality(recs' \ seen') = Cardinality(recs \ seen)
      BY <2>1
    <3>3. Errands' = 2 * Cardinality(tasks') + Cardinality(recs \ seen)
      BY <3>2 DEF Errands
    <3> QED  BY <3>1, <3>3, Sizes, SizesNext DEF Errands
  <2>4. Walk' = Walk - 3
    <3>1. Cardinality(asked') = 1
      BY <2>1, GroupFacts
    <3> QED  BY <2>1, <3>1 DEF Walk
  <2>5. Paid' = Paid
    <3>1. CASE side = "node"
      <4>1. ~(asked' \subseteq recs')
        BY <2>1, <3>1 DEF Readable
      <4> QED  BY <2>1, <3>1, <4>1 DEF Paid
    <3>2. CASE side = "driver"
      BY <2>1, <3>2 DEF Paid, JobInv
    <3> QED  BY <3>1, <3>2
  <2>6. Rest' = Rest - 3
    BY <2>1, <2>4, <2>5, Sizes DEF Rest, Walk
  <2> QED  BY <2>2, <2>3, <2>6, Sizes, SizesNext DEF Falls
<1>3. CASE TellsScore(i)
  <2>1. /\ pc = "wait" /\ pc' = "eval" /\ next' = next + 1 /\ left' = left
        /\ asked = {i} /\ i \in recs
        /\ Debt' = Debt /\ Errands' = Errands
    <3>1. /\ pc = "wait" /\ pc' = "eval" /\ next' = next + Cardinality({i}) /\ left' = left
          /\ asked = {i} /\ i \in Readable
          /\ UNCHANGED <<archive, side, deaths>>
      BY <1>3 DEF TellsScore, Settled, Tells, Recorded
    <3> QED  BY <3>1, Frame, GroupFacts DEF Readable
  <2>2. Paid' = Paid
    BY <2>1 DEF Paid
  <2>3. Walk' = Walk - 2
    <3>1. Cardinality(asked) = 1
      BY <2>1, GroupFacts
    <3> QED  BY <2>1, <3>1 DEF Walk
  <2>4. Rest' = Rest - 2
    BY <2>1, <2>2, <2>3, Sizes DEF Rest, Walk
  <2> QED  BY <2>1, <2>4, Sizes DEF Falls
<1> QED  BY <1>1, <1>2, <1>3

\* A failure that is told pays a debt on a node, where nothing else would make the
\* candidate known; a marker that cannot be written uses up a death.
LEMMA FailuresFall ==
  ASSUME ~Handover, TypeOK, WhereInv, JobInv, TypeOK', WhereInv',
         NEW i \in Cands, NEW m \in BOOLEAN, TellsFailure(i, m)
  PROVE  Falls
<1> USE ChainAssumption DEF TypeOK
<1>1. /\ pc = "wait" /\ pc' = "eval" /\ next' = next + 1 /\ left' = left /\ asked = {i}
      /\ i \notin Readable /\ UNCHANGED <<recs, seen, tasks, side>>
      /\ marks' = (IF m THEN [marks EXCEPT ![side] = @ \cup {i}] ELSE marks)
      /\ deaths' = (IF m THEN deaths ELSE deaths + 1)
  <2>1. next' = next + Cardinality({i})
    BY DEF TellsFailure, Tells, Recorded
  <2> QED  BY <2>1, GroupFacts DEF TellsFailure, Settled
<1>2. Errands' = Errands
  BY <1>1 DEF Errands
<1>3. Walk' = Walk - 2 /\ Walk \in Int
  <2>1. Cardinality(asked) = 1
    BY <1>1, GroupFacts
  <2> QED  BY <1>1, <2>1 DEF Walk
<1>4. Rest = Walk + (IF Paid THEN Round ELSE 0)
  BY <1>1 DEF Rest
<1>5. Rest' = Walk - 2 + (IF Paid' THEN Round ELSE 0)
  BY <1>1, <1>3 DEF Rest, Round
<1>6. Rest' <= Rest + Round
  BY <1>3, <1>4, <1>5, Sizes
<1>7. CASE ~m
  <2>1. Unknown' = Unknown
    BY <1>1, <1>7 DEF Unknown
  <2>2. Debt' = Cardinality(Unknown) + (MaxDeaths - (deaths + 1))
    BY <1>1, <1>7, <2>1 DEF Debt
  <2>3. Debt' < Debt
    BY <2>2, Sizes DEF Debt
  <2> QED  BY <1>2, <1>6, <2>3, Sizes, SizesNext DEF Falls
<1>8. ASSUME m
      PROVE  Unknown' = Unknown \ {i} /\ deaths' = deaths
  BY <1>1, <1>8 DEF Unknown
<1>9. CASE m /\ side = "node"
  <2>1. i \in Unknown /\ Unknown \in SUBSET Cands
    BY <1>1, <1>9 DEF Unknown, Readable, JobInv
  <2>2. Cardinality(Unknown \ {i}) = Cardinality(Unknown) - 1
    BY <2>1, OneCand
  <2>3. Debt' = Cardinality(Unknown) - 1 + (MaxDeaths - deaths)
    BY <1>8, <1>9, <2>2 DEF Debt
  <2>4. Debt' < Debt
    BY <2>3, Sizes DEF Debt
  <2> QED  BY <1>2, <1>6, <2>4, Sizes, SizesNext DEF Falls
<1>10. CASE m /\ side = "driver"
  <2>1. ~Paid /\ ~Paid'
    BY <1>1, <1>10 DEF JobInv, Paid
  <2>2. Rest' < Rest
    BY <1>3, <1>4, <1>5, <2>1
  <2>3. Cardinality(Unknown \ {i}) <= Cardinality(Unknown)
    <3>1. Unknown \ {i} \in SUBSET Cands /\ Unknown \in SUBSET Cands
      BY DEF Unknown
    <3> QED  BY <3>1, OneCand
  <2>4. Debt' = Cardinality(Unknown \ {i}) + (MaxDeaths - deaths)
    BY <1>8, <1>10 DEF Debt
  <2>5. Cardinality(Unknown \ {i}) \in Nat
    <3>1. Unknown \ {i} \in SUBSET Cands
      BY DEF Unknown
    <3> QED  BY <3>1, CandsFinite
  <2>6. Debt' <= Debt
    BY <2>3, <2>4, <2>5, Sizes DEF Debt
  <2> QED  BY <1>2, <1>6, <2>2, <2>6, Sizes, SizesNext DEF Falls
<1> QED  BY <1>7, <1>9, <1>10

\* A group of a driver's chain, which costs one walk for all its candidates.
LEMMA GroupsFall ==
  ASSUME ~Handover, TypeOK, WhereInv, JobInv, TypeOK', WhereInv',
         NEW G \in groups, Group(G)
  PROVE  Falls
<1>1. side = "driver" /\ left = PerJob /\ G \subseteq Cands
  BY ItsTurn, GroupFacts DEF JobInv
<1>2. Cardinality(G) >= 1 /\ Cardinality(G) \in Nat
  BY ItsTurn, TurnFacts
<1> USE ChainAssumption DEF TypeOK
<1>3. ~Paid
  BY <1>1 DEF Paid
<1>4. CASE ArrayReplays(G)
  <2>1. /\ pc = "eval" /\ pc' = pc /\ left' = left /\ next' = next + Cardinality(G)
        /\ Debt' = Debt /\ Errands' = Errands
    <3>1. /\ pc = "eval" /\ pc' = pc /\ left' = left /\ next' = next + Cardinality(G)
          /\ UNCHANGED <<archive, side, deaths>>
      BY <1>4 DEF ArrayReplays, AtGroup, Tells, Recorded
    <3> QED  BY <3>1, Frame, GroupFacts
  <2>2. ~Paid'
    BY <1>1, <2>1 DEF Paid
  <2>3. Rest' = Rest - 5 * Cardinality(G)
    BY <1>2, <1>3, <2>1, <2>2 DEF Rest, Walk
  <2> QED  BY <1>2, <2>1, <2>3, Sizes DEF Falls
<1>5. CASE ArrayTrains(G)
  <2> DEFINE S == G \ Readable
  <2>1. /\ pc = "eval" /\ pc' = "wait" /\ next' = next /\ left' = left /\ asked' = S
        /\ tasks' = tasks \cup (S \ recs) /\ UNCHANGED <<recs, seen, marks, side, deaths>>
        /\ S # {}
    BY <1>1, <1>5 DEF ArrayTrains, Sends, AtGroup
  <2>2. S \in SUBSET Cands /\ S \ recs \in SUBSET Cands /\ tasks \in SUBSET Cands
    BY <1>1
  <2> HIDE DEF S
  <2>3. Cardinality(S \ recs) <= Cardinality(S) /\ Cardinality(S) >= 1
    <3>1. PICK c \in Cands : c \in S
      BY <2>1, <2>2
    <3>2. S \ recs \subseteq S
      OBVIOUS
    <3> QED  BY <2>1, <2>2, <3>1, <3>2, OneCand
  <2>4. Cardinality(tasks \cup (S \ recs)) <= Cardinality(tasks) + Cardinality(S \ recs)
    <3>1. PICK c \in Cands : c \in S
      BY <2>1, <2>2
    <3> QED  BY <2>2, <3>1, OneCand
  <2>5. Cardinality(S) \in Nat /\ Cardinality(S \ recs) \in Nat
    BY <2>2, CandsFinite
  <2>6. Debt' = Debt
    BY <2>1 DEF Debt, Unknown
  <2>7. Cardinality(recs' \ seen') = Cardinality(recs \ seen)
    BY <2>1
  <2>8. Cardinality(tasks') <= Cardinality(tasks) + Cardinality(S \ recs)
    BY <2>1, <2>4
  <2>9. Errands' <= Errands + 2 * Cardinality(S)
    <3>1. Errands' = 2 * Cardinality(tasks') + Cardinality(recs \ seen)
      BY <2>7 DEF Errands
    <3> QED  BY <2>3, <2>5, <2>8, <3>1, Sizes, SizesNext DEF Errands
  <2>10. ~Paid'
    BY <1>1, <2>1 DEF Paid
  <2>11. Rest = 5 * (Budget + 1 - next) + 2
    BY <1>3, <2>1 DEF Rest, Walk
  <2>12. Rest' = 5 * (Budget + 1 - next) + 1 - 2 * Cardinality(S)
    <3>1. Walk' = 5 * (Budget + 1 - next) + 1 - 2 * Cardinality(S)
      BY <2>1 DEF Walk
    <3>2. Rest' = Walk' + 0
      BY <2>1, <2>10 DEF Rest
    <3> QED  BY <2>5, <3>1, <3>2
  <2>13. Rest' = Rest - 1 - 2 * Cardinality(S)
    BY <2>5, <2>11, <2>12
  <2> QED  BY <2>5, <2>6, <2>9, <2>13, Sizes, SizesNext DEF Falls
<1>6. CASE ArrayTells(G)
  <2>1. /\ pc = "wait" /\ pc' = "eval" /\ left' = left /\ next' = next + Cardinality(G)
        /\ asked \subseteq G /\ Debt' = Debt /\ Errands' = Errands
    <3>1. /\ pc = "wait" /\ pc' = "eval" /\ left' = left /\ next' = next + Cardinality(G)
          /\ asked \subseteq G /\ UNCHANGED <<archive, side, deaths>>
      BY <1>1, <1>6 DEF ArrayTells, Settled, Tells, Recorded
    <3> QED  BY <3>1, Frame, GroupFacts
  <2>2. Cardinality(asked) <= Cardinality(G)
    <3>1. IsFiniteSet(G)
      BY <1>1, CandsFinite
    <3> QED  BY <2>1, <3>1, FS_Subset
  <2>3. ~Paid'
    BY <1>1, <2>1 DEF Paid
  <2>4. Rest = 5 * (Budget + 1 - next) + 1 - 2 * Cardinality(asked)
    BY <1>3, <2>1, Sizes DEF Rest, Walk
  <2>5. Rest' = 5 * (Budget + 1 - (next + Cardinality(G))) + 2
    BY <2>1, <2>3 DEF Rest, Walk
  <2>6. Rest' < Rest
    BY <1>2, <2>2, <2>4, <2>5, Sizes
  <2> QED  BY <2>1, <2>6, Sizes, SizesNext DEF Falls
<1> QED  BY <1>4, <1>5, <1>6 DEF Group

\* With every step the chain comes nearer to its end, whatever dies or fails on the way
\* and however few trainings fit in a job: a job that stops for its wall budget has made
\* one candidate known, which pays for the walk of the next job over the archive.  So
\* the relaunched jobs use up the search, and never come back to where they were.
THEOREM ChainAdvances ==
  ~Handover => (Spec => [](Ahead \in Nat) /\ [][pc # "done" => Ahead' < Ahead]_vars)
<1> SUFFICES ASSUME ~Handover
             PROVE  Spec => [](Ahead \in Nat) /\ [][pc # "done" => Ahead' < Ahead]_vars
  OBVIOUS
<1> DEFINE Inv == TypeOK /\ WhereInv /\ JobInv
<1>1. Init => Inv
  <2>1. Init => JobInv
    BY DEF Init, JobInv
  <2> QED  BY <2>1, InitInv
<1>2. Inv /\ [Next]_vars => Inv'
  BY NextType, NextJob
<1>3. Inv => Ahead \in Nat
  <2> SUFFICES ASSUME Inv
               PROVE  Ahead \in Nat
    OBVIOUS
  <2>1. Round \in Nat /\ Debt \in Nat /\ Rest \in Nat /\ Errands \in Nat
    BY Sizes
  <2>2. (Round + 1) * Debt \in Nat
    BY <2>1
  <2> QED  BY <2>1, <2>2 DEF Ahead
<1>4. Inv /\ Inv' /\ [Next]_vars => [pc # "done" => Ahead' < Ahead]_vars
  <2> SUFFICES ASSUME Inv, Inv', Next, pc # "done"
               PROVE  Ahead' < Ahead
    OBVIOUS
  <2>1. Falls
    BY PassesFall, WorldFalls, EvalsFall, FailuresFall, GroupsFall DEF Next, Pass, Eval
  <2>2. /\ Round \in Nat /\ Debt \in Nat /\ Debt' \in Nat /\ Round' = Round
        /\ Rest + Errands \in Int /\ Rest' + Errands' \in Int
    BY Sizes, SizesNext DEF Round
  <2>3. \/ Debt' = Debt /\ Rest' + Errands' < Rest + Errands
        \/ Debt' < Debt /\ Rest' + Errands' <= (Rest + Errands) + Round
    BY <2>1, <2>2, Sizes, SizesNext DEF Falls
  <2>4. (Round + 1) * Debt' + (Rest' + Errands') < (Round + 1) * Debt + (Rest + Errands)
    BY <2>2, <2>3, Descends
  <2>5. (Round + 1) * Debt \in Int /\ (Round + 1) * Debt' \in Int
    BY <2>2
  <2> QED  BY <2>2, <2>4, <2>5, Sizes, SizesNext DEF Ahead
<1> QED  BY <1>1, <1>2, <1>3, <1>4, PTL DEF Spec
================================================================================
