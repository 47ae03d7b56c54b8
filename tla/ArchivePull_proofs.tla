---------------------------- MODULE ArchivePull_proofs ----------------------------
(***************************************************************************)
(* Theorems of ArchivePull, for any runs, executions and pullers and any   *)
(* size of chunks.  What is said of the content of the mirror assumes that *)
(* no run is trained twice at once (Exclusive), which BatchDriver!         *)
(* NoDoubleTraining establishes as long as no qdel failed.                 *)
(***************************************************************************)
EXTENDS ArchivePull, TLAPS

Marks == {"transient", "permanent"}

\* TypeOK, with the shape of the mirror and of the chunks.
TypeInv ==
    /\ step \in [Execs -> {"new", "train", "env", "env written", "src", "src written",
                           "commit", "done"}]
    /\ run \in [Execs -> Runs \cup {None}]
    /\ env \in [Runs -> Execs \cup {None, Torn}]
    /\ src \in [Runs -> {"none", "torn", "whole"}]
    /\ rec \in [Runs -> Execs \cup {None}]
    /\ unlinked \in SUBSET Execs
    /\ mark \in [Runs -> Marks \cup {"none"}]
    /\ bad \in SUBSET Runs
    /\ mirror \in [Kinds -> [Runs -> SUBSET (Dirs \cup Marks)]]
    /\ \A r \in Runs : mirror["dir"][r] \subseteq Dirs /\ mirror["mark"][r] \subseteq Marks
    /\ staged \in [Pullers -> [Runs -> SUBSET (Dirs \cup Marks)]]
    /\ pc \in [Pullers -> Resting \cup {"fetch", "check", "rename"}]
    /\ todo \in [Pullers -> [Kinds -> SUBSET Runs]]
    /\ cur \in [Pullers -> Runs \cup {None}]
    /\ listed \in [Pullers -> [Kinds -> SUBSET Runs]]

\* A live execution has its run to itself, and the run has no record yet.
Owners ==
    /\ \A e \in Execs : Live(e) => run[e] \in Runs /\ rec[run[e]] = None
    /\ \A e, f \in Execs : Live(e) /\ Live(f) /\ run[e] = run[f] => e = f

\* What an execution has written by the time it commits.
Written ==
    /\ \A e \in Execs : step[e] \in {"src", "src written", "commit"} =>
            e \in unlinked \/ env[run[e]] = e
    /\ \A e \in Execs : step[e] = "commit" => src[run[e]] = "whole"
    /\ \A r \in Runs : rec[r] # None =>
            src[r] = "whole" /\ (rec[r] \in unlinked \/ env[r] = rec[r])

ClusterInv == Owners /\ Written

Items(k) == IF k = "dir" THEN Dirs ELSE Marks

\* The chunk of a puller is part of the list it works on.
StagedInv ==
    \A p \in Pullers :
        /\ Batch(p) \subseteq todo[p][Kind(p)]
        /\ pc[p] \notin {"check", "rename"} => Batch(p) = {}
        /\ pc[p] = "rename" => cur[p] \in Batch(p)
        /\ \A r \in Runs : staged[p][r] \subseteq Items(Kind(p))

\* What a puller had to bring is in the mirror or still on its list.
ListInv ==
    \A p \in Pullers : \A k \in Kinds :
        /\ pc[p] # "idle" => listed[p][k] \subseteq Here(k) \cup todo[p][k]
        /\ pc[p] = "returned" => todo[p][k] = {}

LaptopInv == StagedInv /\ ListInv

\* Copies of a run directory, in the mirror or in a chunk, are the cluster's.
CopyInv ==
    /\ \A r \in Runs : mirror["dir"][r] # {} => mirror["dir"][r] = Remote("dir", r)
    /\ \A p \in Pullers : Kind(p) = "dir" =>
            \A r \in Batch(p) : staged[p][r] = Remote("dir", r)

--------------------------------------------------------------------------------
\* Init establishes the invariants.
LEMMA InitInv == Init => TypeInv /\ ClusterInv /\ LaptopInv /\ CopyInv
<1> SUFFICES ASSUME Init PROVE TypeInv /\ ClusterInv /\ LaptopInv /\ CopyInv
  OBVIOUS
<1> USE DEF Init, Empty, Kinds
<1>1. TypeInv
  BY DEF TypeInv, Resting
<1>2. ClusterInv
  BY DEF ClusterInv, Owners, Written, Live
<1>3. \A p \in Pullers : Batch(p) = {}
  BY DEF Batch
<1>4. LaptopInv
  BY <1>3 DEF LaptopInv, StagedInv, ListInv
<1>5. CopyInv
  BY <1>3 DEF CopyInv
<1> QED  BY <1>1, <1>2, <1>4, <1>5

--------------------------------------------------------------------------------
(***************************************************************************)
(* The cluster.                                                            *)
(***************************************************************************)

\* Executions keep the types and leave the laptop alone.
LEMMA ExecutionTypes ==
  ASSUME TypeInv, NEW e \in Execs, Execution(e)
  PROVE  TypeInv' /\ UNCHANGED laptop
<1> USE DEF TypeInv, GoExec
<1>0. UNCHANGED laptop
  BY DEF Execution, Start, TrainEnds, OpenEnv, CloseEnv, CaptureFails, OpenSrc, CloseSrc, Commit, Die
<1>1. step' \in [Execs -> {"new", "train", "env", "env written", "src", "src written",
                           "commit", "done"}]
  <2>1. \E s \in {"train", "env", "env written", "src", "src written", "commit", "done"} :
          step' = [step EXCEPT ![e] = s]
    BY DEF Execution, Start, TrainEnds, OpenEnv, CloseEnv, CaptureFails, OpenSrc, CloseSrc, Commit, Die
  <2> QED  BY <2>1
<1>2. run' \in [Execs -> Runs \cup {None}]
  BY DEF Execution, Start, TrainEnds, OpenEnv, CloseEnv, CaptureFails, OpenSrc, CloseSrc, Commit, Die
<1>3. env' \in [Runs -> Execs \cup {None, Torn}]
  BY DEF Execution, Start, TrainEnds, OpenEnv, CloseEnv, CaptureFails, OpenSrc, CloseSrc, Commit, Die
<1>4. src' \in [Runs -> {"none", "torn", "whole"}]
  BY DEF Execution, Start, TrainEnds, OpenEnv, CloseEnv, CaptureFails, OpenSrc, CloseSrc, Commit, Die,
         Torn
<1>5. rec' \in [Runs -> Execs \cup {None}]
  BY DEF Execution, Start, TrainEnds, OpenEnv, CloseEnv, CaptureFails, OpenSrc, CloseSrc, Commit, Die
<1>6. unlinked' \in SUBSET Execs /\ bad' \in SUBSET Runs
  BY DEF Execution, Start, TrainEnds, OpenEnv, CloseEnv, CaptureFails, OpenSrc, CloseSrc, Commit, Die
<1>7. mark' \in [Runs -> Marks \cup {"none"}]
  <2>1. mark' = mark \/ \E why \in {"transient", "permanent"} : mark' = [mark EXCEPT ![run[e]] = why]
    BY DEF Execution, Start, TrainEnds, OpenEnv, CloseEnv, CaptureFails, OpenSrc, CloseSrc, Commit, Die
  <2> QED  BY <2>1 DEF Marks
<1> QED  BY <1>0, <1>1, <1>2, <1>3, <1>4, <1>5, <1>6, <1>7 DEF laptop

\* One execution at a time writes to a run, and none once the record is there: the
\* record and the files it speaks of stand.
LEMMA ExecutionOwns ==
  ASSUME TypeInv, ClusterInv, Exclusive, NEW e \in Execs, Execution(e)
  PROVE  /\ ClusterInv'
         /\ unlinked \subseteq unlinked'
         /\ \A r \in Runs : rec[r] # None =>
                rec'[r] = rec[r] /\ env'[r] = env[r] /\ src'[r] = src[r]
<1> USE DEF ClusterInv, Live
<1>t. /\ step \in [Execs -> {"new", "train", "env", "env written", "src", "src written",
                              "commit", "done"}]
      /\ run \in [Execs -> Runs \cup {None}]
      /\ DOMAIN env = Runs /\ DOMAIN src = Runs /\ DOMAIN rec = Runs
      /\ env = [r \in Runs |-> env[r]] /\ src = [r \in Runs |-> src[r]]
      /\ rec = [r \in Runs |-> rec[r]]
  BY DEF TypeInv
<1>1. CASE \E r \in Runs : Start(e, r)
  <2>0. PICK r \in Runs : Start(e, r)
    BY <1>1
  <2>1. \A f \in Execs \ {e} : step'[f] = step[f] /\ run'[f] = run[f]
    BY <1>t, <2>0 DEF Start, GoExec
  <2>2. /\ run'[e] = r /\ step'[e] \in {"train", "done"}
        /\ step'[e] = "train" => rec[r] = None
        /\ \A f \in Execs : Live(f) => run[f] # r
        /\ UNCHANGED <<env, src, rec, unlinked>>
    BY <1>t, <2>0 DEF Start, GoExec
  <2>3. Owners'
    BY <2>1, <2>2 DEF Owners
  <2>4. Written'
    <3>1. Written /\ UNCHANGED <<env, src, rec, unlinked>>
      BY <2>2
    <3>2. ASSUME NEW f \in Execs, step'[f] \in {"src", "src written", "commit"}
          PROVE  f # e /\ step'[f] = step[f] /\ run'[f] = run[f]
      BY <2>1, <2>2, <3>2
    <3> QED  BY <3>1, <3>2 DEF Written
  <2> QED  BY <2>2, <2>3, <2>4
<1>2. ASSUME ~\E r \in Runs : Start(e, r)
      PROVE  /\ Live(e) /\ run' = run
             /\ \A f \in Execs \ {e} : step'[f] = step[f]
             /\ \A r \in Runs \ {run[e]} : rec'[r] = rec[r] /\ env'[r] = env[r] /\ src'[r] = src[r]
             /\ rec'[run[e]] = rec[run[e]] \/ (step'[e] = "done" /\ Commit(e))
             /\ unlinked \subseteq unlinked'
  <2> USE <1>t, <1>2 DEF GoExec, Owners
  <2>1. CASE TrainEnds(e)
    BY <2>1 DEF TrainEnds
  <2>2. CASE OpenEnv(e)
    BY <2>2 DEF OpenEnv
  <2>3. CASE CloseEnv(e)
    BY <2>3 DEF CloseEnv
  <2>4. CASE CaptureFails(e)
    BY <2>4 DEF CaptureFails
  <2>5. CASE OpenSrc(e)
    BY <2>5 DEF OpenSrc
  <2>6. CASE CloseSrc(e)
    BY <2>6 DEF CloseSrc
  <2>7. CASE Commit(e)
    BY <2>7 DEF Commit
  <2>8. CASE Die(e)
    BY <2>8 DEF Die
  <2> QED  BY <2>1, <2>2, <2>3, <2>4, <2>5, <2>6, <2>7, <2>8 DEF Execution
<1>3. CASE ~\E r \in Runs : Start(e, r)
  <2> USE <1>3
  <2>1. run[e] \in Runs /\ rec[run[e]] = None
    BY <1>2 DEF Owners
  <2>2. \A f \in Execs \ {e} : Live(f) => run[f] # run[e]
    BY <1>2 DEF Owners
  <2>3. Owners'
    BY <1>2, <2>1, <2>2 DEF Owners
  <2>4. /\ step'[e] \in {"src", "src written", "commit"} => e \in unlinked' \/ env'[run[e]] = e
        /\ step'[e] = "commit" => src'[run[e]] = "whole"
    <3> USE <1>t, <2>1 DEF Written, GoExec
    <3>1. CASE TrainEnds(e)
      BY <3>1 DEF TrainEnds
    <3>2. CASE OpenEnv(e)
      BY <3>2 DEF OpenEnv
    <3>3. CASE CloseEnv(e)
      BY <3>3 DEF CloseEnv
    <3>4. CASE CaptureFails(e)
      BY <3>4 DEF CaptureFails
    <3>5. CASE OpenSrc(e)
      BY <3>5 DEF OpenSrc
    <3>6. CASE CloseSrc(e)
      BY <3>6 DEF CloseSrc
    <3>7. CASE Commit(e)
      BY <3>7 DEF Commit
    <3>8. CASE Die(e)
      BY <3>8 DEF Die
    <3> QED  BY <3>1, <3>2, <3>3, <3>4, <3>5, <3>6, <3>7, <3>8 DEF Execution
  <2>5. rec'[run[e]] # None =>
          /\ src'[run[e]] = "whole"
          /\ rec'[run[e]] \in unlinked' \/ env'[run[e]] = rec'[run[e]]
    <3> SUFFICES ASSUME Commit(e), rec'[run[e]] # None
                 PROVE  /\ src'[run[e]] = "whole"
                        /\ rec'[run[e]] \in unlinked' \/ env'[run[e]] = rec'[run[e]]
      BY <1>2, <2>1
    <3>1. step[e] = "commit" /\ rec'[run[e]] = e /\ UNCHANGED <<src, env, unlinked>>
      BY <1>t, <2>1 DEF Commit
    <3> QED  BY <3>1 DEF Written
  <2>6. Written'
    <3>1. ASSUME NEW f \in Execs \ {e}, Live(f)
          PROVE  run[f] \in Runs \ {run[e]}
      BY <3>1, <2>2 DEF Owners
    <3>2. ASSUME NEW f \in Execs, step'[f] \in {"src", "src written", "commit"}
          PROVE  /\ f \in unlinked' \/ env'[run'[f]] = f
                 /\ step'[f] = "commit" => src'[run'[f]] = "whole"
      <4>1. CASE f = e
        BY <1>2, <2>4, <3>2, <4>1
      <4>2. CASE f # e
        <5>1. step'[f] = step[f] /\ run'[f] = run[f] /\ Live(f)
          BY <1>2, <3>2, <4>2
        <5>2. env'[run[f]] = env[run[f]] /\ src'[run[f]] = src[run[f]] /\ unlinked \subseteq unlinked'
          BY <1>2, <3>1, <4>2, <5>1
        <5> QED  BY <3>2, <5>1, <5>2 DEF Written
      <4> QED  BY <4>1, <4>2
    <3>4. \A r \in Runs : rec'[r] # None =>
             src'[r] = "whole" /\ (rec'[r] \in unlinked' \/ env'[r] = rec'[r])
      BY <1>2, <2>5 DEF Written
    <3> QED  BY <3>2, <3>4 DEF Written
  <2> QED  BY <1>2, <2>1, <2>3, <2>6
<1> QED  BY <1>1, <1>3

--------------------------------------------------------------------------------
(***************************************************************************)
(* The laptop.                                                             *)
(***************************************************************************)

\* An item of the chunk is dealt with: the others stay, and the kind with them.
LEMMA HandledFacts ==
  ASSUME TypeInv, LaptopInv, NEW p \in Pullers, NEW r \in Batch(p), Handled(p, r)
  PROVE  /\ staged' \in [Pullers -> [Runs -> SUBSET (Dirs \cup Marks)]]
         /\ todo' \in [Pullers -> [Kinds -> SUBSET Runs]]
         /\ pc' \in [Pullers -> Resting \cup {"fetch", "check", "rename"}]
         /\ \A q \in Pullers \ {p} : staged'[q] = staged[q] /\ todo'[q] = todo[q] /\ pc'[q] = pc[q]
         /\ \A x \in Runs : staged'[p][x] = IF x = r THEN {} ELSE staged[p][x]
         /\ Batch(p)' = Batch(p) \ {r}
         /\ \A k \in Kinds : todo'[p][k] = IF k = Kind(p) THEN todo[p][k] \ {r} ELSE todo[p][k]
         /\ Batch(p)' # {} => Kind(p)' = Kind(p) /\ pc'[p] = "check"
         /\ Batch(p)' = {} => pc'[p] \in {"fetch", "returned"}
         /\ pc'[p] = "returned" => \A k \in Kinds : todo'[p][k] = {}
<1>t. todo[p] \in [Kinds -> SUBSET Runs]
  BY DEF TypeInv
<1> USE DEF TypeInv, Handled
<1>0. r \in Runs /\ Kind(p) \in Kinds /\ Batch(p) \subseteq todo[p][Kind(p)]
  BY DEF Batch, Kind, Kinds, LaptopInv, StagedInv
<1>1. staged' \in [Pullers -> [Runs -> SUBSET (Dirs \cup Marks)]]
  <2>1. staged' = [staged EXCEPT ![p] = [staged[p] EXCEPT ![r] = {}]]
    OBVIOUS
  <2>2. staged[p] \in [Runs -> SUBSET (Dirs \cup Marks)]
    OBVIOUS
  <2>3. [staged[p] EXCEPT ![r] = {}] \in [Runs -> SUBSET (Dirs \cup Marks)]
    BY <2>2
  <2> QED  BY <2>1, <2>3
<1>2. todo' \in [Pullers -> [Kinds -> SUBSET Runs]]
  <2>1. todo' = [todo EXCEPT ![p] = [todo[p] EXCEPT ![Kind(p)] = todo[p][Kind(p)] \ {r}]]
    BY <1>0
  <2>2. todo[p][Kind(p)] \ {r} \in SUBSET Runs
    BY <1>0, <1>t
  <2> DEFINE rest == [todo[p] EXCEPT ![Kind(p)] = todo[p][Kind(p)] \ {r}]
  <2>3. rest \in [Kinds -> SUBSET Runs]
    BY <1>t, <2>2
  <2> HIDE DEF rest
  <2>4. todo' = [todo EXCEPT ![p] = rest]
    BY <2>1 DEF rest
  <2> QED  BY <2>3, <2>4
<1>3. pc' \in [Pullers -> Resting \cup {"fetch", "check", "rename"}]
  BY DEF Resting
<1>4. \A q \in Pullers \ {p} : staged'[q] = staged[q] /\ todo'[q] = todo[q] /\ pc'[q] = pc[q]
  OBVIOUS
<1>5. \A x \in Runs : staged'[p][x] = IF x = r THEN {} ELSE staged[p][x]
  BY <1>0
<1>6. Batch(p)' = Batch(p) \ {r}
  BY <1>5 DEF Batch
<1>7. \A k \in Kinds : todo'[p][k] = IF k = Kind(p) THEN todo[p][k] \ {r} ELSE todo[p][k]
  BY <1>0
<1>8. pc'[p] = IF Batch(p) # {r} THEN "check"
               ELSE IF \A k \in Kinds : todo'[p][k] = {} THEN "returned" ELSE "fetch"
  OBVIOUS
<1>9. Batch(p)' # {} => Kind(p)' = Kind(p)
  <2> SUFFICES ASSUME Batch(p)' # {} PROVE Kind(p)' = Kind(p)
    OBVIOUS
  <2>1. todo'[p][Kind(p)] # {}
    BY <1>0, <1>6, <1>7
  <2> QED  BY <2>1, <1>7 DEF Kind, Kinds
<1>10. Batch(p)' # {} => pc'[p] = "check"
  BY <1>6, <1>8
<1>11. Batch(p)' = {} => pc'[p] \in {"fetch", "returned"}
  BY <1>6, <1>8
<1>12. pc'[p] = "returned" => \A k \in Kinds : todo'[p][k] = {}
  BY <1>8
<1> HIDE DEF TypeInv, Handled
<1> QED  BY <1>1, <1>2, <1>3, <1>4, <1>5, <1>6, <1>7, <1>9, <1>10, <1>11, <1>12

\* What the other pullers hold does not change with p's step.
Others(p) ==
    \A q \in Pullers \ {p} :
        /\ staged'[q] = staged[q] /\ todo'[q] = todo[q] /\ pc'[q] = pc[q]
        /\ cur'[q] = cur[q] /\ listed'[q] = listed[q]

\* The mirror only gains items.
Grows == \A k \in Kinds : \A r \in Runs : mirror[k][r] # {} => mirror'[k][r] # {}

\* The invariants of the others follow from these.
LEMMA OthersKeep ==
  ASSUME TypeInv, LaptopInv, NEW p \in Pullers, Others(p), Grows,
         Batch(p)' \subseteq todo'[p][Kind(p)'],
         pc'[p] \notin {"check", "rename"} => Batch(p)' = {},
         pc'[p] = "rename" => cur'[p] \in Batch(p)',
         \A r \in Runs : staged'[p][r] \subseteq Items(Kind(p)'),
         \A k \in Kinds : pc'[p] # "idle" => listed'[p][k] \subseteq Here(k)' \cup todo'[p][k],
         \A k \in Kinds : pc'[p] = "returned" => todo'[p][k] = {}
  PROVE  LaptopInv'
<1>1. \A q \in Pullers \ {p} : Batch(q)' = Batch(q) /\ Kind(q)' = Kind(q)
  BY DEF Others, Batch, Kind
<1>2. \A k \in Kinds : Here(k) \subseteq Here(k)'
  BY DEF Grows, Here
<1>3. StagedInv'
  <2> SUFFICES ASSUME NEW q \in Pullers
               PROVE  /\ Batch(q)' \subseteq todo'[q][Kind(q)']
                      /\ pc'[q] \notin {"check", "rename"} => Batch(q)' = {}
                      /\ pc'[q] = "rename" => cur'[q] \in Batch(q)'
                      /\ \A r \in Runs : staged'[q][r] \subseteq Items(Kind(q)')
    BY DEF StagedInv, Items, Dirs, Marks
  <2>1. CASE q = p
    BY <2>1
  <2>2. CASE q # p
    BY <1>1, <2>2 DEF LaptopInv, StagedInv, Others
  <2> QED  BY <2>1, <2>2
<1>4. ListInv'
  <2> SUFFICES ASSUME NEW q \in Pullers, NEW k \in Kinds
               PROVE  /\ pc'[q] # "idle" => listed'[q][k] \subseteq Here(k)' \cup todo'[q][k]
                      /\ pc'[q] = "returned" => todo'[q][k] = {}
    BY DEF ListInv
  <2>1. CASE q = p
    BY <2>1
  <2>2. CASE q # p
    BY <1>2, <2>2 DEF LaptopInv, ListInv, Others
  <2> QED  BY <2>1, <2>2
<1> QED  BY <1>3, <1>4 DEF LaptopInv

--------------------------------------------------------------------------------
(***************************************************************************)
(* The steps of a pull.                                                    *)
(***************************************************************************)

\* A listing that starts over, and a pull that ends, hold no chunk.
LEMMA PullBreaks ==
  ASSUME TypeInv, LaptopInv, NEW p \in Pullers, List(p) \/ PullEnds(p)
  PROVE  /\ TypeInv' /\ LaptopInv' /\ UNCHANGED <<cluster, mirror>>
         /\ Others(p) /\ Batch(p)' = {}
<1>1. /\ staged' = [staged EXCEPT ![p] = Empty] /\ UNCHANGED <<cluster, mirror>>
      /\ Empty \in [Runs -> SUBSET (Dirs \cup Marks)]
  BY DEF List, PullEnds, Empty
<1>2. \A k \in Kinds : There(k) \subseteq Runs /\ Here(k) \subseteq Runs
  BY DEF There, Here
<1>3. TypeInv'
  <2>1. staged' \in [Pullers -> [Runs -> SUBSET (Dirs \cup Marks)]]
    BY <1>1 DEF TypeInv
  <2>2. pc' \in [Pullers -> Resting \cup {"fetch", "check", "rename"}]
    BY DEF TypeInv, List, PullEnds, Resting
  <2>3. todo' \in [Pullers -> [Kinds -> SUBSET Runs]]
    <3>1. [k \in Kinds |-> There(k) \ Here(k)] \in [Kinds -> SUBSET Runs]
          /\ [k \in Kinds |-> {}] \in [Kinds -> SUBSET Runs]
      BY <1>2
    <3> QED  BY <3>1 DEF TypeInv, List, PullEnds
  <2>4. cur' \in [Pullers -> Runs \cup {None}]
    BY DEF TypeInv, List, PullEnds
  <2>5. listed' \in [Pullers -> [Kinds -> SUBSET Runs]]
    <3>1. [k \in Kinds |-> IF k = "dir" THEN There(k) ELSE {r \in Runs : mark[r] = "permanent"}]
          \in [Kinds -> SUBSET Runs]
      BY <1>2
    <3> QED  BY <3>1 DEF TypeInv, List, PullEnds
  <2> QED  BY <1>1, <2>1, <2>2, <2>3, <2>4, <2>5 DEF TypeInv, cluster
<1>4. Others(p)
  BY DEF Others, List, PullEnds, TypeInv
<1>5. Batch(p)' = {} /\ \A r \in Runs : staged'[p][r] = {}
  BY <1>1 DEF Batch, Empty, TypeInv
<1>6. Grows
  BY <1>1 DEF Grows
<1>7. /\ \A k \in Kinds : pc'[p] # "idle" => listed'[p][k] \subseteq Here(k)' \cup todo'[p][k]
      /\ \A k \in Kinds : pc'[p] = "returned" => todo'[p][k] = {}
      /\ pc'[p] \notin {"check", "rename"}
  <2>1. CASE PullEnds(p)
    BY <2>1 DEF PullEnds, TypeInv
  <2>2. CASE List(p)
    <3>1. \A k \in Kinds : Here(k)' = Here(k)
      BY <1>1 DEF Here
    <3>2. \A k \in Kinds : todo'[p][k] = There(k) \ Here(k)
      BY <2>2 DEF List, TypeInv
    <3>3. \A k \in Kinds : listed'[p][k] \subseteq There(k)
      BY <2>2 DEF List, TypeInv, There, Remote, Kinds
    <3>4. pc'[p] \in {"returned", "fetch"}
          /\ (pc'[p] = "returned" => \A k \in Kinds : There(k) \ Here(k) = {})
      BY <2>2 DEF List, TypeInv
    <3> QED  BY <3>1, <3>2, <3>3, <3>4
  <2> QED  BY <2>1, <2>2
<1>8. LaptopInv'
  BY <1>4, <1>5, <1>6, <1>7, OthersKeep
<1> QED  BY <1>1, <1>3, <1>4, <1>5, <1>8

\* What a transfer can find on the cluster.
LEMMA RemoteType ==
  ASSUME TypeInv
  PROVE  \A k \in Kinds, r \in Runs : Remote(k, r) \subseteq Items(k)
<1> SUFFICES ASSUME NEW k \in Kinds, NEW r \in Runs
             PROVE  Remote(k, r) \subseteq Items(k)
  OBVIOUS
<1>1. CASE k = "mark"
  BY <1>1 DEF TypeInv, Remote, Items, Marks
<1>2. CASE k = "dir"
  <2>1. \A x \in {rec[r]} \ {None} : [env |-> env[r], src |-> src[r], rec |-> x] \in Dirs
    BY DEF TypeInv, Dirs
  <2> QED  BY <1>2, <2>1 DEF Remote, Items
<1> QED  BY <1>1, <1>2 DEF Kinds

\* A chunk arrives.
LEMMA PullFetches ==
  ASSUME TypeInv, LaptopInv, NEW p \in Pullers, Fetch(p)
  PROVE  /\ TypeInv' /\ LaptopInv' /\ UNCHANGED <<cluster, mirror>>
         /\ Others(p) /\ Kind(p)' = Kind(p)
         /\ \A r \in Batch(p)' : staged'[p][r] = Remote(Kind(p), r)
<1>1. PICK B \in SUBSET todo[p][Kind(p)] :
         staged' = [staged EXCEPT ![p] = [r \in Runs |-> IF r \in B THEN Remote(Kind(p), r) ELSE {}]]
  BY DEF Fetch
<1>2. /\ pc[p] = "fetch" /\ pc' = [pc EXCEPT ![p] = "check"]
      /\ UNCHANGED <<mirror, todo, cur, listed, cluster>>
  BY DEF Fetch
<1>3. Kind(p) \in Kinds /\ Kind(p)' = Kind(p)
  BY <1>2 DEF Kind, Kinds
<1>4. [r \in Runs |-> IF r \in B THEN Remote(Kind(p), r) ELSE {}] \in [Runs -> SUBSET (Dirs \cup Marks)]
  BY <1>3, RemoteType DEF Items
<1>5. TypeInv'
  <2>1. staged' \in [Pullers -> [Runs -> SUBSET (Dirs \cup Marks)]]
    BY <1>1, <1>4 DEF TypeInv
  <2>2. pc' \in [Pullers -> Resting \cup {"fetch", "check", "rename"}]
    BY <1>2 DEF TypeInv
  <2> QED  BY <1>2, <2>1, <2>2 DEF TypeInv, cluster
<1>6. \A r \in Runs : staged'[p][r] = IF r \in B THEN Remote(Kind(p), r) ELSE {}
  BY <1>1 DEF TypeInv
<1>7. Batch(p)' \subseteq B /\ \A r \in Batch(p)' : staged'[p][r] = Remote(Kind(p), r)
  BY <1>6 DEF Batch
<1>8. \A r \in Runs : staged'[p][r] \subseteq Items(Kind(p)')
  BY <1>3, <1>6, RemoteType
<1>9. Others(p) /\ Grows
  BY <1>1, <1>2 DEF Others, Grows, TypeInv
<1>10. Batch(p)' \subseteq todo'[p][Kind(p)']
  BY <1>2, <1>3, <1>7
<1>11. pc'[p] = "check"
  BY <1>2 DEF TypeInv
<1>12. \A k \in Kinds : listed'[p][k] \subseteq Here(k)' \cup todo'[p][k]
  BY <1>2 DEF LaptopInv, ListInv, Here
<1>13. LaptopInv'
  BY <1>8, <1>9, <1>10, <1>11, <1>12, OthersKeep
<1> QED  BY <1>2, <1>3, <1>5, <1>7, <1>9, <1>13

\* An item of the chunk that the mirror has, or that is renamed into it.
LEMMA PullChecks ==
  ASSUME TypeInv, LaptopInv, NEW p \in Pullers, NEW r \in Runs, Check(p, r)
  PROVE  /\ TypeInv' /\ LaptopInv' /\ UNCHANGED <<cluster, mirror>> /\ Others(p)
         /\ Batch(p)' \subseteq Batch(p)
         /\ Batch(p)' # {} => Kind(p)' = Kind(p)
         /\ \A x \in Batch(p)' : staged'[p][x] = staged[p][x]
<1>0. /\ pc[p] = "check" /\ r \in Batch(p) /\ UNCHANGED <<mirror, listed, cluster>>
      /\ Kind(p) \in Kinds /\ Grows /\ \A k \in Kinds : Here(k)' = Here(k)
  BY DEF Check, Kind, Kinds, Grows, Here
<1>1. CASE mirror[Kind(p)][r] # {} /\ Handled(p, r) /\ UNCHANGED cur
  <2>1. r \in Here(Kind(p))
    BY <1>0, <1>1 DEF Here
  <2>2. Others(p)
    BY <1>0, <1>1, HandledFacts DEF Others
  <2>3. TypeInv'
    BY <1>0, <1>1, HandledFacts DEF TypeInv, cluster
  <2>4. /\ \A x \in Batch(p)' : staged'[p][x] = staged[p][x]
        /\ \A x \in Runs : staged'[p][x] \subseteq staged[p][x]
        /\ Batch(p)' = Batch(p) \ {r} /\ (Batch(p)' # {} => Kind(p)' = Kind(p))
    BY <1>0, <1>1, HandledFacts DEF Batch
  <2>5. Batch(p)' \subseteq todo'[p][Kind(p)']
    <3> SUFFICES ASSUME Batch(p)' # {} PROVE Batch(p)' \subseteq todo'[p][Kind(p)]
      BY <2>4
    <3>1. Batch(p) \subseteq todo[p][Kind(p)]
      BY DEF LaptopInv, StagedInv
    <3>2. todo'[p][Kind(p)] = todo[p][Kind(p)] \ {r}
      BY <1>0, <1>1, HandledFacts
    <3> QED  BY <2>4, <3>1, <3>2
  <2>6. \A x \in Runs : staged'[p][x] \subseteq Items(Kind(p)')
    BY <2>4 DEF Batch, LaptopInv, StagedInv
  <2>7. ASSUME NEW k \in Kinds PROVE listed'[p][k] \subseteq Here(k)' \cup todo'[p][k]
    <3>1. listed'[p][k] = listed[p][k] /\ listed[p][k] \subseteq Here(k) \cup todo[p][k]
      BY <1>0 DEF LaptopInv, ListInv
    <3>2. \A i \in Kinds : todo'[p][i] = IF i = Kind(p) THEN todo[p][i] \ {r} ELSE todo[p][i]
      BY <1>0, <1>1, HandledFacts
    <3>3. todo[p][k] \subseteq todo'[p][k] \cup {r} /\ (k # Kind(p) => todo'[p][k] = todo[p][k])
      BY <3>2
    <3> QED  BY <1>0, <2>1, <3>1, <3>3
  <2>8. pc'[p] \in {"check", "fetch", "returned"}
        /\ (pc'[p] # "check" => Batch(p)' = {})
        /\ \A k \in Kinds : pc'[p] = "returned" => todo'[p][k] = {}
    BY <1>0, <1>1, HandledFacts
  <2>9. LaptopInv'
    BY <1>0, <2>2, <2>5, <2>6, <2>7, <2>8, OthersKeep
  <2> QED  BY <1>0, <2>2, <2>3, <2>4, <2>9
<1>2. CASE /\ pc' = [pc EXCEPT ![p] = "rename"] /\ cur' = [cur EXCEPT ![p] = r]
           /\ UNCHANGED <<staged, todo>>
  <2>1. Others(p) /\ pc'[p] = "rename" /\ cur'[p] = r
    BY <1>0, <1>2 DEF Others, TypeInv
  <2>2. TypeInv'
    BY <1>0, <1>2 DEF TypeInv, cluster
  <2>3. Batch(p)' = Batch(p) /\ Kind(p)' = Kind(p)
    BY <1>2 DEF Batch, Kind
  <2>4. /\ Batch(p)' \subseteq todo'[p][Kind(p)']
        /\ \A x \in Runs : staged'[p][x] \subseteq Items(Kind(p)')
    BY <1>2, <2>3 DEF LaptopInv, StagedInv
  <2>5. \A k \in Kinds : listed'[p][k] \subseteq Here(k)' \cup todo'[p][k]
    BY <1>0, <1>2 DEF LaptopInv, ListInv
  <2>6. LaptopInv'
    BY <1>0, <2>1, <2>3, <2>4, <2>5, OthersKeep
  <2> QED  BY <1>0, <1>2, <2>1, <2>2, <2>3, <2>6
<1> QED  BY <1>1, <1>2 DEF Check

\* A rename puts the copy of the chunk in the mirror, or finds another there.
LEMMA PullRenames ==
  ASSUME TypeInv, LaptopInv, NEW p \in Pullers, Rename(p)
  PROVE  /\ TypeInv' /\ LaptopInv' /\ UNCHANGED cluster /\ Others(p)
         /\ Batch(p)' \subseteq Batch(p)
         /\ Batch(p)' # {} => Kind(p)' = Kind(p)
         /\ \A x \in Batch(p)' : staged'[p][x] = staged[p][x]
         /\ \A x \in Runs : \/ mirror'["dir"][x] = mirror["dir"][x]
                           \/ /\ Kind(p) = "dir" /\ x \in Batch(p)
                              /\ mirror'["dir"][x] = staged[p][x]
<1>k. PICK r \in Batch(p), k \in Kinds : r = cur[p] /\ k = Kind(p)
  BY DEF Rename, Kind, Kinds, LaptopInv, StagedInv
<1>0. /\ pc[p] = "rename" /\ r \in Batch(p) /\ r \in Runs /\ k \in Kinds
      /\ UNCHANGED <<listed, cluster>>
      /\ Handled(p, r) /\ cur' = [cur EXCEPT ![p] = None]
      /\ staged[p][r] # {} /\ staged[p][r] \subseteq Items(k)
  BY <1>k DEF Rename, LaptopInv, StagedInv, Batch
<1>1. \/ mirror' = mirror /\ mirror[k][r] # {}
      \/ mirror' = [mirror EXCEPT ![k] = [mirror[k] EXCEPT ![r] = staged[p][r]]]
  BY <1>k DEF Rename
<1>2. /\ mirror' \in [Kinds -> [Runs -> SUBSET (Dirs \cup Marks)]]
      /\ \A x \in Runs : mirror'["dir"][x] \subseteq Dirs /\ mirror'["mark"][x] \subseteq Marks
      /\ mirror'[k][r] # {}
      /\ \A j \in Kinds : \A x \in Runs : j # k \/ x # r => mirror'[j][x] = mirror[j][x]
      /\ mirror'[k][r] \in {mirror[k][r], staged[p][r]}
  <2>1. CASE mirror' = mirror /\ mirror[k][r] # {}
    BY <1>0, <2>1 DEF TypeInv
  <2>2. CASE mirror' = [mirror EXCEPT ![k] = [mirror[k] EXCEPT ![r] = staged[p][r]]]
    <3> DEFINE new == [mirror[k] EXCEPT ![r] = staged[p][r]]
    <3>0. staged[p] \in [Runs -> SUBSET (Dirs \cup Marks)] /\ mirror \in [Kinds -> [Runs -> SUBSET (Dirs \cup Marks)]]
      BY DEF TypeInv
    <3>1. mirror[k] \in [Runs -> SUBSET (Dirs \cup Marks)] /\ staged[p][r] \in SUBSET (Dirs \cup Marks)
      BY <1>0, <3>0
    <3>2. /\ new \in [Runs -> SUBSET (Dirs \cup Marks)]
          /\ new[r] = staged[p][r] /\ \A x \in Runs \ {r} : new[x] = mirror[k][x]
      BY <1>0, <3>1
    <3> HIDE DEF new
    <3>3. mirror' = [mirror EXCEPT ![k] = new]
      BY <2>2 DEF new
    <3>4. mirror' \in [Kinds -> [Runs -> SUBSET (Dirs \cup Marks)]]
      BY <3>2, <3>3 DEF TypeInv
    <3>5. mirror'[k] = new /\ \A j \in Kinds \ {k} : mirror'[j] = mirror[j]
      BY <1>0, <3>3 DEF TypeInv
    <3>6. \A x \in Runs : mirror'["dir"][x] \subseteq Dirs /\ mirror'["mark"][x] \subseteq Marks
      BY <1>0, <3>2, <3>5 DEF TypeInv, Kinds, Items
    <3>7. \A j \in Kinds : \A x \in Runs : j # k \/ x # r => mirror'[j][x] = mirror[j][x]
      BY <3>2, <3>5
    <3> QED  BY <1>0, <3>2, <3>4, <3>5, <3>6, <3>7
  <2> QED  BY <1>1, <2>1, <2>2
<1>3. Grows /\ r \in Here(k)'
  <2>1. r \in Here(k)'
    BY <1>0, <1>2 DEF Here
  <2>2. ASSUME NEW j \in Kinds, NEW x \in Runs, mirror[j][x] # {}
        PROVE  mirror'[j][x] # {}
    <3>1. CASE j = k /\ x = r
      BY <1>2, <3>1
    <3>2. CASE j # k \/ x # r
      BY <1>2, <2>2, <3>2
    <3> QED  BY <3>1, <3>2
  <2> QED  BY <2>1, <2>2 DEF Grows
<1>4. \A j \in Kinds : Here(j) \subseteq Here(j)'
  BY <1>3 DEF Grows, Here
<1>5. Others(p)
  <2>1. \A q \in Pullers \ {p} : cur'[q] = cur[q]
    BY <1>0 DEF TypeInv
  <2>2. \A q \in Pullers \ {p} : staged'[q] = staged[q] /\ todo'[q] = todo[q] /\ pc'[q] = pc[q]
    BY <1>0, HandledFacts
  <2> QED  BY <1>0, <2>1, <2>2 DEF Others
<1>6. TypeInv'
  <2>1. cur' \in [Pullers -> Runs \cup {None}]
    BY <1>0 DEF TypeInv
  <2> QED  BY <1>0, <1>2, <2>1, HandledFacts DEF TypeInv, cluster
<1>7. /\ \A x \in Batch(p)' : staged'[p][x] = staged[p][x]
      /\ \A x \in Runs : staged'[p][x] \subseteq staged[p][x]
      /\ Batch(p)' = Batch(p) \ {r} /\ (Batch(p)' # {} => Kind(p)' = Kind(p))
  BY <1>0, HandledFacts DEF Batch
<1>8. Batch(p)' \subseteq todo'[p][Kind(p)']
  <2> SUFFICES ASSUME Batch(p)' # {} PROVE Batch(p)' \subseteq todo'[p][Kind(p)]
    BY <1>7
  <2>1. Batch(p) \subseteq todo[p][Kind(p)]
    BY DEF LaptopInv, StagedInv
  <2>2. todo'[p][Kind(p)] = todo[p][Kind(p)] \ {r}
    BY <1>0, <1>k, HandledFacts
  <2> QED  BY <1>7, <2>1, <2>2
<1>9. \A x \in Runs : staged'[p][x] \subseteq Items(Kind(p)')
  BY <1>7 DEF Batch, LaptopInv, StagedInv
<1>10. \A j \in Kinds : listed'[p][j] \subseteq Here(j)' \cup todo'[p][j]
  <2> SUFFICES ASSUME NEW j \in Kinds PROVE listed'[p][j] \subseteq Here(j)' \cup todo'[p][j]
    OBVIOUS
  <2>1. listed'[p][j] = listed[p][j] /\ listed[p][j] \subseteq Here(j) \cup todo[p][j]
    BY <1>0 DEF LaptopInv, ListInv
  <2>2. \A i \in Kinds : todo'[p][i] = IF i = Kind(p) THEN todo[p][i] \ {r} ELSE todo[p][i]
    BY <1>0, HandledFacts
  <2>3. todo[p][j] \subseteq todo'[p][j] \cup {r} /\ (j # k => todo'[p][j] = todo[p][j])
    BY <1>k, <2>2
  <2> QED  BY <1>3, <1>4, <2>1, <2>3
<1>11. pc'[p] \in {"check", "fetch", "returned"}
       /\ (pc'[p] # "check" => Batch(p)' = {})
       /\ \A j \in Kinds : pc'[p] = "returned" => todo'[p][j] = {}
  BY <1>0, HandledFacts
<1>12. LaptopInv'
  BY <1>3, <1>5, <1>8, <1>9, <1>10, <1>11, OthersKeep
<1>13. \A x \in Runs : \/ mirror'["dir"][x] = mirror["dir"][x]
                      \/ /\ Kind(p) = "dir" /\ x \in Batch(p)
                         /\ mirror'["dir"][x] = staged[p][x]
  BY <1>0, <1>2, <1>k DEF Kinds
<1> QED  BY <1>0, <1>5, <1>6, <1>7, <1>12, <1>13

--------------------------------------------------------------------------------
(***************************************************************************)
(* The invariants, step by step.                                           *)
(***************************************************************************)

\* Types, and what the pullers know of their lists, under any cluster.
LEMMA LaptopStep == TypeInv /\ LaptopInv /\ [Next]_vars => TypeInv' /\ LaptopInv'
<1> SUFFICES ASSUME TypeInv, LaptopInv, [Next]_vars PROVE TypeInv' /\ LaptopInv'
  OBVIOUS
<1>1. ASSUME UNCHANGED laptop PROVE LaptopInv'
  BY <1>1 DEF laptop, LaptopInv, StagedInv, ListInv, Batch, Kind, Here, Items, Dirs, Marks
<1>2. ASSUME NEW e \in Execs, Execution(e) PROVE TypeInv' /\ LaptopInv'
  BY <1>1, <1>2, ExecutionTypes
<1>3. ASSUME NEW p \in Pullers, Pull(p) PROVE TypeInv' /\ LaptopInv'
  BY <1>3, PullBreaks, PullFetches, PullChecks, PullRenames DEF Pull
<1>4. CASE UNCHANGED vars
  <2>1. TypeInv'
    BY <1>4 DEF vars, cluster, laptop, TypeInv
  <2> QED  BY <1>1, <1>4, <2>1 DEF vars
<1> QED  BY <1>2, <1>3, <1>4 DEF Next

\* A copy stays that of the cluster, whoever writes there and whoever renames here.
LEMMA CopyStep ==
  ASSUME Exclusive, TypeInv, LaptopInv, ClusterInv, CopyInv, [Next]_vars
  PROVE  /\ ClusterInv' /\ CopyInv'
         /\ \A r \in Runs : rec[r] # None => rec'[r] = rec[r]
<1>1. ASSUME UNCHANGED cluster
      PROVE  /\ ClusterInv' /\ \A r \in Runs : Remote("dir", r)' = Remote("dir", r) /\ rec'[r] = rec[r]
  <2>1. step' = step /\ run' = run /\ env' = env /\ src' = src /\ rec' = rec /\ unlinked' = unlinked
    BY <1>1 DEF cluster
  <2>2. ClusterInv'
    BY <2>1 DEF ClusterInv, Owners, Written, Live
  <2>3. \A r \in Runs : Remote("dir", r)' = Remote("dir", r)
    BY <2>1 DEF Remote
  <2> QED  BY <2>1, <2>2, <2>3
<1>2. \A r \in Runs : Remote("dir", r) # {} => rec[r] # None
  BY DEF Remote
<1>3. ASSUME NEW e \in Execs, Execution(e)
      PROVE  ClusterInv' /\ CopyInv' /\ \A r \in Runs : rec[r] # None => rec'[r] = rec[r]
  <2>1. \A r \in Runs : Remote("dir", r) # {} => Remote("dir", r)' = Remote("dir", r)
    BY <1>2, <1>3, ExecutionOwns DEF Remote
  <2>2. UNCHANGED laptop
    BY <1>3, ExecutionTypes
  <2>3. \A p \in Pullers : Kind(p)' = Kind(p) /\ Batch(p)' = Batch(p)
    BY <2>2 DEF laptop, Kind, Batch
  <2>4. CopyInv'
    BY <2>1, <2>2, <2>3 DEF laptop, CopyInv, Batch
  <2> QED  BY <1>3, <2>4, ExecutionOwns
<1>4. ASSUME NEW p \in Pullers, Pull(p)
      PROVE  ClusterInv' /\ CopyInv' /\ \A r \in Runs : rec[r] # None => rec'[r] = rec[r]
  <2>1. /\ UNCHANGED cluster /\ Others(p)
        /\ \A x \in Runs : \/ mirror'["dir"][x] = mirror["dir"][x]
                          \/ /\ Kind(p) = "dir" /\ x \in Batch(p)
                             /\ mirror'["dir"][x] = staged[p][x]
        /\ Kind(p)' = "dir" => \A x \in Batch(p)' : staged'[p][x] = Remote("dir", x)
    <3>1. CASE List(p) \/ PullEnds(p)
      BY <3>1, PullBreaks
    <3>2. CASE Fetch(p)
      BY <3>2, PullFetches
    <3>3. CASE \E r \in Runs : Check(p, r)
      BY <3>3, PullChecks DEF CopyInv
    <3>4. CASE Rename(p)
      BY <3>4, PullRenames DEF CopyInv
    <3> QED  BY <1>4, <3>1, <3>2, <3>3, <3>4 DEF Pull
  <2>2. /\ ClusterInv' /\ \A r \in Runs : Remote("dir", r)' = Remote("dir", r) /\ rec'[r] = rec[r]
    BY <1>1, <2>1
  <2>3. \A q \in Pullers \ {p} : Kind(q)' = Kind(q) /\ Batch(q)' = Batch(q) /\ staged'[q] = staged[q]
    BY <2>1 DEF Others, Kind, Batch
  <2>4. \A r \in Runs : mirror'["dir"][r] # {} => mirror'["dir"][r] = Remote("dir", r)'
    BY <2>1, <2>2 DEF CopyInv, Batch
  <2>5. ASSUME NEW q \in Pullers, Kind(q)' = "dir", NEW r \in Batch(q)'
        PROVE  staged'[q][r] = Remote("dir", r)'
    <3>1. r \in Runs
      BY DEF Batch
    <3> QED  BY <2>1, <2>2, <2>3, <2>5, <3>1 DEF CopyInv
  <2> QED  BY <2>2, <2>4, <2>5 DEF CopyInv
<1>5. CASE UNCHANGED vars
  <2>1. \A p \in Pullers : Kind(p)' = Kind(p) /\ Batch(p)' = Batch(p)
    BY <1>5 DEF vars, laptop, Kind, Batch
  <2> QED  BY <1>1, <1>5, <2>1 DEF vars, laptop, CopyInv, Batch
<1> QED  BY <1>3, <1>4, <1>5 DEF Next

--------------------------------------------------------------------------------
(***************************************************************************)
(* The theorems.                                                           *)
(***************************************************************************)

\* Type correctness of the cluster's directories, the mirror and the pullers.
THEOREM TypeCorrect == Spec => []TypeOK
<1>1. Init => TypeInv /\ LaptopInv
  BY InitInv
<1>2. TypeInv => TypeOK
  <2> SUFFICES ASSUME TypeInv PROVE TypeOK
    OBVIOUS
  <2>1. mirror["dir"] \in [Runs -> SUBSET Dirs] /\ mirror["mark"] \in [Runs -> SUBSET Marks]
    BY DEF TypeInv, Kinds
  <2> QED  BY <2>1 DEF TypeInv, TypeOK, Marks
<1> QED  BY <1>1, <1>2, LaptopStep, PTL DEF Spec

\* pull_archive: a pull that returns has delivered what was complete when it began,
\* itself or by another puller, whatever the runs were and whoever trained them.
THEOREM PullsDeliver == Spec => []PullDelivers
<1>1. Init => TypeInv /\ LaptopInv
  BY InitInv
<1>2. LaptopInv => PullDelivers
  BY DEF LaptopInv, ListInv, PullDelivers, Resting
<1> QED  BY <1>1, <1>2, LaptopStep, PTL DEF Spec

\* The mirror holds the cluster's committed directories and nothing else, if no run is
\* trained twice at once: no crash between two writes of an execution and no race of two
\* pullers puts another copy there.
THEOREM MirrorIsFaithful ==
  ASSUME Exclusive
  PROVE  Spec => []MirrorFaithful
<1> DEFINE IInv == TypeInv /\ LaptopInv /\ ClusterInv /\ CopyInv
<1>1. Init => IInv
  BY InitInv
<1>2. IInv /\ [Next]_vars => IInv'
  BY LaptopStep, CopyStep
<1>3. IInv => MirrorFaithful
  <2> SUFFICES ASSUME IInv, NEW r \in Runs, mirror["dir"][r] # {}
               PROVE  /\ mirror["dir"][r] = Remote("dir", r)
                      /\ \A x \in mirror["dir"][r] : Verified(x) /\ x.src = "whole"
    BY DEF MirrorFaithful, Here
  <2>1. mirror["dir"][r] = Remote("dir", r)
    BY DEF CopyInv
  <2>2. rec[r] # None /\ \A x \in mirror["dir"][r] : x = [env |-> env[r], src |-> src[r], rec |-> rec[r]]
    BY <2>1 DEF Remote
  <2>3. src[r] = "whole" /\ (rec[r] \in unlinked \/ env[r] = rec[r])
    BY <2>2 DEF ClusterInv, Written
  <2> QED  BY <2>1, <2>2, <2>3 DEF Verified, EnvMatches, Torn
<1> QED  BY <1>1, <1>2, <1>3, PTL DEF Spec

\* A committed record is never written again, if no run is trained twice at once: the
\* re-execution guard of run_one holds against every crash and every restart.
THEOREM RecordsStand ==
  ASSUME Exclusive
  PROVE  Spec => RecordStands
<1> DEFINE IInv == TypeInv /\ LaptopInv /\ ClusterInv /\ CopyInv
<1>1. Init => IInv
  BY InitInv
<1>2. IInv /\ [Next]_vars => IInv'
  BY LaptopStep, CopyStep
<1>3. IInv /\ [Next]_vars => [\A r \in Runs : rec[r] # None => rec'[r] = rec[r]]_vars
  BY CopyStep
<1> QED  BY <1>1, <1>2, <1>3, PTL DEF Spec, RecordStands

--------------------------------------------------------------------------------
(***************************************************************************)
(* The mirror implements PullPromise.                                      *)
(***************************************************************************)

\* An execution commits one whole record of a run that has none, or leaves what the
\* pullers can find as it is.
LEMMA ExecutionCommits ==
  ASSUME TypeInv, ClusterInv, Exclusive, NEW e \in Execs, Execution(e)
  PROVE  \/ \A r \in Runs : Remote("dir", r)' = Remote("dir", r)
         \/ \E r \in Runs, x \in Whole :
               /\ Remote("dir", r) = {} /\ Remote("dir", r)' = {x}
               /\ \A q \in Runs \ {r} : Remote("dir", q)' = Remote("dir", q)
<1>1. CASE rec' = rec
  <2>1. \A r \in Runs : rec[r] # None => env'[r] = env[r] /\ src'[r] = src[r]
    BY ExecutionOwns
  <2> QED  BY <1>1, <2>1 DEF Remote
<1>2. CASE rec' # rec
  <2>1. Commit(e)
    BY <1>2 DEF Execution, Start, TrainEnds, OpenEnv, CloseEnv, CaptureFails, OpenSrc, CloseSrc, Die
  <2>2. PICK r \in Runs : r = run[e] /\ rec[r] = None /\ src[r] = "whole"
    BY <2>1 DEF Commit, ClusterInv, Owners, Written, Live
  <2> DEFINE x == [env |-> env[r], src |-> src[r], rec |-> e]
  <2>3. x \in Whole
    BY <2>2 DEF Whole, Dirs, TypeInv
  <2>4. env' = env /\ src' = src /\ rec' = [rec EXCEPT ![r] = e]
    BY <2>1, <2>2 DEF Commit
  <2>5. rec'[r] = e /\ e # None /\ \A q \in Runs \ {r} : rec'[q] = rec[q]
    BY <2>2, <2>4, ConstantsAssumption DEF TypeInv
  <2>6. Remote("dir", r) = {} /\ Remote("dir", r)' = {x}
    BY <2>2, <2>4, <2>5 DEF Remote
  <2>7. \A q \in Runs \ {r} : Remote("dir", q)' = Remote("dir", q)
    BY <2>4, <2>5 DEF Remote
  <2> HIDE DEF x
  <2> QED  BY <2>3, <2>6, <2>7
<1> QED  BY <1>1, <1>2

\* What a step of a pull says to the processes that share the mirror: it starts over,
\* goes on, returns or fails, and puts in the mirror nothing but what is committed.
LEMMA PullStep ==
  ASSUME TypeInv, LaptopInv, ClusterInv, CopyInv, NEW p \in Pullers, Pull(p)
  PROVE  /\ Others(p)
         /\ \A r \in Runs : Remote("dir", r)' = Remote("dir", r)
         /\ \A r \in Runs : mirror'["dir"][r] \in {mirror["dir"][r], Remote("dir", r)}
         /\ \/ /\ pc[p] \in Resting /\ mirror' = mirror
               /\ listed'[p]["dir"] = {r \in Runs : Remote("dir", r) # {}}
               /\ pc'[p] \in {"fetch", "returned"}
            \/ /\ pc[p] \notin Resting /\ listed' = listed
               /\ pc'[p] = "idle" => mirror' = mirror
<1>0. /\ \A r \in Runs : Remote("dir", r)' = Remote("dir", r)
      /\ Others(p)
  <2>1. UNCHANGED cluster /\ Others(p)
    BY PullBreaks, PullFetches, PullChecks, PullRenames DEF Pull
  <2> QED  BY <2>1 DEF cluster, Remote
<1>1. CASE List(p)
  <2>1. mirror' = mirror /\ pc[p] \in Resting /\ pc'[p] \in {"fetch", "returned"}
    BY <1>1 DEF List, TypeInv
  <2>2. listed'[p]["dir"] = There("dir")
    BY <1>1 DEF List, TypeInv, Kinds
  <2> QED  BY <1>0, <2>1, <2>2 DEF There
<1>2. CASE PullEnds(p)
  BY <1>0, <1>2 DEF PullEnds
<1>3. CASE Fetch(p)
  BY <1>0, <1>3 DEF Fetch, Resting
<1>4. CASE \E r \in Runs : Check(p, r)
  BY <1>0, <1>4 DEF Check, Resting
<1>5. CASE Rename(p)
  <2>1. pc[p] = "rename" /\ listed' = listed /\ pc'[p] # "idle"
    <3>1. PICK r \in Batch(p) : r = cur[p] /\ Handled(p, r)
      BY <1>5 DEF Rename, LaptopInv, StagedInv
    <3> QED  BY <1>5, <3>1 DEF Rename, Handled, TypeInv
  <2>2. \A r \in Runs : mirror'["dir"][r] \in {mirror["dir"][r], Remote("dir", r)}
    BY <1>5, PullRenames DEF CopyInv
  <2> QED  BY <1>0, <2>1, <2>2 DEF Resting
<1> QED  BY <1>1, <1>2, <1>3, <1>4, <1>5 DEF Pull

\* pull_archive keeps PullPromise, if no run is trained twice at once: for the processes
\* that share the mirror, executions, crashes, chunks and races of pullers come down to
\* records that are committed once, copied whole and kept, and to pulls that are told
\* done only when nothing they owed is missing.
THEOREM PullsKeepPromise ==
  ASSUME Exclusive
  PROVE  Spec => PullKeepsPromise
<1> DEFINE IInv == TypeInv /\ LaptopInv /\ ClusterInv /\ CopyInv
           Com == [r \in Runs |-> Remote("dir", r)]
           Mir == mirror["dir"]
           Due == [p \in Pullers |-> listed[p]["dir"]]
           Ver == [p \in Pullers |-> IF pc[p] \in Resting THEN pc[p] ELSE "pulling"]
<1>1. Init => Promise!Init
  <2> SUFFICES ASSUME Init PROVE Promise!Init
    OBVIOUS
  <2>1. Com = [r \in Runs |-> {}] /\ Mir = [r \in Runs |-> {}]
    BY DEF Init, Remote, Empty, Kinds
  <2>2. Due = [p \in Pullers |-> {}] /\ Ver = [p \in Pullers |-> "idle"]
    BY DEF Init, Kinds, Resting
  <2> QED  BY <2>1, <2>2 DEF Promise!Init
<1>2. IInv /\ [Next]_vars => IInv'
  BY LaptopStep, CopyStep
<1>3. ASSUME IInv, IInv', [Next]_vars
      PROVE  [Promise!Next]_(Promise!vars)
  <2>1. ASSUME NEW e \in Execs, Execution(e)
        PROVE  [Promise!Next]_(Promise!vars)
    <3>1. Mir' = Mir /\ Due' = Due /\ Ver' = Ver
      BY <1>3, <2>1, ExecutionTypes DEF laptop
    <3>2. CASE \A r \in Runs : Remote("dir", r)' = Remote("dir", r)
      <4>1. Com' = Com
        BY <3>2
      <4> QED  BY <3>1, <4>1 DEF Promise!vars
    <3>3. CASE \E r \in Runs, x \in Whole :
                 /\ Remote("dir", r) = {} /\ Remote("dir", r)' = {x}
                 /\ \A q \in Runs \ {r} : Remote("dir", q)' = Remote("dir", q)
      <4>1. PICK r \in Runs, x \in Whole :
                 /\ Remote("dir", r) = {} /\ Remote("dir", r)' = {x}
                 /\ \A q \in Runs \ {r} : Remote("dir", q)' = Remote("dir", q)
        BY <3>3
      <4>2. Com' = [Com EXCEPT ![r] = {x}] /\ Com[r] = {}
        BY <4>1
      <4>3. Promise!Commit(r, x)
        BY <3>1, <4>2 DEF Promise!Commit
      <4> QED  BY <4>3 DEF Promise!Next
    <3> QED  BY <1>3, <2>1, <3>2, <3>3, ExecutionCommits
  <2>2. ASSUME NEW p \in Pullers, Pull(p)
        PROVE  Promise!Next
    <3>0. /\ Others(p)
          /\ \A r \in Runs : Remote("dir", r)' = Remote("dir", r)
          /\ \A r \in Runs : mirror'["dir"][r] \in {mirror["dir"][r], Remote("dir", r)}
          /\ \/ /\ pc[p] \in Resting /\ mirror' = mirror
                /\ listed'[p]["dir"] = {r \in Runs : Remote("dir", r) # {}}
                /\ pc'[p] \in {"fetch", "returned"}
             \/ /\ pc[p] \notin Resting /\ listed' = listed
                /\ pc'[p] = "idle" => mirror' = mirror
      BY <1>3, <2>2, PullStep
    <3>1. Com' = Com
      BY <3>0
    <3>2. Ver' = [Ver EXCEPT ![p] = IF pc'[p] \in Resting THEN pc'[p] ELSE "pulling"]
      BY <3>0 DEF Others
    <3>3. pc'[p] \in Resting \cup {"fetch", "check", "rename"}
          /\ (pc'[p] = "returned" => \A r \in Due'[p] : Mir'[r] # {})
      BY <1>3 DEF TypeInv, LaptopInv, ListInv, Here, Kinds
    <3>4. pc'[p] # "idle" => Promise!Settle(p)
      BY <3>2, <3>3 DEF Promise!Settle, Resting
    <3>5. CASE pc[p] \in Resting
      <4>1. Mir' = Mir /\ Due' = [Due EXCEPT ![p] = {r \in Runs : Com[r] # {}}]
        BY <3>0, <3>5 DEF Others
      <4>2. Ver[p] # "pulling" /\ pc'[p] # "idle"
        BY <3>0, <3>5 DEF Resting
      <4>3. Promise!Begin(p)
        BY <3>1, <3>4, <4>1, <4>2 DEF Promise!Begin
      <4> QED  BY <4>3 DEF Promise!Next
    <3>6. CASE pc[p] \notin Resting
      <4>1. Ver[p] = "pulling" /\ Due' = Due
        BY <3>0, <3>6
      <4>2. CASE pc'[p] = "idle"
        <5>1. Mir' = Mir /\ Ver' = [Ver EXCEPT ![p] = "idle"]
          BY <3>0, <3>2, <3>6, <4>2 DEF Resting
        <5>2. Promise!Fail(p)
          BY <3>1, <4>1, <5>1 DEF Promise!Fail
        <5> QED  BY <5>2 DEF Promise!Next
      <4>3. CASE pc'[p] # "idle"
        <5> DEFINE S == {r \in Runs : Mir'[r] # Mir[r]}
        <5>1. Mir' \in [Runs -> SUBSET Dirs]
          BY <1>3 DEF TypeInv, Kinds
        <5>2. Mir' = [r \in Runs |-> IF r \in S THEN Com[r] ELSE Mir[r]]
          BY <3>0, <5>1
        <5>3. Promise!Deliver(p, S)
          BY <3>1, <3>4, <4>1, <4>3, <5>2 DEF Promise!Deliver
        <5> QED  BY <5>3 DEF Promise!Next
      <4> QED  BY <4>2, <4>3
    <3> QED  BY <3>5, <3>6
  <2>3. CASE UNCHANGED vars
    BY <2>3 DEF vars, cluster, laptop, Promise!vars, Remote
  <2> QED  BY <1>3, <2>1, <2>2, <2>3 DEF Next
<1>4. Init => IInv
  BY InitInv
<1> QED  BY <1>1, <1>2, <1>3, <1>4, PTL DEF Spec, PullKeepsPromise, Promise!Spec
================================================================================
