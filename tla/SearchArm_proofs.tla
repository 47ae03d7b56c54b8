----------------------------- MODULE SearchArm_proofs -----------------------------
(***************************************************************************)
(* Theorems of SearchArm, for any number of generations, candidates, seeds,*)
(* rounds and author calls, and any number of passes that die anywhere.    *)
(***************************************************************************)
EXTENDS SearchArm, FiniteSetTheorems, WellFoundedInduction, TLAPS

Running == pc \in {"author", "batch", "collect"}

\* Candidates the pass has not come to.
Ahead(c) == c[1] > gen \/ (c[1] = gen /\ c[2] >= slot)

\* The mirror holds records of the cluster.
MirrorInv == \A x \in Runs : seen[x] # 0 => seen[x] = rec[x]

PlaceInv ==
    /\ Running => gen <= NGens
    /\ pc \in {"batch", "collect"} => slot = PerGen + 1
    /\ pc = "done" => gen = NGens + 1

\* What a pass knows of the ledger and of the mirror it started on.
RowInv ==
    Running =>
        /\ \A c \in Cands : Ahead(c) => row[c] = rows[c] /\ fresh[c] = 0 /\ c \notin replayed
        /\ behind \/ \A c \in had : Archived(c) # {}
        /\ \A c \in Cands : c[1] = gen /\ fresh[c] # 0 =>
              row[c] = NoRow \/ (row[c].src = fresh[c] /\ ~row[c].permanent)

\* A candidate the pass has left behind has its records, a row, or a row was lost.
Accounted(c) == Complete(c) \/ row[c] # NoRow \/ c \in lost

AccountInv ==
    /\ pc # "down" => \A c \in Cands : c[1] < gen => Accounted(c)
    /\ Running => \A c \in Cands : c[1] = gen /\ c[2] < slot => fresh[c] # 0 \/ Accounted(c)

\* What the prompts reflect on.
ReflectInv ==
    Running =>
        /\ prev # NoCand => prev \in Cands /\ prev[1] < gen /\ Complete(prev)
        /\ \A d \in replayed : d \in Cands /\ Complete(d)
        /\ \A d \in replayed : d[1] < gen => ~Before(prev, d)

\* The versions of one candidate that are about, as long as no pass was started over
\* tasks of another or with records that its mirror lacked.
VersionInv ==
    ~overlap =>
        /\ \A c \in Cands : \A s, t \in Seeds :
              /\ rec[<<c, s>>] # 0 /\ rec[<<c, t>>] # 0 => rec[<<c, s>>] = rec[<<c, t>>]
              /\ task[<<c, s>>] # 0 /\ rec[<<c, t>>] # 0 => task[<<c, s>>] = rec[<<c, t>>]
              /\ task[<<c, s>>] # 0 /\ task[<<c, t>>] # 0 => task[<<c, s>>] = task[<<c, t>>]
        /\ \A c \in Cands : row[c] # NoRow => \A s \in Seeds :
              rec[<<c, s>>] \in {0, row[c].src} /\ task[<<c, s>>] \in {0, row[c].src}
        /\ Running => \A c \in Cands : \A s \in Seeds :
              IF fresh[c] # 0
              THEN rec[<<c, s>>] \in {0, fresh[c]} /\ task[<<c, s>>] \in {0, fresh[c]}
              ELSE seen[<<c, s>>] = rec[<<c, s>>] /\ task[<<c, s>>] = 0

IInv == TypeOK /\ MirrorInv /\ PlaceInv /\ RowInv /\ AccountInv /\ ReflectInv /\ VersionInv

--------------------------------------------------------------------------------
\* A set of numbers has a least one.
LEMMA Least ==
  ASSUME NEW T \in SUBSET Nat, T # {}
  PROVE  \E x \in T : \A y \in T : x <= y
<1> DEFINE R == OpToRel(<, Nat)
<1>1. IsWellFoundedOn(R, Nat)
  BY NatLessThanWellFounded
<1>2. \A x, y \in Nat : <<x, y>> \in R <=> x < y
  BY DEF OpToRel
<1> HIDE DEF R
<1>3. PICK x \in T : \A y \in T : ~(<<y, x>> \in R)
  BY <1>1, WFMin
<1>4. ASSUME NEW y \in T PROVE x <= y
  <2>1. x \in Nat /\ y \in Nat /\ ~(<<y, x>> \in R)
    BY <1>3
  <2>2. ~(y < x)
    BY <1>2, <2>1
  <2> QED  BY <2>1, <2>2
<1> QED  BY <1>4

\* Candidates and runs are pairs.
LEMMA Pairs ==
  /\ \A c \in Cands : c[1] \in 1..NGens /\ c[2] \in 1..PerGen /\ c = <<c[1], c[2]>>
  /\ \A x \in Runs : x[1] \in Cands /\ x[2] \in Seeds /\ x = <<x[1], x[2]>>
  /\ \A c \in Cands, s \in Seeds : <<c, s>> \in Runs /\ <<c, s>>[1] = c /\ <<c, s>>[2] = s
  /\ NGens \in Nat \ {0} /\ PerGen \in Nat \ {0} /\ MaxRounds \in Nat \ {0}
  /\ NoCand \notin Cands /\ NoCand[1] = 0
BY SearchAssumption DEF Cands, Runs, NoCand

\* Of some candidates, one has the last place.
LEMMA Last ==
  ASSUME NEW S \in SUBSET Cands, S # {}
  PROVE  \E c \in S : \A d \in S : d[2] <= c[2]
<1> DEFINE T == {PerGen - c[2] : c \in S}
<1>1. T \in SUBSET Nat /\ T # {}
  BY Pairs
<1>2. PICK x \in T : \A y \in T : x <= y
  BY <1>1, Least
<1>3. PICK c \in S : x = PerGen - c[2]
  BY <1>2
<1>4. ASSUME NEW d \in S PROVE d[2] <= c[2]
  <2>1. PerGen - c[2] <= PerGen - d[2]
    BY <1>2, <1>3
  <2> QED  BY <2>1, Pairs
<1> QED  BY <1>4

\* The source of a partial candidate is that of one of its records.
LEMMA ArchivedFacts ==
  ASSUME NEW c \in Cands, Archived(c) # {}
  PROVE  \E s \in Seeds : ArchivedSource(c) = seen[<<c, s>>] /\ seen[<<c, s>>] # 0
<1>1. Archived(c) \in SUBSET Nat
  BY DEF Archived, Seeds
<1>2. \E s \in Archived(c) : \A t \in Archived(c) : s <= t
  BY <1>1, Least
<1> DEFINE s == CHOOSE s \in Archived(c) : \A t \in Archived(c) : s <= t
<1>3. s \in Archived(c)
  BY <1>2
<1> QED  BY <1>3 DEF ArchivedSource, Archived

LEMMA BestFacts ==
  ASSUME Accepted # {}
  PROVE  Best \in Accepted /\ \A d \in Accepted : d[2] <= Best[2]
<1>1. Accepted \in SUBSET Cands
  BY DEF Accepted, OfGen
<1>2. \E c \in Accepted : \A d \in Accepted : d[2] <= c[2]
  BY <1>1, Last
<1> QED  BY <1>2 DEF Best

--------------------------------------------------------------------------------
(***************************************************************************)
(* Types.                                                                  *)
(***************************************************************************)

\* The moves of the author that take a candidate from somewhere else than the author.
Takes(c) == Replays(c) \/ Reships(c) \/ StaysFailed(c) \/ ReusesSource(c)

LEMMA InitTypes == Init => TypeOK
<1> SUFFICES ASSUME Init PROVE TypeOK
  OBVIOUS
<1> USE SearchAssumption DEF Init
<1>1. /\ 0 \in Versions /\ NoRow \in Row
  BY DEF Versions, NoRow, Row
<1>2. overlap \in BOOLEAN
  OBVIOUS
<1>3. gen \in 1..(NGens + 1) /\ slot \in 1..(PerGen + 1) /\ calls \in 0..MaxCalls
      /\ rounds \in 0..MaxRounds /\ launches \in 0..MaxLaunches
  OBVIOUS
<1>4. rows \in [Cands -> Row] /\ row \in [Cands -> Row]
  BY <1>1
<1> QED  BY <1>1, <1>2, <1>3, <1>4 DEF TypeOK

LEMMA BlankTypes ==
  ASSUME Blank
  PROVE  /\ gen' \in 1..(NGens + 1) /\ slot' \in 1..(PerGen + 1) /\ calls' \in 0..MaxCalls
         /\ fresh' \in [Cands -> Versions]
         /\ replayed' \subseteq Cands /\ failed' \subseteq Cands
         /\ prev' \in Cands \cup {NoCand} /\ rounds' \in 0..MaxRounds
BY SearchAssumption DEF Blank, Versions

LEMMA LaunchTypes == TypeOK /\ (Starts \/ CannotRefresh) => TypeOK'
<1> SUFFICES ASSUME TypeOK, Starts \/ CannotRefresh PROVE TypeOK'
  OBVIOUS
<1> USE SearchAssumption DEF TypeOK
<1>1. CASE Starts
  <2> PICK how \in {"pulled", "cached"} : Launch(how)
    BY <1>1 DEF Starts
  <2>1. overlap' \in BOOLEAN /\ behind' \in BOOLEAN
    BY DEF Launch
  <2>2. seen' \in [Runs -> Versions] /\ marked' \subseteq Runs /\ launches' \in 0..MaxLaunches
    BY DEF Launch, FreshMirror
  <2> QED  BY <2>1, <2>2, BlankTypes DEF Launch, cluster
<1>2. CASE CannotRefresh
  BY <1>2 DEF CannotRefresh, cluster, disk, memory, history
<1> QED  BY <1>1, <1>2

LEMMA EndTypes == \A c \in Cands : TypeOK /\ (Dies \/ CapReached(c)) => TypeOK'
<1> SUFFICES ASSUME TypeOK, Over, UNCHANGED <<cluster, disk, launches, history>> PROVE TypeOK'
  BY DEF Dies, CapReached
<1> USE SearchAssumption DEF TypeOK
<1>1. rows' \in [Cands -> Row]
  BY DEF Over, Row, NoRow, Versions
<1> QED  BY <1>1, BlankTypes DEF Over, cluster, disk, history

LEMMA TakesTypes == \A c \in Cands : TypeOK /\ Takes(c) => TypeOK'
<1> SUFFICES ASSUME TypeOK, NEW c \in Cands, Takes(c) PROVE TypeOK'
  OBVIOUS
<1>1. /\ slot' = slot + 1 /\ slot <= PerGen
      /\ UNCHANGED <<cluster, disk, pc, gen, calls, rows, prev, rounds, launches, history>>
  BY DEF Takes, Replays, Reships, StaysFailed, ReusesSource, Turn
<1>2. fresh' = fresh \/ fresh' = [fresh EXCEPT ![c] = rows[c].src]
      \/ (fresh' = [fresh EXCEPT ![c] = ArchivedSource(c)] /\ Archived(c) # {})
  BY DEF Takes, Replays, Reships, StaysFailed, ReusesSource, Partial
<1>3. replayed' \subseteq replayed \cup {c} /\ failed' \subseteq failed \cup {c}
  BY DEF Takes, Replays, Reships, StaysFailed, ReusesSource
<1>4. rows[c].src \in Versions
  BY DEF TypeOK, Row
<1>5. ASSUME Archived(c) # {} PROVE ArchivedSource(c) \in Versions
  <2>1. PICK z \in Seeds : ArchivedSource(c) = seen[<<c, z>>]
    BY <1>5, ArchivedFacts
  <2> QED  BY <2>1, Pairs DEF TypeOK
<1>6. fresh' \in [Cands -> Versions]
  BY <1>2, <1>4, <1>5 DEF TypeOK
<1>7. slot' \in 1..(PerGen + 1)
  BY <1>1, Pairs DEF TypeOK
<1> QED  BY <1>1, <1>3, <1>6, <1>7 DEF TypeOK, cluster, disk, history

LEMMA WritesTypes ==
  \A c \in Cands : \A gated, ledgered \in BOOLEAN : TypeOK /\ Writes(c, gated, ledgered) => TypeOK'
<1> SUFFICES ASSUME TypeOK, NEW c \in Cands, NEW gated \in BOOLEAN, NEW ledgered \in BOOLEAN,
                    Writes(c, gated, ledgered)
             PROVE  TypeOK'
  OBVIOUS
<1>1. /\ slot' = slot + 1 /\ slot <= PerGen /\ calls' = calls + 1 /\ calls < MaxCalls
      /\ written[c] < MaxVersions /\ written' = [written EXCEPT ![c] = @ + 1]
      /\ fed' = [fed EXCEPT ![c] = prev]
      /\ UNCHANGED <<cluster, seen, pc, gen, rows, replayed, prev, rounds, launches, had, behind,
                     marked, overlap>>
  BY DEF Writes, Turn, UnderCap
<1>2. written[c] + 1 \in Versions
  BY <1>1, SearchAssumption DEF TypeOK, Versions
<1>3. fresh' = fresh \/ fresh' = [fresh EXCEPT ![c] = written[c] + 1]
  BY DEF Writes
<1>4. row' = row \/ row' = [row EXCEPT ![c] = [src |-> written[c] + 1, permanent |-> TRUE]]
  BY DEF Writes
<1>5. failed' \subseteq failed \cup {c} /\ lost' \subseteq lost \cup {c}
  BY DEF Writes
<1>6. row' \in [Cands -> Row]
  <2>1. [src |-> written[c] + 1, permanent |-> TRUE] \in Row
    BY <1>2 DEF Row
  <2> QED  BY <1>4, <2>1 DEF TypeOK
<1>7. fresh' \in [Cands -> Versions] /\ written' \in [Cands -> Versions]
  BY <1>1, <1>2, <1>3 DEF TypeOK
<1>8. slot' \in 1..(PerGen + 1) /\ calls' \in 0..MaxCalls
  BY <1>1, SearchAssumption DEF TypeOK
<1>9. fed' \in [Cands -> Cands \cup {NoCand}]
  BY <1>1 DEF TypeOK
<1> QED  BY <1>1, <1>5, <1>6, <1>7, <1>8, <1>9 DEF TypeOK, cluster

LEMMA BatchTypes == TypeOK /\ (StartsBatch \/ Submits \/ BatchReturns) => TypeOK'
<1> SUFFICES ASSUME TypeOK, StartsBatch \/ Submits \/ BatchReturns PROVE TypeOK'
  OBVIOUS
<1>1. /\ task' = task \/ task' = [x \in Runs |-> IF x \in Owed THEN fresh[x[1]] ELSE task[x]]
      /\ pc' \in {pc, "collect", "batch"} /\ rounds' \in {0, rounds, rounds + 1}
      /\ rounds' = rounds + 1 => rounds < MaxRounds \/ rounds = 0
      /\ UNCHANGED <<rec, rejects, disk, gen, slot, calls, rows, fresh, replayed, failed, prev,
                     launches, history>>
  BY SearchAssumption DEF StartsBatch, Submits, BatchReturns, cluster, place, memory, TypeOK
<1>2. task' \in [Runs -> Versions]
  BY <1>1, Pairs DEF TypeOK
<1>3. rounds' \in 0..MaxRounds
  BY SearchAssumption DEF StartsBatch, Submits, BatchReturns, memory, TypeOK
<1>4. pc' \in {"down", "author", "batch", "collect", "done"}
  BY <1>1 DEF TypeOK
<1> QED  BY <1>1, <1>2, <1>3, <1>4 DEF TypeOK, disk, history

LEMMA CollectsTypes == \A U \in SUBSET Cands : TypeOK /\ PlaceInv /\ Collects(U) => TypeOK'
<1> SUFFICES ASSUME TypeOK, PlaceInv, NEW U \in SUBSET Cands, Collects(U) PROVE TypeOK'
  OBVIOUS
<1>1. /\ row' = [c \in Cands |-> IF c \in GivenUp \ U
                                 THEN [src |-> fresh[c], permanent |-> Permanent(c)] ELSE row[c]]
      /\ lost' = lost \cup U /\ failed' = failed \cup GivenUp /\ prev' = Reflect
      /\ gen' = gen + 1 /\ slot' = 1 /\ pc' \in {"done", "author"} /\ pc = "collect"
      /\ UNCHANGED <<cluster, seen, calls, rows, fresh, replayed, rounds, launches, written,
                     had, behind, marked, overlap, fed>>
  BY DEF Collects, LedgerAll
<1>2. row' \in [Cands -> Row]
  <2>1. \A c \in Cands : Permanent(c) \in BOOLEAN
    BY DEF Permanent
  <2>2. \A c \in Cands : [src |-> fresh[c], permanent |-> Permanent(c)] \in Row
    BY <2>1 DEF TypeOK, Row
  <2> QED  BY <1>1, <2>2 DEF TypeOK
<1>3. GivenUp \subseteq Cands
  BY DEF GivenUp, OfGen
<1>4. prev' \in Cands \cup {NoCand}
  BY <1>1, BestFacts DEF Reflect, TypeOK, Accepted, OfGen
<1>5. gen' \in 1..(NGens + 1) /\ slot' \in 1..(PerGen + 1)
  BY <1>1, SearchAssumption DEF TypeOK, PlaceInv, Running
<1> QED  BY <1>1, <1>2, <1>3, <1>4, <1>5 DEF TypeOK, cluster

LEMMA ClusterTypes == TypeOK /\ (Cluster \/ Pulls \/ UNCHANGED vars) => TypeOK'
<1> SUFFICES ASSUME TypeOK, Cluster \/ Pulls \/ UNCHANGED vars PROVE TypeOK'
  OBVIOUS
<1>1. CASE Cluster
  <2> PICK x \in Runs, how \in {"archived", "rejected", "dead"} : TaskEnds(x, how)
    BY <1>1 DEF Cluster
  <2>1. 0 \in Versions
    BY SearchAssumption DEF Versions
  <2>2. task' \in [Runs -> Versions] /\ rec' \in [Runs -> Versions] /\ rejects' \subseteq Runs
    BY <2>1 DEF TypeOK, TaskEnds
  <2> QED  BY <2>2 DEF TypeOK, TaskEnds, disk, place, memory, history
<1>2. CASE Pulls
  <2> PICK S \in SUBSET Late : OtherPull(S)
    BY <1>2 DEF Pulls
  <2>1. seen' \in [Runs -> Versions] /\ marked' \subseteq Runs
    BY DEF OtherPull, TypeOK
  <2> QED  BY <2>1 DEF OtherPull, TypeOK, cluster, place, memory, history
<1>3. CASE UNCHANGED vars
  BY <1>3 DEF TypeOK, vars, cluster, disk, place, memory, history
<1> QED  BY <1>1, <1>2, <1>3

--------------------------------------------------------------------------------
(***************************************************************************)
(* A pass ends, and one starts.                                            *)
(***************************************************************************)
Rest == MirrorInv /\ PlaceInv /\ RowInv /\ AccountInv /\ ReflectInv /\ VersionInv

LEMMA InitRest == Init => Rest
<1> SUFFICES ASSUME Init PROVE Rest
  OBVIOUS
<1>1. ~Running /\ pc = "down"
  BY DEF Init, Running
<1>2. VersionInv
  BY <1>1, Pairs DEF Init, VersionInv
<1> QED  BY <1>1, <1>2 DEF Init, Rest, MirrorInv, PlaceInv, RowInv, AccountInv, ReflectInv

\* What is left of a pass that ends are its tasks, its records and its rows.
LEMMA Ends == \A c \in Cands : IInv /\ (Dies \/ CapReached(c) \/ CannotRefresh) => Rest'
<1> SUFFICES ASSUME IInv, pc' = "down", UNCHANGED <<cluster, disk, history>> PROVE Rest'
  BY DEF Dies, CapReached, CannotRefresh, Over
<1>1. UNCHANGED <<task, rec, seen, row, overlap>>
  BY DEF cluster, disk, history
<1>2. ~Running'
  BY DEF Running
<1>3. MirrorInv'
  BY <1>1 DEF IInv, MirrorInv
<1>4. VersionInv'
  BY <1>1, <1>2 DEF IInv, VersionInv
<1> QED  BY <1>2, <1>3, <1>4 DEF Rest, PlaceInv, RowInv, AccountInv, ReflectInv, Running

\* A pass starts on a mirror that was pulled for it or not, with nothing in memory.
LEMMA Launches == IInv /\ Starts => Rest'
<1> SUFFICES ASSUME IInv, NEW how \in {"pulled", "cached"}, Launch(how) PROVE Rest'
  BY DEF Starts
<1>1. /\ pc' = "author" /\ gen' = 1 /\ slot' = 1 /\ fresh' = [c \in Cands |-> 0]
      /\ replayed' = {} /\ prev' = NoCand /\ rows' = row
      /\ (how = "pulled" /\ ~behind' /\ seen' = rec) \/ (how = "cached" /\ behind' /\ seen' = seen)
      /\ task' = task /\ rec' = rec /\ row' = row
      /\ had' = {c \in Cands : \E s \in Seeds : rec[<<c, s>>] # 0}
      /\ ~overlap' => ~overlap /\ (\A x \in Runs : task[x] = 0) /\ seen' = rec
  BY DEF Launch, Blank, cluster, FreshMirror
<1>2. MirrorInv' /\ PlaceInv'
  BY <1>1, Pairs DEF IInv, MirrorInv, PlaceInv, Running
<1>3. RowInv'
  <2>1. behind' \/ \A c \in had' : Archived(c)' # {}
    BY <1>1 DEF Archived
  <2> QED  BY <1>1, <2>1 DEF RowInv
<1>4. AccountInv'
  BY <1>1, Pairs DEF AccountInv
<1>5. ReflectInv'
  BY <1>1 DEF ReflectInv
<1>6. VersionInv'
  <2> SUFFICES ASSUME ~overlap' PROVE VersionInv'
    BY DEF VersionInv
  <2>1. \A c \in Cands, s \in Seeds : task'[<<c, s>>] = 0
    BY <1>1, Pairs
  <2>2. \A c \in Cands : \A s, t \in Seeds :
          rec'[<<c, s>>] # 0 /\ rec'[<<c, t>>] # 0 => rec'[<<c, s>>] = rec'[<<c, t>>]
    BY <1>1 DEF IInv, VersionInv
  <2>3. \A c \in Cands : row'[c] # NoRow => \A s \in Seeds : rec'[<<c, s>>] \in {0, row'[c].src}
    BY <1>1 DEF IInv, VersionInv
  <2>4. \A c \in Cands, s \in Seeds : fresh'[c] = 0 /\ seen'[<<c, s>>] = rec'[<<c, s>>]
    BY <1>1
  <2> QED  BY <2>1, <2>2, <2>3, <2>4 DEF VersionInv
<1> QED  BY <1>2, <1>3, <1>4, <1>5, <1>6 DEF Rest

--------------------------------------------------------------------------------
(***************************************************************************)
(* The author's loop.                                                      *)
(***************************************************************************)

\* Where the loop is, and where it goes.
LEMMA TurnFacts ==
  ASSUME IInv, NEW c \in Cands, Turn(c)
  PROVE  /\ c[1] = gen /\ c[2] = slot /\ Running /\ gen <= NGens /\ pc = "author"
         /\ row[c] = rows[c] /\ fresh[c] = 0 /\ c \notin replayed
         /\ slot' = slot + 1 /\ gen' = gen =>
              /\ \A d \in Cands : Ahead(d)' => Ahead(d) /\ d # c
              /\ \A d \in Cands : d[1] = gen /\ d[2] < slot' => d = c \/ d[2] < slot
<1>1. c = <<gen, slot>> /\ pc = "author" /\ gen \in Nat /\ slot \in Nat
  BY DEF Turn, Current, IInv, TypeOK
<1>2. Running /\ gen <= NGens
  BY <1>1 DEF Running, IInv, PlaceInv
<1>3. c[1] = gen /\ c[2] = slot
  BY <1>1
<1>4. Ahead(c)
  BY <1>1, <1>3 DEF Ahead
<1>5. row[c] = rows[c] /\ fresh[c] = 0 /\ c \notin replayed
  BY <1>2, <1>4 DEF IInv, RowInv
<1>6. ASSUME slot' = slot + 1, gen' = gen
      PROVE  /\ \A d \in Cands : Ahead(d)' => Ahead(d) /\ d # c
             /\ \A d \in Cands : d[1] = gen /\ d[2] < slot' => d = c \/ d[2] < slot
  <2>1. \A d \in Cands : Ahead(d)' => Ahead(d) /\ d # c
    BY <1>1, <1>3, <1>6, Pairs DEF Ahead
  <2>2. ASSUME NEW d \in Cands, d[1] = gen, d[2] < slot' PROVE d = c \/ d[2] < slot
    <3>1. d[2] = slot \/ d[2] < slot
      BY <1>1, <1>6, <2>2, Pairs
    <3>2. d = <<d[1], d[2]>>
      BY Pairs
    <3> QED  BY <1>1, <2>2, <3>1, <3>2
  <2> QED  BY <2>1, <2>2
<1> QED  BY <1>1, <1>2, <1>3, <1>5, <1>6

\* A candidate is replayed, shipped again, left failed or shipped from a partial archive.
LEMMA TakesRest == \A c \in Cands : IInv /\ Takes(c) => Rest'
<1> SUFFICES ASSUME IInv, NEW c \in Cands, Takes(c) PROVE Rest'
  OBVIOUS
<1>1. /\ Turn(c) /\ slot' = slot + 1 /\ gen' = gen /\ pc' = pc
      /\ UNCHANGED <<task, rec, seen, row, rows, prev, had, behind, lost, overlap>>
  BY DEF Takes, Replays, Reships, StaysFailed, ReusesSource, cluster, disk, history
<1>2. \/ Complete(c) /\ replayed' = replayed \cup {c} /\ fresh' = fresh
      \/ row[c] # NoRow /\ replayed' = replayed /\ fresh' = fresh
      \/ /\ replayed' = replayed /\ fresh' = [fresh EXCEPT ![c] = row[c].src]
         /\ row[c] # NoRow /\ row[c].src # 0 /\ ~row[c].permanent
      \/ /\ replayed' = replayed /\ fresh' = [fresh EXCEPT ![c] = ArchivedSource(c)]
         /\ row[c] = NoRow /\ Archived(c) # {}
  BY <1>1, TurnFacts
  DEF Takes, Replays, Reships, StaysFailed, ReusesSource, Reshippable, Partial
<1>3. /\ c[1] = gen /\ c[2] = slot /\ Running /\ Running' /\ slot \in Nat /\ gen \in Nat
      /\ fresh[c] = 0 /\ c \notin replayed /\ gen <= NGens /\ pc = "author"
      /\ \A d \in Cands : Ahead(d)' => Ahead(d) /\ d # c
      /\ \A d \in Cands : d[1] = gen /\ d[2] < slot' => d = c \/ d[2] < slot
  BY <1>1, TurnFacts DEF Running, IInv, TypeOK
<1>4. \A d \in Cands \ {c} : fresh'[d] = fresh[d]
  BY <1>2 DEF IInv, TypeOK
<1>5. /\ \/ Complete(c) /\ fresh'[c] = 0
         \/ row[c] # NoRow /\ fresh'[c] = 0
         \/ row[c] # NoRow /\ row[c].src # 0 /\ ~row[c].permanent /\ fresh'[c] = row[c].src
         \/ /\ row[c] = NoRow
            /\ \E s \in Seeds : fresh'[c] = seen[<<c, s>>] /\ seen[<<c, s>>] # 0
      /\ replayed' \subseteq replayed \cup {c} /\ (c \in replayed' => Complete(c))
  BY <1>2, <1>3, ArchivedFacts DEF IInv, TypeOK
<1>6. \A d \in Cands : Complete(d)' = Complete(d) /\ Archived(d)' = Archived(d)
  BY <1>1 DEF Complete, Archived
<1>7. MirrorInv' /\ PlaceInv'
  BY <1>1, <1>3 DEF IInv, MirrorInv, PlaceInv, Running
<1>8. RowInv'
  <2>1. \A d \in Cands : Ahead(d)' => row'[d] = rows'[d] /\ fresh'[d] = 0 /\ d \notin replayed'
    BY <1>1, <1>3, <1>4, <1>5 DEF IInv, RowInv
  <2>2. behind' \/ \A d \in had' : Archived(d)' # {}
    BY <1>1, <1>3, <1>6 DEF IInv, RowInv, TypeOK
  <2>3. \A d \in Cands : d[1] = gen /\ fresh'[d] # 0 =>
          row[d] = NoRow \/ (row[d].src = fresh'[d] /\ ~row[d].permanent)
    BY <1>3, <1>4, <1>5 DEF IInv, RowInv
  <2> QED  BY <1>1, <2>1, <2>2, <2>3 DEF RowInv
<1>9. AccountInv'
  <2>1. \A d \in Cands : Accounted(d)' = Accounted(d)
    BY <1>1, <1>6 DEF Accounted
  <2>2. fresh'[c] # 0 \/ Accounted(c)
    BY <1>5 DEF Accounted
  <2>3. \A d \in Cands : d[1] < gen => Accounted(d)
    BY <1>3 DEF IInv, AccountInv
  <2>4. \A d \in Cands : d[1] = gen /\ d[2] < slot' => fresh'[d] # 0 \/ Accounted(d)
    BY <1>3, <1>4, <2>2 DEF IInv, AccountInv
  <2> QED  BY <1>1, <2>1, <2>3, <2>4 DEF AccountInv
<1>10. ReflectInv'
  BY <1>1, <1>3, <1>5, <1>6 DEF IInv, ReflectInv, Before
<1>11. VersionInv'
  <2> SUFFICES ASSUME ~overlap PROVE VersionInv'
    BY <1>1 DEF VersionInv
  <2>1. ASSUME NEW d \in Cands, NEW s \in Seeds
        PROVE  IF fresh'[d] # 0
               THEN rec[<<d, s>>] \in {0, fresh'[d]} /\ task[<<d, s>>] \in {0, fresh'[d]}
               ELSE seen[<<d, s>>] = rec[<<d, s>>] /\ task[<<d, s>>] = 0
    <3>1. CASE d # c
      BY <1>3, <1>4, <3>1 DEF IInv, VersionInv
    <3>2. CASE d = c
      <4>1. seen[<<c, s>>] = rec[<<c, s>>] /\ task[<<c, s>>] = 0
        BY <1>3, <3>2 DEF IInv, VersionInv
      <4>2. row[c] # NoRow => rec[<<c, s>>] \in {0, row[c].src}
        BY <3>2 DEF IInv, VersionInv
      <4>3. ASSUME NEW t \in Seeds, seen[<<c, t>>] # 0
            PROVE  rec[<<c, s>>] \in {0, seen[<<c, t>>]}
        BY <4>3, Pairs DEF IInv, VersionInv, MirrorInv
      <4> QED  BY <1>5, <3>2, <4>1, <4>2, <4>3
    <3> QED  BY <3>1, <3>2
  <2>2. ~overlap' /\ UNCHANGED <<rec, task, seen, row>>
    BY <1>1
  <2> QED  BY <2>1, <2>2 DEF IInv, VersionInv
<1> QED  BY <1>7, <1>8, <1>9, <1>10, <1>11 DEF Rest

\* A candidate is written: none of its versions is about.
LEMMA WritesRest ==
  \A c \in Cands : \A gated, ledgered \in BOOLEAN : IInv /\ Writes(c, gated, ledgered) => Rest'
<1> SUFFICES ASSUME IInv, NEW c \in Cands, NEW gated \in BOOLEAN, NEW ledgered \in BOOLEAN,
                    Writes(c, gated, ledgered)
             PROVE  Rest'
  OBVIOUS
<1>1. /\ Turn(c) /\ slot' = slot + 1 /\ gen' = gen /\ pc' = pc /\ Archived(c) = {}
      /\ UNCHANGED <<task, rec, seen, rows, prev, had, behind, overlap, replayed>>
  BY DEF Writes, Partial, cluster
<1>2. /\ c[1] = gen /\ c[2] = slot /\ Running /\ Running' /\ slot \in Nat /\ gen \in Nat
      /\ fresh[c] = 0 /\ c \notin replayed /\ gen <= NGens /\ pc = "author"
      /\ row[c] = NoRow
      /\ \A d \in Cands : Ahead(d)' => Ahead(d) /\ d # c
      /\ \A d \in Cands : d[1] = gen /\ d[2] < slot' => d = c \/ d[2] < slot
  BY <1>1, TurnFacts DEF Running, IInv, TypeOK, Writes
<1>3. /\ \/ fresh'[c] # 0 /\ row'[c] = NoRow
         \/ fresh'[c] = 0 /\ row'[c] # NoRow
         \/ fresh'[c] = 0 /\ c \in lost' /\ row'[c] = NoRow
      /\ \A d \in Cands \ {c} : fresh'[d] = fresh[d] /\ row'[d] = row[d]
      /\ lost \subseteq lost'
  <2>1. written[c] + 1 # 0 /\ [src |-> written[c] + 1, permanent |-> TRUE] # NoRow
    BY SearchAssumption DEF IInv, TypeOK, Versions, NoRow
  <2>2. CASE gated
    BY <1>2, <2>1, <2>2 DEF Writes, IInv, TypeOK
  <2>3. CASE ~gated
    BY <1>2, <2>1, <2>3 DEF Writes, IInv, TypeOK
  <2> QED  BY <2>2, <2>3
<1>4. \A d \in Cands : Complete(d)' = Complete(d) /\ Archived(d)' = Archived(d)
  BY <1>1 DEF Complete, Archived
<1>5. MirrorInv' /\ PlaceInv'
  BY <1>1, <1>2 DEF IInv, MirrorInv, PlaceInv, Running
<1>6. RowInv'
  <2>1. \A d \in Cands : Ahead(d)' => row'[d] = rows'[d] /\ fresh'[d] = 0 /\ d \notin replayed'
    BY <1>1, <1>2, <1>3 DEF IInv, RowInv
  <2>2. behind' \/ \A d \in had' : Archived(d)' # {}
    BY <1>1, <1>2, <1>4 DEF IInv, RowInv, TypeOK
  <2>3. \A d \in Cands : d[1] = gen /\ fresh'[d] # 0 =>
          row'[d] = NoRow \/ (row'[d].src = fresh'[d] /\ ~row'[d].permanent)
    BY <1>2, <1>3 DEF IInv, RowInv
  <2> QED  BY <1>1, <2>1, <2>2, <2>3 DEF RowInv
<1>7. AccountInv'
  <2>1. \A d \in Cands \ {c} : Accounted(d) => Accounted(d)'
    BY <1>3, <1>4 DEF Accounted
  <2>2. fresh'[c] # 0 \/ Accounted(c)'
    BY <1>3 DEF Accounted
  <2>3. \A d \in Cands : d[1] < gen => Accounted(d)'
    BY <1>2, <2>1 DEF IInv, AccountInv
  <2>4. \A d \in Cands : d[1] = gen /\ d[2] < slot' => fresh'[d] # 0 \/ Accounted(d)'
    BY <1>2, <1>3, <2>1, <2>2 DEF IInv, AccountInv
  <2> QED  BY <1>1, <2>3, <2>4 DEF AccountInv
<1>8. ReflectInv'
  BY <1>1, <1>2, <1>4 DEF IInv, ReflectInv, Before
<1>9. VersionInv'
  <2> SUFFICES ASSUME ~overlap PROVE VersionInv'
    BY <1>1 DEF VersionInv
  <2>1. \A s \in Seeds : seen[<<c, s>>] = 0 /\ rec[<<c, s>>] = 0 /\ task[<<c, s>>] = 0
    BY <1>1, <1>2 DEF IInv, VersionInv, Archived
  <2>2. ASSUME NEW d \in Cands, NEW s \in Seeds
        PROVE  IF fresh'[d] # 0
               THEN rec[<<d, s>>] \in {0, fresh'[d]} /\ task[<<d, s>>] \in {0, fresh'[d]}
               ELSE seen[<<d, s>>] = rec[<<d, s>>] /\ task[<<d, s>>] = 0
    <3>1. CASE d # c
      BY <1>2, <1>3, <3>1 DEF IInv, VersionInv
    <3>2. CASE d = c
      BY <2>1, <3>2
    <3> QED  BY <3>1, <3>2
  <2>3. ASSUME NEW d \in Cands, row'[d] # NoRow, NEW s \in Seeds
        PROVE  rec[<<d, s>>] \in {0, row'[d].src} /\ task[<<d, s>>] \in {0, row'[d].src}
    <3>1. CASE d # c
      BY <1>3, <2>3, <3>1 DEF IInv, VersionInv
    <3>2. CASE d = c
      BY <2>1, <3>2
    <3> QED  BY <3>1, <3>2
  <2>4. ~overlap' /\ UNCHANGED <<rec, task, seen>>
    BY <1>1
  <2> QED  BY <2>2, <2>3, <2>4 DEF IInv, VersionInv
<1> QED  BY <1>5, <1>6, <1>7, <1>8, <1>9 DEF Rest

--------------------------------------------------------------------------------
(***************************************************************************)
(* The batch, the cluster and the mirror.                                  *)
(***************************************************************************)

\* What depends on the cluster and on the mirror survives any step that only adds.
LEMMA Survives ==
  ASSUME IInv, NEW to \in {"author", "batch", "collect", "done", "down"}, pc' = to,
         Running' => Running, pc' # "down" => pc # "down",
         UNCHANGED <<gen, slot, rows, fresh, replayed, prev, row, had, behind, lost>>,
         \A x \in Runs : seen[x] # 0 => seen'[x] # 0
  PROVE  RowInv' /\ AccountInv' /\ ReflectInv'
<1>1. \A d \in Cands : (Complete(d) => Complete(d)') /\ Archived(d) \subseteq Archived(d)'
  BY Pairs DEF Complete, Archived
<1>2. \A d \in Cands : Ahead(d)' = Ahead(d) /\ (Accounted(d) => Accounted(d)')
  BY <1>1 DEF Ahead, Accounted
<1>3. RowInv'
  BY <1>1, <1>2 DEF IInv, RowInv, TypeOK
<1>4. AccountInv'
  BY <1>2 DEF IInv, AccountInv
<1>5. ReflectInv'
  BY <1>1 DEF IInv, ReflectInv, Before
<1> QED  BY <1>3, <1>4, <1>5

LEMMA BatchRest == IInv /\ (StartsBatch \/ Submits \/ BatchReturns) => Rest'
<1> SUFFICES ASSUME IInv, StartsBatch \/ Submits \/ BatchReturns PROVE Rest'
  OBVIOUS
<1>1. /\ UNCHANGED <<rec, seen, row, gen, slot, rows, fresh, replayed, prev, had, behind, lost,
                     overlap>>
      /\ pc \in {"author", "batch"} /\ pc' \in {"batch", "collect"}
      /\ slot = PerGen + 1
      /\ task' = task \/ task' = [x \in Runs |-> IF x \in Owed THEN fresh[x[1]] ELSE task[x]]
  BY DEF StartsBatch, Submits, BatchReturns, Drained, cluster, disk, place, memory, history,
         IInv, PlaceInv
<1>2. Running /\ Running'
  BY <1>1 DEF Running
<1>3. RowInv' /\ AccountInv' /\ ReflectInv'
  BY <1>1, <1>2, Survives
<1>4. MirrorInv' /\ PlaceInv'
  BY <1>1, <1>2 DEF IInv, MirrorInv, PlaceInv
<1>5. VersionInv'
  <2> SUFFICES ASSUME ~overlap PROVE VersionInv'
    BY <1>1 DEF VersionInv
  <2>1. \A c \in Cands, s \in Seeds :
          \/ task'[<<c, s>>] = task[<<c, s>>]
          \/ task'[<<c, s>>] = fresh[c] /\ fresh[c] # 0 /\ c[1] = gen
    <3>1. \A x \in Owed : x[1] \in Fresh
      BY Pairs DEF Owed, Specs, Fresh, Cands
    <3>2. SUFFICES ASSUME NEW c \in Cands, NEW s \in Seeds, task'[<<c, s>>] # task[<<c, s>>]
                   PROVE  task'[<<c, s>>] = fresh[c] /\ fresh[c] # 0 /\ c[1] = gen
      OBVIOUS
    <3>3. <<c, s>> \in Runs /\ <<c, s>>[1] = c
      BY Pairs
    <3>4. <<c, s>> \in Owed /\ task'[<<c, s>>] = fresh[c]
      BY <1>1, <3>2, <3>3
    <3> QED  BY <3>1, <3>3, <3>4 DEF Fresh
  <2>2. ASSUME NEW c \in Cands, NEW s \in Seeds
        PROVE  IF fresh[c] # 0
               THEN rec[<<c, s>>] \in {0, fresh[c]} /\ task'[<<c, s>>] \in {0, fresh[c]}
               ELSE seen[<<c, s>>] = rec[<<c, s>>] /\ task'[<<c, s>>] = 0
    BY <1>2, <2>1 DEF IInv, VersionInv
  <2>3. ASSUME NEW c \in Cands, row[c] # NoRow, NEW s \in Seeds
        PROVE  rec[<<c, s>>] \in {0, row[c].src} /\ task'[<<c, s>>] \in {0, row[c].src}
    <3>1. fresh[c] # 0 /\ c[1] = gen => row[c].src = fresh[c]
      BY <1>2, <2>3 DEF IInv, RowInv
    <3> QED  BY <2>1, <2>3, <3>1 DEF IInv, VersionInv
  <2>4. ASSUME NEW c \in Cands, NEW s \in Seeds, NEW t \in Seeds
        PROVE  /\ rec[<<c, s>>] # 0 /\ rec[<<c, t>>] # 0 => rec[<<c, s>>] = rec[<<c, t>>]
               /\ task'[<<c, s>>] # 0 /\ rec[<<c, t>>] # 0 => task'[<<c, s>>] = rec[<<c, t>>]
               /\ task'[<<c, s>>] # 0 /\ task'[<<c, t>>] # 0 => task'[<<c, s>>] = task'[<<c, t>>]
    <3>1. rec[<<c, s>>] # 0 /\ rec[<<c, t>>] # 0 => rec[<<c, s>>] = rec[<<c, t>>]
      BY DEF IInv, VersionInv
    <3> QED  BY <2>2, <3>1
  <2>5. ~overlap' /\ UNCHANGED <<rec, seen, row, fresh>>
    BY <1>1
  <2> QED  BY <2>2, <2>3, <2>4, <2>5 DEF VersionInv
<1> QED  BY <1>3, <1>4, <1>5 DEF Rest

\* A task is over, and has left a record if there was none.
TaskOver(x) ==
    /\ task[x] # 0 /\ task' = [task EXCEPT ![x] = 0]
    /\ rec' = rec \/ (rec[x] = 0 /\ rec' = [rec EXCEPT ![x] = task[x]])

\* A task ends, the mirror is refreshed, or nothing happens.
LEMMA ClusterRest == IInv /\ (Cluster \/ Pulls \/ UNCHANGED vars) => Rest'
<1> SUFFICES ASSUME IInv, Cluster \/ Pulls \/ UNCHANGED vars PROVE Rest'
  OBVIOUS
<1>1. UNCHANGED <<row, pc, gen, slot, rows, fresh, replayed, prev, had, behind, lost, overlap>>
  BY DEF Cluster, TaskEnds, Pulls, OtherPull, vars, disk, place, memory, history
<1>2. /\ \/ UNCHANGED <<task, rec>>
         \/ seen' = seen /\ \E x \in Runs : TaskOver(x)
      /\ \A x \in Runs : seen'[x] \in {seen[x], rec[x]}
  BY DEF Cluster, TaskEnds, Pulls, OtherPull, vars, cluster, disk, TaskOver
<1>3. /\ \A x \in Runs : seen[x] # 0 => seen'[x] # 0
      /\ MirrorInv'
  <2>1. CASE UNCHANGED <<task, rec>>
    BY <1>2, <2>1 DEF IInv, MirrorInv
  <2>2. CASE seen' = seen /\ \E x \in Runs : TaskOver(x)
    BY <2>2 DEF IInv, MirrorInv, TypeOK, TaskOver
  <2> QED  BY <1>2, <2>1, <2>2
<1>4. RowInv' /\ AccountInv' /\ ReflectInv'
  <2>1. pc \in {"author", "batch", "collect", "done", "down"}
    BY DEF IInv, TypeOK
  <2>2. Running' = Running
    BY <1>1 DEF Running
  <2> QED  BY <1>1, <1>3, <2>1, <2>2, Survives
<1>5. PlaceInv'
  BY <1>1 DEF IInv, PlaceInv, Running
<1>6. VersionInv'
  <2> SUFFICES ASSUME ~overlap PROVE VersionInv'
    BY <1>1 DEF VersionInv
  <2>1. CASE UNCHANGED <<task, rec>>
    <3>1. Running' = Running
      BY <1>1 DEF Running
    <3>2. \A c \in Cands, s \in Seeds :
            seen[<<c, s>>] = rec[<<c, s>>] => seen'[<<c, s>>] = rec[<<c, s>>]
      BY <1>2, Pairs
    <3> QED  BY <1>1, <2>1, <3>1, <3>2 DEF IInv, VersionInv
  <2>2. CASE seen' = seen /\ \E x \in Runs : TaskOver(x)
    <3>1. PICK d \in Cands, z \in Seeds :
            /\ task[<<d, z>>] # 0 /\ task' = [task EXCEPT ![<<d, z>>] = 0]
            /\ rec' = rec \/ (rec[<<d, z>>] = 0 /\ rec' = [rec EXCEPT ![<<d, z>>] = task[<<d, z>>]])
      <4>1. PICK x \in Runs : TaskOver(x)
        BY <2>2
      <4>2. x[1] \in Cands /\ x[2] \in Seeds /\ x = <<x[1], x[2]>>
        BY Pairs
      <4> QED  BY <4>1, <4>2 DEF TaskOver
    <3>2. \A c \in Cands, s \in Seeds :
            /\ task'[<<c, s>>] \in {0, task[<<c, s>>]}
            /\ \/ rec'[<<c, s>>] = rec[<<c, s>>]
               \/ rec'[<<c, s>>] = task[<<c, s>>] /\ task[<<c, s>>] # 0
      <4>1. task \in [Runs -> Versions] /\ rec \in [Runs -> Versions] /\ <<d, z>> \in Runs
        BY Pairs DEF IInv, TypeOK
      <4>2. SUFFICES ASSUME NEW x \in Runs
                     PROVE  /\ task'[x] \in {0, task[x]}
                            /\ rec'[x] = rec[x] \/ (rec'[x] = task[x] /\ task[x] # 0)
        BY Pairs
      <4>3. CASE x = <<d, z>>
        BY <3>1, <4>1, <4>3
      <4>4. CASE x # <<d, z>>
        BY <3>1, <4>1, <4>4
      <4> QED  BY <4>3, <4>4
    <3>3. ASSUME NEW c \in Cands, NEW s \in Seeds, NEW t \in Seeds
          PROVE  /\ rec'[<<c, s>>] # 0 /\ rec'[<<c, t>>] # 0 => rec'[<<c, s>>] = rec'[<<c, t>>]
                 /\ task'[<<c, s>>] # 0 /\ rec'[<<c, t>>] # 0 => task'[<<c, s>>] = rec'[<<c, t>>]
                 /\ task'[<<c, s>>] # 0 /\ task'[<<c, t>>] # 0 => task'[<<c, s>>] = task'[<<c, t>>]
      <4>1. /\ rec[<<c, s>>] # 0 /\ rec[<<c, t>>] # 0 => rec[<<c, s>>] = rec[<<c, t>>]
            /\ task[<<c, s>>] # 0 /\ rec[<<c, t>>] # 0 => task[<<c, s>>] = rec[<<c, t>>]
            /\ task[<<c, t>>] # 0 /\ rec[<<c, s>>] # 0 => task[<<c, t>>] = rec[<<c, s>>]
            /\ task[<<c, s>>] # 0 /\ task[<<c, t>>] # 0 => task[<<c, s>>] = task[<<c, t>>]
        BY DEF IInv, VersionInv
      <4>2. /\ task'[<<c, s>>] \in {0, task[<<c, s>>]} /\ task'[<<c, t>>] \in {0, task[<<c, t>>]}
            /\ rec'[<<c, s>>] \in {rec[<<c, s>>], task[<<c, s>>]}
            /\ rec'[<<c, t>>] \in {rec[<<c, t>>], task[<<c, t>>]}
        BY <3>2
      <4> QED  BY <4>1, <4>2
    <3>4. \A c \in Cands : row[c] # NoRow => \A s \in Seeds :
            rec'[<<c, s>>] \in {0, row[c].src} /\ task'[<<c, s>>] \in {0, row[c].src}
      BY <3>2 DEF IInv, VersionInv
    <3>5. ASSUME Running, NEW c \in Cands, NEW s \in Seeds
          PROVE  IF fresh[c] # 0
                 THEN rec'[<<c, s>>] \in {0, fresh[c]} /\ task'[<<c, s>>] \in {0, fresh[c]}
                 ELSE seen[<<c, s>>] = rec'[<<c, s>>] /\ task'[<<c, s>>] = 0
      <4>1. IF fresh[c] # 0
            THEN rec[<<c, s>>] \in {0, fresh[c]} /\ task[<<c, s>>] \in {0, fresh[c]}
            ELSE seen[<<c, s>>] = rec[<<c, s>>] /\ task[<<c, s>>] = 0
        BY <3>5 DEF IInv, VersionInv
      <4> QED  BY <3>2, <4>1
    <3>6. Running' = Running
      BY <1>1 DEF Running
    <3> QED  BY <1>1, <2>2, <3>3, <3>4, <3>5, <3>6 DEF VersionInv
  <2> QED  BY <1>2, <2>1, <2>2
<1> QED  BY <1>3, <1>4, <1>5, <1>6 DEF Rest

--------------------------------------------------------------------------------
\* The collection accounts for the generation and picks what to reflect on.
LEMMA CollectsRest == \A U \in SUBSET Cands : IInv /\ Collects(U) => Rest'
<1> SUFFICES ASSUME IInv, NEW U \in SUBSET Cands, Collects(U) PROVE Rest'
  OBVIOUS
<1>1. /\ pc = "collect" /\ U \subseteq GivenUp /\ lost' = lost \cup U /\ prev' = Reflect
      /\ row' = [c \in Cands |-> IF c \in GivenUp \ U
                                 THEN [src |-> fresh[c], permanent |-> Permanent(c)] ELSE row[c]]
      /\ gen' = gen + 1 /\ slot' = 1 /\ pc' = IF gen = NGens THEN "done" ELSE "author"
      /\ UNCHANGED <<task, rec, seen, rows, fresh, replayed, had, behind, overlap>>
  BY DEF Collects, LedgerAll, cluster
<1>2. /\ Running /\ slot = PerGen + 1 /\ gen <= NGens /\ gen \in Nat
      /\ PerGen \in Nat \ {0} /\ NGens \in Nat \ {0}
      /\ \A d \in Cands : d[1] \in Nat /\ d[2] \in Nat /\ d[2] <= PerGen /\ d[2] >= 1
  BY <1>1, Pairs DEF Running, IInv, PlaceInv, TypeOK
<1>3. \A d \in Cands : Complete(d)' = Complete(d) /\ Archived(d)' = Archived(d)
  BY <1>1 DEF Complete, Archived
<1>4. \A d \in GivenUp : d \in Cands /\ d[1] = gen /\ fresh[d] # 0
  BY DEF GivenUp, OfGen
<1>5. \A d \in Cands : \/ d \notin GivenUp \ U /\ row'[d] = row[d]
                       \/ /\ d \in GivenUp \ U /\ row'[d].src = fresh[d] /\ row'[d] # NoRow
  <2>1. \A d \in GivenUp : [src |-> fresh[d], permanent |-> Permanent(d)] # NoRow
    BY <1>4 DEF NoRow
  <2> QED  BY <1>1, <2>1
<1>6. MirrorInv' /\ PlaceInv'
  <2>1. MirrorInv'
    BY <1>1 DEF IInv, MirrorInv
  <2> QED  BY <1>1, <1>2, <2>1 DEF PlaceInv, Running
<1>7. ASSUME NEW d \in Cands, Ahead(d)'
      PROVE  d[1] > gen /\ row'[d] = rows'[d] /\ fresh'[d] = 0 /\ d \notin replayed'
  <2>1. d[1] > gen
    BY <1>1, <1>2, <1>7 DEF Ahead
  <2>2. row[d] = rows[d] /\ fresh[d] = 0 /\ d \notin replayed
    BY <1>2, <2>1 DEF Ahead, IInv, RowInv
  <2> QED  BY <1>1, <1>4, <1>5, <2>1, <2>2
<1>8. RowInv'
  <2>1. behind' \/ \A d \in had' : Archived(d)' # {}
    BY <1>1, <1>2, <1>3 DEF IInv, RowInv, TypeOK
  <2>2. \A d \in Cands : d[1] = gen' => Ahead(d)'
    BY <1>1, <1>2 DEF Ahead
  <2> QED  BY <1>7, <2>1, <2>2 DEF RowInv
<1>9. AccountInv'
  <2>1. \A d \in Cands : Accounted(d) => Accounted(d)'
    BY <1>1, <1>3, <1>5 DEF Accounted
  <2>2. \A d \in Cands : d[1] < gen => Accounted(d)
    BY <1>1 DEF IInv, AccountInv
  <2>3. ASSUME NEW d \in Cands, d[1] = gen PROVE Accounted(d)'
    <3>1. fresh[d] # 0 \/ Accounted(d)
      BY <1>2, <2>3 DEF IInv, AccountInv
    <3>2. CASE fresh[d] # 0
      <4>1. d \in Accepted => Complete(d)
        BY <1>2 DEF Accepted, IInv, ReflectInv
      <4>2. d \in Accepted \/ d \in GivenUp
        BY <2>3, <3>2 DEF GivenUp, OfGen
      <4> QED  BY <1>1, <1>3, <1>5, <4>1, <4>2 DEF Accounted
    <3> QED  BY <2>1, <3>1, <3>2
  <2>4. \A d \in Cands : d[1] < gen' => Accounted(d)'
    BY <1>1, <1>2, <2>1, <2>2, <2>3
  <2>5. \A d \in Cands : ~(d[2] < slot')
    BY <1>1, <1>2
  <2> QED  BY <2>4, <2>5 DEF AccountInv
<1>10. ReflectInv'
  <2>1. \A d \in replayed : d \in Cands /\ Complete(d) /\ (d[1] <= gen)
    <3>1. \A d \in replayed : d \in Cands /\ Complete(d)
      BY <1>2 DEF IInv, ReflectInv
    <3>2. \A d \in replayed : ~Ahead(d)
      BY <1>2, <3>1 DEF IInv, RowInv
    <3> QED  BY <1>2, <3>1, <3>2 DEF Ahead
  <2>2. \A d \in replayed : d[1] = gen => d \in Accepted
    BY <2>1 DEF Accepted, OfGen
  <2>3. CASE Accepted = {}
    <3>1. prev' = prev /\ \A d \in replayed : d[1] < gen
      BY <1>1, <1>2, <2>1, <2>2, <2>3 DEF Reflect
    <3>2. \A d \in replayed : ~Before(prev', d)
      BY <1>2, <3>1 DEF IInv, ReflectInv, Before
    <3>3. prev' # NoCand => prev' \in Cands /\ prev'[1] < gen' /\ Complete(prev')
      BY <1>1, <1>2, <3>1 DEF IInv, ReflectInv
    <3> QED  BY <1>1, <1>3, <2>1, <3>1, <3>2, <3>3 DEF ReflectInv
  <2>4. CASE Accepted # {}
    <3>1. prev' = Best /\ Best \in Accepted /\ \A d \in Accepted : d[2] <= Best[2]
      BY <1>1, <2>4, BestFacts DEF Reflect
    <3>2. Best \in Cands /\ Best[1] = gen /\ Complete(Best)
      BY <1>2, <3>1, <2>1 DEF Accepted, OfGen
    <3>3. \A d \in replayed : ~Before(prev', d)
      BY <1>2, <2>1, <2>2, <3>1, <3>2 DEF Before
    <3>4. prev' \in Cands /\ prev'[1] < gen' /\ Complete(prev')
      BY <1>1, <1>2, <3>1, <3>2
    <3> QED  BY <1>1, <1>3, <2>1, <3>3, <3>4 DEF ReflectInv
  <2> QED  BY <2>3, <2>4
<1>11. VersionInv'
  <2> SUFFICES ASSUME ~overlap PROVE VersionInv'
    BY <1>1 DEF VersionInv
  <2>1. ASSUME NEW c \in Cands, row'[c] # NoRow, NEW s \in Seeds
        PROVE  rec[<<c, s>>] \in {0, row'[c].src} /\ task[<<c, s>>] \in {0, row'[c].src}
    <3>1. CASE row'[c] = row[c]
      BY <2>1, <3>1 DEF IInv, VersionInv
    <3>2. CASE c \in GivenUp /\ row'[c].src = fresh[c]
      BY <1>2, <1>4, <3>2 DEF IInv, VersionInv
    <3> QED  BY <1>5, <3>1, <3>2
  <2>2. ~overlap' /\ UNCHANGED <<task, rec, seen, fresh>>
    BY <1>1
  <2> QED  BY <1>2, <2>1, <2>2 DEF IInv, VersionInv
<1> QED  BY <1>6, <1>8, <1>9, <1>10, <1>11 DEF Rest

--------------------------------------------------------------------------------
(***************************************************************************)
(* The theorems.                                                           *)
(***************************************************************************)

\* IInv is inductive.
LEMMA Step == IInv /\ [Next]_vars => IInv'
<1> SUFFICES ASSUME IInv, [Next]_vars PROVE TypeOK' /\ Rest'
  BY DEF IInv, Rest
<1> USE DEF IInv
<1>1. CASE Starts
  BY <1>1, LaunchTypes, Launches
<1>2. CASE CannotRefresh
  <2>1. <<1, 1>> \in Cands
    BY SearchAssumption DEF Cands
  <2> QED  BY <1>2, <2>1, LaunchTypes, Ends
<1>3. CASE Dies
  <2>1. <<1, 1>> \in Cands
    BY SearchAssumption DEF Cands
  <2> QED  BY <1>3, <2>1, EndTypes, Ends
<1>4. CASE Author
  <2> PICK c \in Cands : \/ Takes(c) \/ CapReached(c)
                         \/ \E gated, ledgered \in BOOLEAN : Writes(c, gated, ledgered)
    BY <1>4 DEF Author, Takes
  <2> QED  BY TakesTypes, TakesRest, EndTypes, Ends, WritesTypes, WritesRest
<1>5. CASE StartsBatch \/ Submits \/ BatchReturns
  BY <1>5, BatchTypes, BatchRest
<1>6. CASE \E U \in SUBSET Cands : Collects(U)
  BY <1>6, CollectsTypes, CollectsRest
<1>7. CASE Cluster \/ Pulls \/ UNCHANGED vars
  BY <1>7, ClusterTypes, ClusterRest
<1> QED  BY <1>1, <1>2, <1>3, <1>4, <1>5, <1>6, <1>7 DEF Next, Pass

LEMMA Inductive == Spec => []IInv
<1>1. Init => IInv
  BY InitTypes, InitRest DEF IInv, Rest
<1> QED  BY <1>1, Step, PTL DEF Spec

\* The search of an arm keeps its types: no pass leaves its generations, its cap of
\* author calls or its rounds.
THEOREM TypeCorrect == Spec => []TypeOK
<1>1. IInv => TypeOK
  BY DEF IInv
<1> QED  BY <1>1, Inductive, PTL

\* A search that is over has, for every candidate, all the records or a row, wherever
\* earlier passes died: the budgets of the arms match.
THEOREM SearchIsAccounted == Spec => []EveryoneAccounted
<1>1. IInv => EveryoneAccounted
  <2> SUFFICES ASSUME IInv, pc = "done", NEW c \in Cands PROVE Accounted(c)
    BY DEF EveryoneAccounted, Accounted
  <2>1. gen = NGens + 1
    BY DEF IInv, PlaceInv
  <2>2. c[1] < gen
    BY <2>1, Pairs
  <2> QED  BY <2>2 DEF IInv, AccountInv
<1> QED  BY <1>1, Inductive, PTL

\* The seeds of a candidate are of one source, as long as no pass started over queued
\* tasks or with records that its mirror lacked: partial archives, rows and new versions never mix.
THEOREM SeedsAreOfOneSource == Spec => []SeedsAgree
<1>1. IInv => SeedsAgree
  BY DEF IInv, VersionInv, SeedsAgree
<1> QED  BY <1>1, Inductive, PTL

\* What a step does to the candidates that are written and to the tasks.
LEMMA Moves ==
  ASSUME IInv, [Next]_vars
  PROVE  /\ \A c \in Cands : written'[c] # written[c] => \E g, l \in BOOLEAN : Writes(c, g, l)
         /\ \A x \in Runs : task[x] = 0 /\ task'[x] # 0 => Submits
<1>1. ASSUME UNCHANGED <<written, task>>
      PROVE  /\ \A c \in Cands : written'[c] = written[c]
             /\ \A x \in Runs : task'[x] = task[x]
  BY <1>1
<1>2. CASE \E d \in Cands, g, l \in BOOLEAN : Writes(d, g, l)
  <2> PICK d \in Cands, g \in BOOLEAN, l \in BOOLEAN : Writes(d, g, l)
    BY <1>2
  <2>1. \A c \in Cands \ {d} : written'[c] = written[c]
    BY DEF Writes, IInv, TypeOK
  <2>2. task' = task
    BY DEF Writes, cluster
  <2> QED  BY <2>1, <2>2
<1>3. CASE Cluster
  <2>1. written' = written
    BY <1>3 DEF Cluster, TaskEnds, history
  <2>2. \A x \in Runs : task'[x] \in {0, task[x]}
    BY <1>3 DEF Cluster, TaskEnds, IInv, TypeOK
  <2> QED  BY <2>1, <2>2
<1>4. CASE Submits
  BY <1>4 DEF Submits, history
<1>5. CASE /\ ~\E d \in Cands, g, l \in BOOLEAN : Writes(d, g, l)
           /\ ~Cluster /\ ~Submits
  <2>1. UNCHANGED <<written, task>>
    BY <1>5 DEF Next, Starts, Launch, CannotRefresh, Dies, Pass, Author, Replays, Reships, StaysFailed,
       ReusesSource, CapReached, StartsBatch, BatchReturns, Collects, Pulls, OtherPull, vars, cluster, history
  <2> QED  BY <1>1, <2>1
<1> QED  BY <1>2, <1>3, <1>4, <1>5

\* No candidate is paid for while it has a row, nor while a record of it was on the cluster
\* when the pass started, if a pull was made for that pass: P8 holds for every sequence of
\* deaths, and P11 wherever the shared pull does pull.
THEOREM CandidatesArePaidOnce == Spec => PaidOnce
<1>1. IInv /\ [Next]_vars =>
        [\A c \in Cands : written'[c] # written[c] =>
            row[c] = NoRow /\ (c \in had => behind)]_vars
  <2> SUFFICES ASSUME IInv, [Next]_vars, NEW c \in Cands, written'[c] # written[c]
               PROVE  row[c] = NoRow /\ (c \in had => behind)
    OBVIOUS
  <2>1. Turn(c) /\ rows[c] = NoRow /\ Archived(c) = {}
    BY Moves DEF Writes, Partial
  <2>2. Running /\ row[c] = rows[c]
    BY <2>1, TurnFacts
  <2> QED  BY <2>1, <2>2 DEF IInv, RowInv
<1> QED  BY <1>1, Inductive, PTL DEF Spec, PaidOnce

\* A source that a permanent row condemns never enters the queue again.
THEOREM CondemnedIsNeverQueued == Spec => CondemnedStaysOut
<1>1. IInv /\ [Next]_vars =>
        [\A x \in Runs : task[x] = 0 /\ task'[x] # 0 =>
            ~(row[x[1]].permanent /\ row[x[1]].src = task'[x])]_vars
  <2> SUFFICES ASSUME IInv, [Next]_vars, NEW x \in Runs, task[x] = 0, task'[x] # 0
               PROVE  ~(row[x[1]].permanent /\ row[x[1]].src = task'[x])
    OBVIOUS
  <2>1. Submits
    BY Moves
  <2>2. x \in Owed /\ task'[x] = fresh[x[1]]
    BY <2>1 DEF Submits
  <2>3. x[1] \in Cands /\ x[1][1] = gen /\ fresh[x[1]] # 0
    BY <2>2, Pairs DEF Owed, Specs, Fresh
  <2>4. Running
    BY <2>1 DEF Submits, Drained, Running
  <2> QED  BY <2>3, <2>4 DEF IInv, RowInv, NoRow
<1> QED  BY <1>1, Inductive, PTL DEF Spec, CondemnedStaysOut

\* A prompt reflects on a candidate of an earlier generation that has all its seeds, and
\* on none that a replayed one surpasses.
THEOREM PromptsReflectOnResults == Spec => ReflectsOnResults
<1>1. IInv /\ [Next]_vars =>
        [\A c \in Cands : written'[c] # written[c] =>
            /\ fed'[c] # NoCand => fed'[c][1] < c[1] /\ Complete(fed'[c])
            /\ \A d \in replayed : d[1] < c[1] => ~Before(fed'[c], d)]_vars
  <2> SUFFICES ASSUME IInv, [Next]_vars, NEW c \in Cands, written'[c] # written[c]
               PROVE  /\ fed'[c] # NoCand => fed'[c][1] < c[1] /\ Complete(fed'[c])
                      /\ \A d \in replayed : d[1] < c[1] => ~Before(fed'[c], d)
    OBVIOUS
  <2>1. Turn(c) /\ fed'[c] = prev
    BY Moves DEF Writes, IInv, TypeOK
  <2>2. Running /\ c[1] = gen
    BY <2>1, TurnFacts
  <2> QED  BY <2>1, <2>2 DEF IInv, ReflectInv
<1> QED  BY <1>1, Inductive, PTL DEF Spec, ReflectsOnResults

--------------------------------------------------------------------------------
(***************************************************************************)
(* A pass that is not killed goes on to its end.                           *)
(***************************************************************************)

\* The turn of c, with a way to take it: the author is called under the cap.
CanTake(c) ==
    /\ Turn(c)
    /\ \/ Complete(c) \/ rows[c] # NoRow \/ Partial(c)
       \/ calls = MaxCalls \/ (UnderCap /\ written[c] < MaxVersions)

\* The pass can go on by itself.
PassMoves ==
    \/ \E c \in Cands : CanTake(c)
    \/ pc = "author" /\ slot = PerGen + 1
    \/ Drained /\ (Settled \/ (Owed # {} /\ rounds < MaxRounds))
    \/ pc = "collect"

Queue == {x \in Runs : task[x] # 0}

\* No pass writes a candidate twice.
WrittenInv ==
    \A c \in Cands : /\ written[c] <= launches
                     /\ Running /\ Ahead(c) => written[c] < launches

LEMMA NextWritten == TypeOK /\ WrittenInv /\ [Next]_vars => WrittenInv'
<1> SUFFICES ASSUME TypeOK, WrittenInv, [Next]_vars, NEW d \in Cands
             PROVE  /\ written'[d] <= launches'
                    /\ Running' /\ Ahead(d)' => written'[d] < launches'
  BY DEF WrittenInv
<1>1. /\ written[d] \in Nat /\ launches \in Nat /\ written[d] <= launches
      /\ Running /\ Ahead(d) => written[d] < launches
      /\ gen \in Nat /\ slot \in Nat
  BY SearchAssumption DEF TypeOK, Versions, WrittenInv
<1>2. CASE Starts
  BY <1>1, <1>2 DEF Starts, Launch
<1>3. CASE CannotRefresh
  BY <1>1, <1>3 DEF CannotRefresh, history, Running
<1>4. ASSUME NEW c \in Cands, Dies \/ CapReached(c)
      PROVE  /\ written'[d] <= launches'
             /\ Running' /\ Ahead(d)' => written'[d] < launches'
  BY <1>1, <1>4 DEF Dies, CapReached, Over, history, Running
<1>5. ASSUME NEW c \in Cands, Takes(c)
      PROVE  /\ written'[d] <= launches'
             /\ Running' /\ Ahead(d)' => written'[d] < launches'
  <2>1. pc = "author" /\ pc' = pc /\ gen' = gen /\ slot' = slot + 1 /\ UNCHANGED <<written, launches>>
    BY <1>5 DEF Takes, Replays, Reships, StaysFailed, ReusesSource, Turn, history
  <2>2. Ahead(d)' => Ahead(d)
    BY <1>1, <2>1, Pairs DEF Ahead
  <2> QED  BY <1>1, <2>1, <2>2 DEF Running
<1>6. ASSUME NEW c \in Cands, NEW g \in BOOLEAN, NEW l \in BOOLEAN, Writes(c, g, l)
      PROVE  /\ written'[d] <= launches'
             /\ Running' /\ Ahead(d)' => written'[d] < launches'
  <2>1. /\ pc = "author" /\ pc' = pc /\ gen' = gen /\ slot' = slot + 1 /\ launches' = launches
        /\ c = <<gen, slot>> /\ written' = [written EXCEPT ![c] = @ + 1]
    BY <1>6 DEF Writes, Turn, Current
  <2>2. Ahead(d)' => Ahead(d) /\ d # c
    BY <1>1, <2>1, Pairs DEF Ahead
  <2>3. d # c => written'[d] = written[d]
    BY <2>1 DEF TypeOK
  <2>4. d = c => written'[d] = written[d] + 1 /\ Ahead(d)
    BY <1>1, <2>1, Pairs DEF TypeOK, Ahead
  <2> QED  BY <1>1, <2>1, <2>2, <2>3, <2>4 DEF Running
<1>7. CASE StartsBatch \/ Submits \/ BatchReturns
  <2>1. Running /\ UNCHANGED <<written, launches, gen, slot>>
    BY <1>7 DEF StartsBatch, Submits, BatchReturns, Drained, Running, history, place
  <2> QED  BY <1>1, <2>1 DEF Ahead
<1>8. ASSUME NEW U \in SUBSET Cands, Collects(U)
      PROVE  /\ written'[d] <= launches'
             /\ Running' /\ Ahead(d)' => written'[d] < launches'
  <2>1. pc = "collect" /\ gen' = gen + 1 /\ UNCHANGED <<written, launches>>
    BY <1>8 DEF Collects
  <2>2. Ahead(d)' => Ahead(d)
    BY <1>1, <2>1, Pairs DEF Ahead
  <2> QED  BY <1>1, <2>1, <2>2 DEF Running
<1>9. CASE Cluster \/ Pulls \/ UNCHANGED vars
  <2>1. UNCHANGED <<pc, gen, slot, written, launches>>
    BY <1>9 DEF Cluster, TaskEnds, Pulls, OtherPull, vars, place, history
  <2> QED  BY <1>1, <2>1 DEF Running, Ahead
<1> QED
  <2>1. <<1, 1>> \in Cands
    BY SearchAssumption DEF Cands
  <2>2. Author => \E c \in Cands : \/ Takes(c) \/ CapReached(c)
                                   \/ \E g, l \in BOOLEAN : Writes(c, g, l)
    BY DEF Author, Takes
  <2> QED  BY <1>2, <1>3, <1>4, <1>5, <1>6, <1>7, <1>8, <1>9, <2>1, <2>2 DEF Next, Pass

\* A pass never hangs: when it cannot go on by itself, a task is under way.  No way to take a candidate is missing, and a batch
\* has always something to submit or something to return.
THEOREM PassNeverHangs ==
  MaxLaunches <= MaxVersions => (Spec => [](Running => PassMoves \/ Queue # {}))
<1> SUFFICES ASSUME MaxLaunches <= MaxVersions
             PROVE  Spec => [](Running => PassMoves \/ Queue # {})
  OBVIOUS
<1>1. Init => WrittenInv
  BY SearchAssumption DEF Init, WrittenInv, Running
<1>2. IInv /\ WrittenInv => (Running => PassMoves \/ Queue # {})
  <2> SUFFICES ASSUME IInv, WrittenInv, Running, Queue = {}
               PROVE  PassMoves
    OBVIOUS
  <2> USE SearchAssumption DEF IInv, TypeOK
  <2>1. CASE pc = "author" /\ slot <= PerGen
    <3> DEFINE c == <<gen, slot>>
    <3>1. c \in Cands /\ Turn(c) /\ Ahead(c)
      BY <2>1 DEF PlaceInv, Cands, Turn, Current, Ahead
    <3>2. written[c] < launches
      BY <3>1 DEF WrittenInv
    <3>3. written[c] < MaxVersions
      <4>1. written[c] \in Nat
        BY <3>1 DEF Versions
      <4> QED  BY <3>2, <4>1
    <3>4. calls = MaxCalls \/ UnderCap
      BY DEF UnderCap
    <3> QED  BY <3>1, <3>3, <3>4 DEF PassMoves, CanTake
  <2>2. CASE pc = "author" /\ slot = PerGen + 1
    BY <2>2 DEF PassMoves
  <2>3. CASE pc = "batch"
    <3>1. Drained
      BY <2>3 DEF Queue, Queued, Runs, Drained
    <3>2. Owed # {} /\ rounds # MaxRounds => rounds < MaxRounds
      OBVIOUS
    <3> QED  BY <3>1, <3>2 DEF PassMoves, Settled
  <2>4. CASE pc = "collect"
    BY <2>4 DEF PassMoves
  <2>5. pc = "author" => slot <= PerGen \/ slot = PerGen + 1
    OBVIOUS
  <2> QED  BY <2>1, <2>2, <2>3, <2>4, <2>5 DEF Running
<1>3. IInv => TypeOK
  BY DEF IInv
<1> QED  BY <1>1, <1>2, <1>3, NextWritten, Inductive, PTL DEF Spec

(***************************************************************************)
(* What a pass has left to do, as one number: the stages of its generation *)
(* and of those to come, each worth more than the tasks of all runs, their *)
(* ends and their pulls.                                                   *)
(***************************************************************************)
GenLength == PerGen + MaxRounds + 3
Stage == IF pc = "author" THEN (PerGen + 1 - slot) + MaxRounds + 3
         ELSE IF pc = "batch" THEN (MaxRounds - rounds) + 2
         ELSE 1
PassLeft == IF Running THEN GenLength * (NGens - gen) + Stage ELSE 0

Errands == 2 * Cardinality(Queue) + Cardinality(Late)

Work == (2 * Cardinality(Runs) + 1) * PassLeft + Errands

LEMMA QueueSizes ==
  /\ IsFiniteSet(Runs) /\ Cardinality(Runs) \in Nat
  /\ \A S \in SUBSET Runs : /\ IsFiniteSet(S) /\ Cardinality(S) \in Nat
                            /\ Cardinality(S) <= Cardinality(Runs)
<1>1. IsFiniteSet(1..NGens) /\ IsFiniteSet(1..PerGen) /\ IsFiniteSet(Seeds)
  BY SearchAssumption, FS_Interval DEF Seeds
<1>2. IsFiniteSet(Cands)
  BY <1>1, FS_Product DEF Cands
<1>3. IsFiniteSet(Runs)
  BY <1>1, <1>2, FS_Product DEF Runs
<1> QED  BY <1>3, FS_Subset, FS_CardinalityType

LEMMA StageSizes ==
  ASSUME TypeOK, PlaceInv
  PROVE  /\ Errands \in Nat /\ Cardinality(Queue) \in Nat /\ Cardinality(Late) \in Nat
         /\ GenLength \in Nat /\ PassLeft \in Nat
         /\ Running => Stage \in 1..GenLength /\ NGens - gen \in Nat /\ PassLeft >= 1
<1> USE SearchAssumption DEF TypeOK
<1>1. Cardinality(Queue) \in Nat /\ Cardinality(Late) \in Nat
  BY QueueSizes DEF Queue, Late
<1>2. Errands \in Nat
  BY <1>1 DEF Errands
<1>3. GenLength \in Nat
  BY DEF GenLength
<1>4. Running => Stage \in 1..GenLength /\ NGens - gen \in Nat
  BY DEF Running, Stage, GenLength, PlaceInv
<1>5. Running => PassLeft \in Nat /\ PassLeft >= 1
  <2> SUFFICES ASSUME Running PROVE PassLeft \in Nat /\ PassLeft >= 1
    OBVIOUS
  <2>1. GenLength * (NGens - gen) \in Nat
    BY <1>3, <1>4
  <2> QED  BY <1>4, <2>1 DEF PassLeft
<1> QED  BY <1>1, <1>2, <1>3, <1>4, <1>5 DEF PassLeft

LEMMA StageSizesNext ==
  ASSUME TypeOK', PlaceInv'
  PROVE  /\ Errands' \in Nat /\ Cardinality(Queue') \in Nat /\ Cardinality(Late') \in Nat
         /\ PassLeft' \in Nat
<1> USE SearchAssumption DEF TypeOK
<1>1. Cardinality(Queue') \in Nat
  <2>1. Queue' \in SUBSET Runs
    BY DEF Queue
  <2> QED  BY <2>1, QueueSizes
<1>2. Cardinality(Late') \in Nat
  <2>1. Late' \in SUBSET Runs
    BY DEF Late
  <2> QED  BY <2>1, QueueSizes
<1>3. Errands' \in Nat
  BY <1>1, <1>2 DEF Errands
<1>4. GenLength \in Nat
  BY DEF GenLength
<1>5. Stage' \in Nat
  <2>1. /\ \A q \in 1..(PerGen + 1) : (PerGen + 1 - q) + MaxRounds + 3 \in Nat
        /\ \A q \in 0..MaxRounds : (MaxRounds - q) + 2 \in Nat
    OBVIOUS
  <2>2. slot' \in 1..(PerGen + 1) /\ rounds' \in 0..MaxRounds
    OBVIOUS
  <2>3. /\ (PerGen + 1 - slot') + MaxRounds + 3 \in Nat
        /\ (MaxRounds - rounds') + 2 \in Nat
    BY <2>1, <2>2, Zenon
  <2>4. 1 \in Nat
    OBVIOUS
  <2> HIDE DEF TypeOK
  <2> QED  BY <2>3, <2>4, Zenon DEF Stage
<1>6. Running' => NGens - gen' \in Nat
  <2>1. \A g \in 1..NGens : NGens - g \in Nat
    OBVIOUS
  <2>2. Running' => gen' \in 1..NGens
    BY DEF PlaceInv
  <2> QED  BY <2>1, <2>2, Zenon
<1>7. Running' => PassLeft' \in Nat
  <2> SUFFICES ASSUME Running' PROVE PassLeft' \in Nat
    OBVIOUS
  <2>1. \A k, n, m \in Nat : k * n + m \in Nat
    OBVIOUS
  <2>2. PassLeft' = GenLength * (NGens - gen') + Stage'
    BY DEF PassLeft, GenLength
  <2>3. GenLength * (NGens - gen') + Stage' \in Nat
    BY <1>4, <1>5, <1>6, <2>1, Zenon
  <2> QED  BY <2>2, <2>3
<1> QED  BY <1>1, <1>2, <1>3, <1>7 DEF PassLeft

\* The first number falls, and the second rises by no more than it is worth.
LEMMA Descends ==
  ASSUME NEW r \in Nat, NEW u \in Nat, NEW v \in Nat, NEW a \in Int, NEW b \in Int,
         (v = u /\ b < a) \/ (v < u /\ b <= a + r)
  PROVE  (r + 1) * v + b < (r + 1) * u + a
<1>1. CASE v = u /\ b < a
  BY <1>1
<1>2. CASE v < u /\ b <= a + r
  <2>1. PICK w \in Nat : u = v + 1 + w
    <3>1. u - v - 1 \in Nat /\ u = v + 1 + (u - v - 1)
      BY <1>2
    <3> QED  BY <3>1
  <2>2. (r + 1) * u = (r + 1) * v + (r + 1) + (r + 1) * w
    BY <2>1
  <2>3. (r + 1) * w \in Nat /\ (r + 1) * v \in Nat
    OBVIOUS
  <2> QED  BY <1>2, <2>2, <2>3
<1> QED  BY <1>1, <1>2

\* The steps of the pass: a stage is over, or a round is used up for the tasks of the
\* runs that it queues.
LEMMA PassSteps ==
  ASSUME TypeOK, PlaceInv, TypeOK', PlaceInv', Running, Dies \/ Pass
  PROVE  PassLeft' < PassLeft /\ Errands' <= Errands + 2 * Cardinality(Runs)
<1> USE SearchAssumption
<1>1. ASSUME UNCHANGED <<task, rec, rejects, seen, marked>>
      PROVE  Errands' <= Errands + 2 * Cardinality(Runs)
  <2>1. Errands' = Errands
    BY <1>1 DEF Errands, Queue, Late
  <2> QED  BY <2>1, StageSizes, QueueSizes
<1>2. ASSUME NEW c \in Cands, Dies \/ CapReached(c)
      PROVE  PassLeft' < PassLeft /\ Errands' <= Errands + 2 * Cardinality(Runs)
  <2>1. pc' = "down" /\ UNCHANGED <<task, rec, rejects, seen, marked>>
    BY <1>2 DEF Dies, CapReached, Over, cluster, disk
  <2>2. PassLeft' = 0
    BY <2>1 DEF PassLeft, Running
  <2> QED  BY <1>1, <2>1, <2>2, StageSizes
<1>3. ASSUME Stage' \in Nat, Stage' < Stage, gen' = gen, Running'
      PROVE  PassLeft' < PassLeft
  <2>1. PassLeft' = GenLength * (NGens - gen) + Stage'
    BY <1>3 DEF PassLeft, GenLength
  <2>2. PassLeft = GenLength * (NGens - gen) + Stage
    BY DEF PassLeft
  <2>3. GenLength * (NGens - gen) \in Nat /\ Stage \in Nat
    BY StageSizes
  <2> QED  BY <1>3, <2>1, <2>2, <2>3
<1>4. ASSUME NEW c \in Cands,
             Takes(c) \/ \E g, l \in BOOLEAN : Writes(c, g, l)
      PROVE  PassLeft' < PassLeft /\ Errands' <= Errands + 2 * Cardinality(Runs)
  <2>1. /\ pc = "author" /\ pc' = pc /\ gen' = gen /\ slot' = slot + 1 /\ slot <= PerGen
        /\ UNCHANGED <<task, rec, rejects, seen, marked>>
    BY <1>4 DEF Takes, Replays, Reships, StaysFailed, ReusesSource, Writes, Turn, cluster, disk
  <2>2. Stage' \in Nat /\ Stage' < Stage
    BY <2>1 DEF TypeOK, Stage
  <2> QED  BY <1>1, <1>3, <2>1, <2>2 DEF Running
<1>5. CASE StartsBatch \/ BatchReturns
  <2>1. /\ gen' = gen /\ UNCHANGED <<task, rec, rejects, seen, marked>>
        /\ \/ pc = "author" /\ slot = PerGen + 1 /\ pc' = "batch" /\ rounds' = 0
           \/ pc = "author" /\ slot = PerGen + 1 /\ pc' = "collect"
           \/ pc = "batch" /\ pc' = "collect"
    BY <1>5 DEF StartsBatch, BatchReturns, Drained, cluster, disk
  <2>2. slot \in Nat /\ rounds \in 0..MaxRounds /\ MaxRounds \in Nat /\ PerGen \in Nat
    BY DEF TypeOK
  <2>3. ASSUME pc = "author" /\ slot = PerGen + 1 /\ pc' = "batch" /\ rounds' = 0
        PROVE  Stage' \in Nat /\ Stage' < Stage
    <3>1. Stage = MaxRounds + 3 /\ Stage' = MaxRounds + 2
      BY <2>2, <2>3 DEF Stage
    <3> QED  BY <2>2, <3>1
  <2>4. ASSUME pc = "author" /\ slot = PerGen + 1 /\ pc' = "collect"
        PROVE  Stage' \in Nat /\ Stage' < Stage
    <3>1. Stage = MaxRounds + 3 /\ Stage' = 1
      BY <2>2, <2>4 DEF Stage
    <3> QED  BY <2>2, <3>1
  <2>5. ASSUME pc = "batch" /\ pc' = "collect"
        PROVE  Stage' \in Nat /\ Stage' < Stage
    <3>1. Stage = (MaxRounds - rounds) + 2 /\ Stage' = 1
      BY <2>2, <2>5 DEF Stage
    <3> QED  BY <2>2, <3>1
  <2>6. Stage' \in Nat /\ Stage' < Stage
    BY <2>1, <2>3, <2>4, <2>5
  <2>7. Running'
    BY <2>1 DEF Running
  <2> QED  BY <1>1, <1>3, <2>1, <2>6, <2>7
<1>6. CASE Submits
  <2>1. /\ pc = "batch" /\ UNCHANGED <<pc, gen, rec, rejects, seen, marked>> /\ rounds' = rounds + 1
        /\ rounds < MaxRounds
    BY <1>6 DEF Submits, Drained, place, disk
  <2>2. Stage' \in Nat /\ Stage' < Stage
    BY <2>1 DEF TypeOK, Stage
  <2>3. Cardinality(Queue') <= Cardinality(Runs)
    <3>1. Queue' \in SUBSET Runs
      BY DEF Queue
    <3> QED  BY <3>1, QueueSizes
  <2>4. Late' = Late
    BY <2>1 DEF Late
  <2>5. Errands' <= Errands + 2 * Cardinality(Runs)
    BY <2>3, <2>4, StageSizes, StageSizesNext, QueueSizes DEF Errands
  <2> QED  BY <1>3, <2>1, <2>2, <2>5 DEF Running
<1>7. ASSUME NEW U \in SUBSET Cands, Collects(U)
      PROVE  PassLeft' < PassLeft /\ Errands' <= Errands + 2 * Cardinality(Runs)
  <2>1. /\ pc = "collect" /\ pc' = (IF gen = NGens THEN "done" ELSE "author")
        /\ gen' = gen + 1 /\ slot' = 1 /\ UNCHANGED <<task, rec, rejects, seen, marked>>
    BY <1>7 DEF Collects, cluster
  <2>2. PassLeft = GenLength * (NGens - gen) + 1
    BY <2>1 DEF PassLeft, Stage
  <2>3. CASE gen = NGens
    <3>1. PassLeft' = 0
      BY <2>1, <2>3 DEF PassLeft, Running
    <3> QED  BY <1>1, <2>1, <3>1, StageSizes
  <2>4. CASE gen # NGens
    <3>1. PassLeft' = GenLength * (NGens - (gen + 1)) + Stage'
      BY <2>1, <2>4 DEF PassLeft, Running, GenLength
    <3>2. Stage' = GenLength
      BY <2>1, <2>4 DEF Stage, GenLength
    <3>3. NGens - gen \in Nat /\ NGens - (gen + 1) \in Nat /\ NGens - (gen + 1) < NGens - gen
      BY <2>4 DEF TypeOK, PlaceInv
    <3>4. GenLength \in Nat /\ GenLength - 1 \in Nat
      BY DEF GenLength
    <3>5. PassLeft' < PassLeft
      BY <2>2, <3>1, <3>2, <3>3, <3>4, Descends
    <3> QED  BY <1>1, <2>1, <3>5
  <2> QED  BY <2>3, <2>4
<1> QED
  <2>1. <<1, 1>> \in Cands
    BY DEF Cands
  <2> QED  BY <1>2, <1>4, <1>5, <1>6, <1>7, <2>1 DEF Pass, Author, Takes

\* A task that ends leaves at most one run to be pulled, a pull leaves fewer.
LEMMA ErrandSteps ==
  ASSUME TypeOK, PlaceInv, TypeOK', PlaceInv', Running, Cluster \/ Pulls
  PROVE  PassLeft' = PassLeft /\ Errands' < Errands
<1>0. Late \in SUBSET Runs /\ IsFiniteSet(Late)
  BY QueueSizes DEF Late
<1>1. ASSUME NEW S \in SUBSET Late, OtherPull(S)
      PROVE  PassLeft' = PassLeft /\ Errands' < Errands
  <2>1. /\ S # {} /\ UNCHANGED <<task, rec, rejects, pc, gen, slot, rounds>>
        /\ seen' = [x \in Runs |-> IF x \in S THEN rec[x] ELSE seen[x]]
        /\ marked' = marked \cup (S \cap rejects)
    BY <1>1 DEF OtherPull, cluster, place, memory
  <2>2. PassLeft' = PassLeft /\ Queue' = Queue
    BY <2>1 DEF PassLeft, Running, Stage, GenLength, Queue
  <2>3. Late' = Late \ S
    BY <2>1 DEF Late
  <2>4. PICK x \in S : TRUE
    BY <2>1
  <2>5. Late \ S \subseteq Late \ {x} /\ IsFiniteSet(Late \ {x})
    BY <1>0, FS_Subset
  <2>6. Cardinality(Late \ {x}) = Cardinality(Late) - 1
    BY <1>0, FS_RemoveElement
  <2>7. Cardinality(Late \ S) <= Cardinality(Late \ {x})
    BY <2>5, FS_Subset
  <2>8. Cardinality(Late') = Cardinality(Late \ S)
    BY <2>3
  <2> QED  BY <2>2, <2>6, <2>7, <2>8, StageSizes, StageSizesNext DEF Errands
<1>2. ASSUME NEW x \in Runs, NEW how \in {"archived", "rejected", "dead"}, TaskEnds(x, how)
      PROVE  PassLeft' = PassLeft /\ Errands' < Errands
  <2>1. /\ task[x] # 0 /\ task' = [task EXCEPT ![x] = 0]
        /\ UNCHANGED <<pc, gen, slot, rounds, seen, marked>>
    BY <1>2 DEF TaskEnds, place, memory, disk
  <2>2. PassLeft' = PassLeft
    BY <2>1 DEF PassLeft, Running, Stage, GenLength
  <2>3. Queue' = Queue \ {x} /\ x \in Queue /\ Queue \in SUBSET Runs
    BY <2>1 DEF Queue, TypeOK
  <2>4. Cardinality(Queue \ {x}) = Cardinality(Queue) - 1
    BY <2>3, QueueSizes, FS_RemoveElement
  <2>5. Cardinality(Queue') = Cardinality(Queue) - 1
    BY <2>3, <2>4
  <2>6. Late' \subseteq Late \cup {x}
    BY <1>2, <2>1 DEF TaskEnds, Late, TypeOK
  <2>7. IsFiniteSet(Late \cup {x}) /\ Cardinality(Late \cup {x}) <= Cardinality(Late) + 1
    <3>1. x \in Late => Late \cup {x} = Late
      OBVIOUS
    <3>2. x \notin Late => Cardinality(Late \cup {x}) = Cardinality(Late) + 1
      BY <1>0, FS_AddElement
    <3> QED  BY <1>0, <3>1, <3>2, FS_AddElement, StageSizes
  <2>8. Cardinality(Late') <= Cardinality(Late \cup {x})
    BY <2>6, <2>7, FS_Subset
  <2>9. Cardinality(Late \cup {x}) \in Nat
    BY <2>7, FS_CardinalityType
  <2> QED  BY <2>2, <2>5, <2>7, <2>8, <2>9, StageSizes, StageSizesNext DEF Errands
<1> QED  BY <1>1, <1>2 DEF Cluster, Pulls

\* With every step of anyone, a running pass comes nearer to its end: what it has left is
\* a number that falls, whatever dies, is rejected or has to be requeued on the way.
THEOREM PassAdvances ==
  Spec => [](Work \in Nat) /\ [][Running => Work' < Work]_vars
<1>1. IInv => Work \in Nat
  <2> SUFFICES ASSUME IInv PROVE Work \in Nat
    OBVIOUS
  <2>1. /\ PassLeft \in Nat /\ Errands \in Nat /\ Cardinality(Runs) \in Nat
    BY StageSizes, QueueSizes DEF IInv
  <2>2. (2 * Cardinality(Runs) + 1) * PassLeft \in Nat
    BY <2>1
  <2> QED  BY <2>1, <2>2 DEF Work
<1>2. IInv /\ IInv' /\ [Next]_vars => [Running => Work' < Work]_vars
  <2> SUFFICES ASSUME IInv, IInv', Next, Running
               PROVE  Work' < Work
    OBVIOUS
  <2> USE DEF IInv
  <2>1. Dies \/ Pass \/ Cluster \/ Pulls
    BY DEF Next, Starts, Launch, CannotRefresh, Running
  <2> HIDE DEF Running
  <2>2. /\ PassLeft \in Nat /\ PassLeft' \in Nat /\ Errands \in Nat /\ Errands' \in Nat
        /\ Cardinality(Runs) \in Nat /\ 2 * Cardinality(Runs) \in Nat
    BY StageSizes, StageSizesNext, QueueSizes
  <2>3. \/ PassLeft' = PassLeft /\ Errands' < Errands
        \/ PassLeft' < PassLeft /\ Errands' <= Errands + 2 * Cardinality(Runs)
    BY <2>1, PassSteps, ErrandSteps
  <2>4. (2 * Cardinality(Runs) + 1) * PassLeft' + Errands'
          < (2 * Cardinality(Runs) + 1) * PassLeft + Errands
    BY <2>2, <2>3, Descends
  <2> QED  BY <2>4 DEF Work
<1> QED  BY <1>1, <1>2, Inductive, PTL DEF Spec
================================================================================
