------------------------------- MODULE SearchArm -------------------------------
(***************************************************************************)
(* The search of one LLM arm, src/cluster/campaign.py: run_search_arm.     *)
(* Generation by generation, candidates are written (and billed), trained  *)
(* on the cluster as one batch, k seeds each, and the best of a generation *)
(* is what the prompts of the next reflect on.  A pass may die anywhere;   *)
(* the next one replays, resubmits or writes again what it finds on disk.  *)
(*                                                                         *)
(*   cluster  task, rec, rejects     (go on without the driver)            *)
(*   disk     seen, marked, row      (the mirror and the failure ledger)   *)
(*   memory   pc, gen, slot, rows, fresh, replayed, failed, prev, rounds   *)
(***************************************************************************)
EXTENDS Naturals, FiniteSets

CONSTANTS
    NGens,        \* generations
    PerGen,       \* candidates of a generation
    NSeeds,       \* search_seeds_per_candidate
    MaxRounds,    \* submissions of a batch: one and its requeues
    MaxCalls,     \* max_author_calls of a process
    OldRuns,      \* runs with a record of another training budget
    MaxVersions,  \* bound: times one candidate is written
    MaxLaunches   \* bound: passes

Cands == (1..NGens) \X (1..PerGen)
Seeds == 1..NSeeds
Runs  == Cands \X Seeds

ASSUME SearchAssumption ==
    /\ NGens \in Nat \ {0} /\ PerGen \in Nat \ {0} /\ NSeeds \in Nat \ {0}
    /\ MaxRounds \in Nat \ {0} /\ MaxCalls \in Nat
    /\ OldRuns \subseteq Runs
    /\ MaxVersions \in Nat \ {0} /\ MaxLaunches \in Nat \ {0}

(***************************************************************************)
(* A version of a candidate is one source that was written for it; version *)
(* 0 is none.  The score of a candidate is abstracted to its place: later  *)
(* ones of a generation are better.                                        *)
(***************************************************************************)
Versions == 0..MaxVersions
NoCand   == <<0, 0>>
Before(c, d) == c[1] < d[1] \/ (c[1] = d[1] /\ c[2] < d[2])
Row      == [src : Versions, permanent : BOOLEAN]
NoRow    == [src |-> 0, permanent |-> FALSE]

VARIABLES
    written,      \* written[c]: versions paid for, ever
    task,         \* task[x]: the version queued or running for run x
    rec,          \* rec[x]: the version of x's record on the cluster
    rejects,      \* runs with a permanent reject marker
    seen,         \* seen[x]: the version of x's record in the mirror
    marked,       \* runs with a permanent reject marker in the mirror
    row,          \* row[c]: the last row of c in failures.jsonl
    pc, gen, slot,
    calls,        \* author calls of this process
    rows,         \* cached_failures: the rows when the pass started
    fresh,        \* fresh[c]: the version to train in this generation
    replayed,     \* candidates taken from the archive
    failed,       \* candidates counted as failed
    prev,         \* the candidate prev_block is about
    rounds,       \* submissions of the batch
    launches,
    had,          \* history: candidates with a record when the pass started
    behind,       \* history: the pass was answered a pull that was not made for it
    lost,         \* history: candidates of which a row could not be written
    overlap,      \* history: a pass started with tasks queued or records to come
    fed           \* history: fed[c]: what the last prompt for c reflected on

cluster == <<task, rec, rejects>>
disk    == <<seen, marked, row>>
place   == <<pc, gen, slot>>
memory  == <<calls, rows, fresh, replayed, failed, prev, rounds>>
history == <<written, had, behind, lost, overlap, fed>>
vars    == <<cluster, disk, place, memory, launches, history>>

TypeOK ==
    /\ written \in [Cands -> Versions]
    /\ task \in [Runs -> Versions]
    /\ rec \in [Runs -> Versions]
    /\ rejects \subseteq Runs /\ marked \subseteq Runs
    /\ seen \in [Runs -> Versions]
    /\ row \in [Cands -> Row] /\ rows \in [Cands -> Row]
    /\ pc \in {"down", "author", "batch", "collect", "done"}
    /\ gen \in 1..(NGens + 1) /\ slot \in 1..(PerGen + 1)
    /\ calls \in 0..MaxCalls
    /\ fresh \in [Cands -> Versions]
    /\ replayed \subseteq Cands /\ failed \subseteq Cands
    /\ prev \in Cands \cup {NoCand}
    /\ rounds \in 0..MaxRounds
    /\ launches \in 0..MaxLaunches
    /\ had \subseteq Cands /\ lost \subseteq Cands
    /\ behind \in BOOLEAN /\ overlap \in BOOLEAN
    /\ fed \in [Cands -> Cands \cup {NoCand}]

\* The memory of a pass that starts, and of none.
Blank ==
    /\ gen' = 1 /\ slot' = 1 /\ calls' = 0
    /\ fresh' = [c \in Cands |-> 0]
    /\ replayed' = {} /\ failed' = {}
    /\ prev' = NoCand /\ rounds' = 0

Init ==
    /\ written = [c \in Cands |-> 0]
    /\ task = [x \in Runs |-> 0] /\ rec = [x \in Runs |-> 0]
    /\ rejects = {} /\ marked = {}
    /\ seen = [x \in Runs |-> 0]
    /\ row = [c \in Cands |-> NoRow] /\ rows = row
    /\ pc = "down" /\ gen = 1 /\ slot = 1 /\ calls = 0
    /\ fresh = [c \in Cands |-> 0]
    /\ replayed = {} /\ failed = {}
    /\ prev = NoCand /\ rounds = 0 /\ launches = 0
    /\ had = {} /\ behind = FALSE /\ lost = {} /\ overlap = FALSE
    /\ fed = [c \in Cands |-> NoCand]

--------------------------------------------------------------------------------
(***************************************************************************)
(* The cluster, and the mirror that any line's pull refreshes.             *)
(***************************************************************************)

\* A task ends: archived, unless the run has a record already; rejected for
\* good; or dead, to be submitted again if the batch has a round left.
TaskEnds(x, how) ==
    /\ task[x] # 0
    /\ task' = [task EXCEPT ![x] = 0]
    /\ rec' = IF how = "archived" /\ rec[x] = 0 /\ x \notin OldRuns
              THEN [rec EXCEPT ![x] = task[x]] ELSE rec
    /\ rejects' = IF how = "rejected" /\ rec[x] = 0 /\ x \notin OldRuns
                  THEN rejects \cup {x} ELSE rejects
    /\ UNCHANGED <<disk, place, memory, launches, history>>

\* Runs of which the mirror lacks what the cluster has.
Late == {x \in Runs : seen[x] # rec[x] \/ x \in rejects \ marked}

\* A pull of this arm or of another brings some of it: chunk by chunk.
OtherPull(S) ==
    /\ S # {}
    /\ seen' = [x \in Runs |-> IF x \in S THEN rec[x] ELSE seen[x]]
    /\ marked' = marked \cup (S \cap rejects)
    /\ UNCHANGED <<cluster, row, place, memory, launches, history>>

--------------------------------------------------------------------------------
(***************************************************************************)
(* A pass starts, and dies.                                                *)
(***************************************************************************)

\* Mutant: the resumed pass trusts the mirror it finds.
StaleMirror == seen
\* P11: the mirror is refreshed before anything is decided from it.
FreshMirror == rec

\* The refresh of a pass that resumes is run.pull, the pull that the lines share: it
\* pulls, or is answered a success at once, because another line is pulling or has
\* pulled less than min_pull_interval ago.
Launch(how) ==
    /\ pc \in {"down", "done"}
    /\ launches < MaxLaunches
    /\ launches' = launches + 1
    /\ Blank
    /\ pc' = "author"
    /\ seen' = IF how = "pulled" THEN FreshMirror ELSE seen
    /\ marked' = IF how = "pulled" THEN rejects ELSE marked
    /\ rows' = row
    /\ had' = {c \in Cands : \E s \in Seeds : rec[<<c, s>>] # 0}
    /\ behind' = (how = "cached")
    /\ overlap' = (overlap \/ (\E x \in Runs : task[x] # 0) \/ (how = "cached" /\ seen # rec))
    /\ UNCHANGED <<cluster, row, written, lost, fed>>

\* Three pulls failed: the arm fails rather than resume on a stale mirror.
CannotRefresh ==
    /\ pc \in {"down", "done"}
    /\ launches < MaxLaunches
    /\ launches' = launches + 1
    /\ pc' = "down"
    /\ UNCHANGED <<cluster, disk, gen, slot, memory, history>>

Over == Blank /\ pc' = "down" /\ rows' = [c \in Cands |-> NoRow]

\* The process dies, or the arm's thread raises: an API outage that lasts, a
\* lock that is held, an incident, a wall limit.
Dies ==
    /\ pc \in {"author", "batch", "collect"}
    /\ Over
    /\ UNCHANGED <<cluster, disk, launches, history>>

--------------------------------------------------------------------------------
(***************************************************************************)
(* One candidate after the other: where its source comes from.             *)
(***************************************************************************)
Current == <<gen, slot>>

\* _read_candidate: every seed has a record in the mirror.
Complete(c) == \A s \in Seeds : seen[<<c, s>>] # 0

\* _archived_source: the source of the first seed that has a record.
Archived(c) == {s \in Seeds : seen[<<c, s>>] # 0}
ArchivedSource(c) ==
    seen[<<c, CHOOSE s \in Archived(c) : \A t \in Archived(c) : s <= t>>]

Turn(c) == pc = "author" /\ slot <= PerGen /\ c = Current

Replays(c) ==
    /\ Turn(c) /\ Complete(c)
    /\ slot' = slot + 1
    /\ replayed' = replayed \cup {c}
    /\ UNCHANGED <<cluster, disk, pc, gen, calls, rows, fresh, failed, prev, rounds,
                   launches, history>>

\* Mutant: P8 is forgotten, a permanent row is shipped like any other.
AnyRow(c) == rows[c].src # 0
Reshippable(c) == rows[c].src # 0 /\ ~rows[c].permanent

Reships(c) ==
    /\ Turn(c) /\ ~Complete(c) /\ rows[c] # NoRow
    /\ Reshippable(c)
    /\ slot' = slot + 1
    /\ fresh' = [fresh EXCEPT ![c] = rows[c].src]
    /\ UNCHANGED <<cluster, disk, pc, gen, calls, rows, replayed, failed, prev, rounds,
                   launches, history>>

StaysFailed(c) ==
    /\ Turn(c) /\ ~Complete(c) /\ rows[c] # NoRow
    /\ ~Reshippable(c)
    /\ slot' = slot + 1
    /\ failed' = failed \cup {c}
    /\ UNCHANGED <<cluster, disk, pc, gen, calls, rows, fresh, replayed, prev, rounds,
                   launches, history>>

\* Mutant: a candidate with some of its seeds is written again.
NeverPartial(c) == FALSE
Partial(c) == Archived(c) # {}

ReusesSource(c) ==
    /\ Turn(c) /\ ~Complete(c) /\ rows[c] = NoRow
    /\ Partial(c)
    /\ slot' = slot + 1
    /\ fresh' = [fresh EXCEPT ![c] = ArchivedSource(c)]
    /\ UNCHANGED <<cluster, disk, pc, gen, calls, rows, replayed, failed, prev, rounds,
                   launches, history>>

\* spend_guard.
UnderCap == calls < MaxCalls

\* The author is called, under the spend cap, with a prompt on prev_block; the
\* gate takes the source, or the candidate fails for good.
Writes(c, gated, ledgered) ==
    /\ Turn(c) /\ ~Complete(c) /\ rows[c] = NoRow
    /\ ~Partial(c)
    /\ UnderCap /\ written[c] < MaxVersions
    /\ slot' = slot + 1
    /\ calls' = calls + 1
    /\ written' = [written EXCEPT ![c] = @ + 1]
    /\ fed' = [fed EXCEPT ![c] = prev]
    /\ IF gated
       THEN /\ fresh' = [fresh EXCEPT ![c] = written[c] + 1]
            /\ UNCHANGED <<failed, row, lost>>
       ELSE /\ failed' = failed \cup {c}
            /\ row' = IF ledgered
                      THEN [row EXCEPT ![c] = [src |-> written[c] + 1, permanent |-> TRUE]]
                      ELSE row
            /\ lost' = IF ledgered THEN lost ELSE lost \cup {c}
            /\ fresh' = fresh
    /\ UNCHANGED <<cluster, seen, marked, pc, gen, rows, replayed, prev, rounds, launches,
                   had, behind, overlap>>

\* The spend cap is reached: the guard raises.
CapReached(c) ==
    /\ Turn(c) /\ ~Complete(c) /\ rows[c] = NoRow /\ ~Partial(c)
    /\ calls = MaxCalls
    /\ Over
    /\ UNCHANGED <<cluster, disk, launches, history>>

--------------------------------------------------------------------------------
(***************************************************************************)
(* The batch of the generation, run_batch: it adopts what is in the queue  *)
(* by name, submits what has no record, and returns when every spec has a  *)
(* record or is given up.                                                  *)
(***************************************************************************)
Fresh  == {c \in Cands : c[1] = gen /\ fresh[c] # 0}
Specs  == Fresh \X Seeds
Queued == {x \in Cands \X Seeds : x[1][1] = gen /\ task[x] # 0}

\* pending_specs and the permanent rejects: a record of any budget counts.
Owed == {x \in Specs : seen[x] = 0 /\ x \notin OldRuns /\ x \notin marked}

StartsBatch ==
    /\ pc = "author" /\ slot = PerGen + 1
    /\ pc' = IF Fresh = {} THEN "collect" ELSE "batch"
    /\ rounds' = 0
    /\ UNCHANGED <<cluster, disk, gen, slot, calls, rows, fresh, replayed, failed, prev,
                   launches, history>>

\* A cycle that finds the queue drained.  Its pull too may have been answered at once:
\* records may be on the cluster that it takes for missing.
Drained == pc = "batch" /\ Queued = {}

Submits ==
    /\ Drained
    /\ Owed # {} /\ rounds < MaxRounds
    /\ task' = [x \in Runs |-> IF x \in Owed THEN fresh[x[1]] ELSE task[x]]
    /\ rounds' = rounds + 1
    /\ UNCHANGED <<rec, rejects, disk, place, calls, rows, fresh, replayed, failed, prev,
                   launches, history>>

\* Mutant: the batch does not give up.
OnlySuccess == Owed = {}
Settled == Owed = {} \/ rounds = MaxRounds

BatchReturns ==
    /\ Drained
    /\ Settled
    /\ pc' = "collect"
    /\ UNCHANGED <<cluster, disk, gen, slot, memory, launches, history>>

--------------------------------------------------------------------------------
(***************************************************************************)
(* The collection: in candidate order, with a row for every candidate that *)
(* was trained to no avail.                                                *)
(***************************************************************************)
OfGen    == {c \in Cands : c[1] = gen}
Accepted == {c \in OfGen : c \in replayed \/ Complete(c)}
GivenUp  == {c \in OfGen \ Accepted : fresh[c] # 0}
Best     == CHOOSE c \in Accepted : \A d \in Accepted : d[2] <= c[2]

\* Mutant: a generation without survivors resets the reflection.
ReflectAfresh == IF Accepted = {} THEN NoCand ELSE Best
Reflect == IF Accepted = {} THEN prev ELSE Best

Permanent(c) == \E s \in Seeds : <<c, s>> \in marked

\* Mutant: only candidates without any record get a row.
LedgerEmpty(S) == {c \in S : Archived(c) = {}}
LedgerAll(S) == S

Collects(unwritten) ==
    /\ pc = "collect"
    /\ unwritten \subseteq GivenUp
    /\ row' = [c \in Cands |-> IF c \in LedgerAll(GivenUp) \ unwritten
                               THEN [src |-> fresh[c], permanent |-> Permanent(c)]
                               ELSE row[c]]
    /\ lost' = lost \cup unwritten
    /\ failed' = failed \cup GivenUp
    /\ prev' = Reflect
    /\ gen' = gen + 1 /\ slot' = 1
    /\ pc' = IF gen = NGens THEN "done" ELSE "author"
    /\ UNCHANGED <<cluster, seen, marked, calls, rows, fresh, replayed, rounds, launches,
                   written, had, behind, overlap, fed>>

--------------------------------------------------------------------------------
Author == \E c \in Cands :
    \/ Replays(c) \/ Reships(c) \/ StaysFailed(c) \/ ReusesSource(c)
    \/ \E gated, ledgered \in BOOLEAN : Writes(c, gated, ledgered)
    \/ CapReached(c)
Pass    == Author \/ StartsBatch \/ Submits \/ BatchReturns
                  \/ \E U \in SUBSET Cands : Collects(U)
Cluster == \E x \in Runs, how \in {"archived", "rejected", "dead"} : TaskEnds(x, how)

Pulls   == \E S \in SUBSET Late : OtherPull(S)
Starts  == \E how \in {"pulled", "cached"} : Launch(how)

Next == Starts \/ CannotRefresh \/ Dies \/ Pass \/ Cluster \/ Pulls

Spec == Init /\ [][Next]_vars

\* Tasks end and the pass goes on; nobody relaunches it, and no pull need come.
FairSpec == Spec /\ WF_vars(Pass) /\ WF_vars(Cluster)

--------------------------------------------------------------------------------
(***************************************************************************)
(* Properties.                                                             *)
(***************************************************************************)

\* Nothing is paid for twice while a trace of the first payment is readable: a
\* candidate is written only if there is no row in the ledger and no record of any of
\* its seeds was on the cluster when the pass started, unless the refresh of that pass
\* was answered without a pull.
PaidOnce ==
    [][\A c \in Cands : written'[c] # written[c] =>
            row[c] = NoRow /\ (c \in had => behind)]_vars

\* campaign.py: a resume requires a fresh mirror, for a stale one would re-author paid
\* candidates.  Not so: run.pull answers a success without a pull.
ResumeIsFresh ==
    [][\A c \in Cands : written'[c] # written[c] => c \notin had]_vars

\* A source that a permanent row condemns is not trained again, by any pass.
CondemnedStaysOut ==
    [][\A x \in Runs : task[x] = 0 /\ task'[x] # 0 =>
            ~(row[x[1]].permanent /\ row[x[1]].src = task'[x])]_vars

\* The matched budget: when a search is over, every candidate has all of its
\* records in the mirror or a row in the ledger (or its row could not be written).
EveryoneAccounted ==
    pc = "done" => \A c \in Cands : Complete(c) \/ row[c] # NoRow \/ c \in lost

\* A prompt reflects on a candidate of an earlier generation with all its seeds in
\* the mirror, and no candidate that this pass took from the archive is better.
ReflectsOnResults ==
    [][\A c \in Cands : written'[c] # written[c] =>
            /\ fed'[c] # NoCand => fed'[c][1] < c[1] /\ Complete(fed'[c])
            /\ \A d \in replayed : d[1] < c[1] => ~Before(fed'[c], d)]_vars

\* The seeds of a candidate agree on its source, as long as no pass was started
\* with tasks of the arm in the queue or with records that its mirror lacked.
SeedsAgree ==
    ~overlap => \A c \in Cands : \A s, t \in Seeds :
        rec[<<c, s>>] # 0 /\ rec[<<c, t>>] # 0 => rec[<<c, s>>] = rec[<<c, t>>]

\* A pass that is not killed ends.
PassEnds == pc \in {"author", "batch", "collect"} ~> pc \in {"down", "done"}

\* A batch returns with every spec trained on the budget it asks for, rejected or
\* out of rounds (not so: a record of another budget, refused at replay, counts
\* as a record for the batch and for the node).
RefusedIsRetrained ==
    [][BatchReturns => \A x \in Specs : seen[x] # 0 \/ x \in marked \/ rounds = MaxRounds]_vars
================================================================================
