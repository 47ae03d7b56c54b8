# A verification project for the campaign engine

The repository trains portfolio-management agents under reward functions that a
language model writes, in campaigns of thousands of training runs on a Grid
Engine cluster. The numerical code decides what a run returns; whether every
run is trained once, archived whole, pulled, counted, retried and finally
accounted for is decided by the orchestration code, a set of cooperating
processes that crash, lose their connection and are restarted. These modules
model that orchestration. Paths below are relative to the repository
(`src/cluster/driver.py`); `PROJECT.json` gives, per definition, the lines it
stands for.

## 1. The system

### Parts, state and operations

| Part | Code | State | Operations |
|---|---|---|---|
| Batch driver | `src/cluster/driver.py` (`run_batch`), `ledger.py`, `submit.py`, `spec_io.py` | memory of one call: live set, retry counts, `pending_submit`, `alive_seen`, streaks, Eqw dwell, last parts; on disk the permanent ledger | pull, diff against the archive, qstat, qdel of Eqw arrays, drain and requeue, chunked submit, return |
| Driver lock | `driver.py` (`_acquire_driver_lock`, `run_batch`) | the lock file of a batch name | launch, judge the owner, break, release |
| Task runner | `run_one.py`, `jobscript.py` | the task's run directory, the reject marker | re-execution guard, train, archive, reject |
| Archive and pull | `src/io/results.py`, `poll.py`, `parallel._run_env_fp` | run directories on the cluster, the local mirror, staging directories | write a record, list, fetch, rename |
| Shared pull | `campaign.py` (`build_cluster_run`: `shared_pull`) | last pull's time, count and error, the in-progress flag | pull once for several lines' threads |
| Kill switch | `killswitch.py`, `campaign.py` (`_enforce_kill_switch`) | the epilogue rows, the incident file | classify deaths, trip, gate, clear |
| LLM search arm | `campaign.py` (`run_search_arm`) | generations, candidates, the failure ledger | replay, reship, author, train a batch, collect, reflect |
| Family search | `campaign.py` (`run_family_search_arm`), `bayes_chain.py`, `dfo_toolkit.py` | a chain of proposals, replayed from its archive; failure markers | propose, train, tell, mark a failure, stop, resume |
| Tiered campaign | `campaign.py` (`run_campaign_tiered`), `integrity.py` | frozen winners, core and sweep records, tier report and approval | arm threads, canary, freeze, pair, review gate, sweep |
| Device pool | `parallel.py` (`DevicePool`, `run_recycling`), `test_leg.py` | device tokens, a sliding window of futures, a stream of records | submit, collect, recycle, archive, retry writes |
| LLM client, loop, spend ledger | `src/llm/` | active key, spend file | complete with failover, reflect, record spend |
| Sandbox | `src/sandbox/` | a child process | static check, validate with a timeout |
| Lanes, allocation, telemetry, health | `src/cluster/` | none that a campaign reads back | reports |
| Numerical code | `src/env`, `agents`, `reward`, `feedback`, `search`, `selection`, `data`, `backtest`, `baselines`, `inference`, `viz`, `data_pipeline/` | arrays and models | training, statistics, figures |
| Operator scripts | `scripts/` | command lines | launch, supervise, watch |

### How they interact

A campaign's lines run in threads of one process, and several such processes
may run at once. Each line calls `run_batch` for a batch name; the lock keeps two
processes from driving the same name. `run_batch` reaches the cluster through a
transport (ssh, scp) that fails often: it pushes spec files, submits array jobs
and asks `qstat` which of its job *names* are alive. Nothing on the cluster calls
back. Tasks write run directories or reject markers; the driver learns of them
only by the next pull, which copies what the mirror lacks **by name**. After a crash
the driver has only the mirror, the ledger and the queue's names to go by.

### What is hard

* Three stores (queue, archive, mirror) are read at different moments of a
  cycle; jobs finish, are purged, rescheduled or stuck between any two reads.
* A crash between `qsub` and anything that would remember it.
* A chunked submission that fails half way, or whose last reply only is lost.
* Evidence (`qacct`) that is missing, late or about another round.
* Best-effort steps that fail quietly: a `qdel`, a ledger append.
* Arrays in `Eqw`, which never end by themselves.
* Lock files of dead owners, recycled pids, and two launches that break one.
* Two executions of one run that write one directory; two pullers that rename
  into one mirror.
* Threads that share one pull and one kill gate, and are answered from memory while
  another thread is at it.
* Passes over days of work that die anywhere and are resumed from what is on disk:
  a mirror that lags, a ledger with rows missing, candidates with half of their seeds.
* Verdicts read from files that others rewrite: a report, an approval, an incident.
* Future callbacks that run after the waiter was woken, on a pool that may break.

`PROJECT.json` lists each hazard at its line with the properties that watch it.

### What makes each part correct

* **Batch driver**: no spec is in two queued arrays; a retry is charged to an
  attempt; an abandonment is durable; the summary agrees with the disk; the loop
  ends.
* **Lock**: one driver per batch name; a dead owner never blocks a relaunch.
* **Archive and pull**: a mirrored directory is the committed one and verifies; a
  pull that returns has delivered; a committed record is final.
* **Shared pull**: one thread pulls at a time, pulls go on being made, and an outage
  ends the batches, although some callers are told of an old success.
* **Kill switch**: an incident is opened only for a burst, only a person closes it,
  and it ends the submissions.
* **LLM search arm**: nothing is paid for twice after a real refresh, a condemned source
  stays out, every candidate is accounted for, a prompt reflects on finished results.
* **Family search**: a resumed chain is told what the first one was told, but for the
  failures that leave no marker.
* **Tiered campaign**: no billed arm at work before the canary is whole; no pair, gated sweep or exit 0
  over a hole; one passage per approval; one reward per arm in the sealed test.
* **Device pool**: devices are not overbooked, finished work is on disk, a leg ends.

## 2. The modules

| Module | What it is |
|---|---|
| `BatchDriver` | one driver, its queue, archive, mirror and ledger; crash and restart |
| `BatchOutcome` | what `run_batch` promises its caller, without any of the above; `BatchDriver` implements it |
| `BatchDriver_proofs` | theorems of `BatchDriver` |
| `DriverLock` | processes, one lock file, each system call a step |
| `DriverLock_proofs` | theorems of `DriverLock` |
| `ArchivePull` | task executions that archive, processes that pull |
| `PullPromise` | what a pull promises the processes that share a mirror, without lists, chunks, staging or races; `ArchivePull` implements it |
| `ArchivePull_proofs` | theorems of `ArchivePull` |
| `KillSwitch` | the classifier of task deaths, as operators over sets of rows; `Burst` is what it is for |
| `CampaignPull` | the lines of one process over the shared pull and the kill gate; EXTENDS `KillSwitch` |
| `CampaignPull_proofs` | theorems of both |
| `SearchArm` | the search of one LLM arm over passes that die |
| `SearchArm_proofs` | theorems of `SearchArm` |
| `FamilyChain` | a sequential search replayed over its archive, from the driver or on a node |
| `FamilyChain_proofs` | theorems of `FamilyChain` |
| `TieredCampaign` | one tiered line: threads, gate, sweep, over launches |
| `WinnerPromise` | what a campaign promises about winners; `TieredCampaign` implements it |
| `TieredCampaign_proofs` | theorems of `TieredCampaign` |
| `DevicePool` | the local test leg over recycled process pools |
| `DevicePool_proofs` | theorems of `DevicePool` |
| `MC...` | symmetry and action constraints for TLC |

How they fit. `ArchivePull` assumes of its environment (`Exclusive`) what
`BatchDriver` shows as `NoDoubleTraining`; `BatchDriver` takes a pull as one step,
which `ArchivePull` takes apart (`PullDelivers`, and the exception about markers that
`RejectsSeen` shows, which is why `BatchDriver!PullFresh` brings only *some* of the
new markers); `BatchDriver` has one driver because `DriverLock` keeps others out.
`CampaignPull` is several `BatchDriver` loops reduced to their pulls and submissions,
where the pull's sharing and the gate are what matters: `BatchDriver!PullCached` and
`OtherPull` are its `CachedSuccess` and other lines' `PullSynced`, and so are
`SearchArm`'s cached `Launch`, its `Drained` on an old mirror and its `OtherPull`. `SearchArm` and
`FamilyChain` take a batch the other way round: bounded rounds of submissions that
return when every spec has a record or is given up (`BatchOutcome`). `TieredCampaign` takes
a search as what its caller sees of it: a winner or none, a whole budget or not. Its
`SearchReturns` allows every outcome that those two modules leave open.

### BatchDriver

`pc` is where the loop is; a cycle is `pull`, `diff`, `qstat`, perhaps `requeue`,
perhaps `submit`. Each step is one action with the whole of what the code does there:

* **pull** `PullFresh`, `PullFail` (part of the chunks landed; the streak
  may end the call), `PullCached` and `OtherPull` (the effects of `shared_pull`:
  a success that refreshed nothing, and other lines' pulls into the same mirror).
* **diff** `Diff`: pending specs from the mirror, rejects to the ledger, the return.
* **qstat** `Qstat`, `QstatEqwExpired` (the dwell is over: qdel, and go on as if the
  arrays were gone), `QstatFail`. `Decide` is the three-way end of the step: wait,
  drain, or submit what is owed. `SeenEqw` is the parser's one-state-per-name.
* **drain** `Requeue`, with `Evidence` for every answer qacct may give about the last
  round's arrays, the tri-state rule (`Kind`, `NoTrace`, `Bumped`), the budget (`Dead`)
  and the ledger; `RequeueFail` when an append to the ledger raises.
* **submit** `SubmitNothing`, `SubmitOk`, `SubmitFail` (any prefix of the arrays was
  queued; all of them when only the reply was lost).
* **Crash** at any step, in the middle of ledger rows too; **Restart** reads the ledger.
* **the cluster** `Dispatch`, `TaskEnds` (archived, rejected or neither), `Reschedule`
  (`-r y`), `Purge`, `EntersEqw`: external, modelled from what the driver expects of it.

History variables: `ran` (specs with a qacct row that no drain has charged) and
`drain` (what this drain learnt) exist for `ChargedPerAttempt` only. `stuck` records
the arrays whose qdel failed, for the exception in `NoDoubleTraining`.

Abstractions: order within `flat_specs` only decides which specs share an array,
so specs are symmetric; a slot of `Jobs` is a job name and is reused when its array
is gone and no drain will ask about it; a torn ledger line counts as a missing row
(the reader skips it); `max_wall_secs` ends a call the way any exception does and is
a `Crash`; the kill gate is read once, at entry, and belongs to `CampaignPull`;
dwell time is a flag that an action may find expired; a retry count is kept in memory,
as in the code, and starts at zero in every call.

### DriverLock

`text` is what is in the file, `owner` who created the file that now has the name.
`Create`, `Write`, `Read`, `Break` and `Release` are single system calls; `Crash` may come
between any two. `PidUses` lists what a launch may find under the recorded pid (owner,
nobody, itself, a stranger, another batch's driver, a process it may not inspect);
`Ambiguous` says when the code cannot tell and answers "owned". Both the POSIX unlink
and the Windows one, which fails while another process has the file open, are
included. `company`, `doubt` and `overlap` are history. `FairSpec` adds that a process inside
`acquire` takes its next step.

### ArchivePull

An execution truncates and writes `env.json`, truncates and writes the sidecars, and
commits by renaming `record.json`; it may die between any two writes. A marker is
one rename over the previous marker. A puller lists both sides, fetches a chunk into
its own staging directory, checks each destination and renames; it may fail or die
anywhere. A run's content is the execution that wrote it, `torn` while it is being
written. `EnvMatches` and `Verified` are `load_run`'s digest checks; a record made when
the environment could not be captured carries no digest (`unlinked`).
`PullPromise` keeps of this that a record is committed once, copied whole and kept, and that
a pull is told "done" only when nothing that was committed when it began is missing.

### KillSwitch, CampaignPull

A row of the epilogue ledger is a task, a host, whether the exit is our own, how long it ran,
and an age, or no date. `Classify` has the code's order of filters and cases. `Limit` is the
larger of the two walltimes a campaign may configure, or none, and then no death counts as
one at the walltime. `Burst` says in one quantifier what the cases are for, and the two are
shown to agree. `Retreats` is `_enforce_kill_switch`, with its detail that only a
verdict "ok" carries the undated rows which veto the retreat.

`CampaignPull` has one thread per line. `pc` is `idle` between batches, `pull` at the top of
a cycle, `pulling` inside `pull_archive`, `act` after it. `busy`, `window` and `failed` are
`pull_state`: `Throttled` and `FailsFromCache` are the two conditions of `shared_pull`, and
each caller gets `CachedSuccess`, `CachedFailure` or `BeginPull`. A caller that asks while
another line pulls gets a success even after a failure, as in the code, and its streak is
reset by it: `OutageSurfaces` says what is left of "a failure raises to every caller". A pull ends with its rows
classified (`PullSynced`), with the sync of the rows failed and swallowed
(`PullUnsynced`), or with an error (`PullFails`). `Enter` and `Refused` are the gate, read once
per batch. `ReadsIncident` and `ClearsIncident` are the two halves of `clear_incident`.
Abstractions: what a batch has left to submit is a number of rounds; time is a flag for
the interval and an age for rows; hosts and tasks are a fixed set, one row per task.

### SearchArm

A candidate is a generation and a place, a run is a candidate and a seed. A *version* is a
source that was written (and billed) for a candidate: every record, task and row
carries the version it belongs to, and versions tell a repeated purchase from a replay.
`Launch` asks for a pull before anything is read (P11) and reads the ledger once (`rows`). What it
asks is the throttled pull of the lines: it is `pulled`, or `cached`, answered without a
pull, and then the pass begins on the mirror as it is (`behind`). For the
candidate whose turn it is exactly one of `Replays`, `Reships`, `StaysFailed`, `ReusesSource`,
`Writes`, `CapReached` applies, in the code's order of cases. `StartsBatch`, `Submits` and
`BatchReturns` are the batch, whose pulls may be answered in the same way; `OtherPull` is any
pull, which brings any part of what is late, records and reject markers; `Collects` walks the generation, appends rows (any of which may
fail to be written) and moves the reflection. `Dies` is a crash of the process or an
exception of the arm's thread. `OldRuns` are archived runs of another training budget,
which the three readers of an archive judge differently. Abstractions: a candidate's score
is its place in the generation; the gate's verdict, a task's end and a rejection are
choices; prompts are the candidate they reflect on.

### FamilyChain

The optimisers (`bayes_opt`, `tpe`, `cma_es`) are deterministic in what they were told, so a
proposal is modelled as the set of candidates that came back with the failure
sentinel before its group was proposed: two passes propose the same iff those sets agree.
`groups` are the candidates that are proposed together: the start of `bayes_opt` and `tpe`, every
generation of `cma_es`. `side` is the program that runs the chain: the driver, which sends a
group as one array and neither reads nor writes markers for it (`ArrayReplays`,
`ArrayTrains`, `ArrayTells`), and a candidate outside the groups as an array of its own; or a
job on a node (`Stops` before its wall time), which runs `bayes_opt` candidate by candidate.
Each side sees its own failure markers; a driver reads the archive through its
mirror. `told`, `redone` and `lost` are history. With `Handover` a chain may be resumed by the
other program: the node's entry point is built but nothing in the repository starts it yet
(its own comment says so, `bayes_chain.py:232`), so the checked instance keeps each
chain to one program.

### TieredCampaign, WinnerPromise

One line, one pass at a time. In the core, `arm[a]` is the position of arm `a`'s thread
(search, select, freeze, test), beside the threads of the canary and of the other
baselines; `MayAuthor` and `Abort` are the two events a waiting LLM arm looks at, and `Verdict`
is which of them the canary's thread sets when it ends whole, short, unreadable or by an
exception. Without a canary (`Canary` FALSE) the first event is set from the start. The pass
goes on to the pair array, reads the approval (`GateReads`), rewrites the report (`GateReports`),
stops or passes, consuming the approval (`GatePasses`), or skips all that (`SkipsGate`,
`--no-review-gate`), and climbs the sweep's blocks,
one after the other or all at once (`pipelined`). `Healthy` is the census of
`write_integrity_report`; other defects of the records are a choice. An approval is
absent, older than the report, or current; rewriting the report makes it older (`Aged`).
`LateRecord` changes what `select_winner` would return for an arm, which is what makes
`_refuse_winner_swap` necessary; the comparison is skipped for a selected record with an
empty hash (`Unhashed`). `passages` and the counters are history and bounds.
`WinnerPromise` has none of this: a reward is chosen once per arm, and whatever is trained
for its sealed test is trained on it.

### DevicePool

The driver's loop (`submit`, `wait`, `handle`, `exit`), the workers, and the executor's
manager thread, which runs the done-callbacks after the waiter was woken (`due`). A token
is taken by `Submit` and returned by `Callback`. `WorkerKilled` breaks the pool;
`FailFuture` then fails its futures one by one; a submission to a broken pool raises
(`SubmitRaises`) and, as the code has no handler there, leaves the leg (`Escape`). `Handle`
archives a result at once, or stamps the error; `RetryWrite` is the second chance after the
last pool. `Relaunch` is a driver's death followed by `--resume`.

## 3. What is checked

### Passing runs

| Run | Instance | Shows |
|---|---|---|
| `batch_driver` | 2 specs, 2 slots, arrays of 1, one retry, one trace-less drain, streaks of 2, 2 calls, shared mirror, one qdel may fail | `TypeOK`, `NoDoubleTraining`, `ChargedPerAttempt`, `ExhaustedStaysOut`, and that the loop implements `BatchOutcome` |
| `batch_driver_live` | 2 specs in arrays of 2, 1 slot, streaks of 1, 2 calls, appends may fail | `Returns` under `FairSpec` |
| `driver_lock` | 3 processes | `OneDriverIfSerial`, `RefusedForCause`; `LaunchEnds` under `FairSpec`; no deadlock |
| `archive_pull` | 3 executions of 2 runs, 2 pullers, chunks of up to 2 | `MirrorFaithful`, `PullDelivers`, `RecordStands`, and that pulls implement `PullPromise` |
| `campaign_pull` | 2 lines, 3 tasks, 2 hosts, bursts of 2 deaths on 2 hosts, two walltimes, a window of 1 tick, streaks of 2 | `OnePuller`, `RetreatsOnBursts`, `OnlyAPersonReopens`; `PullsGoOn`, `OutageSurfaces`, `Quiesces` under `FairSpec`; no deadlock |
| `search_arm` | 3 generations of 1 candidate, 2 seeds, 2 passes, the second on a fresh or an old mirror, 2 author calls per pass, batches of one round | `EveryoneAccounted`, `SeedsAgree`, `PaidOnce`, `CondemnedStaysOut`, `ReflectsOnResults`; `PassEnds` under `FairSpec` |
| `family_chain` | 5 candidates, a start of 2 or generations of 2, 2 and 1, either program, 2 trainings per job, 3 failures, 2 deaths | `SameOutcome`, `ScoresTheProposal`; `Completes` under `FairSpec` |
| `tiered_campaign` | an LLM arm (in the pair) and a family arm, 2 rewards, 2 blocks, 2 launches and a third on a spent approval, 1 approval, 1 late record | the eight properties of the module, among them that it implements `WinnerPromise` |
| `device_pool` | 4 cells, 1 GPU and 1 CPU slot, pools of 3, one kill, one disk error, one relaunch | `DeviceLimit`, `LossIsBounded`, `WrittenIsDurable`; `Drains` under `FairSpec` |

The largest take a few minutes (`batch_driver` about three, `batch_driver_live`, `campaign_pull` and
`tiered_campaign` two) and two and a half million states at most. Deadlock is not checked where the system stops: a batch
that returned or used up its restarts, executions that are over, bounded launches.
Types are an invariant of `batch_driver` only; of the other modules, except the lock and the
pool, whose inductive invariants contain them, they are theorems of their own (`TypeCorrect`).

The bounds and why they are enough.

* *batch_driver*: two specs are what it takes for one to be abandoned,
  stuck or lost while another goes on; arrays of one spec give rounds of two arrays
  (partial submissions), arrays of two give a shared fate. `MaxRetries` = 1 makes the
  budget's boundary (zero, one, spent) reachable; `MaxNoTrace` = 1 and `MaxErrors` = 2 make
  "tolerated once, then not" reachable; `MaxStarts` = 2 is one crash at any step and its
  recovery. `OneQdelFails` lets one qdel fail, in the first call, so that either call may meet
  the array it left; any number of failures is in `BatchDriverDegraded` and in the theorems. In the liveness run `MaxErrors` = 1 makes each error end a call, the case in which
  progress is hardest to make with two calls, and the last call is not allowed to die (`Dies`
  needs `starts < MaxStarts`): liveness is claimed of a campaign whose driver is not
  killed for ever.
* *driver_lock, archive_pull*: three launches let two race over what the third left. Three
  executions of two runs let one run be trained twice and the other meanwhile; two runs and two
  pullers are the least that interleave per chunk.
* *campaign_pull*: two lines are a puller and one it answers; three tasks are a burst of two
  and a row that does not count (our own, undated, or at one of the walltimes: below the
  larger one it does), on two hosts and on either side of each
  threshold (`ClassifierIsExact` is for all thresholds and walltimes, none included). A streak of two is one that a
  wrong success would reset.
* *search_arm*: three generations let a prompt reflect over a failed generation; two seeds
  make a partial candidate; two passes are one death at any step and its recovery; two
  author calls in a pass that needs three reach the cap. `MaxRounds` = 1 is the batch whose
  every loss is final.
* *family_chain*: a start of two and three sequential candidates, or three generations, three
  failures anywhere.
  `PerJob` = 2 makes a job stop inside the budget more than once.
* *tiered_campaign*: one arm that waits for the canary and belongs to the pair, one that does
  neither; two rewards are a swap; two blocks a ladder; two launches are a resume over what
  any crash left. An approval can count in the second launch at the earliest, because it must be
  younger than a report, so a second passage on the same one takes a third launch: there is
  one wherever the first passage left the file behind.
* *device_pool*: four cells in pools of three are two pools, the second not full; the
  window is two.

The theorems of section 4 hold for every value of these constants.

Reductions. Symmetry is used where only safety is checked and the permuted values are
interchangeable in every property: specs and slots, runs, executions and pullers, rewards.
Four MC modules have an action constraint. Most of what they drop commutes with a step that is
kept; what they drop besides is said here.

* `PullsWhereRead` (`MCBatchDriver`): another line's pull lands where the mirror is read next.
* `WhereItMatters` (`MCTieredCampaign`): an approval is created only around the gate, a late record
  only before the selection of a second pass. Dropped besides: a later pass that skips the gate or
  pipelines its blocks, and third launches but on a spent approval that is still there.
* `LittleOrder` (`MCSearchArm`): tasks of one batch end in the order of their runs, each in every
  way (`TasksInOrder`); a pull brings runs in that order, when the pass is about to look for them
  (`PullsInTime`); the first pass has nothing to refresh (`FirstPassPulls`). Dropped besides: all
  rejections but one of the first run (`FirstSeedRejects`) and the training of the last generation,
  of which only the prompt is of interest (`LastIsOnlyWritten`).
* `InOrder` (`MCCampaignPull`): tasks die in one order, the first on one host, instead of a
  symmetry. Dropped besides: two rows at once that do not count for a burst.

`LittleOrder` keeps the steps that `FairSpec` relies on enabled in every state it keeps: the
first queued task of the order may always end. `InOrder` constrains deaths only, for which there
is no fairness.

Fairness.

* `BatchDriver`: Grid Engine dispatches what waits (`WF` of `Dispatch`), and a task that is run
  again and again ends once (`SF` of `TaskEnds`: `-r y` may queue it again). The driver's
  own local steps are taken (`WF` of `Diff`, `Requeue`, `SubmitNothing`); the supervisor
  relaunches (`WF` of `Restart`). Transport is down often, not for ever (`SF` of
  `PullFresh`, `Qstat`, `QstatEqwExpired`, `SubmitOk`): each is retried by the loop whenever
  it fails, so it is enabled again and again, not continuously.
* `DriverLock`: a process that is acquiring takes its next system call. Nobody waits for
  anybody, and nobody has to launch, to end or to die.
* `CampaignPull`: a thread that can go on does, a pull ends one way or the other (ssh has
  timeouts), the interval passes. Nobody has to clear an incident, and pulls may fail for ever.
* `SearchArm`: the pass goes on and tasks end; no pull need ever bring anything, nobody relaunches
  a dead pass, and `PassEnds` needs neither.
* `FamilyChain`: tasks end, the pass goes on, and a chain that stopped is launched again, which
  is what the job's requeue and `--resume` are for.
* `DevicePool`: the driver's loop runs, every training ends, the executor fails the futures
  of a broken pool and runs callbacks. No kill and no relaunch is assumed.
* `TieredCampaign` has no fairness: `PassMovesOn` says in every state, by the guards of its
  steps, that the pass can go on by itself, and the theorem `PassAdvances` that it takes
  finitely many steps.

### Runs that find a violation

Each states what a comment or a help text says and TLC shows a behaviour of the code
that differs; `PROJECT.json` quotes the lines.

| Run | Statement | What happens |
|---|---|---|
| `kill_gate` | we do not resubmit into an unresolved administrative kill | a batch that is already driving opens the incident by its own pull and goes on to submit |
| `search_refused` | a refused record is trained again | the candidate is billed again, but the batch and the node count the old record as a result: nothing is trained, and the candidate ends as a training failure |
| `tier_approve` | `--approve-tier1 --resume` proceeds past the review gate | the option writes a file that no gate reads, and the line stops for review again |

`Quiesces` bounds the first: batches that are already started run out of submissions and no new one
starts. The second needs a resume after a change of the training budget. The third fails
closed: creating the file that the gate's own warning names works.

### Further instances

The following configurations are kept for a reader who wants to see a known exception happen:
TLC finds the named statement violated in each, and the passing runs and the theorems
state what holds instead.

| Configuration | Statement | What happens |
|---|---|---|
| `BatchDriverVerdict` | `OkIffArchived` | a spec is abandoned, its record arrives later: all archived, `ok` False |
| `BatchDriverReject` | `AbandonedStaysOut` | a spec rejected for good is still in `pending_submit` after a failed submission, and is submitted again |
| `BatchDriverLedger` | `ExhaustedStaysOut`, appends may fail | with two specs to abandon the second append fails; the first has its row, and is requeued by the next drain |
| `DriverLockRace` | `OneDriver` | two launches break one stale lock, the second unlinks the first one's new lock |
| `ArchivePullRejects` | `RejectsSeen` | a transient marker of the same name is in the mirror already |
| `ArchivePullRewrite` | `OldStateStands` | a second execution truncates `env.json` of a committed record and dies |
| `FamilyStart`, `FamilyGens` | `ReplaysSentinels` | a failure in the array of a start, or of a generation of `cma_es`, leaves no marker, and a resumed chain trains it again |
| `SearchResume` | `ResumeIsFresh` | the refresh of a resumed pass is answered from the throttle; a candidate whose record is on the cluster is not seen, and is written and billed again |
| `KillUndated` | `UndatedNeverRetreats` | a burst of dated rows beside an undated one: only the verdict "ok" counts undated rows, and an incident opens |
| `PullMasked` | `OutageAlwaysSurfaces` | pulls fail for ever; a line that asks whenever another one is trying is told of an old success each time, and its streak never ends its batch |
| `TieredUnhashed` | `OneWinner`, with an empty hash | a selected record without a hash is not compared with the frozen winner, and replaces it |
| `DevicePoolCrash` | `CrashNeverAborts` | a worker is killed while the window has room: the next submission raises out of the leg |

Three of these speak against a comment: `SearchResume` against the one that a resume requires a fresh
mirror (`campaign.py:857`), `KillUndated` against the one that undated rows keep a verdict from being
enforced (`campaign.py:695`), and `PullMasked` against the one that a failure raises to every caller
(`campaign.py:238`).

`BatchDriverDegraded` and `TieredNoCanary` are no exceptions: the first checks `NoDoubleTraining` and `ChargedPerAttempt` with
an own mirror and both best-effort steps failing, the second the properties of a line with no
canary configured. None of the instances of the driver makes the driver train a queued
spec twice: the guard of the loop (adopt by name, submit only on an empty queue) does not
depend on any of it. `ArchivePullRewrite` needs two executions of one run at once, which
`NoDoubleTraining` excludes except for an Eqw array whose qdel failed: specs of such an array
(`stuck`) are left out of that property, because the code does submit them again while the old
array may come back.

## 4. What is proved

For every value of the constants (sets of specs, lines, arms, candidates; sizes and
bounds), from the named assumption on them in the module (they are of their types)
unless said otherwise:

| Theorem | Statement |
|---|---|
| `BatchDriver_proofs!TypeCorrect` | `Spec => []TypeOK` |
| `BatchDriver_proofs!Inductive` | `Spec => []IInv` |
| `BatchDriver_proofs!NeverDoubleTrains` | `Spec => []NoDoubleTraining` |
| `BatchDriver_proofs!RetriesAreEarned` | `Spec => ChargedPerAttempt` |
| `BatchDriver_proofs!ExhaustedNeverReturns` | `Spec => ExhaustedStaysOut`, if appends do not fail |
| `BatchDriver_proofs!LoopKeepsPromise` | `Spec => Outcome!Spec`, if appends do not fail |
| `DriverLock_proofs!Inductive` | `Spec => []IInv` |
| `DriverLock_proofs!OneDriverWhenSerial` | `Spec => []OneDriverIfSerial` |
| `DriverLock_proofs!CleanRelaunch` | `Spec => RefusedForCause` |
| `DriverLock_proofs!LaunchesEnd` | `Spec => LaunchEnds`, if each process takes its own steps |
| `CampaignPull_proofs!ClassifierIsExact` | for every finite set of rows, `Classify(R) = "admin_kill" <=> Burst(R)`, with walltimes or without |
| `CampaignPull_proofs!TypeCorrect` | `Spec => []TypeOK` |
| `CampaignPull_proofs!PullIsExclusive` | `Spec => []OnePuller` |
| `CampaignPull_proofs!RetreatIsWarranted` | `Spec => RetreatsOnBursts` |
| `CampaignPull_proofs!IncidentStands` | `Spec => OnlyAPersonReopens` |
| `CampaignPull_proofs!PullsNeverStarve` | `Spec => PullsGoOn`, if lines go on, pulls end and the window passes |
| `CampaignPull_proofs!IncidentWindsDown` | while an incident is open, every submission uses up one of a batch's bounded rounds and no batch begins |
| `CampaignPull_proofs!EachRoundRunsOut` | if an incident stays open, then for each line and `n` there is an end to its submissions of an `n`-th round |
| `TieredCampaign_proofs!TypeCorrect` | `Spec => []TypeOK` |
| `TieredCampaign_proofs!ApprovalsAreSpent` | `Spec => []OneApprovalOnePassage` |
| `TieredCampaign_proofs!PairsAreWhole` | `Spec => []PairIsWhole` |
| `TieredCampaign_proofs!SpendIsGuarded` | `Spec => []CanaryGuardsSpend` |
| `TieredCampaign_proofs!LadderIsClean` | `Spec => LadderClean` |
| `TieredCampaign_proofs!KeepsThePromise` | `Spec => Promise!Spec`, if no record has an empty hash |
| `TieredCampaign_proofs!SweepsAreWarranted` | `Spec => []SweepOverCompleteCore` |
| `TieredCampaign_proofs!DoneMeansComplete` | `Spec => []DoneIsComplete`, if no record has an empty hash |
| `TieredCampaign_proofs!PassNeverStalls` | `Spec => []PassMovesOn` |
| `TieredCampaign_proofs!ArmsReturn` | every arm's thread returns, if it and the canary's take their own steps |
| `TieredCampaign_proofs!PassAdvances` | with every step of its own a pass has less left to do; nothing outside gives it more (for finitely many arms) |
| `FamilyChain_proofs!TypeCorrect` | `Spec => []TypeOK` |
| `FamilyChain_proofs!OutcomesRepeat` | `Spec => []SameOutcome`, if a chain is not handed over |
| `FamilyChain_proofs!ScoresAreOfProposals` | `Spec => ScoresTheProposal` |
| `FamilyChain_proofs!ChainNeverStalls` | a pass that cannot step waits for a training or a pull that is under way |
| `FamilyChain_proofs!ChainAdvances` | every step, deaths and relaunches included, brings the chain nearer to its end, if it is not handed over |
| `ArchivePull_proofs!TypeCorrect` | `Spec => []TypeOK` |
| `ArchivePull_proofs!PullsDeliver` | `Spec => []PullDelivers` |
| `ArchivePull_proofs!MirrorIsFaithful` | `Spec => []MirrorFaithful`, if no run is trained twice at once |
| `ArchivePull_proofs!RecordsStand` | `Spec => RecordStands`, if no run is trained twice at once |
| `ArchivePull_proofs!PullsKeepPromise` | `Spec => PullKeepsPromise`, which is `Promise!Spec`, if no run is trained twice at once |
| `SearchArm_proofs!TypeCorrect` | `Spec => []TypeOK` |
| `SearchArm_proofs!SearchIsAccounted` | `Spec => []EveryoneAccounted` |
| `SearchArm_proofs!SeedsAreOfOneSource` | `Spec => []SeedsAgree` |
| `SearchArm_proofs!CandidatesArePaidOnce` | `Spec => PaidOnce` |
| `SearchArm_proofs!CondemnedIsNeverQueued` | `Spec => CondemnedStaysOut` |
| `SearchArm_proofs!PromptsReflectOnResults` | `Spec => ReflectsOnResults` |
| `SearchArm_proofs!PassNeverHangs` | a pass that cannot step has a task under way, if there is a version for every launch |
| `SearchArm_proofs!PassAdvances` | every step of anyone brings a running pass nearer to its end |
| `DevicePool_proofs!DevicesAreBounded` | `Spec => []DeviceLimit` |
| `DevicePool_proofs!LossesAreBounded` | `Spec => []LossIsBounded` |
| `DevicePool_proofs!LegsAreDurable` | `Spec => []WrittenIsDurable` |
| `DevicePool_proofs!LegNeverStalls` | until the leg is over the loop can step, or a training or a callback is under way |
| `DevicePool_proofs!LegAdvances` | every step but a relaunch leaves less to do |
| `DevicePool_proofs!LaunchIsBounded` | `Spec => [](Work \in 0 .. 11 * NCells + 6)`: so many steps are all a launch can take |
| `DevicePool_proofs!WaitsEnd` | every wait for a result, a token or the pool's exit ends, if trainings end and callbacks run |

"If appends do not fail" is `~LedgerMayFail`; the instance `BatchDriverLedger.cfg` shows that the
first of the two theorems is false without it.

The argument for the driver. `NoDoubleTraining` is not inductive: a submission is safe
only because of how the loop got there. `IInv` says what each position implies:

* `GuardInv`: past its look at the queue, nothing but arrays with a failed qdel is left
  there. Nothing in the environment puts a *new* array into the queue, so this
  survives every cluster step between the qstat and the qsub (a rescheduled task was
  in the queue already). With `IsLayout` (the arrays of a round are disjoint)
  it gives `NoDoubleTraining`.
* `LedgerInv`: memory agrees with the ledger while there is memory. A crash
  in the middle of the rows breaks it only at `pc = "down"`, and `Restart` repairs it.
* `OwedInv`: what is open is in `pend` during a cycle, and within `owed` while a
  submission is owed; so a round never leaves a spec behind.
* `FreshInv`: nothing owed or pending was abandoned for exhausted retries; with `LedgerInv`
  it gives `ExhaustedStaysOut`.
* `RowsInv`: the rows that a drain may still read have not been charged, unless
  nothing is open; it gives `ChargedPerAttempt`. Its exception is the drain that
  abandoned everything that was open: its rows stay, but the loop returns before
  another drain.
* `MirrorInv`: the mirror has only what was archived.

The refinement maps `complete` to the mirror, `abandoned` to the ledger and `verdict` to the
returned summary; the steps that matter are `Diff`, which may settle and return at once,
`Requeue`, `Crash` (rows appear without a return) and pulls after the return (`Late`).

The argument for the lock: `OwnerInv` (the creator of the file is writing it or driving),
`SerialInv` (while launches have not overlapped, at most one process is acquiring, a driving
or writing one owns the file, and only a dead process's lock is about to be broken) and
`AloneInv` (a launch that met nobody is alone, breaks a lock in its first attempt only,
and finds no file in its second).

The argument for the shared pull and the kill switch. `OnePuller` needs only the types: the flag
goes up and down with the position of one thread. `StreakInv` (a batch that goes on has
failures left) carries the type of a streak, and `FiniteRows` lets rows be counted. The
classifier's cases, which return at the first filter that empties the set, are shown equal to
one count over the rows left by all filters. `UntimelyIsOffWalltime` is the filter by walltime: to
be short of the largest walltime is to be short of some walltime, and without one every death is
off it. The case of a single host is below the threshold on hosts because `MinHosts` is at least
two, which is why that is an assumption.

The argument for the tiered line. `WinInv` ties the winner in a pass's memory to the frozen one
from the freeze on, and says that past the core every arm has one or a reason; with it the
pair, the sweep and the refinement follow, because everything that trains uses the
memory. `ApprovalInv` is an account: passages, plus one for an approval that counts,
plus one for an approval that has been read and not yet used, never exceed what was
granted. Rewriting the report takes the file's credit away in the step that moves it into
the pass's memory, so a crash anywhere can only lose credit. `CanaryInv` and `BlockInv` say
that a pass's verdicts stand for records on disk, and `CanaryInv` that a billed arm past its wait
has seen this pass's verdict. For `DoneIsComplete`, `TestedInv` follows the
core tests (a unit that is full has records, an arm that is ok has been tested unless the
pair still has to), `HealthInv` keeps the report's health true while the sweep runs, and
`LadderEnds` shows that a ladder at rest with no short block has climbed all of them, by
the least block that is not done.

The argument for the chain. `KeptInv` says what a later pass will find of a candidate that was
told: a sentinel has its marker and no record, nor a task that could still write one. It
fails exactly for the candidates of groups (the start, the generations of cma_es) and for lost
markers, which are the exceptions of `SameOutcome`, and under `Handover`, when markers are on the
other side. A score is readable, of a group or not. `WhereInv` says that a driver is at the first
candidate of a group or outside of all groups, so that a group is told as a whole.
`ReplayInv` says that until something was told twice, memory and coefficients are
functions of the history; `ScoresTheProposal` is read off it.

The argument for the archive and the pull. `Owners` says that a live execution has its run to
itself and that the run has no record yet; the guard of `Start` establishes it, and it
needs `Exclusive`. So between the two writes of a run directory and its commit nobody
else writes there, `Written` can say what is on disk at each position, and a record that
is there stands with the files it speaks of. On the laptop, `StagedInv` keeps a chunk
within its list (the kind of a puller changes only when its chunk is empty), `ListInv`
says that what a pull had to bring is in the mirror or still listed, which is
`PullDelivers` when the list is empty and needs nothing of the cluster, and `CopyInv`
says that every copy of a directory, in a chunk or in the mirror, is the cluster's.

The argument for the search. What a pass does to a candidate it decides from `rows` and the
mirror, while the ledger and the cluster go on: `RowInv` says that for candidates ahead of
the loop the ledger has not changed since the pass read it, that what had a record then is
visible in the mirror, unless the refresh was answered without a pull (`behind`), and that what
is shipped is the version of its row, if there is one.
`PaidOnce` and `CondemnedStaysOut` are read off it. `AccountInv` (behind the loop there
are records, a row or something to train) becomes `EveryoneAccounted` when the last
generation is collected. `VersionInv` is the longest: as long as no pass started over queued
tasks or with records that its mirror lacked (`overlap`), a candidate's tasks, records, row and fresh source are of one version, and one that is
not being trained has no task and a mirror that is up to date, so a new version is
written only where there is none. `ReflectInv` needs that a generation has a best candidate
and that a partial candidate has a first record: the least element of a set of numbers
(`Least`), from the well-foundedness of the naturals.

The argument for the pool. `TokenInv` is conservation: the free tokens of a device and the
trainings that hold one, in training or with a callback to come, are its slots, whoever
ends, is killed or is recycled. `FutureInv` says that a cell with a future is in the
window or has its row, so what a death can lose is within the window; `AccountInv`
follows each cell from the list over the batch and the window to the disk, the writer
or a reported failure.

The argument for the promise of a pull. `Commit` is the rename of `record.json`; every other step
of an execution stutters, because the record of a run that is being rewritten does not change
(`Owners`). A pull's `due` is the list it took, and the step that ends it may say "done" because
`ListInv` has nothing left to bring. A step of a puller that renames a directory delivers the
record that is on the cluster, by `CopyInv`, even if another puller staged it or brought it first.

Progress. The prover cannot reason about `ENABLED`, so in the theorems on liveness fairness is
said by guards, `[]<>~guard \/ []<><<Step>>_vars`, with the guard written beside the step;
that the guard holds exactly where the step is enabled was checked with TLC on small instances.
Two kinds of argument are within its reach.

*A finite chain of stages.* From stage to stage nothing that others do takes a
process back, and the fair step of each stage leads to the next. A launch is answered in at
most six system calls of its own, because a second attempt is the last (`LaunchesEnd`); an
arm's thread goes through waiting, search, selection, freeze and test, and its only wait is for
the canary, which ends (`ArmsReturn`); a training that the loop waits for ends, and so does its callback
(`WaitsEnd`, where `WaitInv` and `SomeoneHolds` say that there always is one); and as no cached
answer extends the window, and a pull that ends clears the flag, the next asking line pulls
(`PullsNeverStarve`).

*No stall, and a descent.* When the number of stages depends on the constants, two theorems stand
for the end: in every state something can step, and what is left to do is a natural number
that falls with every step. Under fairness they leave neither an endless run nor an early stop; only
that conclusion, an induction over that number inside a temporal formula, is not checked by the
prover.

* The pool (`LegNeverStalls`, `LegAdvances`): a cell in the list weighs more than one in the
  batch, that more than one in the window, and so on to its row; killing a worker only moves
  cells on. With the value at the opening of a leg this is a bound in steps
  (`LaunchIsBounded`).
* The chain (`ChainNeverStalls`, `ChainAdvances`): a walk over the candidates is bounded, and every
  candidate not yet known and every death still allowed pays for one walk more. `JobInv` is what
  makes the price right: a job never trains what it knows, so one that stops for its wall
  budget has made a candidate known.
* The search (`PassNeverHangs`, `PassAdvances`): the stages of the generations still to come, each
  worth the ends and the pulls of all its tasks. `WrittenInv` (a candidate is written at most
  once per pass) shows that the case analysis of the authoring loop always has a case. Its
  hypothesis, as many versions as launches, is a bound of the model, not of the code.
* The tiered pass (`PassNeverStalls`, `PassAdvances`): the rank of its position, the stages of its arms'
  threads, the threads beside them and the blocks not yet over.
* An incident (`IncidentWindsDown`, `EachRoundRunsOut`): the rounds of the batches under way, which no
  step under an open incident gives back.

Only model-checked: `Returns`, `Quiesces`, `PassEnds`, `Completes` and `Drains`, liveness over a number
of steps that the constants determine. The descents above are the substance of the last three, and
`EachRoundRunsOut` is `Quiesces` for one round at a time. `Returns` has no such descent: a node may
put a task back into the queue any number of times, and only strong fairness ends it.

## 5. What is left

In the order of what matters most:

1. The local campaign (`parallel.run_parallel`): several arms' threads on one pool, and a local
   arm that archives a generation after all of it was authored.
2. The untiered cluster campaign (`run_campaign_on_cluster`), whose parts are the ones
   modelled here in a simpler order.
3. A composition of `SearchArm` with `BatchDriver` proper, instead of its promise.

## 6. What is not modelled

Most of the repository's lines are numerical code, data acquisition, inference and figures:
they compute values and keep no protocol, and real arithmetic is not for TLC. The share of
the code that the modules cover is small for that reason. The same holds of the large
scripts: `analyze_campaign.py`, `power_analysis.py` and `freeze.py` are one process over
files nobody else writes; `sentinel.py` watches and reports.

The sandbox and the LLM transports are external processes whose outcome is data; a client's
key failover is one flag in one thread at a time. The spend ledger's total is read before
its append, so that two processes can both report a threshold or both miss it; it only warns.
Lanes, allocation, telemetry and health reports read snapshots and change nothing that a
campaign depends on; so do `killswitch.retreat_cap` and `plan_footprint` (the former, for a cap
under its floor, raises the cap against its docstring; no campaign code acts on it).
Wall-clock times appear only as "expired or not". The transport's own retries are
inside one success or failure of a step. `load_all`'s filters are left out of `ArchivePull`,
stall reports out of `DevicePool`, prompt text and the journal out of `SearchArm`.

## 7. Running it

    tlc -config BatchDriver.cfg MCBatchDriver        # and the other .cfg files
    tlapm BatchDriver_proofs.tla                     # and the other *_proofs modules

Every property of a passing run has a mutant: a definition marked `Mutant:` beside the one
it replaces, a change that a plausible slip in the code would make, under which TLC
finds the property violated. `PROJECT.json` pairs them.
