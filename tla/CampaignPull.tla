------------------------------ MODULE CampaignPull ------------------------------
(***************************************************************************)
(* The lines of a campaign process share one throttled pull and one        *)
(* submission gate (src/cluster/campaign.py: build_cluster_run).  Each     *)
(* line is a thread that calls run_batch; every cycle of a batch calls     *)
(* shared_pull, which one thread at a time turns into a real pull.  That   *)
(* pull also brings the epilogue rows and classifies them; a retreat opens *)
(* an incident, which keeps batches from starting until a person clears it.*)
(***************************************************************************)
EXTENDS KillSwitch

CONSTANTS
    Lines,        \* threads of the process
    MaxErrors,    \* a streak of pull failures that ends a batch
    MaxRounds     \* submissions of one batch (its first and its requeues)

ASSUME PullAssumption == MaxErrors \in Nat \ {0} /\ MaxRounds \in Nat \ {0}

VARIABLES
    rows,         \* the epilogue rows on the cluster
    incident,     \* the incident file: absent, open or cleared
    person,       \* a person has read the incident file and is about to clear it
    pc,           \* pc[l]: where line l is
    streak,       \* pull_failures of the batch of l
    rounds,       \* submissions the batch of l has made
    busy,         \* pull_state["busy"]
    window,       \* less than min_pull_interval since pull_state["t"]
    failed        \* pull_state["last_error"] is set

shared == <<busy, window, failed>>
lines  == <<pc, streak, rounds>>
kill   == <<rows, incident, person>>
vars   == <<kill, lines, shared>>

\* "idle" is between two batches, "pull" at the top of a cycle, "pulling" in
\* pull_archive, "act" after the pull, where the batch may submit.
Places == {"idle", "pull", "pulling", "act", "ended"}

TypeOK ==
    /\ rows \subseteq Row
    /\ incident \in {"absent", "open", "cleared"}
    /\ person \in BOOLEAN
    /\ pc \in [Lines -> Places]
    /\ streak \in [Lines -> 0..MaxErrors]
    /\ rounds \in [Lines -> 0..MaxRounds]
    /\ busy \in BOOLEAN /\ window \in BOOLEAN /\ failed \in BOOLEAN

Init ==
    /\ rows = {} /\ incident = "absent" /\ person = FALSE
    /\ pc = [l \in Lines |-> "idle"]
    /\ streak = [l \in Lines |-> 0]
    /\ rounds = [l \in Lines |-> 0]
    /\ busy = FALSE /\ window = FALSE /\ failed = FALSE

--------------------------------------------------------------------------------
(***************************************************************************)
(* The cluster, the clock and the person.                                  *)
(***************************************************************************)

\* A task ends with an error and its jobscript appends a row, undated when
\* the jobscript predates the timestamp.
TaskDies(t, h, o, s, d) ==
    /\ ~ \E r \in rows : r.task = t
    /\ rows' = rows \cup {[task |-> t, host |-> h, own |-> o, secs |-> s, dated |-> d,
                           age |-> IF d THEN 0 ELSE Old]}
    /\ UNCHANGED <<incident, person, lines, shared>>

Tick ==
    /\ rows' = {Older(r) : r \in rows}
    /\ UNCHANGED <<incident, person, lines, shared>>

WindowEnds ==
    /\ window
    /\ window' = FALSE
    /\ UNCHANGED <<kill, lines, busy, failed>>

\* clear_incident: a read of the file, and a write of what was read.
ReadsIncident ==
    /\ incident = "open" /\ ~person
    /\ person' = TRUE
    /\ UNCHANGED <<rows, incident, lines, shared>>

ClearsIncident ==
    /\ person
    /\ person' = FALSE /\ incident' = "cleared"
    /\ UNCHANGED <<rows, lines, shared>>

--------------------------------------------------------------------------------
(***************************************************************************)
(* A line: its batches, and the pull of each cycle.                        *)
(***************************************************************************)

\* Mutant: the gate is gone.
Ungated == FALSE

\* run_batch is entered: the only place that reads the incident file.
Blocked == incident = "open"

Enter(l) ==
    /\ pc[l] = "idle"
    /\ ~Blocked
    /\ pc' = [pc EXCEPT ![l] = "pull"]
    /\ streak' = [streak EXCEPT ![l] = 0]
    /\ rounds' = [rounds EXCEPT ![l] = 0]
    /\ UNCHANGED <<kill, shared>>

\* The gate raises: the line ends.
Refused(l) ==
    /\ pc[l] = "idle"
    /\ Blocked
    /\ pc' = [pc EXCEPT ![l] = "ended"]
    /\ UNCHANGED <<kill, streak, rounds, shared>>

\* The run is launched again.
Relaunch(l) ==
    /\ pc[l] = "ended"
    /\ pc' = [pc EXCEPT ![l] = "idle"]
    /\ UNCHANGED <<kill, streak, rounds, shared>>

\* A failed pull adds to the streak; the last one ends the batch.
CountsFailure(l) ==
    /\ streak' = [streak EXCEPT ![l] = @ + 1]
    /\ pc' = [pc EXCEPT ![l] = IF streak[l] + 1 >= MaxErrors THEN "ended" ELSE "pull"]

CountsSuccess(l) ==
    /\ streak' = [streak EXCEPT ![l] = 0]
    /\ pc' = [pc EXCEPT ![l] = "act"]

\* Mutants: only the window throttles; a failure is never served from it.
ThrottledByWindow == window
NeverFailsFromCache == FALSE

\* shared_pull does not pull: another thread is at it, or the last one is recent.
Throttled == busy \/ window

\* A recent pull failed and nobody is retrying it: the caller is told so.
FailsFromCache == failed /\ ~busy

CachedSuccess(l) ==
    /\ pc[l] = "pull"
    /\ Throttled /\ ~FailsFromCache
    /\ CountsSuccess(l)
    /\ UNCHANGED <<kill, rounds, shared>>

CachedFailure(l) ==
    /\ pc[l] = "pull"
    /\ Throttled /\ FailsFromCache
    /\ CountsFailure(l)
    /\ UNCHANGED <<kill, rounds, shared>>

BeginPull(l) ==
    /\ pc[l] = "pull"
    /\ ~Throttled
    /\ pc' = [pc EXCEPT ![l] = "pulling"]
    /\ busy' = TRUE
    /\ UNCHANGED <<kill, streak, rounds, window, failed>>

\* Mutant: the failure path keeps the flag.
EndsPullKeepsFlag(l, ok) ==
    /\ pc[l] = "pulling"
    /\ busy' = ~ok /\ window' = TRUE /\ failed' = ~ok

\* The pull is over: its thread stamps the window and frees the flag.
EndsPull(l, ok) ==
    /\ pc[l] = "pulling"
    /\ busy' = FALSE /\ window' = TRUE /\ failed' = ~ok

\* Mutant: every verdict rewrites the incident file.
PullSyncedRewrites(l) ==
    /\ EndsPull(l, TRUE)
    /\ incident' = IF Retreats(rows) THEN "open" ELSE "absent"
    /\ CountsSuccess(l)
    /\ UNCHANGED <<rows, person, rounds>>

\* The epilogue rows came along and were classified.
PullSynced(l) ==
    /\ EndsPull(l, TRUE)
    /\ incident' = IF Retreats(rows) THEN "open" ELSE incident
    /\ CountsSuccess(l)
    /\ UNCHANGED <<rows, person, rounds>>

\* The rows did not: the error is swallowed, the pull counts all the same.
PullUnsynced(l) ==
    /\ EndsPull(l, TRUE)
    /\ CountsSuccess(l)
    /\ UNCHANGED <<kill, rounds>>

PullFails(l) ==
    /\ EndsPull(l, FALSE)
    /\ CountsFailure(l)
    /\ UNCHANGED <<kill, rounds>>

\* The batch submits what is pending, waits for its jobs, or is done.
Submit(l) ==
    /\ pc[l] = "act" /\ rounds[l] < MaxRounds
    /\ rounds' = [rounds EXCEPT ![l] = @ + 1]
    /\ pc' = [pc EXCEPT ![l] = "pull"]
    /\ UNCHANGED <<kill, streak, shared>>

Waits(l) ==
    /\ pc[l] = "act"
    /\ pc' = [pc EXCEPT ![l] = "pull"]
    /\ UNCHANGED <<kill, streak, rounds, shared>>

Returns(l) ==
    /\ pc[l] = "act"
    /\ pc' = [pc EXCEPT ![l] = "idle"]
    /\ UNCHANGED <<kill, streak, rounds, shared>>

--------------------------------------------------------------------------------
Pulls(l)  == PullSynced(l) \/ PullUnsynced(l) \/ PullFails(l)
Calls(l)  == CachedSuccess(l) \/ CachedFailure(l) \/ BeginPull(l)
Acts(l)   == Submit(l) \/ Waits(l) \/ Returns(l)
Line(l)   == Enter(l) \/ Refused(l) \/ Relaunch(l) \/ Calls(l) \/ Pulls(l) \/ Acts(l)
Dying     == \E t \in Tasks, h \in Hosts, o \in BOOLEAN, s \in RunSecs, d \in BOOLEAN :
                TaskDies(t, h, o, s, d)
World     == \/ Dying \/ Tick \/ WindowEnds \/ ReadsIncident \/ ClearsIncident

Next == World \/ \E l \in Lines : Line(l)

Spec == Init /\ [][Next]_vars

(***************************************************************************)
(* A thread that can go on does, a pull ends one way or another (ssh has a *)
(* timeout), and the interval passes.  Nobody has to clear an incident.    *)
(***************************************************************************)
FairSpec == Spec /\ WF_vars(WindowEnds) /\ \A l \in Lines : WF_vars(Line(l))

--------------------------------------------------------------------------------
(***************************************************************************)
(* Properties.                                                             *)
(***************************************************************************)

\* One thread at a time is in pull_archive, the flag says so, and no line is
\* told of a pull in progress when there is none: a flag that outlives its
\* thread would turn every later pull into a cached success.
OnePuller ==
    /\ busy <=> \E l \in Lines : pc[l] = "pulling"
    /\ \A k, l \in Lines : pc[k] = "pulling" /\ pc[l] = "pulling" => k = l

\* The throttle never becomes a refusal: while some line goes on asking,
\* real pulls go on being made.
PullsGoOn ==
    ([]<>(\E l \in Lines : pc[l] = "pull")) => []<>(\E l \in Lines : pc[l] = "pulling")

\* A line is told that it may go on while a pull is under way, by that pull or by the
\* remembered success of an earlier one.
GoesOn(l) == busy /\ pc[l] # "act" /\ pc'[l] = "act"

\* When pulls succeed no more, no line drives on for ever on answers from memory: its
\* streak reaches the bound that ends a batch, in this batch and in every later one,
\* unless it is always asking just when another line tries again.
OutageSurfaces ==
    (<>[][\A l \in Lines : ~GoesOn(l)]_vars) => \A l \in Lines : []<>(pc[l] = "ended")

\* campaign.py: a failure raises to every caller, so that outage streaks accumulate.  Not
\* so for a line that asks while another one is trying: it is told of an old success.
OutageAlwaysSurfaces ==
    (<>[][\A l \in Lines : ~(pc[l] = "pulling" /\ pc'[l] = "act")]_vars) =>
        \A l \in Lines : []<>(pc[l] = "ended")

\* A pull that brought the rows opens an incident only for a burst, and no burst passes it:
\* exits of our own, walltime deaths, old rows and undated rows, in any mixture and number,
\* never add up to one, and none of the first three hides one.
RetreatsOnBursts ==
    [][\A l \in Lines : PullSynced(l) =>
            /\ incident # "open" /\ incident' = "open" => Burst(rows)
            /\ Burst(rows) /\ (\A r \in rows : r.dated) => incident' = "open"]_vars

\* campaign.py: with undated rows the verdict is not enforced.  Not so: only the verdict
\* "ok" counts them, and a burst among the dated rows opens an incident all the same.
UndatedNeverRetreats ==
    [][incident # "open" /\ incident' = "open" => \A r \in rows : r.dated]_vars

\* A machine may stop the campaign, only a person may restart it: no pull, no
\* later verdict and no relaunch takes an open incident away.
OnlyAPersonReopens ==
    [][incident = "open" /\ incident' # "open" => person /\ ~person']_vars

\* An incident that nobody clears ends the submissions of every line, although
\* the batches already started are not stopped by it.
Quiesces ==
    (<>[](incident = "open")) =>
        <>[][\A l \in Lines : rounds'[l] <= rounds[l]]_vars

\* No submission while an incident is open (not so: the gate is read at entry).
NoSubmitUnderIncident ==
    [][incident = "open" => \A l \in Lines : rounds'[l] <= rounds[l]]_vars
================================================================================
