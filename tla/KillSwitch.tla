------------------------------- MODULE KillSwitch -------------------------------
(***************************************************************************)
(* The kill switch, src/cluster/killswitch.py: what a set of epilogue      *)
(* rows says about the cluster.  A task that ends with an error leaves     *)
(* one row; a burst of deaths over several hosts that are neither our own  *)
(* exits nor walltime kills is taken for an administrator's doing.         *)
(***************************************************************************)
EXTENDS Naturals, FiniteSets

CONSTANTS
    Tasks,        \* tasks that may end with an error
    Hosts,        \* hosts they ran on
    RunSecs,      \* times that they may have run for
    HRt,          \* h_rt of the campaign, 0 if it has none
    SearchHRt,    \* search_h_rt of the campaign, 0 if it has none
    MinDeaths,    \* MIN_DEATHS
    MinHosts,     \* MIN_DISTINCT_HOSTS
    Window        \* WINDOW_SECS, in ticks of the clock

ASSUME KillAssumption ==
    /\ RunSecs \subseteq Nat /\ HRt \in Nat /\ SearchHRt \in Nat
    /\ MinDeaths \in Nat \ {0}
    /\ MinHosts \in Nat \ {0, 1}
    /\ Window \in Nat

(***************************************************************************)
(* A row: "own" is rc 1, a reject of our own.  Ages count ticks and stop   *)
(* when the row has left the window; an undated row has no age.            *)
(***************************************************************************)
Old == Window + 1
Row == [task : Tasks, host : Hosts, own : BOOLEAN, secs : RunSecs, age : 0..Old,
        dated : BOOLEAN]

HostsOf(R) == {r.host : r \in R}
Older(r)   == [r EXCEPT !.age = IF @ < Old THEN @ + 1 ELSE @]

\* _h_rt_seconds: the largest walltime that is configured; 0 when none is.
Limit == IF SearchHRt > HRt THEN SearchHRt ELSE HRt

\* Mutant: a row without a timestamp passes for recent.
RecentOrUndated(R) == {r \in R : ~r.dated \/ r.age <= Window}

\* The rows in the window; a row without a timestamp is never called recent.
Recent(R) == {r \in R : r.dated /\ r.age <= Window}

\* The two filters: application exits, then, if there is a walltime to compare with,
\* deaths at nine tenths of it or later.
Deaths(R)   == {r \in Recent(R) : ~r.own}
Untimely(R) == {r \in Deaths(R) : Limit # 0 => 10 * r.secs < 9 * Limit}

Classify(R) ==
    CASE Deaths(R) = {} -> "ok"
      [] Deaths(R) # {} /\ Untimely(R) = {} -> "walltime"
      [] Untimely(R) # {} /\ Cardinality(HostsOf(Untimely(R))) = 1 -> "node_failure"
      [] OTHER -> IF /\ Cardinality(Untimely(R)) >= MinDeaths
                     /\ Cardinality(HostsOf(Untimely(R))) >= MinHosts
                  THEN "admin_kill" ELSE "node_failure"

\* The undated rows a verdict reports: only the verdict "ok" carries them.
ReportsUndated(R) == Classify(R) = "ok" /\ \E r \in R : ~r.dated

\* _enforce_kill_switch: whether the rows make it write the incident file.
Retreats(R) == ~ReportsUndated(R) /\ Classify(R) = "admin_kill"

--------------------------------------------------------------------------------
(***************************************************************************)
(* What the classifier is for, with neither its order nor its cases: a     *)
(* burst is MinDeaths recent deaths on MinHosts hosts, each of them dated, *)
(* not ours, and not at its walltime: it was short of some walltime that   *)
(* the campaign asks for, or the campaign asks for none.                   *)
(***************************************************************************)
OffWalltime(r) ==
    (HRt = 0 /\ SearchHRt = 0) \/ \E h \in {HRt, SearchHRt} : h # 0 /\ 10 * r.secs < 9 * h

Burst(R) ==
    \E D \in SUBSET R :
        /\ \A r \in D : r.dated /\ r.age <= Window /\ ~r.own /\ OffWalltime(r)
        /\ Cardinality(D) >= MinDeaths
        /\ Cardinality(HostsOf(D)) >= MinHosts
================================================================================
