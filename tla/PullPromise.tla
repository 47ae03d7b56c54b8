------------------------------ MODULE PullPromise ------------------------------
(***************************************************************************)
(* What pull_archive promises the processes that share one mirror (its     *)
(* docstring), with no executions, lists, chunks or staging in it: a run's *)
(* record is committed once, the mirror takes committed records whole and  *)
(* keeps them, and a pull is told done only when all that was committed    *)
(* when it began is in the mirror, whoever brought it.                     *)
(***************************************************************************)
CONSTANTS Runs, Records, Pullers

VARIABLES
    committed,  \* committed[r]: the record of r on the cluster, {} if there is none
    mirrored,   \* mirrored[r]: its copy in the mirror, {} if there is none
    due,        \* due[p]: the runs that were committed when p's pull began
    verdict     \* verdict[p]: "idle", "pulling" or "returned"

vars == <<committed, mirrored, due, verdict>>

Init ==
    /\ committed = [r \in Runs |-> {}]
    /\ mirrored = [r \in Runs |-> {}]
    /\ due = [p \in Pullers |-> {}]
    /\ verdict = [p \in Pullers |-> "idle"]

Commit(r, x) ==
    /\ committed[r] = {}
    /\ committed' = [committed EXCEPT ![r] = {x}]
    /\ UNCHANGED <<mirrored, due, verdict>>

\* p goes on, or returns if nothing it owes is missing.
Settle(p) ==
    \/ verdict' = [verdict EXCEPT ![p] = "pulling"]
    \/ /\ \A r \in due'[p] : mirrored'[r] # {}
       /\ verdict' = [verdict EXCEPT ![p] = "returned"]

Begin(p) ==
    /\ verdict[p] # "pulling"
    /\ due' = [due EXCEPT ![p] = {r \in Runs : committed[r] # {}}]
    /\ Settle(p)
    /\ UNCHANGED <<committed, mirrored>>

\* Some runs' records, none or more, are put in the mirror.
Deliver(p, S) ==
    /\ verdict[p] = "pulling"
    /\ mirrored' = [r \in Runs |-> IF r \in S THEN committed[r] ELSE mirrored[r]]
    /\ Settle(p)
    /\ UNCHANGED <<committed, due>>

Fail(p) ==
    /\ verdict[p] = "pulling"
    /\ verdict' = [verdict EXCEPT ![p] = "idle"]
    /\ UNCHANGED <<committed, mirrored, due>>

Next ==
    \/ \E r \in Runs, x \in Records : Commit(r, x)
    \/ \E p \in Pullers : Begin(p) \/ Fail(p) \/ \E S \in SUBSET Runs : Deliver(p, S)

Spec == Init /\ [][Next]_vars
================================================================================
