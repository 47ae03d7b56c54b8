----------------------------- MODULE BatchOutcome -----------------------------
(***************************************************************************)
(* What run_batch promises its caller (the docstring of driver.py's loop), *)
(* with no queue, retry, pull or crash in it: every spec is completed or   *)
(* permanently abandoned, an abandonment is never taken back, and the one  *)
(* summary is returned when nothing is open, with ok set when nothing was  *)
(* abandoned.                                                              *)
(***************************************************************************)
CONSTANT Specs

VARIABLES
    complete,   \* specs with a record in the local archive
    abandoned,  \* specs with a permanent ledger row
    verdict     \* "running" until the summary is returned

outcome == <<complete, abandoned, verdict>>

Init == complete = {} /\ abandoned = {} /\ verdict = "running"

\* Specs are settled, and the summary may be returned at once.
Settle ==
    /\ verdict = "running"
    /\ complete' \in SUBSET Specs /\ complete \subseteq complete'
    /\ abandoned' \in SUBSET Specs /\ abandoned \subseteq abandoned'
    /\ \/ verdict' = "running"
       \/ /\ complete' \cup abandoned' = Specs
          /\ verdict' = IF abandoned' = {} THEN "ok" ELSE "incomplete"

\* Records still arrive after the summary; nothing else changes.
Late ==
    /\ verdict # "running"
    /\ complete' \in SUBSET Specs /\ complete \subseteq complete'
    /\ UNCHANGED <<abandoned, verdict>>

Next == Settle \/ Late

Spec == Init /\ [][Next]_outcome
================================================================================
