---------------------------- MODULE MCBatchDriver ----------------------------
EXTENDS BatchDriver, TLC

\* Specs and slots are interchangeable: the order of flat_specs only decides
\* which specs share an array.
Symmetry == Permutations(Specs) \cup Permutations(Jobs)

\* Another line's pull matters where the mirror is read next: what it brings
\* earlier it can also bring then, since records and markers only accumulate.
PullsWhereRead ==
    mirror' # mirror \/ mmarkers' # mmarkers
    => \/ pc \in {"diff", "submit", "returned"}
       \/ pc' # pc \/ pullFails' # pullFails
\* Bound: the qdel of one array fails, in the first call; the second call may
\* find what it left in the queue.
OneQdelFails ==
    stuck' \subseteq stuck \/ (starts = 1 /\ stuck = {} /\ Cardinality(stuck') = 1)
================================================================================
