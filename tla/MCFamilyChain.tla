----------------------------- MODULE MCFamilyChain -----------------------------
(***************************************************************************)
(* The instances of FamilyChain that TLC checks.                           *)
(***************************************************************************)
EXTENDS FamilyChain

\* bayes_opt and tpe with a start of two, cma_es with generations of two.
Arms == {{1..2}, {1..2, 3..4, 5..5}}

\* A start of one, and generations of one.
OnlyStart   == {{1..1}}
Generations == {{1..1, 2..2}}
================================================================================
