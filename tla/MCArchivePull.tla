----------------------------- MODULE MCArchivePull -----------------------------
EXTENDS ArchivePull, TLC

Symmetry == Permutations(Runs) \cup Permutations(Execs) \cup Permutations(Pullers)
================================================================================
