----------------------------- MODULE MCJournal -----------------------------
\* Model checking of Journal: three processes on one path.
EXTENDS Journal, TLC

Symmetry == Permutations(Procs)
=============================================================================
