--------------------------- MODULE MCDiskScratch ---------------------------
(* Instances of DiskScratch for TLC: see the .cfg files.                   *)
EXTENDS DiskScratch, TLC

\* Runs differ in nothing but what they have done.
Symmetry == Permutations(Runs)

\* A run that repeats its test is explored alone, runs that do not, together.
RepeatsAlone ==
    \A q, r \in Runs : q # r /\ repeats[r] > 1 => pc[q] = "idle" \/ pc[r] = "idle"
=============================================================================
