----------------------------- MODULE MCRunControl -----------------------------
(* The run's lifecycle with interchangeable processes: their permutations    *)
(* are a symmetry of the safety run.                                         *)
EXTENDS RunControl, TLC

ProcSymmetry == Permutations(Procs)

=============================================================================
