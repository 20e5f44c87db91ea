----------------------------- MODULE MCWorkLedger -----------------------------
(* The work ledger on a small instance: interchangeable processes and       *)
(* units, so their permutations are a symmetry of the safety runs.          *)
EXTENDS WorkLedger, TLC

Interchange == Permutations(Owners) \cup Permutations(Units)

=============================================================================
