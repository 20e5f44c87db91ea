------------------------------- MODULE MCCells -------------------------------
(* Two submissions of one criterion: the first was drawn into the random arm *)
(* and has a panel of three, the second has one judge.                       *)
EXTENDS Cells, TLC

MCBaseOf == <<3, 1>>

=============================================================================
