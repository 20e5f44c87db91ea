---------------------------- MODULE MCGradeLedger ----------------------------
(* One submission with two criteria, the second one multiple-choice.         *)
EXTENDS GradeLedger

CONSTANTS s1, c1, c2, p1, p2

(* Change the first criterion, or both.                                      *)
MCWants == {(c1 :> 1) @@ (c2 :> NoPts), (c1 :> 0) @@ (c2 :> 1)}

=============================================================================
