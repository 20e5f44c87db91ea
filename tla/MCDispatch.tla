------------------------------ MODULE MCDispatch ------------------------------
(* Two drivers, each with a run of its own; run A has a unit for each of two *)
(* judges, run B one to extract.                                             *)
EXTENDS Dispatch, TLC

CONSTANTS d1, d2, A, B, a1, a2, b1, j1, j2, c1, c2

MCDrives == [d \in {d1, d2} |-> IF d = d1 THEN A ELSE B]
MCRunOf == [u \in {a1, a2, b1} |-> IF u = b1 THEN B ELSE A]
MCJudgeOf == [u \in {a1, a2, b1} |->
  CASE u = a1 -> j1 [] u = a2 -> j2 [] u = b1 -> NoJudge]
MCCost == [u \in {a1, a2, b1} |-> 1]

(* The liveness instance: a unit to each run, all for one judge.             *)
LiveRunOf == [u \in {a1, b1} |-> IF u = a1 THEN A ELSE B]
LiveJudgeOf == [u \in {a1, b1} |-> j1]
LiveCost == [u \in {a1, b1} |-> 1]

(* Run A's two judges, with their units, are interchangeable.                *)
Swap == (a1 :> a2) @@ (a2 :> a1) @@ (j1 :> j2) @@ (j2 :> j1)
Arms == {Swap, [x \in {a1, a2, j1, j2} |-> x]}

OneCohort == [r \in {A, B} |-> c1]
TwoCohorts == [r \in {A, B} |-> IF r = A THEN c1 ELSE c2]

=============================================================================
