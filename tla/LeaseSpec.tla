------------------------------- MODULE LeaseSpec -------------------------------
(***************************************************************************)
(* What leasing promises of the units of a run.  A unit that waits is      *)
(* handed to one process; it is out until a process it was handed to       *)
(* reports how it ended, gives it back, or the unit is taken back.  A unit *)
(* taken back waits again while its old worker may still be at work: the   *)
(* late report counts as if it were on time, but a process reports a unit  *)
(* it was handed, once, and a unit that has ended stays so.  An attempt is *)
(* counted by a failure and by nothing else; at the limit the unit is      *)
(* quarantined.  Clocks, expiries and the statements that keep them are    *)
(* not seen here.  WorkLedger implements it.                               *)
(***************************************************************************)
EXTENDS Naturals

CONSTANTS
  Procs,       \* the processes units are handed to
  Units,       \* the work units of the run
  MaxAttempts  \* the failures a unit is quarantined at

VARIABLES
  waiting,  \* units free to be handed out
  done,     \* units completed
  lost,     \* units quarantined
  tries,    \* [Units -> Nat], failures counted
  workers   \* [Units -> SUBSET Procs], who was handed the unit and may report

promised == <<waiting, done, lost, tries, workers>>

Ended == done \cup lost
Out == Units \ (waiting \cup Ended)

Init ==
  /\ waiting = Units /\ done = {} /\ lost = {}
  /\ tries = [u \in Units |-> 0]
  /\ workers = [u \in Units |-> {}]

Hand(p, u) ==
  /\ u \in waiting
  /\ waiting' = waiting \ {u}
  /\ workers' = [workers EXCEPT ![u] = @ \cup {p}]
  /\ UNCHANGED <<done, lost, tries>>

(* A process that reports, gives back or lets go is done with the unit.     *)
Leaves(p, u) ==
  /\ p \in workers[u]
  /\ workers' = [workers EXCEPT ![u] = @ \ {p}]

Complete(p, u) ==
  /\ Leaves(p, u) /\ u \notin Ended
  /\ done' = done \cup {u}
  /\ waiting' = waiting \ {u}
  /\ UNCHANGED <<lost, tries>>

Fail(p, u) ==
  /\ Leaves(p, u) /\ u \notin Ended
  /\ tries' = [tries EXCEPT ![u] = @ + 1]
  /\ \/ /\ tries[u] + 1 < MaxAttempts
        /\ waiting' = waiting \cup {u} /\ lost' = lost
     \/ /\ tries[u] + 1 >= MaxAttempts
        /\ waiting' = waiting \ {u} /\ lost' = lost \cup {u}
  /\ UNCHANGED done

GiveBack(p, u) ==
  /\ Leaves(p, u) /\ u \in Out
  /\ waiting' = waiting \cup {u}
  /\ UNCHANGED <<done, lost, tries>>

LetGo(p, u) ==
  /\ Leaves(p, u)
  /\ UNCHANGED <<waiting, done, lost, tries>>

(* Units are taken back from whoever has them, without their knowing.       *)
TakeBack ==
  /\ \E S \in SUBSET Out : waiting' = waiting \cup S
  /\ UNCHANGED <<done, lost, tries, workers>>

(* A process dies, and will report nothing it was handed.                   *)
Die(p) ==
  /\ workers' = [u \in Units |-> workers[u] \ {p}]
  /\ UNCHANGED <<waiting, done, lost, tries>>

Next ==
  \/ TakeBack
  \/ \E p \in Procs :
       \/ Die(p)
       \/ \E u \in Units :
            Hand(p, u) \/ Complete(p, u) \/ Fail(p, u) \/ GiveBack(p, u) \/ LetGo(p, u)

Spec == Init /\ [][Next]_promised

================================================================================
