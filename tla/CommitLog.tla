------------------------------- MODULE CommitLog -------------------------------
(***************************************************************************)
(* What the store promises of the rows one tier is handed: a row accepted  *)
(* waits behind those accepted before it, no more than Depth of them; it   *)
(* lands in that order, in batches of at most Batch that land whole, or is *)
(* known to have failed with its batch; a kill loses what was waiting and  *)
(* nothing else.  The two rows of a transaction land together and at once. *)
(* WriteQueue implements it.                                               *)
(***************************************************************************)
EXTENDS Integers, Sequences, SequencesExt

CONSTANTS
  Depth,   \* HARNESS_STORE_WRITE_QUEUE_DEPTH
  Batch,   \* HARNESS_STORE_COMMIT_BATCH
  Txs      \* the transactions callers run, by number

VARIABLES
  accepted,  \* rows accepted so far: they are numbered from 1
  waiting,   \* accepted rows not yet in the tier, oldest first
  log,       \* the tier, in commit order; a transaction t's rows are -t and -t
  failed,    \* rows the process knows to have failed
  lost       \* rows that died with a process

promised == <<accepted, waiting, log, failed, lost>>

Init ==
  /\ accepted = 0 /\ waiting = <<>> /\ log = <<>>
  /\ failed = {} /\ lost = {}

Accept ==
  /\ Len(waiting) < Depth
  /\ accepted' = accepted + 1
  /\ waiting' = Append(waiting, accepted + 1)
  /\ UNCHANGED <<log, failed, lost>>

(* The oldest n rows leave the queue together.                              *)
Leave(n) ==
  /\ n \in 1..Batch /\ n <= Len(waiting)
  /\ waiting' = SubSeq(waiting, n + 1, Len(waiting))

Land ==
  \E n \in 1..Batch :
    /\ Leave(n)
    /\ log' = log \o SubSeq(waiting, 1, n)
    /\ UNCHANGED <<accepted, failed, lost>>

Fail ==
  \E n \in 1..Batch :
    /\ Leave(n)
    /\ failed' = failed \cup {waiting[i] : i \in 1..n}
    /\ UNCHANGED <<accepted, log, lost>>

Transact(t) ==
  /\ -t \notin ToSet(log)
  /\ log' = log \o <<-t, -t>>
  /\ UNCHANGED <<accepted, waiting, failed, lost>>

Kill ==
  /\ lost' = lost \cup failed \cup ToSet(waiting)
  /\ waiting' = <<>> /\ failed' = {}
  /\ UNCHANGED <<accepted, log>>

Next == Accept \/ Land \/ Fail \/ Kill \/ \E t \in Txs : Transact(t)

Spec == Init /\ [][Next]_promised

================================================================================
