------------------------------- MODULE WriteQueue -------------------------------
(***************************************************************************)
(* The writer of one tier: callers queue rows and wait while the queue is  *)
(* full, one thread drains it in batches, transactions of the callers take *)
(* the same lock and connection, a disk that fills breaks the queue and    *)
(* ends the process, an interrupt may end a call with its transaction open, *)
(* close() flushes, a kill may come at any time.                            *)
(*                                                                         *)
(* Abstracted: what a statement writes, the age of the oldest row (a batch *)
(* may fall due at any moment), the retries of a busy database (they end   *)
(* as success or as an error), the name guard, and transactions nested or  *)
(* across tiers (they raise before they change anything, or in the body).  *)
(***************************************************************************)
EXTENDS Integers, FiniteSets, Sequences, SequencesExt

CONSTANTS
  Callers,    \* the threads that write
  Depth,      \* HARNESS_STORE_WRITE_QUEUE_DEPTH
  Batch,      \* HARNESS_STORE_COMMIT_BATCH
  Hooks,      \* what the disk-full hook may do: "exits" (production), "returns"
  MaxCalls,   \* bound: calls of enqueue
  MaxTxs,     \* bound: calls of transaction
  MaxFaults,  \* bound: statements that fail, calls cut short, joins that time out
  MaxKills    \* bound: processes killed

ASSUME QueueAssumption ==
  /\ Depth \in Nat \ {0} /\ Batch \in Nat \ {0}
  /\ {MaxCalls, MaxTxs, MaxFaults, MaxKills} \subseteq Nat
  /\ Hooks # {} /\ Hooks \subseteq {"exits", "returns"}
  /\ Callers \cap {"free", "writer"} = {}

VARIABLES
  log,       \* the tier's file: committed rows, in commit order
  queue,     \* _queue
  pending,   \* _pending
  stopping,  \* _stopping
  broken,    \* _broken
  failures,  \* how many errors _failures holds
  writer,    \* the thread: where it is, and its batch
  lock,      \* who holds _write_lock
  session,   \* the open transaction of the write connection and its rows
  shut,      \* there is no write connection, or its holder's was closed
  caller,    \* [Callers -> what the thread is in the middle of]
  closer,    \* close(): not called, joining, or how it returned
  rows,      \* rows accepted so far
  failed,    \* the rows of the batches that failed in this process
  lost,      \* the rows earlier processes lost
  cut,       \* a call of this process was cut short with its transaction open
  calls, txs, faults, kills

door == <<queue, pending, rows>>
disk == <<log, session, shut, lock>>
history == <<failed, lost, cut>>
bounds == <<calls, txs, faults, kills>>
vars == <<door, stopping, broken, failures, writer, disk, caller, closer, history, bounds>>

Free == "free"
NoSession == [open |-> FALSE, rows |-> <<>>]
NoThread == [pc |-> "none", batch |-> <<>>]
Idle == [pc |-> "idle", tx |-> 0]

Init ==
  /\ log = <<>>
  /\ queue = <<>> /\ pending = 0 /\ rows = 0
  /\ stopping = FALSE /\ broken = FALSE /\ failures = 0
  /\ writer = NoThread
  /\ lock = Free /\ session = NoSession /\ shut = TRUE
  /\ caller = [c \in Callers |-> Idle]
  /\ closer = "open"
  /\ failed = {} /\ lost = {} /\ cut = FALSE
  /\ calls = 0 /\ txs = 0 /\ faults = 0 /\ kills = 0

-----------------------------------------------------------------------------
(* What a statement comes to: success, an error, or an error that says the  *)
(* disk is full.  A connection that was closed under its user is an error.  *)

Outcome == {"ok", "error", "full"}
Charge(o) ==
  IF o = "ok" THEN UNCHANGED faults ELSE faults < MaxFaults /\ faults' = faults + 1

Waiting == (IF writer.pc \in {"begin", "insert", "commit"} THEN writer.batch ELSE <<>>) \o queue

(* The process is gone, and with it what was not in the file.               *)
Die ==
  /\ queue' = <<>> /\ pending' = 0 /\ UNCHANGED <<rows, log>>
  /\ stopping' = FALSE /\ broken' = FALSE /\ failures' = 0
  /\ writer' = NoThread
  /\ lock' = Free /\ session' = NoSession /\ shut' = TRUE
  /\ caller' = [c \in Callers |-> Idle]
  /\ closer' = "open"
  /\ lost' = lost \cup failed \cup ToSet(Waiting) /\ failed' = {}
  /\ cut' = FALSE

(* BEGIN IMMEDIATE, on a connection opened when there is none.              *)
Opens(who) == lock' = who /\ session' = [open |-> TRUE, rows |-> <<>>] /\ shut' = FALSE

(* Mutant: a failed batch leaves its transaction open on the connection.    *)
LeftOpen == UNCHANGED session

(* ROLLBACK, whatever failed.                                               *)
RolledBack == session' = NoSession

(* Mutant: no transaction around the statements.                            *)
ExecuteAtOnce(s) ==
  /\ log' = log \o s
  /\ session' = session

(* Statements that write the rows s.                                        *)
Execute(s) ==
  /\ session' = [session EXCEPT !.rows = @ \o s]
  /\ UNCHANGED log

-----------------------------------------------------------------------------
(* The writer's thread.                                                     *)

WriterTop ==
  /\ writer.pc = "top"
  /\ writer' = [writer EXCEPT !.pc = IF broken THEN "ended" ELSE "next"]
  /\ UNCHANGED <<door, stopping, broken, failures, disk, caller, closer, history, bounds>>

(* Mutant: the depth falls as the batch is popped.                          *)
TakeCounted ==
  LET n == Min({Len(queue), Batch}) IN
    /\ writer.pc = "next" /\ queue # <<>>
    /\ writer' = [pc |-> "begin", batch |-> SubSeq(queue, 1, n)]
    /\ queue' = SubSeq(queue, n + 1, Len(queue))
    /\ pending' = pending - n
    /\ UNCHANGED <<rows, stopping, broken, failures, disk, caller, closer, history, bounds>>

(* A batch that is due: as many rows as it may hold, from the front.        *)
Take ==
  LET n == Min({Len(queue), Batch}) IN
    /\ writer.pc = "next" /\ queue # <<>>
    /\ writer' = [pc |-> "begin", batch |-> SubSeq(queue, 1, n)]
    /\ queue' = SubSeq(queue, n + 1, Len(queue))
    /\ UNCHANGED <<pending, rows, stopping, broken, failures, disk, caller, closer,
                   history, bounds>>

(* Mutant: a stop ends the thread with rows still queued.                   *)
WriterStopAtOnce ==
  /\ writer.pc = "next" /\ stopping
  /\ writer' = [writer EXCEPT !.pc = "ended"]
  /\ UNCHANGED <<door, stopping, broken, failures, disk, caller, closer, history, bounds>>

WriterStop ==
  /\ writer.pc = "next" /\ queue = <<>> /\ stopping
  /\ writer' = [writer EXCEPT !.pc = "ended"]
  /\ UNCHANGED <<door, stopping, broken, failures, disk, caller, closer, history, bounds>>

(* The batch failed: the error is recorded, and a full disk breaks the      *)
(* queue and calls the hook, which is yet to end the process.               *)
BatchFails(o) ==
  /\ failures' = failures + 1
  /\ failed' = failed \cup ToSet(writer.batch)
  /\ broken' = (broken \/ o = "full")
  /\ writer' = [writer EXCEPT !.pc = IF o = "full" THEN "halt" ELSE "settle"]
  /\ lock' = Free

WriterBegin(o) ==
  /\ writer.pc = "begin" /\ lock = Free
  /\ Charge(o)
  /\ IF o = "ok" /\ ~session.open
       THEN /\ Opens("writer")
            /\ writer' = [writer EXCEPT !.pc = "insert"]
            /\ UNCHANGED <<broken, failures, failed>>
       ELSE BatchFails(o) /\ UNCHANGED <<session, shut>>
  /\ UNCHANGED <<log, door, stopping, caller, closer, lost, cut, calls, txs, kills>>

(* The statements of the batch, one after the other, any of which may fail. *)
WriterInsert(o) ==
  /\ writer.pc = "insert"
  /\ Charge(o)
  /\ IF o = "ok" /\ ~shut
       THEN /\ Execute(writer.batch)
            /\ writer' = [writer EXCEPT !.pc = "commit"]
            /\ UNCHANGED <<broken, failures, failed, lock>>
       ELSE BatchFails(o) /\ RolledBack /\ UNCHANGED log
  /\ UNCHANGED <<shut, door, stopping, caller, closer, lost, cut, calls, txs, kills>>

WriterCommit(o) ==
  /\ writer.pc = "commit"
  /\ Charge(o)
  /\ IF o = "ok" /\ ~shut
       THEN /\ log' = log \o session.rows
            /\ session' = NoSession
            /\ lock' = Free
            /\ writer' = [writer EXCEPT !.pc = "settle"]
            /\ UNCHANGED <<broken, failures, failed>>
       ELSE BatchFails(o) /\ RolledBack /\ UNCHANGED log
  /\ UNCHANGED <<shut, door, stopping, caller, closer, lost, cut, calls, txs, kills>>

WriterHalt ==
  /\ writer.pc = "halt"
  /\ \/ "exits" \in Hooks /\ Die
     \/ /\ "returns" \in Hooks
        /\ writer' = [writer EXCEPT !.pc = "settle"]
        /\ UNCHANGED <<door, stopping, broken, failures, disk, caller, closer, history>>
  /\ UNCHANGED bounds

(* The finally of _commit: the rows are no longer waited for.               *)
WriterSettle ==
  /\ writer.pc = "settle"
  /\ pending' = pending - Len(writer.batch)
  /\ writer' = [NoThread EXCEPT !.pc = "top"]
  /\ UNCHANGED <<queue, rows, stopping, broken, failures, disk, caller, closer, history,
                 bounds>>

-----------------------------------------------------------------------------
(* A caller that queues a row.                                              *)

Goto(c, pc) == caller' = [caller EXCEPT ![c].pc = pc]
Return(c) == caller' = [caller EXCEPT ![c] = Idle]

(* Mutant: a row is taken from inside a transaction's body too.             *)
InTransactionNever(c) == FALSE

(* _holder.in_transaction.                                                  *)
InTransaction(c) == caller[c].pc = "body"

(* A broken queue refuses; a transaction's body is refused, and is undone   *)
(* by the error.                                                            *)
Enqueue(c) ==
  /\ caller[c].pc \in {"idle", "body"}
  /\ calls < MaxCalls
  /\ calls' = calls + 1
  /\ IF InTransaction(c)
       THEN RolledBack /\ lock' = Free /\ Return(c)
       ELSE ~broken /\ Goto(c, "ensure") /\ UNCHANGED <<session, lock>>
  /\ UNCHANGED <<log, shut, door, stopping, broken, failures, writer, closer, history,
                 txs, faults, kills>>

(* The thread is started before the wait for room.                          *)
EnsureWriter(c) ==
  /\ caller[c].pc = "ensure"
  /\ writer' = IF writer.pc = "none" /\ ~stopping THEN [NoThread EXCEPT !.pc = "top"] ELSE writer
  /\ Goto(c, "room")
  /\ UNCHANGED <<door, stopping, broken, failures, disk, closer, history, bounds>>

(* Mutant: the state of the queue is not looked at again after the wait.    *)
AdmitBlindly(c) ==
  /\ caller[c].pc = "room"
  /\ pending < Depth \/ stopping
  /\ IF stopping THEN UNCHANGED door
     ELSE /\ queue' = Append(queue, rows + 1)
          /\ pending' = pending + 1
          /\ rows' = rows + 1
  /\ Return(c)
  /\ UNCHANGED <<stopping, broken, failures, writer, disk, closer, history, bounds>>

(* The wait ends when there is room or the queue is closing; what became of *)
(* the queue meanwhile decides.                                             *)
Admit(c) ==
  /\ caller[c].pc = "room"
  /\ pending < Depth \/ stopping
  /\ IF stopping \/ broken THEN UNCHANGED door
     ELSE /\ queue' = Append(queue, rows + 1)
          /\ pending' = pending + 1
          /\ rows' = rows + 1
  /\ Return(c)
  /\ UNCHANGED <<stopping, broken, failures, writer, disk, closer, history, bounds>>

-----------------------------------------------------------------------------
(* A caller that runs a transaction: a result and its ledger transition.    *)

(* The state of the queue is looked at before the lock is waited for.       *)
BeginTransaction(c) ==
  /\ caller[c].pc = "idle" /\ ~broken /\ ~stopping
  /\ txs < MaxTxs
  /\ txs' = txs + 1
  /\ caller' = [caller EXCEPT ![c] = [pc |-> "lock", tx |-> txs + 1]]
  /\ UNCHANGED <<door, stopping, broken, failures, writer, disk, closer, history, calls,
                 faults, kills>>

(* The transaction fails: undone, and the caller sees the error.  A full    *)
(* disk breaks the queue; the hook runs with the lock held.                 *)
TxFails(c, o) ==
  /\ failures' = failures + (IF o = "full" THEN 1 ELSE 0)
  /\ broken' = (broken \/ o = "full")
  /\ lock' = IF o = "full" THEN c ELSE Free
  /\ IF o = "full" THEN Goto(c, "halt") ELSE Return(c)

TxBegin(c, o) ==
  /\ caller[c].pc = "lock" /\ lock = Free
  /\ Charge(o)
  /\ IF o = "ok" /\ ~session.open
       THEN Opens(c) /\ Goto(c, "body") /\ UNCHANGED <<broken, failures>>
       ELSE TxFails(c, o) /\ UNCHANGED <<session, shut>>
  /\ UNCHANGED <<log, door, stopping, writer, closer, history, calls, txs, kills>>

TxWrite(c, o) ==
  /\ caller[c].pc = "body" /\ Len(session.rows) < 2
  /\ Charge(o)
  /\ IF o = "ok" /\ ~shut
       THEN Execute(<<-caller[c].tx>>) /\ UNCHANGED <<broken, failures, lock, caller>>
       ELSE TxFails(c, o) /\ RolledBack /\ UNCHANGED log
  /\ UNCHANGED <<shut, door, stopping, writer, closer, history, calls, txs, kills>>

(* The body raises an error of its own.                                     *)
TxRaise(c) ==
  /\ caller[c].pc = "body"
  /\ RolledBack /\ lock' = Free
  /\ Return(c)
  /\ UNCHANGED <<log, shut, door, stopping, broken, failures, writer, closer, history, bounds>>

TxCommit(c, o) ==
  /\ caller[c].pc = "body" /\ Len(session.rows) = 2
  /\ Charge(o)
  /\ IF o = "ok"
       THEN /\ log' = log \o session.rows
            /\ session' = NoSession
            /\ lock' = Free
            /\ Return(c)
            /\ UNCHANGED <<broken, failures>>
       ELSE TxFails(c, o) /\ RolledBack /\ UNCHANGED log
  /\ UNCHANGED <<shut, door, stopping, writer, closer, history, calls, txs, kills>>

(* The call is cut short with its transaction open: interrupted after BEGIN *)
(* and before the body's try, or ended at COMMIT by an interrupt or by any  *)
(* error but an OperationalError, the only one that is rolled back there.   *)
TxCutShort(c) ==
  /\ caller[c].pc = "body" /\ Len(session.rows) \in {0, 2}
  /\ Charge("error")
  /\ cut' = TRUE /\ lock' = Free
  /\ Return(c)
  /\ UNCHANGED <<log, session, shut, door, stopping, broken, failures, writer, closer,
                 failed, lost, calls, txs, kills>>

TxHalt(c) ==
  /\ caller[c].pc = "halt"
  /\ \/ "exits" \in Hooks /\ Die
     \/ /\ "returns" \in Hooks
        /\ lock' = Free
        /\ Return(c)
        /\ UNCHANGED <<log, session, shut, door, stopping, broken, failures, writer, closer,
                         history>>
  /\ UNCHANGED bounds

-----------------------------------------------------------------------------
(* close(), and the process being killed.                                   *)

CloseBegin ==
  /\ closer = "open"
  /\ stopping' = TRUE
  /\ closer' = "joining"
  /\ UNCHANGED <<door, broken, failures, writer, disk, caller, history, bounds>>

(* The connection is closed, whoever uses it; then the first failure is     *)
(* raised.                                                                  *)
CloseWith(result) ==
  /\ closer' = IF failures > 0 THEN "raised" ELSE result
  /\ session' = NoSession /\ shut' = TRUE
  /\ UNCHANGED <<log, lock, door, stopping, broken, failures, writer, caller, history,
                 calls, txs, kills>>

CloseEnd ==
  /\ closer = "joining" /\ writer.pc \in {"none", "ended"}
  /\ CloseWith("closed")
  /\ UNCHANGED faults

(* The join gives up on the thread after 30 seconds, and says nothing.      *)
CloseExpires ==
  /\ closer = "joining" /\ writer.pc \notin {"none", "ended"}
  /\ Charge("error")
  /\ CloseWith("expired")

Kill ==
  /\ kills < MaxKills
  /\ kills' = kills + 1
  /\ Die
  /\ UNCHANGED <<calls, txs, faults>>

Writer ==
  \/ WriterTop \/ Take \/ WriterStop \/ WriterHalt \/ WriterSettle
  \/ \E o \in Outcome : WriterBegin(o) \/ WriterInsert(o) \/ WriterCommit(o)

(* What a call that has begun goes on to do.                                *)
Call(c) ==
  \/ EnsureWriter(c) \/ Admit(c) \/ TxRaise(c) \/ TxCutShort(c) \/ TxHalt(c)
  \/ \E o \in Outcome : TxBegin(c, o) \/ TxWrite(c, o) \/ TxCommit(c, o)

Next ==
  \/ Writer \/ CloseBegin \/ CloseEnd \/ CloseExpires \/ Kill
  \/ \E c \in Callers : Enqueue(c) \/ BeginTransaction(c) \/ Call(c)

Spec == Init /\ [][Next]_vars

(* Threads run and bodies end; nobody has to call close() or to kill.       *)
FairSpec ==
  /\ Spec
  /\ WF_vars(Writer) /\ WF_vars(CloseEnd)
  /\ \A c \in Callers : WF_vars(Call(c))

-----------------------------------------------------------------------------
(* What is claimed *)

(* Every variable keeps its type.                                           *)
TypeOK ==
  /\ rows \in Nat /\ calls \in 0..MaxCalls /\ txs \in 0..MaxTxs
  /\ faults \in 0..MaxFaults /\ kills \in 0..MaxKills
  /\ queue \in Seq(1..rows) /\ pending \in 0..Depth
  /\ failures \in Nat /\ {stopping, broken, shut} \subseteq BOOLEAN
  /\ writer.pc \in {"none", "top", "next", "begin", "insert", "commit", "halt", "settle", "ended"}
  /\ writer.batch \in Seq(1..rows)
  /\ lock \in Callers \cup {Free, "writer"}
  /\ session.open \in BOOLEAN
  /\ caller \in [Callers ->
       [pc : {"idle", "ensure", "room", "lock", "body", "halt"}, tx : 0..MaxTxs]]
  /\ closer \in {"open", "joining", "closed", "raised", "expired"}
  /\ failed \cup lost \subseteq 1..rows /\ cut \in BOOLEAN

(* A caller that polls the depth down to zero finds every row it queued in  *)
(* the tier or among the failures: a batch in flight is counted until it    *)
(* has landed, and a failed one is known before it is discounted.           *)
DepthMeansDurable ==
  pending = 0 => 1..rows \subseteq ToSet(log) \cup failed \cup lost

(* The lock serialises the connection: a transaction is open only while its *)
(* owner holds the lock, unless a call was cut short and left its own open; *)
(* and whoever is inside one finds rows of its own alone there, in order.   *)
OneSession ==
  /\ session.open => lock # Free \/ cut
  /\ \A c \in Callers : caller[c].pc = "body" =>
       /\ lock = c
       /\ \A i \in DOMAIN session.rows : session.rows[i] = -caller[c].tx
  /\ writer.pc \in {"insert", "commit"} =>
       /\ lock = "writer"
       /\ ~shut => session.rows = IF writer.pc = "insert" THEN <<>> ELSE writer.batch

(* Every failure that was recorded met a fault of its own: one never takes  *)
(* the batches after it along, unless a caller's transaction was cut short  *)
(* and stays open on the connection, where every later BEGIN fails.         *)
FailuresAreOwn == failures <= faults \/ cut

(* No transaction is left open for the next caller to inherit.  One is: the *)
(* handler of COMMIT rolls back an OperationalError only.                   *)
NothingInherited == session.open => lock # Free

(* A close() that returned, its thread having ended, has flushed: whatever  *)
(* was accepted in this process is in the tier.                             *)
CloseFlushes ==
  closer = "closed" => 1..rows \subseteq ToSet(log) \cup lost

(* Once the disk was found full no row is accepted, neither from a caller   *)
(* that asks nor from one that had been waiting for room.                   *)
RefusedOnceBroken == [][broken /\ broken' => rows' = rows]_vars

(* Every call returns unless the disk was found full and the process goes   *)
(* on: no caller is left waiting for room that cannot come, or for the lock *)
(* of a drain that waits for it, and close() ends with its thread.          *)
CallsReturn ==
  /\ \A c \in Callers : caller[c].pc # "idle" ~> caller[c].pc = "idle" \/ broken
  /\ closer = "joining" ~> closer # "joining"

(* A tier that has been closed stays as it was.  It does not: a transaction *)
(* that was waiting for the lock runs after the close.                      *)
NothingAfterClose ==
  [][(closer \in {"closed", "raised"} /\ closer' = closer) => log' = log]_vars

(* The queue keeps the promise of CommitLog.                                *)
Promise == INSTANCE CommitLog WITH accepted <- rows, waiting <- Waiting,
                               Txs <- 1..MaxTxs
KeepsPromise == Promise!Spec

=================================================================================
