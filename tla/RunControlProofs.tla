--------------------------- MODULE RunControlProofs ---------------------------
(***************************************************************************)
(* What TLAPS proves of a run's lifecycle, for any number of processes: the *)
(* edges of the status machine, that no claim pass goes past a pause it has *)
(* read, and that what a completion probe counted is still ended when the   *)
(* run completes.                                                           *)
(*                                                                         *)
(* The argument is about rows.  A snapshot may be stale in every way but   *)
(* two: a row of it that is still in the table is the row it was, a name   *)
(* being given to no other row while a snapshot holds it (Agrees),         *)
(* and the rows a call has been past are older than those it has yet to    *)
(* come to (PastIsOlder), so that a resume, which supersedes what is older *)
(* than itself, supersedes every pause the call left queued.               *)
(***************************************************************************)
EXTENDS RunControl, TLAPS

-----------------------------------------------------------------------------
(* The inductive invariant. *)

Distinct(R) == \A r, s \in R : r.id = s.id => r = s
Ordered(R) == \A r, s \in R : r # s => r.id \in s.earlier \/ s.id \in r.earlier

(* Who applies rows has been told why.                                      *)
HasJob(c) ==
  /\ c.at = "insert" => c.job \in {"pause", "resume"}
  /\ c.at \in {"status", "controls", "apply", "supersede", "mark"} =>
       c.job \in {"claim", "start", "pause", "resume"}

Typed ==
  /\ status \in Status
  /\ queue \subseteq ControlRow
  /\ call \in [Procs -> Call]
  /\ \A p \in Procs : HasJob(call[p])

TableIsOrdered == Distinct(queue) /\ Ordered(queue)

(* The rows a call has been past.                                           *)
Past(c) == c.rows \ c.left

SnapshotIsOrdered(c) ==
  /\ Distinct(c.rows) /\ Ordered(c.rows)
  /\ c.left \subseteq c.rows
  /\ c.at \in {"supersede", "mark"} =>
       c.row \in c.left /\ c.row.earlier \cap Ids(c.left) = {}
  /\ c.at = "supersede" => c.row.action = "resume"

PastIsOlder(c) == \A r \in Past(c), s \in c.left : s.id \notin r.earlier

Agrees(c, q) == \A r \in c.rows, s \in q : r.id = s.id => r.action = s.action

(* A pause the call has been past is out of the table, or it is gated.      *)
PausesAreBehind(c, q) ==
  c.at \in {"apply", "supersede", "mark"} /\ ~c.gate =>
    \A r \in Past(c) : ~PauseRow(q, r.id)

ClaimsAreClear(c, q) == c.at = "claim" => \A r \in c.rows : ~PauseRow(q, r.id)

CallHolds(c, q) ==
  /\ SnapshotIsOrdered(c) /\ PastIsOlder(c) /\ Agrees(c, q)
  /\ PausesAreBehind(c, q) /\ ClaimsAreClear(c, q)

ControlInv ==
  /\ Typed
  /\ TableIsOrdered
  /\ \A p \in Procs : CallHolds(call[p], queue)

(* What a probe counted, while its process is on the way to write.          *)
Ended(u) == u \in Units /\ ledger[u] = "done"
CountHolds(c) == c.at = "complete" => c.counted # {} /\ \A u \in c.counted : Ended(u)

CountInv ==
  /\ ledger \in [Units -> {"absent", "pending", "leased", "done"}]
  /\ \A p \in Procs : CountHolds(call[p])

-----------------------------------------------------------------------------
(* The status machine.                                                      *)

(* The steps that move the status.                                          *)
LEMMA WhoMovesStatus ==
  ASSUME Next
  PROVE  \/ status' = status \/ PauseSensed
         \/ \E p \in Procs :
              \/ \E r : ApplyPause(p, r) \/ ApplyResume(p, r)
              \/ CompleteRun(p) \/ StartRun(p)
BY ZenonT(40) DEF Next, Drive, ApplyStep, ConsoleRequest, BeginPause, InsertRequest, SatisfyPauses,
  ReadStatus, ReadControls, Supersede, MarkRow, ApplyDone, BeginClaim, Claim, ClaimRefused,
  ClaimNothing, Report, Complete, Requeue, Probe, EnumerateBatch, EnumerateDone, BeginStart,
  Recover, RecoverResumes, EnumerateComplete, Exit, Kill

(* The steps that write the table of requests, and those that do not.       *)
LEMMA WhoLeavesRows ==
  ASSUME NEW p \in Procs,
         \/ ReadStatus(p) \/ ReadControls(p) \/ ApplyDone(p)
         \/ \E r : ApplyPause(p, r) \/ ApplyResume(p, r)
         \/ BeginPause(p) \/ BeginClaim(p) \/ Report(p) \/ BeginStart(p) \/ StartRun(p)
         \/ ClaimRefused(p) \/ ClaimNothing(p) \/ Probe(p) \/ CompleteRun(p) \/ EnumerateDone(p)
         \/ Recover(p) \/ RecoverResumes(p) \/ EnumerateComplete(p) \/ Exit(p) \/ Kill(p)
         \/ \E u \in Units : Claim(p, u) \/ Complete(p, u) \/ Requeue(p, u) \/ EnumerateBatch(p, u)
  PROVE  queue' = queue
BY Zenon DEF ReadStatus, ReadControls, ApplyDone, ApplyPause, ApplyResume, BeginPause, BeginClaim,
  Report, BeginStart, StartRun, ClaimRefused, ClaimNothing, Probe, CompleteRun, EnumerateDone,
  Recover, RecoverResumes, EnumerateComplete, Exit, Kill, Claim, Complete, Requeue, EnumerateBatch

(* The steps that write the table of requests.                              *)
LEMMA WhoWritesRows ==
  ASSUME Next
  PROVE  \/ queue' = queue
         \/ \E action, by : InsertControl(action, by)
         \/ \E p \in Procs : SatisfyPauses(p) \/ Supersede(p) \/ MarkRow(p)
<1>1. CASE \E a \in {"pause", "resume"} : ConsoleRequest(a)
  BY <1>1 DEF ConsoleRequest
<1>2. CASE \E p \in Procs : InsertRequest(p)
  BY <1>2 DEF InsertRequest
<1> QED
  BY <1>1, <1>2, WhoLeavesRows, Zenon DEF Next, Drive, ApplyStep

(* Whatever a process read before it wrote, and however many processes      *)
(* there are, the status moves along the machine's edges: each move is      *)
(* guarded by the status it is from.                                        *)
LEMMA StatusStep ==
  ASSUME Next
  PROVE  status' # status => <<status, status'>> \in Edges
<1> DEFINE Good == status' # status => <<status, status'>> \in Edges
<1> SUFFICES Good
  OBVIOUS
<1>1. CASE status' = status
  BY <1>1
<1>2. CASE PauseSensed
  BY <1>2 DEF PauseSensed, Dispatchable, Edges
<1>3. ASSUME NEW p \in Procs, NEW r, ApplyPause(p, r) PROVE Good
  BY <1>3 DEF ApplyPause, Transition, Edges
<1>4. ASSUME NEW p \in Procs, NEW r, ApplyResume(p, r) PROVE Good
  BY <1>4 DEF ApplyResume, Transition, Edges
<1>5. ASSUME NEW p \in Procs, CompleteRun(p) \/ StartRun(p) PROVE Good
  BY <1>5 DEF CompleteRun, StartRun, Transition, Edges
<1>6. \/ status' = status \/ PauseSensed
      \/ \E p \in Procs :
           \/ \E r : ApplyPause(p, r) \/ ApplyResume(p, r)
           \/ CompleteRun(p) \/ StartRun(p)
  BY WhoMovesStatus
<1> HIDE DEF Good
<1> QED
  BY <1>1, <1>2, <1>3, <1>4, <1>5, <1>6

(* A complete run never reopens and nothing returns to pending, for any     *)
(* number of processes acting on what they read earlier (FR-ORCH-25).       *)
THEOREM StatusAlwaysFollowsEdges == Spec => StatusFollowsEdges
<1>1. [Next]_vars => [status' # status => <<status, status'>> \in Edges]_status
  BY StatusStep DEF vars
<1> QED
  BY <1>1, PTL DEF Spec, StatusFollowsEdges

-----------------------------------------------------------------------------
(* The table of requests. *)

(* A row that is in the table after a step was there before it, or has a    *)
(* name that no row of the snapshot has.                                    *)
KeepsRows(c, q, t) ==
  \A s \in t : (\E r \in q : r.id = s.id /\ r.action = s.action) \/ s.id \notin Ids(c.rows)

Pruned(r, R) == [r EXCEPT !.earlier = @ \ Ids(R)]
Deleted(q, R) == {Pruned(r, R) : r \in q \ R}

(* A row that survives a deletion keeps its name and its action.            *)
LEMMA PrunedRow ==
  ASSUME NEW r \in ControlRow, NEW R
  PROVE  /\ Pruned(r, R) \in ControlRow
         /\ Pruned(r, R).id = r.id /\ Pruned(r, R).action = r.action
         /\ Pruned(r, R).earlier = r.earlier \ Ids(R)
<1> DEFINE e == r.earlier \ Ids(R)
<1>1. e \subseteq RowIds
  BY DEF ControlRow
<1>2. Pruned(r, R) = [r EXCEPT !.earlier = e]
  BY DEF Pruned
<1>3. e = r.earlier \ Ids(R)
  OBVIOUS
<1> HIDE DEF e
<1> QED
  BY <1>1, <1>2, <1>3 DEF ControlRow

(* Deleting rows keeps the table a table, in its order.                     *)
LEMMA DeletionKeepsOrder ==
  ASSUME NEW q, q \subseteq ControlRow, Distinct(q), Ordered(q), NEW R, R \subseteq q
  PROVE  Deleted(q, R) \subseteq ControlRow /\ Distinct(Deleted(q, R)) /\ Ordered(Deleted(q, R))
<1>1. Deleted(q, R) \subseteq ControlRow
  BY PrunedRow DEF Deleted
<1>2. ASSUME NEW s \in Deleted(q, R), NEW t \in Deleted(q, R)
      PROVE  /\ s.id = t.id => s = t
             /\ s # t => s.id \in t.earlier \/ t.id \in s.earlier
  <2>1. PICK r \in q \ R : s = Pruned(r, R)
    BY DEF Deleted
  <2>2. PICK u \in q \ R : t = Pruned(u, R)
    BY DEF Deleted
  <2>3. r \in ControlRow /\ u \in ControlRow
    BY <2>1, <2>2
  <2>4. s.id = r.id /\ s.earlier = r.earlier \ Ids(R) /\ t.id = u.id /\ t.earlier = u.earlier \ Ids(R)
    BY <2>1, <2>2, <2>3, PrunedRow
  <2>5. s.id = t.id => s = t
    BY <2>1, <2>2, <2>4 DEF Distinct
  <2>6. r.id \notin Ids(R) /\ u.id \notin Ids(R)
    BY <2>1, <2>2 DEF Distinct, Ids
  <2>7. r # u => r.id \in u.earlier \/ u.id \in r.earlier
    BY <2>1, <2>2 DEF Ordered
  <2>8. s # t => r # u
    BY <2>1, <2>2
  <2> QED
    BY <2>4, <2>5, <2>6, <2>7, <2>8
<1> QED
  BY <1>1, <1>2 DEF Distinct, Ordered

(* A deletion renames no row and adds none.                                 *)
LEMMA DeletionKeepsRows ==
  ASSUME NEW q, q \subseteq ControlRow, NEW R, R \subseteq q, NEW c
  PROVE  KeepsRows(c, q, Deleted(q, R))
<1>1. ASSUME NEW s \in Deleted(q, R)
      PROVE  \E r \in q : r.id = s.id /\ r.action = s.action
  <2>1. PICK r \in q \ R : s = Pruned(r, R)
    BY DEF Deleted
  <2> QED
    BY <2>1, PrunedRow
<1> QED
  BY <1>1 DEF KeepsRows

(* What the table may become: it stays, it gets a row of a fresh name after *)
(* all others, or it loses rows.                                            *)
TableStep ==
  \/ queue' = queue
  \/ \E i \in RowIds \ RowIdsInUse, action \in {"pause", "resume"}, by \in By :
       queue' = queue \cup {[id |-> i, action |-> action, by |-> by, earlier |-> Ids(queue)]}
  \/ \E R \in SUBSET queue : queue' = Deleted(queue, R)

(* The row an insert writes has a name no other row and no snapshot has.    *)
LEMMA InsertIsTableStep ==
  ASSUME NEW action \in {"pause", "resume"}, NEW by \in By, InsertControl(action, by)
  PROVE  TableStep
<1>1. (CHOOSE i \in RowIds \ RowIdsInUse : TRUE) \in RowIds \ RowIdsInUse
  BY DEF InsertControl
<1> QED
  BY <1>1 DEF InsertControl, TableStep

(* The table stays a table whose rows are ordered by the time they were     *)
(* requested, and no snapshot sees one of its names given to another row.   *)
LEMMA TableIsKept ==
  ASSUME Typed, TableIsOrdered, TableStep
  PROVE  /\ queue' \subseteq ControlRow /\ Distinct(queue') /\ Ordered(queue')
         /\ \A p \in Procs : KeepsRows(call[p], queue, queue')
<1>1. queue \subseteq ControlRow /\ Distinct(queue) /\ Ordered(queue)
  BY DEF Typed, TableIsOrdered
<1>2. CASE queue' = queue
  BY <1>1, <1>2 DEF KeepsRows
<1>3. ASSUME NEW i \in RowIds \ RowIdsInUse, NEW action \in {"pause", "resume"}, NEW by \in By,
             queue' = queue \cup {[id |-> i, action |-> action, by |-> by, earlier |-> Ids(queue)]}
      PROVE  /\ queue' \subseteq ControlRow /\ Distinct(queue') /\ Ordered(queue')
             /\ \A p \in Procs : KeepsRows(call[p], queue, queue')
  <2> DEFINE new == [id |-> i, action |-> action, by |-> by, earlier |-> Ids(queue)]
  <2>1. Ids(queue) \subseteq RowIds
    BY <1>1 DEF Ids, ControlRow
  <2>2. new \in ControlRow /\ new.id = i /\ new.earlier = Ids(queue)
    BY <2>1 DEF ControlRow
  <2>3. queue' = queue \cup {new}
    BY <1>3
  <2> HIDE DEF new
  <2>4. i \notin Ids(queue) /\ \A p \in Procs : i \notin Ids(call[p].rows)
    BY DEF RowIdsInUse
  <2>5. \A r \in queue : r.id # new.id /\ r.id \in new.earlier
    BY <2>2, <2>4 DEF Ids
  <2>6. Distinct(queue') /\ Ordered(queue')
    BY <1>1, <2>3, <2>5 DEF Distinct, Ordered
  <2>7. \A p \in Procs : KeepsRows(call[p], queue, queue')
    BY <2>2, <2>3, <2>4 DEF KeepsRows
  <2> QED
    BY <1>1, <2>2, <2>3, <2>6, <2>7
<1>4. ASSUME NEW R \in SUBSET queue, queue' = Deleted(queue, R)
      PROVE  /\ queue' \subseteq ControlRow /\ Distinct(queue') /\ Ordered(queue')
             /\ \A p \in Procs : KeepsRows(call[p], queue, queue')
  BY <1>1, <1>4, DeletionKeepsOrder, DeletionKeepsRows
<1> QED
  BY <1>2, <1>3, <1>4 DEF TableStep

-----------------------------------------------------------------------------
(* What one call may become. *)

Restarts(d) ==
  d.rows = {} /\ d.left = {} /\ d.at \notin {"supersede", "mark"}

SameSnapshot(c, d) == d.rows = c.rows /\ d.left = c.left

WalksOn(c, d) ==
  SameSnapshot(c, d) /\ d.at \notin {"apply", "supersede", "mark", "claim", "insert"}

Clears(c, d) == SameSnapshot(c, d) /\ c.at = "apply" /\ c.left = {} /\ ~c.gate /\ d.at = "claim"

ReadsTable(d, q) == d.rows = q /\ d.left = q /\ d.at = "apply"

IsOldest(r, R) == r \in R /\ r.earlier \cap Ids(R) = {}

Takes(c, d) ==
  /\ SameSnapshot(c, d) /\ c.at = "apply" /\ d.at \in {"supersede", "mark"}
  /\ d.gate = c.gate /\ IsOldest(d.row, c.left)
  /\ d.at = "supersede" => d.row.action = "resume"

Gates(c, d) ==
  /\ c.at = "apply" /\ d.at = "apply" /\ d.gate = TRUE /\ d.rows = c.rows
  /\ \E r \in c.left : IsOldest(r, c.left) /\ d.left = c.left \ {r}

Supersedes(c, d, q) ==
  /\ SameSnapshot(c, d) /\ c.at = "supersede" /\ d.at = "mark" /\ d.row = c.row
  /\ \A s \in q : s.action = "pause" => s.id \notin c.row.earlier

Marks(c, d, q) ==
  /\ c.at = "mark" /\ d.at = "apply" /\ d.gate = c.gate /\ d.rows = c.rows
  /\ d.left = c.left \ {c.row}
  /\ \A s \in q : s.id # c.row.id

CallStep(c, d, q) ==
  \/ d = c \/ Restarts(d) \/ WalksOn(c, d) \/ Clears(c, d) \/ ReadsTable(d, q)
  \/ Takes(c, d) \/ Gates(c, d) \/ Supersedes(c, d, q) \/ Marks(c, d, q)

(* What a call knows of its snapshot outlives any change of the table.      *)
LEMMA KeptCall ==
  ASSUME NEW c, NEW q, NEW t, CallHolds(c, q), KeepsRows(c, q, t)
  PROVE  CallHolds(c, t)
<1>1. ASSUME NEW r \in c.rows, PauseRow(t, r.id) PROVE PauseRow(q, r.id)
  <2>1. PICK s \in t : s.id = r.id /\ s.action = "pause"
    BY <1>1 DEF PauseRow
  <2>2. s.id \in Ids(c.rows)
    BY <2>1 DEF Ids
  <2> QED
    BY <2>1, <2>2 DEF KeepsRows, PauseRow
<1>2. Agrees(c, t)
  <2>1. ASSUME NEW r \in c.rows, NEW s \in t, r.id = s.id PROVE r.action = s.action
    <3>1. s.id \in Ids(c.rows)
      BY <2>1 DEF Ids
    <3> QED
      BY <2>1, <3>1 DEF KeepsRows, CallHolds, Agrees
  <2> QED
    BY <2>1 DEF Agrees
<1>3. PausesAreBehind(c, t) /\ ClaimsAreClear(c, t)
  BY <1>1 DEF CallHolds, PausesAreBehind, ClaimsAreClear, Past
<1> QED
  BY <1>2, <1>3 DEF CallHolds

(* A row taken as the oldest of those left is older than none of them.      *)
LEMMA PassedRow ==
  ASSUME NEW c, NEW r, IsOldest(r, c.left), SnapshotIsOrdered(c), PastIsOlder(c),
         NEW d, d.rows = c.rows, d.left = c.left \ {r}
  PROVE  /\ d.left \subseteq d.rows /\ PastIsOlder(d)
         /\ Past(d) = Past(c) \cup {r}
<1>1. r \in c.left /\ c.left \subseteq c.rows
  BY DEF IsOldest, SnapshotIsOrdered
<1>2. Past(d) = Past(c) \cup {r}
  BY <1>1 DEF Past
<1>3. \A s \in c.left : s.id \notin r.earlier
  BY DEF IsOldest, Ids
<1> QED
  BY <1>1, <1>2, <1>3 DEF PastIsOlder

(* Every step of a call, whatever happened to the table meanwhile.          *)
LEMMA CallIsKept ==
  ASSUME NEW c, NEW d, NEW q, CallHolds(c, q), Distinct(q), Ordered(q), CallStep(c, d, q)
  PROVE  CallHolds(d, q)
<1>c. /\ SnapshotIsOrdered(c) /\ PastIsOlder(c) /\ Agrees(c, q)
      /\ PausesAreBehind(c, q) /\ ClaimsAreClear(c, q)
  BY DEF CallHolds
<1>1. CASE d = c
  BY <1>1
<1>2. CASE Restarts(d)
  <2>1. Past(d) = {}
    BY <1>2 DEF Restarts, Past
  <2> QED
    BY <1>2, <2>1 DEF Restarts, CallHolds, SnapshotIsOrdered, PastIsOlder, Agrees, PausesAreBehind,
      ClaimsAreClear, Distinct, Ordered
<1>3. CASE WalksOn(c, d)
  BY <1>c, <1>3 DEF WalksOn, SameSnapshot, CallHolds, SnapshotIsOrdered, PastIsOlder, Agrees,
    PausesAreBehind, ClaimsAreClear, Past
<1>4. CASE Clears(c, d)
  <2>1. Past(c) = c.rows
    BY <1>4 DEF Clears, Past
  <2>2. ClaimsAreClear(d, q)
    BY <1>c, <1>4, <2>1 DEF Clears, SameSnapshot, PausesAreBehind, ClaimsAreClear
  <2> QED
    BY <1>c, <1>4, <2>2 DEF Clears, SameSnapshot, CallHolds, SnapshotIsOrdered, PastIsOlder, Agrees,
      PausesAreBehind, Past
<1>5. CASE ReadsTable(d, q)
  <2>1. Past(d) = {}
    BY <1>5 DEF ReadsTable, Past
  <2>2. Agrees(d, q)
    BY <1>5 DEF ReadsTable, Agrees, Distinct
  <2> QED
    BY <1>5, <2>1, <2>2 DEF ReadsTable, CallHolds, SnapshotIsOrdered, PastIsOlder, PausesAreBehind,
      ClaimsAreClear
<1>6. CASE Takes(c, d)
  BY <1>c, <1>6 DEF Takes, IsOldest, SameSnapshot, CallHolds, SnapshotIsOrdered, PastIsOlder, Agrees,
    PausesAreBehind, ClaimsAreClear, Past
<1>7. CASE Gates(c, d)
  <2>1. PICK r \in c.left : IsOldest(r, c.left) /\ d.left = c.left \ {r}
    BY <1>7 DEF Gates
  <2>2. d.rows = c.rows
    BY <1>7 DEF Gates
  <2>3. d.left \subseteq d.rows /\ PastIsOlder(d)
    BY <1>c, <2>1, <2>2, PassedRow
  <2> QED
    BY <1>c, <1>7, <2>2, <2>3 DEF Gates, CallHolds, SnapshotIsOrdered, Agrees, PausesAreBehind,
      ClaimsAreClear
<1>8. CASE Supersedes(c, d, q)
  <2>1. ASSUME NEW r \in Past(c) PROVE ~PauseRow(q, r.id)
    <3>1. c.row \in c.left /\ c.left \subseteq c.rows
      BY <1>c, <1>8 DEF Supersedes, SnapshotIsOrdered
    <3>2. r \in c.rows /\ r # c.row
      BY <3>1 DEF Past
    <3>3. c.row.id \notin r.earlier
      BY <1>c, <3>1 DEF PastIsOlder
    <3>4. r.id \in c.row.earlier
      BY <1>c, <3>1, <3>2, <3>3 DEF SnapshotIsOrdered, Ordered
    <3> QED
      BY <1>8, <3>4 DEF Supersedes, PauseRow
  <2>2. Past(d) = Past(c)
    BY <1>8 DEF Supersedes, SameSnapshot, Past
  <2> QED
    BY <1>c, <1>8, <2>1, <2>2 DEF Supersedes, SameSnapshot, CallHolds, SnapshotIsOrdered, PastIsOlder,
      Agrees, PausesAreBehind, ClaimsAreClear
<1>9. CASE Marks(c, d, q)
  <2>1. IsOldest(c.row, c.left)
    BY <1>c, <1>9 DEF Marks, SnapshotIsOrdered, IsOldest
  <2>2. d.rows = c.rows /\ d.left = c.left \ {c.row}
    BY <1>9 DEF Marks
  <2>3. d.left \subseteq d.rows /\ PastIsOlder(d) /\ Past(d) = Past(c) \cup {c.row}
    BY <1>c, <2>1, <2>2, PassedRow
  <2>4. ~PauseRow(q, c.row.id)
    BY <1>9 DEF Marks, PauseRow
  <2>5. PausesAreBehind(d, q)
    BY <1>c, <1>9, <2>3, <2>4 DEF Marks, PausesAreBehind
  <2> QED
    BY <1>c, <1>9, <2>2, <2>3, <2>5 DEF Marks, CallHolds, SnapshotIsOrdered, Agrees, ClaimsAreClear
<1> QED
  BY <1>1, <1>2, <1>3, <1>4, <1>5, <1>6, <1>7, <1>8, <1>9 DEF CallStep

-----------------------------------------------------------------------------
(* What one step does to the calls and to the table. *)

(* The ways a call is rewritten, field by field.                            *)
LEMMA FreshCall ==
  ASSUME NEW step \in Steps \ {"supersede", "mark"}, NEW job \in Jobs, NEW seen \in Status,
         step = "insert" => job \in {"pause", "resume"}, step \notin {"controls", "apply"},
         step = "status" => job \in {"claim", "start", "pause", "resume"}
  PROVE  /\ At(step, job, seen) \in Call /\ Restarts(At(step, job, seen))
         /\ HasJob(At(step, job, seen))
BY DEF At, Call, Restarts, HasJob

(* A call that goes on to another step keeps all else.                      *)
LEMMA MovedCall ==
  ASSUME NEW c \in Call, NEW step \in Steps
  PROVE  /\ [c EXCEPT !.at = step] \in Call /\ SameSnapshot(c, [c EXCEPT !.at = step])
         /\ [c EXCEPT !.at = step].at = step
         /\ [c EXCEPT !.at = step].job = c.job
BY DEF Call, SameSnapshot

(* One process' call goes from what it is to d.                             *)
Acts(p, d) ==
  /\ call' = [call EXCEPT ![p] = d]
  /\ d \in Call /\ HasJob(d)
  /\ CallStep(call[p], d, queue')

SomeActs(p) == \E d : Acts(p, d)

(* A call that begins has no snapshot.                                      *)
LEMMA BeginActs ==
  ASSUME Typed, NEW p \in Procs, NEW step \in Steps \ {"supersede", "mark"}, NEW job \in Jobs,
         NEW seen \in Status, step = "insert" => job \in {"pause", "resume"},
         step \notin {"controls", "apply"},
         step = "status" => job \in {"claim", "start", "pause", "resume"},
         Begin(p, At(step, job, seen))
  PROVE  SomeActs(p)
<1> DEFINE d == At(step, job, seen)
<1>1. d \in Call /\ Restarts(d) /\ HasJob(d)
  BY FreshCall
<1>2. call' = [call EXCEPT ![p] = d]
  BY DEF Begin
<1> HIDE DEF d
<1> QED
  BY <1>1, <1>2 DEF SomeActs, Acts, CallStep

(* A call that returns, or a process that ends, has no snapshot.            *)
LEMMA ReturnActs ==
  ASSUME Typed, NEW p \in Procs, Return(p) \/ Begin(p, Off)
  PROVE  SomeActs(p)
BY BeginActs DEF Return, Idle, Off, Steps, Jobs, Status

(* Going on to a step outside the applying of rows keeps the snapshot.      *)
LEMMA GotoActs ==
  ASSUME Typed, NEW p \in Procs,
         NEW step \in Steps \ {"apply", "supersede", "mark", "claim", "insert"}, Goto(p, step),
         step \in {"status", "controls"} => call[p].job \in {"claim", "start", "pause", "resume"}
  PROVE  SomeActs(p)
<1> DEFINE d == [call[p] EXCEPT !.at = step]
<1>1. call[p] \in Call
  BY DEF Typed
<1>2. d \in Call /\ SameSnapshot(call[p], d) /\ d.at = step /\ HasJob(d)
  BY <1>1, MovedCall DEF HasJob
<1>3. call' = [call EXCEPT ![p] = d]
  BY DEF Goto
<1> HIDE DEF d
<1>4. WalksOn(call[p], d)
  BY <1>2 DEF WalksOn
<1> QED
  BY <1>2, <1>3, <1>4 DEF SomeActs, Acts, CallStep

(* A step may leave the calls alone.                                        *)
LEMMA StayActs ==
  ASSUME Typed, NEW p \in Procs, call' = call
  PROVE  SomeActs(p)
<1>1. call[p] \in Call /\ HasJob(call[p]) /\ call' = [call EXCEPT ![p] = call[p]]
  BY DEF Typed
<1> QED
  BY <1>1 DEF SomeActs, Acts, CallStep

(* Reading the status keeps the snapshot, which is read next.               *)
LEMMA ReadStatusActs ==
  ASSUME Typed, NEW p \in Procs, ReadStatus(p)
  PROVE  SomeActs(p)
<1> DEFINE d == [call[p] EXCEPT !.seen = status, !.at = "controls"]
<1>1. call[p] \in Call /\ HasJob(call[p]) /\ call[p].at = "status" /\ status \in Status /\ "controls" \in Steps
  BY DEF Typed, Steps, ReadStatus, IsAt
<1>2. d \in Call /\ HasJob(d) /\ SameSnapshot(call[p], d) /\ d.at = "controls"
  BY <1>1 DEF Call, SameSnapshot, HasJob
<1>3. call' = [call EXCEPT ![p] = d]
  BY DEF ReadStatus
<1> HIDE DEF d
<1>4. WalksOn(call[p], d)
  BY <1>2 DEF WalksOn
<1> QED
  BY <1>2, <1>3, <1>4 DEF SomeActs, Acts, CallStep

(* The snapshot is the table, none of its rows being past.                  *)
LEMMA ReadControlsActs ==
  ASSUME Typed, NEW p \in Procs, ReadControls(p)
  PROVE  SomeActs(p)
<1> DEFINE d == [call[p] EXCEPT !.rows = queue, !.left = queue, !.at = "apply"]
<1>1. call[p] \in Call /\ HasJob(call[p]) /\ call[p].at = "controls" /\ queue \in SUBSET ControlRow /\ queue' = queue
  BY DEF Typed, ReadControls, IsAt
<1>2. d \in Call /\ HasJob(d) /\ d.rows = queue /\ d.left = queue /\ d.at = "apply"
  BY <1>1 DEF Call, Steps, HasJob
<1>3. call' = [call EXCEPT ![p] = d]
  BY DEF ReadControls
<1> HIDE DEF d
<1>4. ReadsTable(d, queue')
  BY <1>1, <1>2 DEF ReadsTable
<1> QED
  BY <1>2, <1>3, <1>4 DEF SomeActs, Acts, CallStep

(* A row the call takes, with the status it goes on with.                   *)
LEMMA FollowActs ==
  ASSUME Typed, NEW p \in Procs, NEW r, NEW action, Applying(p, r, action), NEW s \in Status,
         NEW step \in {"supersede", "mark"}, step = "supersede" => r.action = "resume",
         call' = [call EXCEPT ![p].seen = s, ![p].row = r, ![p].at = step]
  PROVE  SomeActs(p)
<1> DEFINE d == [call[p] EXCEPT !.seen = s, !.row = r, !.at = step]
<1>1. call[p] \in Call /\ HasJob(call[p]) /\ call[p].at = "apply" /\ step \in Steps /\ r \in ControlRow
  BY DEF Typed, Steps, Applying, IsAt, Call
<1>2. d \in Call /\ HasJob(d) /\ SameSnapshot(call[p], d) /\ d.at = step /\ d.row = r /\ d.gate = call[p].gate
  BY <1>1 DEF Call, SameSnapshot, HasJob
<1>3. call' = [call EXCEPT ![p] = d]
  OBVIOUS
<1> HIDE DEF d
<1>4. Takes(call[p], d)
  BY <1>2 DEF Takes, IsOldest, Applying, IsAt
<1> QED
  BY <1>2, <1>3, <1>4 DEF SomeActs, Acts, CallStep

(* A row the call takes without moving the status.                          *)
LEMMA TakeActs ==
  ASSUME Typed, NEW p \in Procs, NEW r, NEW action, Applying(p, r, action),
         NEW step \in {"supersede", "mark"}, step = "supersede" => r.action = "resume",
         Take(p, r, step)
  PROVE  SomeActs(p)
<1> DEFINE d == [call[p] EXCEPT !.row = r, !.at = step]
<1>1. call[p] \in Call /\ HasJob(call[p]) /\ call[p].at = "apply" /\ step \in Steps /\ r \in ControlRow
  BY DEF Typed, Steps, Applying, IsAt, Call
<1>2. d \in Call /\ HasJob(d) /\ SameSnapshot(call[p], d) /\ d.at = step /\ d.row = r /\ d.gate = call[p].gate
  BY <1>1 DEF Call, SameSnapshot, HasJob
<1>3. call' = [call EXCEPT ![p] = d]
  BY DEF Take
<1> HIDE DEF d
<1>4. Takes(call[p], d)
  BY <1>2 DEF Takes, IsOldest, Applying, IsAt
<1> QED
  BY <1>2, <1>3, <1>4 DEF SomeActs, Acts, CallStep

(* A pause is taken, or gated and passed.                                   *)
LEMMA ApplyPauseActs ==
  ASSUME Typed, NEW p \in Procs, NEW r, ApplyPause(p, r)
  PROVE  SomeActs(p)
<1> DEFINE honoured == call[p].seen = "running" \/ (call[p].seen = "pending" /\ call[p].job = "start")
           d == [call[p] EXCEPT !.gate = TRUE, !.row = r, !.left = @ \ {r}]
<1>1. Applying(p, r, "pause") /\ call[p] \in Call /\ HasJob(call[p]) /\ r \in ControlRow
  BY DEF ApplyPause, Applying, Typed, Call
<1>2. ASSUME Follow(p, r, call[p].seen, "paused", "mark") PROVE SomeActs(p)
  <2>1. PICK s \in Status : call' = [call EXCEPT ![p].seen = s, ![p].row = r, ![p].at = "mark"]
    <3>1. (IF status = call[p].seen THEN "paused" ELSE call[p].seen) \in Status
      BY <1>1 DEF Call, Status
    <3> QED
      BY <1>2, <3>1 DEF Follow
  <2> QED
    BY <1>1, <2>1, FollowActs
<1>3. ASSUME call' = [call EXCEPT ![p].gate = TRUE, ![p].row = r, ![p].left = @ \ {r}]
      PROVE  SomeActs(p)
  <2>1. call' = [call EXCEPT ![p] = d]
    BY <1>3
  <2>2. d \in Call /\ HasJob(d) /\ d.at = call[p].at /\ d.gate = TRUE /\ d.rows = call[p].rows
        /\ d.left = call[p].left \ {r}
    BY <1>1 DEF Call, HasJob
  <2> HIDE DEF d
  <2>3. Gates(call[p], d)
    BY <1>1, <2>2 DEF Gates, Applying, IsAt, IsOldest
  <2> QED
    BY <2>1, <2>2, <2>3 DEF SomeActs, Acts, CallStep
<1>4. CASE Take(p, r, "mark")
  BY <1>1, <1>4, TakeActs
<1> QED
  BY <1>2, <1>3, <1>4 DEF ApplyPause

(* A resume is taken, to supersede what was requested before it.            *)
LEMMA ApplyResumeActs ==
  ASSUME Typed, NEW p \in Procs, NEW r, ApplyResume(p, r)
  PROVE  SomeActs(p)
<1>1. Applying(p, r, "resume") /\ call[p] \in Call /\ r.action = "resume"
  BY DEF ApplyResume, Applying, Typed
<1>2. ASSUME Follow(p, r, "paused", "running", "supersede") PROVE SomeActs(p)
  <2>1. PICK s \in Status : call' = [call EXCEPT ![p].seen = s, ![p].row = r, ![p].at = "supersede"]
    <3>1. (IF status = "paused" THEN "running" ELSE call[p].seen) \in Status
      BY <1>1 DEF Call, Status
    <3> QED
      BY <1>2, <3>1 DEF Follow
  <2> QED
    BY <1>1, <2>1, FollowActs
<1>3. CASE Take(p, r, "supersede")
  BY <1>1, <1>3, TakeActs
<1> QED
  BY <1>2, <1>3 DEF ApplyResume

(* After it no pause requested before the resume is in the table.           *)
LEMMA SupersedeActs ==
  ASSUME Typed, NEW p \in Procs, Supersede(p)
  PROVE  SomeActs(p) /\ TableStep
<1> DEFINE d == [call[p] EXCEPT !.gate = FALSE, !.at = "mark"]
           R == {r \in Pauses : r.id \in call[p].row.earlier}
<1>1. call[p] \in Call /\ HasJob(call[p]) /\ call[p].at = "supersede" /\ queue \subseteq ControlRow
  BY DEF Supersede, IsAt, Typed
<1>2. R \in SUBSET queue /\ queue' = Deleted(queue, R)
  BY DEF Supersede, MarkPausesAppliedBefore, MarkApplied, Deleted, Pruned, Pauses
<1>3. \A s \in queue' : s.action = "pause" => s.id \notin call[p].row.earlier
  <2>1. ASSUME NEW s \in queue', s.action = "pause", s.id \in call[p].row.earlier PROVE FALSE
    <3>1. PICK r \in queue \ R : s = Pruned(r, R)
      BY <1>2 DEF Deleted
    <3>2. r.id = s.id /\ r.action = s.action
      BY <1>1, <3>1, PrunedRow
    <3> QED
      BY <2>1, <3>1, <3>2 DEF Pauses
  <2> QED
    BY <2>1
<1>4. call' = [call EXCEPT ![p] = d]
  BY DEF Supersede
<1>5. d \in Call /\ HasJob(d) /\ SameSnapshot(call[p], d) /\ d.at = "mark" /\ d.row = call[p].row
  BY <1>1 DEF Call, SameSnapshot, Steps, HasJob
<1> HIDE DEF d, R
<1>6. Supersedes(call[p], d, queue')
  BY <1>1, <1>3, <1>5 DEF Supersedes
<1> QED
  BY <1>2, <1>4, <1>5, <1>6 DEF SomeActs, Acts, CallStep, TableStep

(* After it the row the call came to is not in the table, and it is past.   *)
LEMMA MarkRowActs ==
  ASSUME Typed, NEW p \in Procs, MarkRow(p)
  PROVE  SomeActs(p) /\ TableStep
<1> DEFINE d == [call[p] EXCEPT !.left = @ \ {call[p].row}, !.at = "apply"]
           R == {r \in queue : r.id = call[p].row.id}
<1>1. call[p] \in Call /\ HasJob(call[p]) /\ call[p].at = "mark" /\ queue \subseteq ControlRow
  BY DEF MarkRow, IsAt, Typed
<1>2. R \in SUBSET queue /\ queue' = Deleted(queue, R)
  BY DEF MarkRow, MarkControlApplied, MarkApplied, Deleted, Pruned
<1>3. \A s \in queue' : s.id # call[p].row.id
  <2>1. ASSUME NEW s \in queue', s.id = call[p].row.id PROVE FALSE
    <3>1. PICK r \in queue \ R : s = Pruned(r, R)
      BY <1>2 DEF Deleted
    <3>2. r.id = s.id
      BY <1>1, <3>1, PrunedRow
    <3> QED
      BY <2>1, <3>1, <3>2
  <2> QED
    BY <2>1
<1>4. call' = [call EXCEPT ![p] = d]
  BY DEF MarkRow
<1>5. d \in Call /\ HasJob(d) /\ d.at = "apply" /\ d.gate = call[p].gate /\ d.rows = call[p].rows
      /\ d.left = call[p].left \ {call[p].row}
  BY <1>1 DEF Call, Steps, HasJob
<1> HIDE DEF d, R
<1>6. Marks(call[p], d, queue')
  BY <1>1, <1>3, <1>5 DEF Marks
<1> QED
  BY <1>2, <1>4, <1>5, <1>6 DEF SomeActs, Acts, CallStep, TableStep

(* When no row is left, the call goes on to where its job sends it.         *)
LEMMA DoneGoesOn ==
  ASSUME Typed, NEW p \in Procs, ApplyDone(p)
  PROVE  \/ AfterApply(call[p]) = "claim" /\ Goto(p, "claim")
         \/ Return(p) \/ Begin(p, Off)
         \/ \E next \in {"starting", "probe", "enumerate"} :
              Begin(p, At(next, call[p].job, call[p].seen))
<1>0. call[p].at = "apply" /\ HasJob(call[p])
  BY DEF ApplyDone, IsAt, Typed
<1> DEFINE next == AfterApply(call[p])
<1>1. next \in {"claim", "idle", "starting", "off", "probe", "enumerate"}
  BY <1>0 DEF AfterApply, HasJob
<1>2. (CASE next = "idle" -> Return(p)
         [] next = "off" -> Begin(p, Off)
         [] next = "claim" -> Goto(p, next)
         [] OTHER -> Begin(p, At(next, call[p].job, call[p].seen)))
  BY DEF ApplyDone
<1> HIDE DEF next
<1>3. next = "idle" => Return(p)
  BY <1>2
<1>4. next = "off" => Begin(p, Off)
  BY <1>2
<1>5. next = "claim" => Goto(p, "claim")
  BY <1>2
<1>6. next \in {"starting", "probe", "enumerate"} => Begin(p, At(next, call[p].job, call[p].seen))
  BY <1>2
<1>7. next = AfterApply(call[p])
  BY DEF next
<1> QED
  BY <1>1, <1>3, <1>4, <1>5, <1>6, <1>7

(* A call with no row left claims if nothing is gated, or goes elsewhere.   *)
LEMMA ApplyDoneActs ==
  ASSUME Typed, NEW p \in Procs, ApplyDone(p)
  PROVE  SomeActs(p)
<1>1. call[p] \in Call /\ call[p].at = "apply" /\ call[p].left = {}
      /\ call[p].job \in Jobs /\ call[p].seen \in Status
      /\ HasJob(call[p])
  BY DEF ApplyDone, IsAt, Typed, Call
<1>2. CASE AfterApply(call[p]) = "claim" /\ Goto(p, "claim")
  <2> DEFINE d == [call[p] EXCEPT !.at = "claim"]
  <2>1. d \in Call /\ HasJob(d) /\ SameSnapshot(call[p], d) /\ d.at = "claim"
    BY <1>1, MovedCall DEF Steps, HasJob
  <2>2. call' = [call EXCEPT ![p] = d]
    BY <1>2 DEF Goto
  <2> HIDE DEF d
  <2>3. ~call[p].gate
    BY <1>1, <1>2 DEF AfterApply, HasJob
  <2>4. Clears(call[p], d)
    BY <1>1, <2>1, <2>3 DEF Clears
  <2> QED
    BY <2>1, <2>2, <2>4 DEF SomeActs, Acts, CallStep
<1>3. CASE Return(p) \/ Begin(p, Off)
  BY <1>3, ReturnActs
<1>4. ASSUME NEW next, next \in {"starting", "probe", "enumerate"},
             Begin(p, At(next, call[p].job, call[p].seen))
      PROVE  SomeActs(p)
  BY <1>1, <1>4, BeginActs DEF Steps
<1>5. \/ AfterApply(call[p]) = "claim" /\ Goto(p, "claim")
      \/ Return(p) \/ Begin(p, Off)
      \/ \E next \in {"starting", "probe", "enumerate"} : Begin(p, At(next, call[p].job, call[p].seen))
  BY DoneGoesOn
<1> QED
  BY <1>2, <1>3, <1>4, <1>5

(* The steps that write a request, and those that clear pauses.             *)
LEMMA InsertRequestActs ==
  ASSUME Typed, NEW p \in Procs, InsertRequest(p)
  PROVE  SomeActs(p) /\ TableStep
<1>1. call[p] \in Call /\ call[p].job \in {"pause", "resume"} /\ "program" \in By
  BY DEF Typed, HasJob, InsertRequest, IsAt, By
<1>2. TableStep
  BY <1>1, InsertIsTableStep DEF InsertRequest
<1>3. Goto(p, "satisfy") \/ Goto(p, "status")
  BY DEF InsertRequest
<1>4. SomeActs(p)
  BY <1>1, <1>3, GotoActs DEF Steps
<1> QED
  BY <1>2, <1>4

(* A pause of a paused run marks the pauses and ends.                       *)
LEMMA SatisfyActs ==
  ASSUME Typed, NEW p \in Procs, SatisfyPauses(p)
  PROVE  SomeActs(p) /\ TableStep
<1>1. Pauses \in SUBSET queue /\ queue' = Deleted(queue, Pauses)
  BY DEF SatisfyPauses, MarkPausesApplied, MarkApplied, Deleted, Pruned, Pauses
<1>2. SomeActs(p)
  BY ReturnActs DEF SatisfyPauses
<1> QED
  BY <1>1, <1>2 DEF TableStep

(* The probe of a resume goes on to the enumeration, any other returns.     *)
LEMMA AfterProbeActs ==
  ASSUME Typed, NEW p \in Procs, AfterProbe(p)
  PROVE  SomeActs(p)
<1>1. call[p].seen \in Status
  BY DEF Typed, Call
<1> QED
  BY <1>1, BeginActs, ReturnActs DEF AfterProbe, Steps, Jobs

(* A probe that finds the run finished notes what it counted.               *)
LEMMA CountActs ==
  ASSUME Typed, NEW p \in Procs,
         call' = [call EXCEPT ![p].at = "complete", ![p].counted = Enumerated]
  PROVE  SomeActs(p)
<1> DEFINE units == Enumerated
           d == [call[p] EXCEPT !.at = "complete", !.counted = units]
<1>1. call[p] \in Call /\ call' = [call EXCEPT ![p] = d] /\ units \in SUBSET Units
  BY DEF Typed, Enumerated
<1> HIDE DEF units
<1>2. d \in Call /\ SameSnapshot(call[p], d) /\ d.at = "complete"
  BY <1>1 DEF Call, SameSnapshot, Steps
<1> HIDE DEF d
<1>3. HasJob(d) /\ WalksOn(call[p], d)
  BY <1>2 DEF HasJob, WalksOn
<1> QED
  BY <1>1, <1>2, <1>3 DEF SomeActs, Acts, CallStep

(* Every other step of a process leaves the table alone.                    *)
LEMMA OtherActs ==
  ASSUME Typed, NEW p \in Procs,
         \/ BeginPause(p) \/ BeginClaim(p) \/ Report(p) \/ BeginStart(p) \/ StartRun(p)
         \/ ClaimRefused(p) \/ ClaimNothing(p) \/ Probe(p) \/ CompleteRun(p) \/ EnumerateDone(p)
         \/ Recover(p) \/ RecoverResumes(p) \/ EnumerateComplete(p) \/ Exit(p) \/ Kill(p)
         \/ \E u \in Units : Claim(p, u) \/ Complete(p, u) \/ Requeue(p, u) \/ EnumerateBatch(p, u)
  PROVE  SomeActs(p)
<1>1. status \in Status /\ "running" \in Status /\ "pending" \in Status
  BY DEF Typed, Status
<1>2. CASE BeginPause(p)
  BY <1>1, <1>2, BeginActs DEF BeginPause, Steps, Jobs
<1>3. CASE BeginClaim(p)
  BY <1>1, <1>3, BeginActs DEF BeginClaim, Steps, Jobs
<1>4. CASE Report(p)
  BY <1>1, <1>4, BeginActs, ReturnActs DEF Report, Steps, Jobs
<1>5. CASE BeginStart(p)
  BY <1>1, <1>5, BeginActs DEF BeginStart, Steps, Jobs
<1>6. CASE StartRun(p)
  BY <1>6, GotoActs, ReturnActs DEF StartRun, Steps
<1>7. CASE ClaimRefused(p)
  BY <1>7, ReturnActs DEF ClaimRefused
<1>8. CASE ClaimNothing(p)
  <2>1. \/ Return(p) \/ Begin(p, At("enumerate", "claim", "running"))
        \/ Begin(p, At("report", "claim", "running"))
    BY <1>8 DEF ClaimNothing
  <2> QED
    BY <1>1, <2>1, BeginActs, ReturnActs DEF Steps, Jobs
<1>9. CASE Probe(p)
  BY <1>9, CountActs, AfterProbeActs DEF Probe
<1>10. CASE CompleteRun(p)
  BY <1>10, AfterProbeActs DEF CompleteRun
<1>11. CASE EnumerateDone(p)
  BY <1>1, <1>11, BeginActs, ReturnActs DEF EnumerateDone, Steps, Jobs
<1>12. CASE Recover(p)
  BY <1>1, <1>12, BeginActs DEF Recover, Steps, Jobs
<1>13. CASE RecoverResumes(p)
  BY <1>1, <1>13, BeginActs, ReturnActs DEF RecoverResumes, Steps, Jobs
<1>18. CASE EnumerateComplete(p)
  BY <1>1, <1>18, BeginActs DEF EnumerateComplete, Steps, Jobs
<1>14. CASE Exit(p) \/ Kill(p)
  BY <1>14, ReturnActs DEF Exit, Kill
<1>15. ASSUME NEW u \in Units, Claim(p, u) PROVE SomeActs(p)
  BY <1>15, ReturnActs, StayActs DEF Claim
<1>16. ASSUME NEW u \in Units, Complete(p, u) PROVE SomeActs(p)
  <2>1. call' = call \/ Begin(p, At("probe", "report", "running"))
    BY <1>16 DEF Complete
  <2> QED
    BY <1>1, <2>1, StayActs, BeginActs DEF Steps, Jobs
<1>17. ASSUME NEW u \in Units, Requeue(p, u) \/ EnumerateBatch(p, u) PROVE SomeActs(p)
  BY <1>17, StayActs DEF Requeue, EnumerateBatch
<1> QED
  BY <1>2, <1>3, <1>4, <1>5, <1>6, <1>7, <1>8, <1>9, <1>10, <1>11, <1>12, <1>13, <1>14, <1>15,
    <1>16, <1>17, <1>18

(* One step changes one process' call, along the ways of CallStep, and the  *)
(* table along the ways of TableStep.                                       *)
LEMMA StepActs ==
  ASSUME Typed, Next
  PROVE  TableStep /\ (call' = call \/ \E p \in Procs : SomeActs(p))
<1> DEFINE Good == TableStep /\ (call' = call \/ \E p \in Procs : SomeActs(p))
<1> SUFFICES Good
  OBVIOUS
<1>1. ASSUME NEW a \in {"pause", "resume"}, ConsoleRequest(a) PROVE Good
  BY <1>1, InsertIsTableStep DEF ConsoleRequest, By
<1>2. ASSUME NEW p \in Procs, InsertRequest(p) PROVE Good
  BY <1>2, InsertRequestActs
<1>3. ASSUME NEW p \in Procs, SatisfyPauses(p) PROVE Good
  BY <1>3, SatisfyActs
<1>4. ASSUME NEW p \in Procs, Supersede(p) PROVE Good
  BY <1>4, SupersedeActs
<1>5. ASSUME NEW p \in Procs, MarkRow(p) PROVE Good
  BY <1>5, MarkRowActs
<1>6. ASSUME NEW p \in Procs, ReadStatus(p) \/ ReadControls(p) \/ ApplyDone(p) PROVE Good
  BY <1>6, ReadStatusActs, ReadControlsActs, ApplyDoneActs
    DEF ReadStatus, ReadControls, ApplyDone, TableStep
<1>7. ASSUME NEW p \in Procs, NEW r, ApplyPause(p, r) \/ ApplyResume(p, r) PROVE Good
  BY <1>7, ApplyPauseActs, ApplyResumeActs DEF ApplyPause, ApplyResume, TableStep
<1>8. ASSUME NEW p \in Procs,
         \/ BeginPause(p) \/ BeginClaim(p) \/ Report(p) \/ BeginStart(p) \/ StartRun(p)
         \/ ClaimRefused(p) \/ ClaimNothing(p) \/ Probe(p) \/ CompleteRun(p) \/ EnumerateDone(p)
         \/ Recover(p) \/ RecoverResumes(p) \/ EnumerateComplete(p) \/ Exit(p) \/ Kill(p)
         \/ \E u \in Units : Claim(p, u) \/ Complete(p, u) \/ Requeue(p, u) \/ EnumerateBatch(p, u)
      PROVE Good
  <2>1. queue' = queue
    BY <1>8, WhoLeavesRows
  <2>2. SomeActs(p)
    BY <1>8, OtherActs
  <2> QED
    BY <2>1, <2>2 DEF TableStep
<1> HIDE DEF Good
<1> QED
  BY <1>1, <1>2, <1>3, <1>4, <1>5, <1>6, <1>7, <1>8, Zenon DEF Next, Drive, ApplyStep

-----------------------------------------------------------------------------
(* The invariant. *)

(* At first there is no row and no call.                                    *)
LEMMA InitIsControlled == Init => ControlInv
<1> SUFFICES ASSUME Init PROVE ControlInv
  OBVIOUS
<1>1. Off \in Call /\ HasJob(Off) /\ Restarts(Off)
  BY FreshCall DEF Off, Steps, Jobs, Status
<1>2. queue = {} /\ call = [p \in Procs |-> Off] /\ status = "pending"
  BY DEF Init
<1>3. Typed
  BY <1>1, <1>2 DEF Typed, Status
<1>4. TableIsOrdered /\ Distinct(queue) /\ Ordered(queue)
  BY <1>2 DEF TableIsOrdered, Distinct, Ordered
<1>5. Past(Off) = {}
  BY <1>1 DEF Restarts, Past
<1>6. CallHolds(Off, queue)
  BY <1>1, <1>2, <1>5 DEF CallHolds, Restarts, SnapshotIsOrdered, PastIsOlder, Agrees,
    PausesAreBehind, ClaimsAreClear, Distinct, Ordered
<1> QED
  BY <1>2, <1>3, <1>4, <1>6 DEF ControlInv

(* Each step keeps the invariant: the table's step first, then the call's.  *)
LEMMA StepIsControlled ==
  ASSUME ControlInv, Next
  PROVE  ControlInv'
<1>1. Typed /\ TableIsOrdered
  BY DEF ControlInv
<1>2. TableStep /\ (call' = call \/ \E p \in Procs : SomeActs(p))
  BY <1>1, StepActs
<1>3. queue' \subseteq ControlRow /\ Distinct(queue') /\ Ordered(queue')
  BY <1>1, <1>2, TableIsKept
<1>4. \A p \in Procs : CallHolds(call[p], queue')
  <2>1. ASSUME NEW p \in Procs PROVE CallHolds(call[p], queue')
    <3>1. KeepsRows(call[p], queue, queue')
      BY <1>1, <1>2, TableIsKept
    <3>2. CallHolds(call[p], queue)
      BY DEF ControlInv
    <3> QED
      BY <3>1, <3>2, KeptCall
  <2> QED
    BY <2>1
<1>5. status' \in Status
  <2>1. status' # status => <<status, status'>> \in Edges
    BY StatusStep
  <2> QED
    BY <1>1, <2>1 DEF Typed, Edges, Status
<1>6. CASE call' = call
  BY <1>1, <1>3, <1>4, <1>5, <1>6 DEF ControlInv, Typed, TableIsOrdered
<1>7. ASSUME NEW p \in Procs, NEW d, Acts(p, d) PROVE ControlInv'
  <2>1. d \in Call /\ HasJob(d) /\ CallStep(call[p], d, queue') /\ call' = [call EXCEPT ![p] = d]
    BY <1>7 DEF Acts
  <2>2. CallHolds(d, queue')
    BY <1>3, <1>4, <2>1, CallIsKept
  <2>3. call' \in [Procs -> Call] /\ \A o \in Procs : call'[o] = IF o = p THEN d ELSE call[o]
    BY <1>1, <2>1 DEF Typed
  <2>4. \A o \in Procs : HasJob(call'[o]) /\ CallHolds(call'[o], queue')
    BY <1>1, <1>4, <2>1, <2>2, <2>3 DEF Typed
  <2> QED
    BY <1>3, <1>5, <2>3, <2>4 DEF ControlInv, Typed, TableIsOrdered
<1> QED
  BY <1>2, <1>6, <1>7 DEF SomeActs

(* The invariant, for any number of processes, rows and kills.              *)
THEOREM ControlInvariant == Spec => []ControlInv
<1>1. ControlInv /\ UNCHANGED vars => ControlInv'
  BY DEF vars, ControlInv, Typed, TableIsOrdered, HasJob, CallHolds, SnapshotIsOrdered, PastIsOlder,
    Agrees, PausesAreBehind, ClaimsAreClear, Past, PauseRow
<1>2. ControlInv /\ [Next]_vars => ControlInv'
  BY <1>1, StepIsControlled
<1> QED
  BY <1>2, InitIsControlled, PTL DEF Spec

(* A claim pass never hands out a unit past a pause it has read, whatever   *)
(* the other processes insert, supersede or mark meanwhile (CT-ORCH-13).    *)
THEOREM ClaimsStopAtPauses == Spec => []NoClaimPastPause
<1>1. ControlInv => NoClaimPastPause
  BY DEF ControlInv, CallHolds, ClaimsAreClear, NoClaimPastPause
<1> QED
  BY <1>1, ControlInvariant, PTL

-----------------------------------------------------------------------------
(* What a completion probe counted. *)

(* A call begun, returned from or gone on with has nothing to complete.     *)
LEMMA OtherPlaces ==
  ASSUME Typed, NEW p \in Procs,
         \/ Return(p) \/ Begin(p, Off)
         \/ \E step, job, seen : step # "complete" /\ Begin(p, At(step, job, seen))
         \/ \E step : step # "complete" /\ Goto(p, step)
         \/ AfterProbe(p)
  PROVE  /\ call'[p].at # "complete"
         /\ \A o \in Procs : o # p => call'[o] = call[o]
<1> DEFINE Good == /\ call'[p].at # "complete"
                   /\ \A o \in Procs : o # p => call'[o] = call[o]
<1>1. call[p] \in Call /\ call \in [Procs -> Call]
  BY DEF Typed
<1>2. ASSUME NEW step, NEW job, NEW seen, Begin(p, At(step, job, seen)), step # "complete"
      PROVE  Good
  <2>1. call' = [call EXCEPT ![p] = At(step, job, seen)] /\ At(step, job, seen).at = step
    BY <1>2 DEF Begin, At
  <2> QED
    BY <1>1, <1>2, <2>1
<1>3. ASSUME Return(p) \/ Begin(p, Off) PROVE Good
  BY <1>2, <1>3 DEF Return, Idle, Off
<1>4. ASSUME NEW step, step # "complete", Goto(p, step) PROVE Good
  BY <1>1, <1>4 DEF Goto, Call
<1>5. ASSUME AfterProbe(p) PROVE Good
  BY <1>2, <1>3, <1>5 DEF AfterProbe
<1> QED
  BY <1>2, <1>3, <1>4, <1>5

(* Applying rows completes nothing.                                         *)
LEMMA RowsPlaces ==
  ASSUME Typed, NEW p \in Procs,
         \/ ReadStatus(p) \/ ReadControls(p) \/ Supersede(p) \/ MarkRow(p)
         \/ \E r \in call[p].left : ApplyPause(p, r) \/ ApplyResume(p, r)
  PROVE  /\ call'[p].at # "complete"
         /\ \A o \in Procs : o # p => call'[o] = call[o]
<1> DEFINE Good == /\ call'[p].at # "complete"
                   /\ \A o \in Procs : o # p => call'[o] = call[o]
<1>1. call[p] \in Call /\ call \in [Procs -> Call]
  BY DEF Typed
<1>2. CASE ReadStatus(p) \/ ReadControls(p) \/ Supersede(p) \/ MarkRow(p)
  BY <1>1, <1>2 DEF ReadStatus, ReadControls, Supersede, MarkRow, Call
<1>3. ASSUME NEW r, NEW step \in {"mark", "supersede"}, Take(p, r, step) PROVE Good
  BY <1>1, <1>3 DEF Take, Call
<1>4. ASSUME NEW r, NEW from, NEW to, NEW step \in {"mark", "supersede"},
             Follow(p, r, from, to, step)
      PROVE  Good
  <2> DEFINE seen == IF status = from THEN to ELSE call[p].seen
  <2>1. call' = [call EXCEPT ![p].seen = seen, ![p].row = r, ![p].at = step]
    BY <1>4 DEF Follow
  <2> HIDE DEF seen
  <2> QED
    BY <1>1, <2>1 DEF Call
<1>5. ASSUME NEW r, IsAt(p, "apply"),
             call' = [call EXCEPT ![p].gate = TRUE, ![p].row = r, ![p].left = @ \ {r}]
      PROVE  Good
  BY <1>1, <1>5 DEF IsAt, Call
<1>6. ASSUME NEW r, ApplyPause(p, r) PROVE Good
  BY <1>3, <1>4, <1>5, <1>6 DEF ApplyPause, Applying
<1>7. ASSUME NEW r, ApplyResume(p, r) PROVE Good
  BY <1>3, <1>4, <1>7 DEF ApplyResume
<1> QED
  BY <1>2, <1>6, <1>7

(* Who is about to complete the run has just counted, or counted before.    *)
LEMMA WhoCounts ==
  ASSUME Typed, Next, NEW o \in Procs, call'[o].at = "complete"
  PROVE  \/ call'[o] = call[o]
         \/ Finished /\ call'[o].counted = Enumerated /\ ledger' = ledger
<1> DEFINE Good == \/ call'[o] = call[o]
                   \/ Finished /\ call'[o].counted = Enumerated /\ ledger' = ledger
<1> SUFFICES Good
  OBVIOUS
<1>1. call \in [Procs -> Call]
  BY DEF Typed
<1>2. ASSUME NEW a, ConsoleRequest(a) PROVE Good
  BY <1>2 DEF ConsoleRequest
<1>3. ASSUME NEW p \in Procs,
             \/ ReadStatus(p) \/ ReadControls(p) \/ Supersede(p) \/ MarkRow(p)
             \/ \E r \in call[p].left : ApplyPause(p, r) \/ ApplyResume(p, r)
      PROVE  Good
  BY <1>3, RowsPlaces
<1>4. ASSUME NEW p \in Procs,
             \/ InsertRequest(p) \/ SatisfyPauses(p) \/ BeginPause(p) \/ BeginClaim(p)
             \/ Report(p) \/ BeginStart(p) \/ StartRun(p) \/ ClaimRefused(p) \/ ClaimNothing(p)
      PROVE  Good
  BY <1>4, OtherPlaces DEF InsertRequest, SatisfyPauses, BeginPause, BeginClaim, Report, BeginStart,
    StartRun, ClaimRefused, ClaimNothing
<1>5. ASSUME NEW p \in Procs,
             \/ CompleteRun(p) \/ EnumerateDone(p) \/ Recover(p) \/ RecoverResumes(p)
             \/ EnumerateComplete(p) \/ Exit(p)
      PROVE  Good
  BY <1>5, OtherPlaces DEF CompleteRun, EnumerateDone, Recover, RecoverResumes, EnumerateComplete,
    Exit
<1>6. ASSUME NEW p \in Procs, Kill(p) PROVE Good
  BY <1>6, OtherPlaces DEF Kill
<1>7. ASSUME NEW p \in Procs, ApplyDone(p) PROVE Good
  <2>1. \/ Return(p) \/ Begin(p, Off) \/ Goto(p, "claim")
        \/ \E step \in {"starting", "probe", "enumerate"} :
             Begin(p, At(step, call[p].job, call[p].seen))
    BY <1>7, DoneGoesOn DEF Typed
  <2> QED
    BY <2>1, OtherPlaces
<1>8. ASSUME NEW p \in Procs, Probe(p) PROVE Good
  <2>1. CASE AfterProbe(p)
    BY <2>1, OtherPlaces
  <2>2. CASE Finished /\ call' = [call EXCEPT ![p].at = "complete", ![p].counted = Enumerated]
    <3>1. ledger' = ledger
      BY <1>8 DEF Probe
    <3>2. CASE o = p
      <4> DEFINE units == Enumerated
      <4>1. call'[o] = [call[o] EXCEPT !.at = "complete", !.counted = units]
        BY <1>1, <2>2, <3>2
      <4> HIDE DEF units
      <4>2. call'[o].counted = units
        BY <1>1, <4>1 DEF Call
      <4> QED
        BY <2>2, <3>1, <4>2 DEF units
    <3>3. CASE o # p
      BY <1>1, <2>2, <3>3
    <3> QED
      BY <3>2, <3>3
  <2> QED
    BY <1>8, <2>1, <2>2 DEF Probe
<1>9. ASSUME NEW p \in Procs, NEW u \in Units,
             Claim(p, u) \/ Complete(p, u) \/ Requeue(p, u) \/ EnumerateBatch(p, u)
      PROVE  Good
  <2>1. call' = call \/ Return(p) \/ Begin(p, At("probe", "report", "running"))
    BY <1>9 DEF Claim, Complete, Requeue, EnumerateBatch
  <2> QED
    BY <2>1, OtherPlaces
<1> HIDE DEF Good
<1> QED
  BY <1>2, <1>3, <1>4, <1>5, <1>6, <1>7, <1>8, <1>9, Zenon DEF Next, Drive, ApplyStep

(* No step takes back a unit that ended, whoever takes it.                  *)
LEMMA EndedStays ==
  ASSUME CountInv, Next
  PROVE  /\ ledger' \in [Units -> {"absent", "pending", "leased", "done"}]
         /\ \A u \in Units : ledger[u] = "done" => ledger'[u] = "done"
<1> DEFINE Good == /\ ledger' \in [Units -> {"absent", "pending", "leased", "done"}]
                   /\ \A u \in Units : ledger[u] = "done" => ledger'[u] = "done"
<1> SUFFICES Good
  OBVIOUS
<1>1. ledger \in [Units -> {"absent", "pending", "leased", "done"}]
  BY DEF CountInv
<1>2. ASSUME ledger' = ledger PROVE Good
  BY <1>1, <1>2
<1>3. ASSUME NEW p \in Procs, Recover(p) PROVE Good
  BY <1>1, <1>3 DEF Recover
<1>4. ASSUME NEW p \in Procs, NEW u \in Units,
             Claim(p, u) \/ Complete(p, u) \/ EnumerateBatch(p, u) \/ Requeue(p, u)
      PROVE  Good
  BY <1>1, <1>4 DEF Claim, Complete, EnumerateBatch, Requeue
<1>5. \/ ledger' = ledger
      \/ \E p \in Procs :
           \/ Recover(p)
           \/ \E u \in Units :
                Claim(p, u) \/ Complete(p, u) \/ EnumerateBatch(p, u) \/ Requeue(p, u)
  BY ZenonT(40) DEF Next, Drive, ApplyStep, ConsoleRequest, BeginPause, InsertRequest,
    SatisfyPauses, ReadStatus, ReadControls, ApplyPause, ApplyResume, Supersede, MarkRow, ApplyDone,
    BeginClaim, ClaimRefused, ClaimNothing, Report, Probe, CompleteRun, EnumerateDone, BeginStart,
    StartRun, RecoverResumes, EnumerateComplete, Exit, Kill
<1> HIDE DEF Good
<1> QED
  BY <1>2, <1>3, <1>4, <1>5

(* What was counted is ended at the count, and stays so.                    *)
LEMMA CountIsKept ==
  ASSUME ControlInv, CountInv, Next
  PROVE  CountInv'
<1>1. /\ ledger' \in [Units -> {"absent", "pending", "leased", "done"}]
      /\ \A u \in Units : ledger[u] = "done" => ledger'[u] = "done"
  BY EndedStays
<1>2. ASSUME NEW o \in Procs, call'[o].at = "complete"
      PROVE  call'[o].counted # {} /\ \A u \in call'[o].counted : u \in Units /\ ledger'[u] = "done"
  <2>1. CASE call'[o] = call[o]
    BY <1>1, <1>2, <2>1 DEF CountInv, CountHolds, Ended
  <2>2. CASE Finished /\ call'[o].counted = Enumerated /\ ledger' = ledger
    <3>1. \A u \in Enumerated : u \in Units /\ ledger[u] = "done"
      BY <2>2 DEF CountInv, Finished, Open, Enumerated
    <3> QED
      BY <2>2, <3>1 DEF Finished
  <2> QED
    BY <1>2, <2>1, <2>2, WhoCounts DEF ControlInv
<1> QED
  BY <1>1, <1>2 DEF CountInv, CountHolds, Ended

(* For any number of processes: a unit of a run that completes is open only *)
(* if it was inserted after the probe counted, for nothing that was counted *)
(* is ever taken back (run_lifecycle.py, _maybe_complete_run).              *)
THEOREM CountsStay == Spec => CountedStays
<1>1. Init => CountInv
  BY DEF Init, Off, At, CountInv, CountHolds
<1>2. CountInv /\ UNCHANGED vars => CountInv'
  BY DEF vars, CountInv, CountHolds, Ended
<1>3. ControlInv /\ CountInv /\ [Next]_vars => CountInv'
  BY <1>2, CountIsKept
<1>4. CountInv => \A p \in Procs :
        CompleteRun(p) /\ status' # status =>
          call[p].counted # {} /\ Open \cap call[p].counted = {}
  BY DEF CountInv, CountHolds, Ended, CompleteRun, IsAt, Open
<1>5. CountInv /\ [Next]_vars =>
        [\A p \in Procs :
           CompleteRun(p) /\ status' # status =>
             call[p].counted # {} /\ Open \cap call[p].counted = {}]_vars
  BY <1>4
<1> QED
  BY <1>1, <1>3, <1>5, ControlInvariant, PTL DEF Spec, CountedStays

==============================================================================
