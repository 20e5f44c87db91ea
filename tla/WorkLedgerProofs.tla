--------------------------- MODULE WorkLedgerProofs ---------------------------
(***************************************************************************)
(* The work ledger's invariants, for any set of processes and units, any   *)
(* lease length, restore margin and retry limit.                           *)
(***************************************************************************)
EXTENDS WorkLedger, TLAPS

(* A lease or heartbeat in progress carries a real expiry: what makes the   *)
(* lease columns agree once it is written.                                  *)
CallsCarryExpiry ==
  \A p \in Procs :
    call[p].op \in {"lease", "heartbeat"} => call[p].expires # NoExpiry

(* A process that is reporting a unit no longer holds it: the report is its *)
(* last word on the unit.                                                   *)
ReportsLast ==
  \A p \in Procs, u \in Units : Reports(p, u) => u \notin holds[p]

(* The inductive invariant. *)
LedgerInv ==
  /\ TypeOK
  /\ LeaseColumnsAgree
  /\ QuarantineAtCeiling
  /\ MarkCoversLeases
  /\ CallsCarryExpiry
  /\ ReportsLast

-----------------------------------------------------------------------------
(* What the guarded statements return. *)

RowOK(row) ==
  /\ (row.status = "leased") <=> (row.owner # NoOwner)
  /\ (row.status = "leased") <=> (row.expires # NoExpiry)
  /\ row.attempts <= MaxAttempts
  /\ (row.status = "quarantined") <=> (row.attempts = MaxAttempts)

(* What every statement guarantees of the row it is given: it keeps a       *)
(* well-formed row well-formed, leaves an ended row untouched, never        *)
(* forgets an attempt, and writes no expiry but the old one, none, or e.    *)
KeepsRow(row, new, e) ==
  /\ new \in Row
  /\ RowOK(new)
  /\ row.status \in Terminal => new = row
  /\ new.attempts >= row.attempts
  /\ new.expires \in {row.expires, NoExpiry, e}

(* Each guarded UPDATE keeps a row sound: the claim.                        *)
LEMMA MarkLeasedKeeps ==
  ASSUME NEW row \in Row, RowOK(row), NEW o \in Owners, NEW e \in Nat \ {0}
  PROVE  KeepsRow(row, MarkLeased(row, o, e), e)
BY OwnerAssumption, AttemptsAssumption
   DEF Row, RowOK, KeepsRow, UnitStatus, Terminal, NoExpiry, MarkLeased, CanLease

(* The heartbeat.                                                           *)
LEMMA ExtendLeaseKeeps ==
  ASSUME NEW row \in Row, RowOK(row), NEW o \in Owners, NEW e \in Nat \ {0}
  PROVE  KeepsRow(row, ExtendLease(row, o, e), e)
BY OwnerAssumption, AttemptsAssumption
   DEF Row, RowOK, KeepsRow, UnitStatus, Terminal, NoExpiry, ExtendLease, CanExtend

(* The sweep and the requeue.                                               *)
LEMMA RequeueExpiredKeeps ==
  ASSUME NEW row \in Row, RowOK(row), NEW e \in Nat
  PROVE  KeepsRow(row, RequeueExpired(row), e)
BY OwnerAssumption, AttemptsAssumption
   DEF Row, RowOK, KeepsRow, UnitStatus, Terminal, NoExpiry, RequeueExpired,
       CanRequeue, Unleased

(* The completion.                                                          *)
LEMMA MarkDoneKeeps ==
  ASSUME NEW row \in Row, RowOK(row), NEW e \in Nat
  PROVE  KeepsRow(row, MarkDone(row), e)
BY OwnerAssumption, AttemptsAssumption
   DEF Row, RowOK, KeepsRow, UnitStatus, Terminal, NoExpiry, MarkDone,
       CanFinish, Unleased

(* The failure, which counts the attempt.                                   *)
LEMMA RecordFailureKeeps ==
  ASSUME NEW row \in Row, RowOK(row), NEW e \in Nat
  PROVE  KeepsRow(row, RecordFailure(row), e)
BY OwnerAssumption, AttemptsAssumption
   DEF Row, RowOK, KeepsRow, UnitStatus, Terminal, NoExpiry, RecordFailure,
       CanFinish, Unleased

(* An UPDATE whose guard fails changes nothing.                             *)
LEMMA SameRowKeeps ==
  ASSUME NEW row \in Row, RowOK(row), NEW e \in Nat
  PROVE  KeepsRow(row, row, e)
BY DEF Row, RowOK, KeepsRow

-----------------------------------------------------------------------------
(* The shape of a call, by its operation. *)
LEMMA CallShape ==
  ASSUME NEW c \in Calls
  PROVE  /\ c.op \in Ops => /\ c.unit \in Units
                            /\ c.expires \in Nat
         /\ c.op = "sweep" => c.units \subseteq Units
BY DEF Calls, Ops, Idle

(* The calls a process may begin.                                           *)
LEMMA NewCalls ==
  /\ Idle \in Calls
  /\ \A op \in Ops, u \in Units, e \in Nat : UnitCall(op, u, e) \in Calls
  /\ \A us \in SUBSET Units : SweepCall(us) \in Calls
BY DEF Calls, Idle, UnitCall, SweepCall

(* The invariant, read row by row. *)
LEMMA RowsOK ==
  LeaseColumnsAgree /\ QuarantineAtCeiling <=> \A u \in Units : RowOK(rows[u])
BY DEF LeaseColumnsAgree, QuarantineAtCeiling, RowOK

(* The durable counter never goes back. *)
LEMMA MarkGrows ==
  ASSUME TypeOK, [Next]_vars
  PROVE  mark' \in Nat /\ mark' >= mark
<1>1. ASSUME NEW p \in Procs, NEW u \in Units,
             LeaseIssue(p, u) \/ HeartbeatRead(p, u)
      PROVE  mark' \in Nat /\ mark' >= mark
  BY <1>1, LeaseAssumption
     DEF LeaseIssue, HeartbeatRead, RaiseMark, Larger, NewExpiry, TypeOK
<1>2. CASE UNCHANGED mark
  BY <1>2 DEF TypeOK
<1>3. QED
  BY <1>1, <1>2
     DEF Next, vars, Tick, PauseOrResume, OpenStore, Kill, LeaseClaim,
         HeartbeatWrite, SweepRead, SweepWrite, CompleteWrite, FailWrite,
         ReportRead, TransportRequeue

(* Whatever step is taken, every row moves as a statement moves it, with an *)
(* expiry the durable counter already covers.                               *)
LEMMA RowsMove ==
  ASSUME LedgerInv, [Next]_vars, NEW u \in Units
  PROVE  \E e \in Nat : e <= mark /\ KeepsRow(rows[u], rows'[u], e)
<1> USE DEF LedgerInv, TypeOK
<1>1. rows[u] \in Row /\ RowOK(rows[u])
  BY RowsOK
<1>2. 0 \in Nat /\ 0 <= mark
  OBVIOUS
<1>3. CASE rows'[u] = rows[u]
  BY <1>1, <1>2, <1>3, SameRowKeeps
<1>4. ASSUME NEW p \in Procs, LeaseClaim(p) \/ HeartbeatWrite(p)
      PROVE  \E e \in Nat : e <= mark /\ KeepsRow(rows[u], rows'[u], e)
  <2> DEFINE e == call[p].expires
  <2>1. call[p] \in Calls /\ call[p].op \in {"lease", "heartbeat"}
    BY <1>4 DEF LeaseClaim, HeartbeatWrite, InCall
  <2>2. call[p].unit \in Units /\ e \in Nat \ {0} /\ e <= mark
    BY <2>1, CallShape DEF Ops, MarkCoversLeases, CallsCarryExpiry, NoExpiry
  <2>3. CASE u # call[p].unit
    BY <1>4, <2>3, <1>3 DEF LeaseClaim, HeartbeatWrite
  <2>4. CASE u = call[p].unit /\ LeaseClaim(p)
    <3>1. rows'[u] = MarkLeased(rows[u], p, e)
      BY <2>4 DEF LeaseClaim
    <3>2. QED
      BY <3>1, <2>2, <1>1, MarkLeasedKeeps DEF Procs
  <2>5. CASE u = call[p].unit /\ HeartbeatWrite(p)
    <3>1. rows'[u] = ExtendLease(rows[u], p, e)
      BY <2>5 DEF HeartbeatWrite
    <3>2. QED
      BY <3>1, <2>2, <1>1, ExtendLeaseKeeps DEF Procs
  <2>6. QED
    BY <1>4, <2>3, <2>4, <2>5
<1>5. ASSUME NEW p \in Procs, SweepWrite(p)
      PROVE  \E e \in Nat : e <= mark /\ KeepsRow(rows[u], rows'[u], e)
  <2>1. rows'[u] \in {rows[u], RequeueExpired(rows[u])}
    BY <1>5 DEF SweepWrite
  <2>2. QED
    BY <2>1, <1>1, <1>2, SameRowKeeps, RequeueExpiredKeeps
<1>6. ASSUME NEW p \in Procs, CompleteWrite(p)
      PROVE  \E e \in Nat : e <= mark /\ KeepsRow(rows[u], rows'[u], e)
  <2>1. rows'[u] \in {rows[u], MarkDone(rows[u])}
    BY <1>6 DEF CompleteWrite
  <2>2. QED
    BY <2>1, <1>1, <1>2, SameRowKeeps, MarkDoneKeeps
<1>7. ASSUME NEW p \in Procs, FailWrite(p)
      PROVE  \E e \in Nat : e <= mark /\ KeepsRow(rows[u], rows'[u], e)
  <2>1. rows'[u] \in {rows[u], RecordFailure(rows[u])}
    BY <1>7 DEF FailWrite
  <2>2. QED
    BY <2>1, <1>1, <1>2, SameRowKeeps, RecordFailureKeeps
<1>8. ASSUME NEW p \in Procs, NEW v \in Units, TransportRequeue(p, v)
      PROVE  \E e \in Nat : e <= mark /\ KeepsRow(rows[u], rows'[u], e)
  <2>1. rows'[u] \in {rows[u], RequeueExpired(rows[u])}
    BY <1>8 DEF TransportRequeue
  <2>2. QED
    BY <2>1, <1>1, <1>2, SameRowKeeps, RequeueExpiredKeeps
<1>9. QED
  BY <1>3, <1>4, <1>5, <1>6, <1>7, <1>8
     DEF Next, vars, Tick, PauseOrResume, OpenStore, Kill, SweepRead,
         LeaseIssue, HeartbeatRead, ReportRead

-----------------------------------------------------------------------------
(* Every step keeps the type invariant.                                     *)
LEMMA TypeStep ==
  ASSUME LedgerInv, [Next]_vars
  PROVE  TypeOK'
<1> USE DEF LedgerInv
<1>1. mark' \in Nat
  BY MarkGrows
<1>2. rows' \in [Units -> Row]
  <2>1. \A u \in Units : rows'[u] \in Row
    BY RowsMove DEF KeepsRow
  <2>2. DOMAIN rows' = Units /\ rows' = [u \in Units |-> rows'[u]]
    BY DEF TypeOK, Next, vars, Tick, PauseOrResume, OpenStore, Kill, LeaseClaim,
           HeartbeatWrite, SweepRead, SweepWrite, CompleteWrite, FailWrite,
           LeaseIssue, HeartbeatRead, ReportRead, TransportRequeue
  <2>3. QED
    BY <2>1, <2>2
<1>3. open' \in BOOLEAN
  BY ZenonT(60) DEF TypeOK, Next, vars, Tick, PauseOrResume, OpenStore, Kill, LeaseClaim,
         HeartbeatWrite, SweepRead, SweepWrite, CompleteWrite, FailWrite,
         LeaseIssue, HeartbeatRead, ReportRead, TransportRequeue
<1>4. up' \subseteq Procs /\ ticks' \in [Procs -> Nat]
  BY LeaseAssumption
     DEF TypeOK, Next, vars, Tick, PauseOrResume, OpenStore, Kill, LeaseClaim,
         HeartbeatWrite, SweepRead, SweepWrite, CompleteWrite, FailWrite,
         LeaseIssue, HeartbeatRead, ReportRead, TransportRequeue, Restored
<1>5. holds' \in [Procs -> SUBSET Units]
  BY CallShape
     DEF TypeOK, Next, vars, Tick, PauseOrResume, OpenStore, Kill, LeaseClaim,
         HeartbeatWrite, SweepRead, SweepWrite, CompleteWrite, FailWrite,
         LeaseIssue, HeartbeatRead, ReportRead, TransportRequeue, LetGo, InCall,
         Ops
<1>6. call' \in [Procs -> Calls]
  <2>1. ASSUME NEW p \in Procs PROVE NewExpiry(p) \in Nat
    BY LeaseAssumption DEF NewExpiry, TypeOK
  <2>2. ExpiredAt(0) \subseteq Units /\ \A n : ExpiredAt(n) \in SUBSET Units
    BY DEF ExpiredAt
  <2>3. NoExpiry \in Nat
    BY DEF NoExpiry
  <2>4. QED
    BY <2>1, <2>2, <2>3, NewCalls
       DEF TypeOK, Next, vars, Tick, PauseOrResume, OpenStore, Kill, LeaseClaim,
           HeartbeatWrite, SweepRead, SweepWrite, CompleteWrite, FailWrite,
           LeaseIssue, HeartbeatRead, ReportRead, TransportRequeue, Begin,
           Return, Ops
<1>7. QED
  BY <1>1, <1>2, <1>3, <1>4, <1>5, <1>6 DEF TypeOK

(* A call is begun, finished, dropped by a kill, or left as it was. *)
LEMMA CallsMove ==
  ASSUME LedgerInv, [Next]_vars, NEW p \in Procs,
         call'[p].op \in {"lease", "heartbeat"}
  PROVE  \/ call'[p] = call[p]
         \/ call'[p].expires = NewExpiry(p) /\ mark' = Larger(mark, NewExpiry(p))
<1> USE DEF LedgerInv, TypeOK
<1>1. ASSUME NEW q \in Procs, NEW u \in Units,
             LeaseIssue(q, u) \/ HeartbeatRead(q, u)
      PROVE  \/ call'[p] = call[p]
             \/ /\ call'[p].expires = NewExpiry(p)
                /\ mark' = Larger(mark, NewExpiry(p))
  BY <1>1 DEF LeaseIssue, HeartbeatRead, Begin, UnitCall, RaiseMark
<1>2. ASSUME NEW q \in Procs,
             \/ LeaseClaim(q)
             \/ HeartbeatWrite(q)
             \/ SweepWrite(q)
             \/ CompleteWrite(q)
             \/ FailWrite(q)
             \/ Kill(q)
      PROVE  call'[p] \in {call[p], Idle}
  BY <1>2 DEF LeaseClaim, HeartbeatWrite, SweepWrite, CompleteWrite, FailWrite,
              Kill, Return
<1>3. ASSUME NEW q \in Procs, SweepRead(q)
      PROVE  call'[p] = call[p]
  BY <1>3 DEF SweepRead, Begin, SweepCall
<1>4. ASSUME NEW q \in Procs, NEW u \in Units,
             ReportRead(q, u, "complete") \/ ReportRead(q, u, "fail")
      PROVE  call'[p] = call[p]
  BY <1>4 DEF ReportRead, Begin, UnitCall
<1>5. CASE UNCHANGED call
  BY <1>5
<1>6. Idle.op \notin {"lease", "heartbeat"}
  BY DEF Idle
<1>7. QED
  BY <1>1, <1>2, <1>3, <1>4, <1>5, <1>6
     DEF Next, vars, Tick, PauseOrResume, OpenStore, TransportRequeue

(* A process is handed no unit while it reports one.                        *)
LEMMA ReportsStep ==
  ASSUME LedgerInv, [Next]_vars
  PROVE  ReportsLast'
<1> SUFFICES ASSUME NEW p \in Procs, NEW u \in Units, Reports(p, u)'
             PROVE  u \notin holds'[p]
  BY DEF ReportsLast
<1> USE DEF LedgerInv, TypeOK
<1>1. CASE UNCHANGED <<holds, call>>
  BY <1>1 DEF ReportsLast, Reports
<1>2. ASSUME NEW q \in Procs, NEW v \in Units,
             LeaseIssue(q, v) \/ SweepRead(q)
      PROVE  u \notin holds'[p]
  BY <1>2 DEF LeaseIssue, SweepRead, Begin, UnitCall, SweepCall, ReportsLast,
              Reports
<1>3. ASSUME NEW q \in Procs, LeaseClaim(q) PROVE u \notin holds'[p]
  BY <1>3 DEF LeaseClaim, Return, Idle, ReportsLast, Reports
<1>4. ASSUME NEW q \in Procs, HeartbeatWrite(q) PROVE u \notin holds'[p]
  BY <1>4 DEF HeartbeatWrite, Return, LetGo, Idle, ReportsLast, Reports
<1>5. ASSUME NEW q \in Procs, NEW v \in Units, HeartbeatRead(q, v)
      PROVE  u \notin holds'[p]
  BY <1>5 DEF HeartbeatRead, Begin, LetGo, UnitCall, ReportsLast, Reports
<1>6. ASSUME NEW q \in Procs, SweepWrite(q) \/ CompleteWrite(q) \/ FailWrite(q)
      PROVE  u \notin holds'[p]
  BY <1>6 DEF SweepWrite, CompleteWrite, FailWrite, Return, Idle, ReportsLast,
              Reports
<1>7. ASSUME NEW q \in Procs, NEW v \in Units,
             ReportRead(q, v, "complete") \/ ReportRead(q, v, "fail")
      PROVE  u \notin holds'[p]
  BY <1>7 DEF ReportRead, Begin, LetGo, UnitCall, ReportsLast, Reports
<1>8. ASSUME NEW q \in Procs, NEW v \in Units, TransportRequeue(q, v)
      PROVE  u \notin holds'[p]
  BY <1>8 DEF TransportRequeue, LetGo, ReportsLast, Reports
<1>9. ASSUME NEW q \in Procs, Kill(q) PROVE u \notin holds'[p]
  BY <1>9 DEF Kill, Idle, ReportsLast, Reports
<1>10. QED
  BY <1>1, <1>2, <1>3, <1>4, <1>5, <1>6, <1>7, <1>8, <1>9
     DEF Next, vars, Tick, PauseOrResume, OpenStore

(* The invariant holds at first.                                            *)
LEMMA InitInv == Init => LedgerInv
BY AttemptsAssumption
   DEF Init, LedgerInv, TypeOK, LeaseColumnsAgree, QuarantineAtCeiling,
       MarkCoversLeases, CallsCarryExpiry, ReportsLast, Reports, Row, FreshRow,
       UnitStatus, NoExpiry, Calls, Idle

(* Each step keeps the invariant.                                           *)
LEMMA NextInv == LedgerInv /\ [Next]_vars => LedgerInv'
<1> SUFFICES ASSUME LedgerInv, [Next]_vars PROVE LedgerInv'
  OBVIOUS
<1>1. TypeOK'
  BY TypeStep
<1>2. LeaseColumnsAgree' /\ QuarantineAtCeiling'
  <2>1. \A u \in Units : RowOK(rows'[u])
    BY RowsMove DEF KeepsRow
  <2>2. QED
    BY <2>1 DEF LeaseColumnsAgree, QuarantineAtCeiling, RowOK
<1>3. MarkCoversLeases'
  <2>1. mark \in Nat /\ mark' \in Nat /\ mark' >= mark
    BY MarkGrows DEF LedgerInv, TypeOK
  <2>2. ASSUME NEW u \in Units PROVE rows'[u].expires <= mark'
    <3>1. PICK e \in Nat : e <= mark /\ KeepsRow(rows[u], rows'[u], e)
      BY RowsMove
    <3>2. rows[u].expires <= mark /\ rows[u].expires \in Nat
      BY DEF LedgerInv, MarkCoversLeases, TypeOK, Row
    <3>3. QED
      BY <2>1, <3>1, <3>2 DEF KeepsRow, NoExpiry
  <2>3. ASSUME NEW p \in Procs, call'[p].op \in {"lease", "heartbeat"}
        PROVE  call'[p].expires <= mark'
    <3>1. CASE call'[p] = call[p]
      <4>1. call[p].expires <= mark /\ call[p].expires \in Nat
        BY <2>3, <3>1, CallShape DEF LedgerInv, MarkCoversLeases, TypeOK, Ops
      <4>2. QED
        BY <2>1, <3>1, <4>1
    <3>2. CASE /\ call'[p].expires = NewExpiry(p)
               /\ mark' = Larger(mark, NewExpiry(p))
      BY <2>1, <3>2, LeaseAssumption DEF Larger, NewExpiry, LedgerInv, TypeOK
    <3>3. QED
      BY <2>3, <3>1, <3>2, CallsMove
  <2>4. QED
    BY <2>2, <2>3 DEF MarkCoversLeases
<1>4. CallsCarryExpiry'
  <2>1. ASSUME NEW p \in Procs, call'[p].op \in {"lease", "heartbeat"}
        PROVE  call'[p].expires # NoExpiry
    <3>1. CASE call'[p] = call[p]
      BY <2>1, <3>1 DEF LedgerInv, CallsCarryExpiry
    <3>2. CASE call'[p].expires = NewExpiry(p)
      BY <3>2, LeaseAssumption DEF NewExpiry, LedgerInv, TypeOK, NoExpiry
    <3>3. QED
      BY <2>1, <3>1, <3>2, CallsMove
  <2>2. QED
    BY <2>1 DEF CallsCarryExpiry
<1>5. ReportsLast'
  BY ReportsStep
<1>6. QED
  BY <1>1, <1>2, <1>3, <1>4, <1>5 DEF LedgerInv

(* The invariant holds in every state.                                      *)
LEMMA LedgerInvariant == Spec => []LedgerInv
BY InitInv, NextInv, PTL DEF Spec

-----------------------------------------------------------------------------
(* The ledger, the counter, the clocks and the calls keep their types. *)
THEOREM TypeCorrect == Spec => []TypeOK
<1>1. LedgerInv => TypeOK
  BY DEF LedgerInv
<1>2. QED
  BY <1>1, LedgerInvariant, PTL

(* The lease columns and the status agree in every reachable state. *)
THEOREM LeaseColumns == Spec => []LeaseColumnsAgree
<1>1. LedgerInv => LeaseColumnsAgree
  BY DEF LedgerInv
<1>2. QED
  BY <1>1, LedgerInvariant, PTL

(* Quarantine comes at the retry limit, and only there. *)
THEOREM Quarantine == Spec => []QuarantineAtCeiling
<1>1. LedgerInv => QuarantineAtCeiling
  BY DEF LedgerInv
<1>2. QED
  BY <1>1, LedgerInvariant, PTL

(* The durable counter outlives every lease. *)
THEOREM MarkCovers == Spec => []MarkCoversLeases
<1>1. LedgerInv => MarkCoversLeases
  BY DEF LedgerInv
<1>2. QED
  BY <1>1, LedgerInvariant, PTL

(* An ended unit stays ended, and no attempt is forgotten. *)
THEOREM Ended == Spec => EndedStaysEnded
<1>1. LedgerInv /\ [Next]_vars => [EndedStep]_vars
  BY RowsMove DEF KeepsRow, EndedStep
<1>2. QED
  BY <1>1, LedgerInvariant, PTL DEF Spec, EndedStaysEnded

(* A process that opens the store finds every outstanding lease expired. *)
THEOREM OpenExpires == Spec => OpenExpiresEveryLease
<1>1. ASSUME LedgerInv, [Next]_vars, NEW p \in Procs, p \in up' \ up,
             NEW u \in Units, rows[u].status = "leased"
      PROVE  rows[u].expires <= ticks'[p]
  <2>1. OpenStore(p)
    BY <1>1
       DEF Next, vars, Tick, PauseOrResume, OpenStore, Kill, LeaseClaim,
           HeartbeatWrite, SweepRead, SweepWrite, CompleteWrite, FailWrite,
           LeaseIssue, HeartbeatRead, ReportRead, TransportRequeue
  <2>2. rows[u].expires <= mark /\ rows[u].expires \in Nat /\ mark \in Nat
    BY <1>1 DEF LedgerInv, MarkCoversLeases, TypeOK, Row
  <2>3. ticks'[p] = Restored(mark)
    BY <1>1, <2>1 DEF OpenStore, LedgerInv, TypeOK
  <2>4. QED
    BY <2>2, <2>3, LeaseAssumption DEF Restored
<1>2. ASSUME LedgerInv, [Next]_vars
      PROVE  \A p \in Procs : p \in up' \ up =>
               \A u \in Units :
                 rows[u].status = "leased" => rows[u].expires <= ticks'[p]
  BY <1>1, <1>2
<1>3. QED
  BY <1>2, LedgerInvariant, PTL DEF Spec, OpenExpiresEveryLease

-----------------------------------------------------------------------------
(* The refinement of LeaseSpec. *)

(* What a reader of the promise sees of the ledger.                         *)
Tries == [u \in Units |-> rows[u].attempts]
Workers == [u \in Units |-> {p \in Procs : u \in holds[p] \/ Reports(p, u)}]

Waiting == WithStatus("pending")
Done == WithStatus("done")
Lost == WithStatus("quarantined")

promisedRows == <<Waiting, Done, Lost, Tries>>
promisedVars == <<Waiting, Done, Lost, Tries, Workers>>

(* A unit is in the set its row's status names, and in no other.            *)
LEMMA StatusOf ==
  ASSUME TypeOK, NEW u \in Units
  PROVE  /\ u \in Waiting <=> rows[u].status = "pending"
         /\ u \in Done <=> rows[u].status = "done"
         /\ u \in Lost <=> rows[u].status = "quarantined"
         /\ u \in Promise!Ended <=> rows[u].status \in Terminal
         /\ u \in Promise!Out <=> rows[u].status = "leased"
BY DEF TypeOK, Row, UnitStatus, Terminal, WithStatus, Waiting, Done, Lost,
       Promise!Ended, Promise!Out

(* Rows no statement wrote look the same.                                   *)
LEMMA SameRows ==
  ASSUME rows' = rows
  PROVE  UNCHANGED promisedRows
BY DEF promisedRows, Waiting, Done, Lost, Tries, WithStatus

(* A statement moves one unit from the set of its old status to the set of  *)
(* the new one, and writes its attempts.                                    *)
LEMMA OneRow ==
  ASSUME TypeOK, NEW u \in Units, NEW new \in Row,
         rows' = [rows EXCEPT ![u] = new]
  PROVE  /\ Waiting' = IF new.status = "pending" THEN Waiting \cup {u} ELSE Waiting \ {u}
         /\ Done' = IF new.status = "done" THEN Done \cup {u} ELSE Done \ {u}
         /\ Lost' = IF new.status = "quarantined" THEN Lost \cup {u} ELSE Lost \ {u}
         /\ Tries' = [Tries EXCEPT ![u] = new.attempts]
<1>1. rows'[u] = new /\ \A v \in Units : v # u => rows'[v] = rows[v]
  BY DEF TypeOK
<1>2. ASSUME NEW s
      PROVE  WithStatus(s)' = IF new.status = s THEN WithStatus(s) \cup {u}
                                                ELSE WithStatus(s) \ {u}
  BY <1>1 DEF WithStatus
<1>3. Tries' = [Tries EXCEPT ![u] = new.attempts]
  <2>1. /\ Tries' = [v \in Units |-> rows'[v].attempts]
        /\ Tries = [v \in Units |-> rows[v].attempts]
    BY DEF Tries
  <2>2. \A v \in Units :
          rows'[v].attempts = IF v = u THEN new.attempts ELSE rows[v].attempts
    BY <1>1
  <2>3. QED
    BY <2>1, <2>2
<1>4. QED
  BY <1>2, <1>3 DEF Waiting, Done, Lost

(* The workers of the units when one process joins or leaves those of one   *)
(* unit.                                                                    *)
LEMMA WorkerMoves ==
  ASSUME NEW p \in Procs, NEW u \in Units,
         \A q \in Procs, v \in Units :
           <<q, v>> # <<p, u>> => (q \in Workers'[v] <=> q \in Workers[v])
  PROVE  /\ p \in Workers'[u] => Workers' = [Workers EXCEPT ![u] = @ \cup {p}]
         /\ p \notin Workers'[u] => Workers' = [Workers EXCEPT ![u] = @ \ {p}]
<1>1. ASSUME NEW v \in Units, v # u PROVE Workers'[v] = Workers[v]
  BY <1>1 DEF Workers
<1>2. p \in Workers'[u] => Workers'[u] = Workers[u] \cup {p}
  BY DEF Workers
<1>3. p \notin Workers'[u] => Workers'[u] = Workers[u] \ {p}
  BY DEF Workers
<1>4. /\ Workers = [v \in Units |-> Workers[v]]
      /\ Workers' = [v \in Units |-> Workers'[v]]
  BY DEF Workers
<1>5. QED
  BY <1>1, <1>2, <1>3, <1>4

(* Who works on a unit, spelt out.                                          *)
LEMMA WorksOn ==
  ASSUME NEW p \in Procs, NEW u \in Units
  PROVE  /\ p \in Workers[u] <=> (u \in holds[p] \/ Reports(p, u))
         /\ p \in Workers'[u] <=> (u \in holds'[p] \/ Reports(p, u)')
BY DEF Workers

(* Workers no step touched.                                                 *)
LEMMA SameWorkers ==
  ASSUME \A q \in Procs, v \in Units : q \in Workers'[v] <=> q \in Workers[v]
  PROVE  Workers' = Workers
<1>1. ASSUME NEW v \in Units PROVE Workers'[v] = Workers[v]
  BY DEF Workers
<1>2. QED
  BY <1>1 DEF Workers

-----------------------------------------------------------------------------
(* Step by step: what each call is, seen through the promise. *)

(* A claim hands the unit to the process, or is too late and changes        *)
(* nothing.                                                                 *)
LEMMA ClaimHands ==
  ASSUME LedgerInv, NEW p \in Procs, LeaseClaim(p),
         NEW u \in Units, u = call[p].unit
  PROVE  Promise!Hand(p, u) \/ UNCHANGED promisedVars
<1> DEFINE new == MarkLeased(rows[u], p, call[p].expires)
<1> USE DEF LedgerInv
<1>1. call[p].op = "lease" /\ call[p].expires \in Nat
  BY CallShape DEF LeaseClaim, InCall, TypeOK, Ops
<1>2. rows' = [rows EXCEPT ![u] = new]
  BY DEF LeaseClaim
<1>3. rows[u] \in Row /\ new \in Row
  <2>1. rows[u] \in Row /\ RowOK(rows[u])
    BY <1>1, RowsOK DEF TypeOK
  <2>2. call[p].expires \in Nat \ {0}
    BY <1>1 DEF CallsCarryExpiry, NoExpiry
  <2>3. p \in Owners
    BY DEF Procs
  <2>4. QED
    BY <2>1, <2>2, <2>3, MarkLeasedKeeps DEF KeepsRow
<1>4. \A q \in Procs, v \in Units : Reports(q, v)' = Reports(q, v)
  BY <1>1 DEF LeaseClaim, Return, Reports, Idle, TypeOK
<1>5. CASE CanLease(rows[u])
  <2>1. holds' = [holds EXCEPT ![p] = @ \cup {u}]
    BY <1>5 DEF LeaseClaim
  <2>2. /\ new.status = "leased"
        /\ new.attempts = rows[u].attempts
        /\ rows[u].status = "pending"
    BY <1>5 DEF MarkLeased, CanLease
  <2>3. /\ u \in Waiting /\ u \notin Done /\ u \notin Lost
        /\ Waiting' = Waiting \ {u} /\ Done' = Done \ {u} /\ Lost' = Lost \ {u}
    BY <1>1, <1>2, <1>3, <2>2, OneRow, StatusOf
  <2>4. Tries' = Tries
    BY <1>1, <1>2, <1>3, <2>2, OneRow DEF Tries
  <2>5. \A q \in Procs, v \in Units :
          <<q, v>> # <<p, u>> => (q \in Workers'[v] <=> q \in Workers[v])
    BY <1>4, <2>1, WorksOn DEF TypeOK
  <2>6. p \in Workers'[u]
    BY <1>1, <2>1, WorksOn DEF TypeOK
  <2>7. Workers' = [Workers EXCEPT ![u] = @ \cup {p}]
    BY <1>1, <2>5, <2>6, WorkerMoves
  <2>8. Done' = Done /\ Lost' = Lost
    BY <2>3
  <2>9. QED
    BY <2>3, <2>4, <2>7, <2>8
       DEF Promise!Hand, Waiting, Done, Lost, Tries, Workers
<1>6. CASE ~CanLease(rows[u])
  <2>1. rows' = rows /\ holds' = holds
    BY <1>1, <1>2, <1>6 DEF MarkLeased, LeaseClaim, TypeOK
  <2>2. Workers' = Workers
    BY <1>4, <2>1, WorksOn, SameWorkers
  <2>3. QED
    BY <2>1, <2>2, SameRows DEF promisedRows, promisedVars
<1>7. QED
  BY <1>5, <1>6


(* A process drops a unit it holds and no row moves: it lets the unit go.   *)
LEMMA DropsUnit ==
  ASSUME LedgerInv, NEW p \in Procs, NEW u \in Units, u \in holds[p],
         UNCHANGED promisedRows,
         holds' = [holds EXCEPT ![p] = @ \ {u}],
         call'[p].op \notin {"complete", "fail"}, call[p].op \notin {"complete", "fail"},
         \A q \in Procs : q # p => call'[q] = call[q]
  PROVE  Promise!LetGo(p, u)
<1> USE DEF LedgerInv
<1>1. \A q \in Procs, v \in Units :
        <<q, v>> # <<p, u>> => (q \in Workers'[v] <=> q \in Workers[v])
  BY WorksOn DEF TypeOK, Reports
<1>2. p \in Workers[u] /\ p \notin Workers'[u]
  BY WorksOn DEF TypeOK, Reports
<1>3. Workers' = [Workers EXCEPT ![u] = @ \ {p}]
  BY <1>1, <1>2, WorkerMoves
<1>4. QED
  BY <1>2, <1>3 DEF promisedRows, Promise!LetGo, Promise!Leaves, Waiting, Done,
                    Lost, Tries, Workers

(* A heartbeat whose row is still leased to the process changes nothing; one *)
(* that finds it gone lets the unit go.                                     *)
LEMMA BeatLetsGo ==
  ASSUME LedgerInv, NEW p \in Procs, NEW u \in Units,
         \/ HeartbeatRead(p, u)
         \/ HeartbeatWrite(p) /\ u = call[p].unit
  PROVE  Promise!LetGo(p, u) \/ UNCHANGED promisedVars
<1> USE DEF LedgerInv
<1>1. UNCHANGED promisedRows
  <2>1. CASE HeartbeatRead(p, u)
    BY <2>1, SameRows DEF HeartbeatRead
  <2>2. CASE HeartbeatWrite(p) /\ u = call[p].unit
    <3> DEFINE new == ExtendLease(rows[u], p, call[p].expires)
    <3>1. rows' = [rows EXCEPT ![u] = new]
      BY <2>2 DEF HeartbeatWrite
    <3>2. call[p].op = "heartbeat" /\ call[p].expires \in Nat \ {0}
      BY <2>2, CallShape
         DEF HeartbeatWrite, InCall, TypeOK, Ops, CallsCarryExpiry, NoExpiry
    <3>3. rows[u] \in Row /\ RowOK(rows[u]) /\ p \in Owners
      BY RowsOK DEF TypeOK, Procs
    <3>4. new \in Row
      BY <3>2, <3>3, ExtendLeaseKeeps DEF KeepsRow
    <3>5. new.status = rows[u].status /\ new.attempts = rows[u].attempts
      BY DEF ExtendLease, CanExtend
    <3>6. Waiting' = Waiting /\ Done' = Done /\ Lost' = Lost
      <4>1. /\ u \in Waiting <=> new.status = "pending"
            /\ u \in Done <=> new.status = "done"
            /\ u \in Lost <=> new.status = "quarantined"
        BY <3>5, StatusOf
      <4>2. /\ Waiting' = IF new.status = "pending" THEN Waiting \cup {u}
                                                     ELSE Waiting \ {u}
            /\ Done' = IF new.status = "done" THEN Done \cup {u} ELSE Done \ {u}
            /\ Lost' = IF new.status = "quarantined" THEN Lost \cup {u}
                                                     ELSE Lost \ {u}
        BY <3>1, <3>4, OneRow
      <4>3. QED
        BY <4>1, <4>2
    <3>7. Tries' = Tries
      BY <3>1, <3>4, <3>5, OneRow DEF Tries
    <3>8. QED
      BY <3>6, <3>7 DEF promisedRows
  <2>3. QED
    BY <2>1, <2>2
<1>2. /\ call[p].op \notin {"complete", "fail"}
      /\ call'[p].op \notin {"complete", "fail"}
      /\ \A q \in Procs : q # p => call'[q] = call[q]
  BY DEF HeartbeatRead, HeartbeatWrite, InCall, Ready, Begin, Return, UnitCall,
         Idle, TypeOK
<1>3. CASE holds' = [holds EXCEPT ![p] = @ \ {u}] /\ u \in holds[p]
  BY <1>1, <1>2, <1>3, DropsUnit
<1>4. CASE holds' = holds
  <2>1. \A q \in Procs, v \in Units : q \in Workers'[v] <=> q \in Workers[v]
    BY <1>2, <1>4, WorksOn DEF Reports
  <2>2. QED
    BY <1>1, <2>1, SameWorkers DEF promisedRows, promisedVars
<1>5. CASE holds' = [holds EXCEPT ![p] = @ \ {u}] /\ u \notin holds[p]
  BY <1>4, <1>5 DEF TypeOK
<1>6. QED
  BY <1>3, <1>4, <1>5 DEF HeartbeatRead, HeartbeatWrite, LetGo


(* A sweep takes back the units it requeues, whoever has them.              *)
LEMMA SweepTakesBack ==
  ASSUME LedgerInv, NEW p \in Procs, SweepWrite(p)
  PROVE  Promise!TakeBack
<1> USE DEF LedgerInv
<1> DEFINE S == {u \in call[p].units : rows[u].status = "leased"}
<1>1. call[p].op = "sweep" /\ call[p].units \subseteq Units
  BY CallShape DEF SweepWrite, InCall, TypeOK
<1>2. ASSUME NEW u \in Units
      PROVE  /\ rows'[u].attempts = rows[u].attempts
             /\ rows'[u].status = IF u \in S THEN "pending" ELSE rows[u].status
  BY <1>1 DEF SweepWrite, RequeueExpired, CanRequeue, Unleased
<1>3. Waiting' = Waiting \cup S /\ Done' = Done /\ Lost' = Lost
  BY <1>1, <1>2 DEF Waiting, Done, Lost, WithStatus
<1>4. Tries' = Tries
  BY <1>2 DEF Tries
<1>5. S \in SUBSET Promise!Out
  BY <1>1, StatusOf
<1>6. Workers' = Workers
  <2>1. \A q \in Procs, v \in Units : Reports(q, v)' = Reports(q, v)
    BY <1>1 DEF SweepWrite, Return, Reports, Idle, TypeOK
  <2>2. QED
    BY <2>1, WorksOn, SameWorkers DEF SweepWrite
<1>7. QED
  BY <1>3, <1>4, <1>5, <1>6
     DEF Promise!TakeBack, Waiting, Done, Lost, Tries, Workers

(* A killed process reports nothing it was handed.                          *)
LEMMA KillDies ==
  ASSUME LedgerInv, NEW p \in Procs, Kill(p)
  PROVE  Promise!Die(p)
<1> USE DEF LedgerInv
<1>1. UNCHANGED promisedRows
  BY SameRows DEF Kill
<1>2. \A q \in Procs, v \in Units :
        q \in Workers'[v] <=> q \in Workers[v] /\ q # p
  BY WorksOn DEF Kill, Reports, Idle, TypeOK
<1>3. ASSUME NEW v \in Units PROVE Workers'[v] = Workers[v] \ {p}
  BY <1>2 DEF Workers
<1>4. Workers' = [v \in Units |-> Workers[v] \ {p}]
  BY <1>3 DEF Workers
<1>5. QED
  BY <1>1, <1>4 DEF promisedRows, Promise!Die, Waiting, Done, Lost, Tries, Workers

(* A report on an ended unit lets it go; any other goes on to its write,    *)
(* and nothing is seen yet.                                                 *)
LEMMA ReportReads ==
  ASSUME LedgerInv, NEW p \in Procs, NEW u \in Units, NEW op \in {"complete", "fail"},
         ReportRead(p, u, op)
  PROVE  Promise!LetGo(p, u) \/ UNCHANGED promisedVars
<1> USE DEF LedgerInv
<1>1. UNCHANGED promisedRows
  BY SameRows DEF ReportRead
<1>2. /\ call[p] = Idle /\ u \in holds[p]
      /\ holds' = [holds EXCEPT ![p] = @ \ {u}]
  BY DEF ReportRead, Ready, LetGo
<1>3. CASE UNCHANGED call
  <2>1. call[p].op = "idle" /\ call' = call
    BY <1>2, <1>3 DEF Idle
  <2>2. QED
    BY <1>1, <1>2, <2>1, DropsUnit
<1>4. CASE Begin(p, UnitCall(op, u, NoExpiry))
  <2>1. \A v \in Units : ~Reports(p, v) /\ (Reports(p, v)' <=> v = u)
    BY <1>2, <1>4 DEF Begin, UnitCall, Reports, Idle, TypeOK
  <2>2. \A q \in Procs, v \in Units : q # p => Reports(q, v)' = Reports(q, v)
    BY <1>4 DEF Begin, Reports, TypeOK
  <2>3. \A q \in Procs, v \in Units : q \in Workers'[v] <=> q \in Workers[v]
    BY <1>2, <2>1, <2>2, WorksOn DEF TypeOK
  <2>4. QED
    BY <1>1, <2>3, SameWorkers DEF promisedRows, promisedVars
<1>5. QED
  BY <1>3, <1>4 DEF ReportRead


(* Whoever writes a report is done with the unit, because it stopped        *)
(* holding it when it began to report.                                      *)
LEMMA ReporterLeaves ==
  ASSUME LedgerInv, NEW p \in Procs, NEW u \in Units, Reports(p, u),
         Return(p), UNCHANGED holds
  PROVE  p \in Workers[u] /\ Workers' = [Workers EXCEPT ![u] = @ \ {p}]
<1> USE DEF LedgerInv
<1>1. \A v \in Units : ~Reports(p, v)' /\ (Reports(p, v) => v = u)
  BY DEF Return, Reports, Idle, TypeOK
<1>2. \A q \in Procs, v \in Units : q # p => Reports(q, v)' = Reports(q, v)
  BY DEF Return, Reports, TypeOK
<1>3. \A q \in Procs, v \in Units :
        <<q, v>> # <<p, u>> => (q \in Workers'[v] <=> q \in Workers[v])
  BY <1>1, <1>2, WorksOn
<1>4. p \in Workers[u] /\ p \notin Workers'[u]
  BY <1>1, WorksOn DEF ReportsLast
<1>5. QED
  BY <1>3, <1>4, WorkerMoves

(* A report that finds the unit ended is refused by its guard; the process  *)
(* has still said its last word on it.                                      *)
LEMMA LateReport ==
  ASSUME LedgerInv, NEW p \in Procs, NEW u \in Units, Reports(p, u),
         Return(p), UNCHANGED <<holds, rows>>
  PROVE  Promise!LetGo(p, u)
BY SameRows, ReporterLeaves
   DEF promisedRows, Promise!LetGo, Promise!Leaves, Waiting, Done, Lost, Tries, Workers

(* A completion is the abstract one, or comes too late.                     *)
LEMMA CompletionLands ==
  ASSUME LedgerInv, NEW p \in Procs, CompleteWrite(p),
         NEW u \in Units, u = call[p].unit
  PROVE  Promise!Complete(p, u) \/ Promise!LetGo(p, u)
<1> USE DEF LedgerInv
<1>1. Reports(p, u) /\ Return(p) /\ UNCHANGED holds
  BY DEF CompleteWrite, InCall, Reports
<1>2. /\ rows' = [rows EXCEPT ![u] = MarkDone(rows[u])]
      /\ rows[u] \in Row
  BY DEF CompleteWrite, TypeOK
<1>3. CASE CanFinish(rows[u])
  <2>1. /\ MarkDone(rows[u]) \in Row
        /\ MarkDone(rows[u]).status = "done"
        /\ MarkDone(rows[u]).attempts = rows[u].attempts
    BY <1>2, <1>3 DEF MarkDone, Unleased, Row, UnitStatus, NoExpiry
  <2>2. u \notin Promise!Ended /\ u \notin Lost
    BY <1>3, StatusOf DEF CanFinish, Terminal
  <2>3. Waiting' = Waiting \ {u} /\ Done' = Done \cup {u} /\ Lost' = Lost \ {u}
    BY <1>2, <2>1, OneRow
  <2>4. Tries' = Tries
    BY <1>2, <2>1, OneRow DEF Tries
  <2>5. p \in Workers[u] /\ Workers' = [Workers EXCEPT ![u] = @ \ {p}]
    BY <1>1, ReporterLeaves
  <2>6. Lost' = Lost
    BY <2>2, <2>3
  <2>7. Promise!Complete(p, u)
    BY <2>2, <2>3, <2>4, <2>5, <2>6
       DEF Promise!Complete, Promise!Leaves, Waiting, Done, Lost, Tries, Workers
  <2>8. QED
    BY <2>7
<1>4. CASE ~CanFinish(rows[u])
  <2>1. rows' = rows
    BY <1>2, <1>4 DEF MarkDone, TypeOK
  <2>2. QED
    BY <1>1, <2>1, LateReport
<1>5. QED
  BY <1>3, <1>4

(* So is a failure, which quarantines the unit at the limit.                *)
LEMMA FailureLands ==
  ASSUME LedgerInv, NEW p \in Procs, FailWrite(p),
         NEW u \in Units, u = call[p].unit
  PROVE  Promise!Fail(p, u) \/ Promise!LetGo(p, u)
<1> USE DEF LedgerInv
<1> DEFINE new == RecordFailure(rows[u])
<1>1. Reports(p, u) /\ Return(p) /\ UNCHANGED holds
  BY DEF FailWrite, InCall, Reports
<1>2. /\ rows' = [rows EXCEPT ![u] = new]
      /\ rows[u] \in Row
  BY DEF FailWrite, TypeOK
<1>3. CASE CanFinish(rows[u])
  <2>1. /\ new.status = IF rows[u].attempts + 1 >= MaxAttempts
                        THEN "quarantined" ELSE "pending"
        /\ new.attempts = rows[u].attempts + 1
        /\ new.owner = NoOwner /\ new.expires = NoExpiry
    BY <1>3 DEF RecordFailure, Unleased
  <2>2. new \in Row
    <3>1. rows[u] \in Row /\ RowOK(rows[u])
      BY RowsOK DEF TypeOK
    <3>2. QED
      BY <3>1, RecordFailureKeeps DEF KeepsRow
  <2>3. u \notin Promise!Ended /\ u \notin Done /\ u \notin Lost
    BY <1>3, StatusOf DEF CanFinish, Terminal
  <2>4. Done' = Done
    <3>1. new.status # "done"
      BY <2>1
    <3>2. Done' = Done \ {u}
      BY <1>2, <2>2, <3>1, OneRow
    <3>3. QED
      BY <2>3, <3>2
  <2>5. /\ Tries[u] = rows[u].attempts
        /\ Tries' = [Tries EXCEPT ![u] = @ + 1]
    <3>1. Tries' = [Tries EXCEPT ![u] = new.attempts]
      BY <1>2, <2>2, OneRow
    <3>2. Tries[u] = rows[u].attempts
      BY DEF Tries
    <3>3. QED
      BY <2>1, <3>1, <3>2
  <2>6. p \in Workers[u] /\ Workers' = [Workers EXCEPT ![u] = @ \ {p}]
    BY <1>1, ReporterLeaves
  <2>7. \/ /\ Tries[u] + 1 < MaxAttempts
           /\ Waiting' = Waiting \cup {u} /\ Lost' = Lost
        \/ /\ Tries[u] + 1 >= MaxAttempts
           /\ Waiting' = Waiting \ {u} /\ Lost' = Lost \cup {u}
    <3>1. Tries[u] \in Nat /\ MaxAttempts \in Nat
      BY <1>2, <2>5, AttemptsAssumption DEF Row
    <3>2. CASE Tries[u] + 1 >= MaxAttempts
      <4>1. new.status = "quarantined"
        BY <2>1, <2>5, <3>2
      <4>2. QED
        BY <1>2, <2>2, <3>2, <4>1, OneRow
    <3>3. CASE Tries[u] + 1 < MaxAttempts
      <4>1. new.status = "pending"
        BY <2>1, <2>5, <3>1, <3>3
      <4>2. Waiting' = Waiting \cup {u} /\ Lost' = Lost \ {u}
        BY <1>2, <2>2, <4>1, OneRow
      <4>3. QED
        BY <2>3, <3>3, <4>2
    <3>4. QED
      BY <3>1, <3>2, <3>3
  <2>8. Promise!Fail(p, u)
    BY <2>3, <2>4, <2>5, <2>6, <2>7
       DEF Promise!Fail, Promise!Leaves, Waiting, Done, Lost, Tries, Workers
  <2>9. QED
    BY <2>8
<1>4. CASE ~CanFinish(rows[u])
  <2>1. rows' = rows
    BY <1>2, <1>4 DEF RecordFailure, TypeOK
  <2>2. QED
    BY <1>1, <2>1, LateReport
<1>5. QED
  BY <1>3, <1>4


(* A transport condition gives a leased unit back, and lets go of one that  *)
(* is out no longer.                                                        *)
LEMMA RequeueGivesBack ==
  ASSUME LedgerInv, NEW p \in Procs, NEW u \in Units, TransportRequeue(p, u)
  PROVE  Promise!GiveBack(p, u) \/ Promise!LetGo(p, u)
<1> USE DEF LedgerInv
<1> DEFINE new == RequeueExpired(rows[u])
<1>1. /\ u \in holds[p] /\ holds' = [holds EXCEPT ![p] = @ \ {u}]
      /\ call[p].op = "idle" /\ call' = call
  BY DEF TransportRequeue, Ready, Idle, LetGo
<1>2. rows' = [rows EXCEPT ![u] = new] /\ rows[u] \in Row
  BY DEF TransportRequeue, TypeOK
<1>3. CASE CanRequeue(rows[u])
  <2>1. /\ new \in Row
        /\ new.status = "pending"
        /\ new.attempts = rows[u].attempts
    BY <1>2, <1>3 DEF RequeueExpired, Unleased, Row, UnitStatus, NoExpiry
  <2>2. u \in Promise!Out /\ u \notin Done /\ u \notin Lost
    BY <1>3, StatusOf DEF CanRequeue
  <2>3. Waiting' = Waiting \cup {u} /\ Done' = Done \ {u} /\ Lost' = Lost \ {u}
    BY <1>2, <2>1, OneRow
  <2>4. Done' = Done /\ Lost' = Lost
    BY <2>2, <2>3
  <2>5. Tries' = Tries
    BY <1>2, <2>1, OneRow DEF Tries
  <2>6. \A q \in Procs, v \in Units :
          <<q, v>> # <<p, u>> => (q \in Workers'[v] <=> q \in Workers[v])
    BY <1>1, WorksOn DEF TypeOK, Reports
  <2>7. p \in Workers[u] /\ p \notin Workers'[u]
    BY <1>1, WorksOn DEF TypeOK, Reports
  <2>8. Workers' = [Workers EXCEPT ![u] = @ \ {p}]
    BY <2>6, <2>7, WorkerMoves
  <2>9. Promise!GiveBack(p, u)
    BY <2>2, <2>3, <2>4, <2>5, <2>7, <2>8
       DEF Promise!GiveBack, Promise!Leaves, Waiting, Done, Lost, Tries, Workers
  <2>10. QED
    BY <2>9
<1>4. CASE ~CanRequeue(rows[u])
  <2>1. rows' = rows
    BY <1>2, <1>4 DEF RequeueExpired, TypeOK
  <2>2. QED
    BY <1>1, <2>1, SameRows, DropsUnit
<1>5. QED
  BY <1>3, <1>4

(* Every step of the ledger is a step of the promise, or changes nothing    *)
(* the promise speaks of.                                                   *)
LEMMA PromiseStep ==
  ASSUME LedgerInv, [Next]_vars
  PROVE  Promise!Next \/ UNCHANGED promisedVars
<1> USE DEF LedgerInv
<1>1. CASE UNCHANGED <<rows, holds, call>>
  <2>1. \A q \in Procs, v \in Units : q \in Workers'[v] <=> q \in Workers[v]
    BY <1>1, WorksOn DEF Reports
  <2>2. QED
    BY <1>1, <2>1, SameRows, SameWorkers DEF promisedRows, promisedVars
<1>2. ASSUME NEW p \in Procs, SweepRead(p) \/ \E u \in Units : LeaseIssue(p, u)
      PROVE  UNCHANGED promisedVars
  <2>1. call[p].op = "idle" /\ call'[p].op \in {"lease", "sweep"}
    BY <1>2 DEF LeaseIssue, SweepRead, Ready, Begin, UnitCall, SweepCall, Idle, TypeOK
  <2>2. \A q \in Procs : q # p => call'[q] = call[q]
    BY <1>2 DEF LeaseIssue, SweepRead, Begin, TypeOK
  <2>3. UNCHANGED <<rows, holds>>
    BY <1>2 DEF LeaseIssue, SweepRead
  <2>4. \A q \in Procs, v \in Units : q \in Workers'[v] <=> q \in Workers[v]
    BY <2>1, <2>2, <2>3, WorksOn DEF Reports
  <2>5. QED
    BY <2>3, <2>4, SameRows, SameWorkers DEF promisedRows, promisedVars
<1>3. ASSUME NEW p \in Procs, LeaseClaim(p)
      PROVE  Promise!Next \/ UNCHANGED promisedVars
  <2>1. call[p].unit \in Units
    BY <1>3, CallShape DEF LeaseClaim, InCall, TypeOK, Ops
  <2>2. PICK u \in Units : u = call[p].unit
    BY <2>1
  <2>3. QED
    BY <1>3, <2>2, ClaimHands DEF Promise!Next
<1>4. ASSUME NEW p \in Procs, NEW u \in Units, HeartbeatRead(p, u)
      PROVE  Promise!Next \/ UNCHANGED promisedVars
  BY <1>4, BeatLetsGo DEF Promise!Next
<1>5. ASSUME NEW p \in Procs, HeartbeatWrite(p)
      PROVE  Promise!Next \/ UNCHANGED promisedVars
  <2>1. call[p].unit \in Units
    BY <1>5, CallShape DEF HeartbeatWrite, InCall, TypeOK, Ops
  <2>2. PICK u \in Units : u = call[p].unit
    BY <2>1
  <2>3. QED
    BY <1>5, <2>2, BeatLetsGo DEF Promise!Next
<1>6. ASSUME NEW p \in Procs, SweepWrite(p)
      PROVE  Promise!Next
  BY <1>6, SweepTakesBack DEF Promise!Next
<1>7. ASSUME NEW p \in Procs, CompleteWrite(p)
      PROVE  Promise!Next
  <2>1. call[p].unit \in Units
    BY <1>7, CallShape DEF CompleteWrite, InCall, TypeOK, Ops
  <2>2. PICK u \in Units : u = call[p].unit
    BY <2>1
  <2>3. QED
    BY <1>7, <2>2, CompletionLands DEF Promise!Next
<1>8. ASSUME NEW p \in Procs, FailWrite(p)
      PROVE  Promise!Next
  <2>1. call[p].unit \in Units
    BY <1>8, CallShape DEF FailWrite, InCall, TypeOK, Ops
  <2>2. PICK u \in Units : u = call[p].unit
    BY <2>1
  <2>3. QED
    BY <1>8, <2>2, FailureLands DEF Promise!Next
<1>9. ASSUME NEW p \in Procs, NEW u \in Units,
             ReportRead(p, u, "complete") \/ ReportRead(p, u, "fail")
      PROVE  Promise!Next \/ UNCHANGED promisedVars
  BY <1>9, ReportReads DEF Promise!Next
<1>10. ASSUME NEW p \in Procs, NEW u \in Units, TransportRequeue(p, u)
       PROVE  Promise!Next
  BY <1>10, RequeueGivesBack DEF Promise!Next
<1>11. ASSUME NEW p \in Procs, Kill(p)
       PROVE  Promise!Next
  BY <1>11, KillDies DEF Promise!Next
<1>12. QED
  BY <1>1, <1>2, <1>3, <1>4, <1>5, <1>6, <1>7, <1>8, <1>9, <1>10, <1>11
     DEF Next, vars, Tick, PauseOrResume, OpenStore

(* The work ledger, with its clocks, its split transactions and its kills,  *)
(* implements what leasing promises of the units of a run.                  *)
THEOREM PromiseKept == Spec => KeepsPromise
<1>1. Init => Promise!Init
  BY DEF Init, Promise!Init, WithStatus, FreshRow, Reports, Idle
<1>2. LedgerInv /\ [Next]_vars => [Promise!Next]_(Promise!promised)
  BY PromiseStep
     DEF promisedVars, Promise!promised, Waiting, Done, Lost, Tries, Workers
<1>3. QED
  BY <1>1, <1>2, LedgerInvariant, PTL DEF Spec, KeepsPromise, Promise!Spec

=============================================================================
