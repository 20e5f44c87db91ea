------------------------------ MODULE WorkLedger ------------------------------
(***************************************************************************)
(* Leasing as the Orchestrator offers it: several processes claim units of *)
(* one run's ledger, heartbeat them, report how they ended, and any of     *)
(* them may sweep expired leases back to pending.                          *)
(*                                                                         *)
(* A call is as fine as its transactions.  lease() persists the expiry in  *)
(* one transaction and claims in the next; heartbeat, complete and fail    *)
(* read the row, decide, and write in a transaction of their own; the      *)
(* sweep reads every leased row and requeues the expired ones afterwards.  *)
(* Between any two of these another process may write, and a process may   *)
(* be killed.                                                              *)
(*                                                                         *)
(* Each process has a lease clock of its own (one LeaseClock per store     *)
(* instance); the furthest expiry ever issued is the one durable counter   *)
(* they share.                                                             *)
(***************************************************************************)
EXTENDS LedgerRows, FiniteSets

CONSTANTS
  Units,     \* the work units of the run (work_id)
  LeaseTTL,  \* HARNESS_ORCH_LEASE_SECONDS, in ticks
  Margin,    \* lease_restore_margin_s, in ticks
  MaxTicks   \* bound: no clock is driven past it

ASSUME LeaseAssumption ==
  /\ LeaseTTL \in Nat \ {0}
  /\ Margin \in Nat
  /\ MaxTicks \in Nat

(* A process is named by the owner its claims carry. *)
Procs == Owners

VARIABLES
  rows,     \* work_unit: the ledger
  mark,     \* store_lease_clock: the furthest expiry ever issued, 0 for no row
  open,     \* the run's status is pending or running (paused otherwise)
  up,       \* the processes that have the store open
  ticks,    \* LeaseClock.ticks() of each open process
  holds,    \* the units each process was handed and has not reported on
  call      \* the call each process is in the middle of

vars == <<rows, mark, open, up, ticks, holds, call>>

-----------------------------------------------------------------------------
(* The calls in progress: which one, on which unit, with which expiry, and  *)
(* for a sweep the units it read as expired.                                *)

Ops == {"lease", "heartbeat", "complete", "fail"}

Idle == [op |-> "idle"]
UnitCall(op, u, e) == [op |-> op, unit |-> u, expires |-> e]
SweepCall(us) == [op |-> "sweep", units |-> us]

Calls == {Idle} \cup [op : Ops, unit : Units, expires : Nat]
                \cup [op : {"sweep"}, units : SUBSET Units]

TypeOK ==
  /\ rows \in [Units -> Row]
  /\ mark \in Nat
  /\ open \in BOOLEAN
  /\ up \subseteq Procs
  /\ ticks \in [Procs -> Nat]
  /\ holds \in [Procs -> SUBSET Units]
  /\ call \in [Procs -> Calls]

Init ==
  /\ rows = [u \in Units |-> FreshRow]
  /\ mark = 0
  /\ open = TRUE
  /\ up = {}
  /\ ticks = [p \in Procs |-> 0]
  /\ holds = [p \in Procs |-> {}]
  /\ call = [p \in Procs |-> Idle]

-----------------------------------------------------------------------------
(* The lease clock. *)

Larger(a, b) == IF a >= b THEN a ELSE b

(* Where a process's clock starts: past every expiry any process issued.    *)
RestoreAtTick(m) == IF m > LeaseTTL THEN m - LeaseTTL ELSE 0
Restored(m) == IF m = 0 THEN 0 ELSE m + Margin

(* issue(): the expiry reaches the durable counter before anyone is handed  *)
(* the lease; the maximum is taken in SQL.                                  *)
RaiseLastWrite(e) == mark' = e
RaiseMark(e) == mark' = Larger(mark, e)

(* A process opens the store and restores its clock. *)
OpenStore(p) ==
  /\ p \notin up
  /\ Restored(mark) <= MaxTicks
  /\ up' = up \cup {p}
  /\ ticks' = [ticks EXCEPT ![p] = Restored(mark)]
  /\ UNCHANGED <<rows, mark, open, holds, call>>

(* An uncontrolled kill: what the process held in memory is gone, what it   *)
(* committed is not.                                                        *)
Kill(p) ==
  /\ p \in up
  /\ up' = up \ {p}
  /\ ticks' = [ticks EXCEPT ![p] = 0]
  /\ holds' = [holds EXCEPT ![p] = {}]
  /\ call' = [call EXCEPT ![p] = Idle]
  /\ UNCHANGED <<rows, mark, open>>

(* Monotonic time passes in every open process alike. *)
Tick ==
  /\ up # {}
  /\ \A p \in up : ticks[p] < MaxTicks
  /\ ticks' = [p \in Procs |-> IF p \in up THEN ticks[p] + 1 ELSE ticks[p]]
  /\ UNCHANGED <<rows, mark, open, up, holds, call>>

(* The run leaves or rejoins the statuses the ledger's queries select. *)
PauseOrResume ==
  /\ open' = ~open
  /\ UNCHANGED <<rows, mark, up, ticks, holds, call>>

-----------------------------------------------------------------------------
(* What every call shares. *)

Ready(p) == p \in up /\ call[p] = Idle
InCall(p, op) == p \in up /\ call[p].op = op

Begin(p, c) == call' = [call EXCEPT ![p] = c]
Return(p) == call' = [call EXCEPT ![p] = Idle]
LetGo(p, u) == holds' = [holds EXCEPT ![p] = @ \ {u}]

ExpiryBackwards(p) == ticks[p] - LeaseTTL
NewExpiry(p) == ticks[p] + LeaseTTL

(* lease(): a unit the walk read as pending gets an issued expiry... *)
LeaseIssue(p, u) ==
  /\ Ready(p)
  /\ open
  /\ CanLease(rows[u])
  /\ RaiseMark(NewExpiry(p))
  /\ Begin(p, UnitCall("lease", u, NewExpiry(p)))
  /\ UNCHANGED <<rows, open, up, ticks, holds>>

(* ...and is claimed, if it is still pending. *)
LeaseClaim(p) ==
  /\ InCall(p, "lease")
  /\ LET u == call[p].unit IN
       /\ rows' = [rows EXCEPT ![u] = MarkLeased(@, p, call[p].expires)]
       /\ holds' = IF CanLease(rows[u])
                   THEN [holds EXCEPT ![p] = @ \cup {u}]
                   ELSE holds
  /\ Return(p)
  /\ UNCHANGED <<mark, open, up, ticks>>

(* heartbeat(): the new expiry is issued first, then the row is read.  A    *)
(* unit this process no longer leases is refused, and the process lets go.  *)
HeartbeatRead(p, u) ==
  /\ Ready(p)
  /\ u \in holds[p]
  /\ RaiseMark(NewExpiry(p))
  /\ IF CanExtend(rows[u], p)
     THEN /\ Begin(p, UnitCall("heartbeat", u, NewExpiry(p)))
          /\ UNCHANGED holds
     ELSE /\ LetGo(p, u)
          /\ UNCHANGED call
  /\ UNCHANGED <<rows, open, up, ticks>>

HeartbeatWrite(p) ==
  /\ InCall(p, "heartbeat")
  /\ LET u == call[p].unit IN
       /\ rows' = [rows EXCEPT ![u] = ExtendLease(@, p, call[p].expires)]
       /\ IF CanExtend(rows[u], p) THEN UNCHANGED holds ELSE LetGo(p, u)
  /\ Return(p)
  /\ UNCHANGED <<mark, open, up, ticks>>

-----------------------------------------------------------------------------
(* sweep_expired_leases(): the tick and the leased rows of open runs are    *)
(* read once, the expired ones requeued in one transaction.                 *)

ExpiredAt(now) == {u \in Units : rows[u].status = "leased" /\ now >= rows[u].expires}

SweepRead(p) ==
  /\ Ready(p)
  /\ open
  /\ ExpiredAt(ticks[p]) # {}
  /\ Begin(p, SweepCall(ExpiredAt(ticks[p])))
  /\ UNCHANGED <<rows, mark, open, up, ticks, holds>>

SweepWrite(p) ==
  /\ InCall(p, "sweep")
  /\ rows' = [u \in Units |->
                IF u \in call[p].units THEN RequeueExpired(rows[u]) ELSE rows[u]]
  /\ Return(p)
  /\ UNCHANGED <<mark, open, up, ticks, holds>>

(* complete() and fail(): a report on a unit already terminal ends at the   *)
(* read (silently, or with a refusal the caller sees); otherwise the write  *)
(* follows, and lands only under its guard.  Either way the process is done *)
(* with the unit.                                                           *)
ReportRead(p, u, op) ==
  /\ Ready(p)
  /\ u \in holds[p]
  /\ LetGo(p, u)
  /\ IF rows[u].status \in Terminal
     THEN UNCHANGED call
     ELSE Begin(p, UnitCall(op, u, NoExpiry))
  /\ UNCHANGED <<rows, mark, open, up, ticks>>

CompleteWrite(p) ==
  /\ InCall(p, "complete")
  /\ rows' = [rows EXCEPT ![call[p].unit] = MarkDone(@)]
  /\ Return(p)
  /\ UNCHANGED <<mark, open, up, ticks, holds>>

FailWrite(p) ==
  /\ InCall(p, "fail")
  /\ rows' = [rows EXCEPT ![call[p].unit] = RecordFailure(@)]
  /\ Return(p)
  /\ UNCHANGED <<mark, open, up, ticks, holds>>

(* _requeue_units(): a transport condition puts the unit back, no attempt   *)
(* counted.                                                                 *)
TransportRequeue(p, u) ==
  /\ Ready(p)
  /\ u \in holds[p]
  /\ rows' = [rows EXCEPT ![u] = RequeueExpired(@)]
  /\ LetGo(p, u)
  /\ UNCHANGED <<mark, open, up, ticks, call>>

-----------------------------------------------------------------------------
Next ==
  \/ Tick
  \/ PauseOrResume
  \/ \E p \in Procs :
       \/ OpenStore(p)
       \/ Kill(p)
       \/ LeaseClaim(p)
       \/ HeartbeatWrite(p)
       \/ SweepRead(p)
       \/ SweepWrite(p)
       \/ CompleteWrite(p)
       \/ FailWrite(p)
       \/ \E u \in Units :
            \/ LeaseIssue(p, u)
            \/ HeartbeatRead(p, u)
            \/ ReportRead(p, u, "complete")
            \/ ReportRead(p, u, "fail")
            \/ TransportRequeue(p, u)

Spec == Init /\ [][Next]_vars

-----------------------------------------------------------------------------
(* Properties. *)

(* The lease columns and the status agree on every row: leased rows carry   *)
(* an owner and an expiry, no other row carries either.  The sweep raises   *)
(* on a leased row without an expiry, and no statement may leave one.       *)
LeaseColumnsAgree ==
  \A u \in Units :
    /\ (rows[u].status = "leased") <=> (rows[u].owner # NoOwner)
    /\ (rows[u].status = "leased") <=> (rows[u].expires # NoExpiry)

(* A unit is quarantined exactly when its counted failures have reached the *)
(* retry limit: no interleaving of reports, sweeps and reclaims loses an    *)
(* attempt or counts one past the limit.                                    *)
QuarantineAtCeiling ==
  \A u \in Units :
    /\ rows[u].attempts <= MaxAttempts
    /\ (rows[u].status = "quarantined") <=> (rows[u].attempts = MaxAttempts)

(* The durable counter covers every expiry written in the ledger and every  *)
(* expiry a call in progress is about to write: the counter is persisted    *)
(* before a lease is handed out, and never lowered by a concurrent issue.   *)
MarkCoversLeases ==
  /\ \A u \in Units : rows[u].expires <= mark
  /\ \A p \in Procs :
       call[p].op \in {"lease", "heartbeat"} => call[p].expires <= mark

(* A process that opens the store reads every outstanding lease as expired, *)
(* whatever process issued it and whenever the kill came: no work is        *)
(* stranded behind a restart (FR-STORE-11, CT-STORE-14).                    *)
OpenExpiresEveryLease ==
  [][\A p \in Procs : p \in up' \ up =>
        \A u \in Units :
          rows[u].status = "leased" => rows[u].expires <= ticks'[p]]_vars

(* A record that ended stays ended, and a failure history only grows: a     *)
(* late report, a sweep or a requeue never reopens a done or quarantined    *)
(* unit and never forgets an attempt.                                       *)
EndedStep ==
  \A u \in Units :
    /\ rows[u].status \in Terminal => rows'[u] = rows[u]
    /\ rows'[u].attempts >= rows[u].attempts

EndedStaysEnded == [][EndedStep]_vars

(* A sweep takes back no lease that a live process holds and that process's *)
(* own clock still reads as live.  "A lease outstanding at restart was held *)
(* by a process that is gone" (leases.py) is what makes a restored clock    *)
(* safe to sweep with; "a slow-but-alive worker must not lose its unit at   *)
(* the original expiry" (leasing.py) is what a heartbeat is for.            *)
SweepSparesLiveLeases ==
  [][\A p \in Procs : SweepWrite(p) =>
        \A u \in Units, q \in up :
          rows[u].owner = q /\ ticks[q] < rows[u].expires
             => rows'[u].status = "leased"]_vars

-----------------------------------------------------------------------------
(* What the ledger promises (LeaseSpec), read off the rows, off what each   *)
(* process holds and off the reports that are under way.                    *)

WithStatus(s) == {u \in Units : rows[u].status = s}

Reports(p, u) == call[p].op \in {"complete", "fail"} /\ call[p].unit = u

Promise == INSTANCE LeaseSpec WITH
  waiting <- WithStatus("pending"),
  done <- WithStatus("done"),
  lost <- WithStatus("quarantined"),
  tries <- [u \in Units |-> rows[u].attempts],
  workers <- [u \in Units |-> {p \in Procs : u \in holds[p] \/ Reports(p, u)}]

(* The ledger keeps the promise: of every interleaving of claims, renewals, *)
(* sweeps, reports and kills, what is left to see is units handed out one   *)
(* process at a time, reported once by a process that was handed them, and  *)
(* taken back.                                                              *)
KeepsPromise == Promise!Spec

=============================================================================
