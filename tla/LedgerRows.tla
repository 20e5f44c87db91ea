------------------------------ MODULE LedgerRows ------------------------------
(***************************************************************************)
(* One row of the work ledger (table work_unit) and the guarded UPDATE     *)
(* statements that are the only way its status moves.                      *)
(*                                                                         *)
(* Every statement carries its guard in its WHERE clause and is followed,  *)
(* in the same transaction, by a read of SQLite's changes().  Here the     *)
(* guard is the operator Can..., the row after the write is the operator   *)
(* named after the statement, and a write whose guard is false leaves the  *)
(* row as it was: the caller learns of it by evaluating Can... in the      *)
(* state the transaction ran in.                                           *)
(***************************************************************************)
EXTENDS Naturals

CONSTANTS
  Owners,      \* the names a claim can carry (worker_id)
  NoOwner,     \* lease_owner IS NULL
  MaxAttempts  \* HARNESS_ORCH_MAX_ATTEMPTS, the retry limit

ASSUME OwnerAssumption == NoOwner \notin Owners
ASSUME AttemptsAssumption == MaxAttempts \in Nat \ {0}

UnitStatus == {"pending", "leased", "done", "quarantined"}

Terminal == {"done", "quarantined"}

(* lease_expires_ticks IS NULL.  An issued expiry is the clock's reading    *)
(* plus a positive TTL, so zero is never the expiry of a lease.             *)
NoExpiry == 0

Row == [status: UnitStatus, owner: Owners \cup {NoOwner},
        expires: Nat, attempts: Nat]

FreshRow == [status |-> "pending", owner |-> NoOwner,
             expires |-> NoExpiry, attempts |-> 0]

(* A row as a statement that ends a lease leaves it: the three lease        *)
(* columns cleared together.                                                *)
Unleased(status, attempts) ==
  [status |-> status, owner |-> NoOwner, expires |-> NoExpiry,
   attempts |-> attempts]

-----------------------------------------------------------------------------
(* mark_leased: the claim. *)

CanLeaseOpen(row) == row.status \in {"pending", "leased"}

CanLease(row) == row.status = "pending"

MarkLeased(row, owner, expires) ==
  IF CanLease(row)
  THEN [status |-> "leased", owner |-> owner, expires |-> expires,
        attempts |-> row.attempts]
  ELSE row

(* extend_lease: the heartbeat. *)

CanExtend(row, owner) == row.status = "leased" /\ row.owner = owner

ExtendLease(row, owner, expires) ==
  IF CanExtend(row, owner)
  THEN [status |-> "leased", owner |-> owner, expires |-> expires,
        attempts |-> row.attempts]
  ELSE row

(* requeue_expired: the sweeper's write and the dispatcher's requeue.  The  *)
(* WHERE clause asks for the status alone: neither owner nor expiry.        *)

CanRequeue(row) == row.status = "leased"

RequeueKeepsOwner(row) ==
  IF CanRequeue(row) THEN [row EXCEPT !.status = "pending"] ELSE row

RequeueExpired(row) ==
  IF CanRequeue(row) THEN Unleased("pending", row.attempts) ELSE row

(* mark_done: a completion, which also lands on a unit the sweeper has put  *)
(* back.                                                                    *)

CanFinish(row) == row.status \in {"leased", "pending"}

FinishUnguarded(row) == Unleased("done", row.attempts)

MarkDone(row) ==
  IF CanFinish(row) THEN Unleased("done", row.attempts) ELSE row

(* record_failure: one attempt counted and the status arm chosen, both      *)
(* inside the statement.                                                    *)

FailureOffByOne(row) ==
  IF CanFinish(row)
  THEN Unleased(IF row.attempts >= MaxAttempts
                THEN "quarantined" ELSE "pending", row.attempts + 1)
  ELSE row

RecordFailure(row) ==
  IF CanFinish(row)
  THEN Unleased(IF row.attempts + 1 >= MaxAttempts
                THEN "quarantined" ELSE "pending", row.attempts + 1)
  ELSE row

=============================================================================
