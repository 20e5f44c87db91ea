# A TLA+ development of the evaluation harness

The harness grades student submissions with a panel of language models. It is a
Python program (`src/src/aeh`) whose durable state is a handful of SQLite files,
written by driver threads, a web console and command-line processes that may all
be alive at once, and killed at any moment. This directory holds TLA+ modules of
the parts where that matters, TLC configurations that check them on small
instances, and TLAPS proofs of the central invariants for every instance.

Paths below are relative to `src/src/aeh/` unless they begin with `src/`.

## 1. The system

    scans -> ingest -> run created -> units enumerated -> lease / judge / settle
          -> completion -> grading pass -> settlement, amendments, exports
                 ^                                  ^
                 |   console: requests, reviews     |   recover(): at every start

A **run** grades a cohort with one package. Enumeration writes a **unit** of work
for each (submission, criterion, stage, judge); the **ledger** of units is the
only thing that says what is left to do. A **driver** is a thread that claims
units, sends them to models and reports; any number of drivers, in any number of
processes, work on the same ledger. Nobody orders a driver about: a pause is a
row in a table that a driver finds when it next looks. After the last unit the
run is complete, and a **grading pass** computes a revision of each submission's
grade, which a teacher may amend.

### 1.1 Components, their state and what makes them correct

| Component | State | Operations | What is hard | Correct when |
| --- | --- | --- | --- | --- |
| `store/leases.py`, `orch/leasing.py`: the work ledger | `work_unit` rows; a lease clock per store instance; one durable counter | lease, heartbeat, complete, fail, sweep, requeue | a clock that does not survive its process; reports of a lease that was swept; several processes | a lease is always recoverable, an end is final, no attempt is lost |
| `orch/run_lifecycle.py`: the run | `run.status`, `pause_reason`; queue of `run_control` rows | create, start, pause, resume, apply control rows, completion probe | status read, rows read, status written and row marked are four transactions | no illegal transition, every request takes effect or is superseded, what a completion counted stays ended |
| `orch/enumeration.py` | the set of planned units in the ledger | enumerate, repair | a kill between batches | a complete run did everything it planned |
| `orch/dispatch.py`, `orch/costs.py` | a driver's batch, width, panel read, out-of-memory counts; the run's spend | claim pass, model batch, transport remedies | passes over several runs and cohorts; decisions from a run row read long before | spend within the ceiling, a panel never empty, a usable width, no stranded unit |
| `orch/composition.py`, `orch/escalation*.py` | a cell's phases, the seats an escalation or a replacement added, the circuit breaker, the escalation budget | advance a cell, widen, replace, set aside, trip | a panel that loses seats while it is widened; a crash between a verdict and its phase mark; completion before an escalation | a cell is widened once, a complete run's scores count every verdict, a latched breaker halts |
| `pipeline/driver.py`, `background.py` | driver threads, recovery | drive loop, fault pause, recover, spawn | two drivers of one run, a recovery beside a live driver | work that was left is taken up; a stop stays a stop |
| `pipeline/hooks.py`, `executor.py`, `finishing.py` | stage doors, hooks, narratives | run a unit, gate, aggregate, finish | a crash between two hooks; a breaker read once a pass | each hook's effect is applied once, a hook never meets a panel it refuses |
| `grade/service.py`, `amendments.py`, `finalization.py` | revisions of grades, routing rows, audit rows | compute_all, amend, finalize, settle | a pass computes from what it read before its transaction | revisions only added, amendments kept, every grade settles |
| `store/write_queue.py`, `transaction.py`, `disk_full.py` | pending writes, writer thread, broken flag | enqueue, drain, transaction, close | backpressure, a body that enqueues, a full disk | an acknowledged write is durable, nobody waits for ever |
| `store/blobs.py`, `purge.py`, `discard.py`, `sqlite_store.py`, `migrations.py` | blobs by content, one file per class, schema versions | put, purge, discard, migrate | a blob shared by databases nobody locks together; a purge that fails half way | no blob another database names is unlinked, a reported purge is whole |
| `ingest/` | canonical documents and their revisions | ladder of checks, correction | a correction beside a running run | a unit reads one revision |
| `extract/`, `judge/`, `synth/`, `integ/`, `agg/`, `det/` | their rows per unit or cell | one model call or one computation | retries inside a call | bounds of scores, escalation decision |
| `review/` | the review queue, labels, blind sample | decide, label | a decision after grading | a settled review reaches the grade |
| `prov/` | the call journal, retry budgets | call, retry | at-least-once calls | a journal row per call, bounded retries |
| `pkg/`, `conf/` | package versions, lock, frozen configuration | publish, lock, resolve | two publishers | a published version does not change |
| `console/` | intake queues and readers, job registry, draft locks | request, upload, read, delete a class, lock | a file queued as its reader ends; two requests for one draft | every queued file is read or reported, one holder of a lock |
| `setup/`, `author/`, `stats/`, `calib/`, `conform/`, `help/`, `ui/`, scripts, tests | files, reports | offline or sequential | - | - |

They interact through the store alone. The console inserts control rows that a
driver or `recover()` applies; the drivers share the ledger, the run rows and the
panel; `recover()` sweeps leases, resumes runs and starts grading passes; grading
reads the scores that the aggregation, a review or a key correction wrote. Every
write goes through one tier's write queue. Scans live in a directory that the
classes' files and the package files name by hash and no database owns.

The hazards these components are exposed to, each at its line, are listed under
`hazards` in `PROJECT.json`, with the property that covers it or the reason why
none does yet.

## 2. The modules

| Module | Models | Extends |
| --- | --- | --- |
| `LedgerRows` | one row of `work_unit` and the guarded UPDATE statements (`store/leases.py`) | |
| `LeaseSpec` | what leasing promises of the units of a run: the abstract specification | |
| `WorkLedger` | leasing between processes with lease clocks, which implements `LeaseSpec` | `LedgerRows` |
| `WorkLedgerProofs` | theorems about it | `WorkLedger` |
| `RunControl` | status, control rows, enumeration and completion of one run | |
| `RunControlProofs` | theorems about it | `RunControl` |
| `Dispatch` | drivers, batches, spend, panel and width over several runs | |
| `DispatchProofs` | theorems about it | `Dispatch` |
| `GradeLedger` | grading passes, settlement, amendments and their audit | |
| `GradeProofs` | theorems about it | `GradeLedger` |
| `Cells` | the passes of one driver over the cells of a criterion: extraction, gate, panel, score, escalation | |
| `CellsProofs` | theorems about it | `Cells` |
| `StallProofs` | why a driver gives up | `CellsProofs` |
| `CommitLog` | what a tier promises of the rows it is handed: the abstract specification | |
| `WriteQueue` | the writer of one tier, which implements `CommitLog` | |
| `WriteQueueProofs` | theorems about it | `WriteQueue` |
| `ScanStore` | blobs, and the uploads, readers, imports, purges and discards that share them | |
| `ScanProofs` | theorems about it | `ScanStore` |
| `MC...` | the instances that TLC checks | the module they are named after |

Operators named as mutants in `PROJECT.json` (`RaiseLastWrite`, `CrossesLate`,
`NotCarried`, ...) stand next to the definition they vary and are used nowhere:
each is a plausible mistake, and each property is broken by at least one.

### 2.1 WorkLedger and LeaseSpec

An UPDATE of the ledger carries its guard in its WHERE clause, so `LedgerRows` has
for each statement the guard (`CanLease`) and the row it leaves (`MarkLeased`). A
call of the API is cut where its transactions are cut: `lease()` persists the
expiry (`LeaseIssue`) and claims in the next transaction (`LeaseClaim`);
`heartbeat`, `complete` and `fail` read, then write; a sweep reads all leased rows,
then requeues the expired ones. `call[p]` is what a process has read and not yet
written. Between two steps anyone may write, time may pass (`Tick`), and a process
may be killed (`Kill`) and open the store again (`OpenStore`), which restores its
clock from the durable counter.

`LeaseSpec` has no clocks, expiries, owners or statements. A unit waits, is handed to one
process, and is out until a process it was handed to reports it or gives it back, or the
unit is taken back under its worker; that worker's late report still counts, once, if
the unit has not ended. A failure, and nothing else, counts an attempt. The refinement
(`Promise`) reads `waiting`, `done`, `lost` and `tries` off the rows, and off each process
whom a unit was handed to: the units it holds, and the one whose report it has begun. A
claim that lands is `Hand`, one that is too late is no step; a heartbeat that is refused,
a report of an ended unit and a requeue of a unit that is no longer out are `LetGo`; a
report's read is no step and its write is `Complete`, `Fail` or, when its guard refuses
it, `LetGo`; the write of a sweep is `TakeBack` of what is still leased; a kill is `Die`.

*Abstracted*: the order of claims, the pass around a claim (`Dispatch`), the run's
status beyond "its units may be claimed" (`RunControl`).

### 2.2 RunControl

One run. Every read and every write of `_apply_control_rows`, `pause`, `resume`,
`start`, `_maybe_complete_run` and `recover` that is a transaction of its own is a
step. The table of rows, `queue`, is a set; a row's `earlier` names the rows that were
unapplied when it was requested, which is all that `requested_at` is asked for.
`call[p].rows` is the snapshot of the table a process works through, `left` what it has
yet to come to, `row` the one it is at, `seen` the status it believes; `Transition` is
the guarded UPDATE that may lose. Units are `absent` until enumeration inserts them, one
batch at a time. The cost ceiling appears as a claim that may pause the run. The closer at
the end of a drive loop is a resume: on a run that is complete already it leaves the status
alone and still inserts what the ledger lacks (`EnumerateComplete`). `counted` is history:
what a completion probe found, all of it ended, before the write it leads to.

*Abstracted*: the refusals of `create_run` and `start` on consent, packages and
retention; leases and attempts. `Probe` may find that a cell still owes an
aggregation, without modelling cells.

### 2.3 Dispatch

Drivers, each driving its run, claim over *all* runs that may dispatch. A driver's
memory (`driver[d]`) is what the code keeps in `_dispatch_pass` and in the
Orchestrator: the panel of the run row the pass read, the batch, what is to be
requeued, what was out of memory, the reduced width. A claim, the spend and the
pause at the ceiling are one transaction and one action. What the batch answered
settles in the code's order: completions, requeue, pause, out-of-memory remedy,
reduction.

*Abstracted*: lease expiry (a restart's sweep takes what no living driver holds;
`WorkLedger` has the clocks), control rows (`PauseRun` is atomic here; `RunControl`
has its steps), the order of a walk, edge-local residency and the deferral of
escalation units (left free: the walk may turn to any run and any unit of the
stage, and may end at any point). Passes that claim nothing are collapsed into the
stall that ends the loop. `Restart` is a process start or an operator's recover.
Synthesis charges, made after dispatch, are left out.

### 2.4 GradeLedger

A pass reads the run row, the clock and the current revisions (`BeginPass`), each
submission's scores (`ReadScores`), and writes once, at the end (`CommitPass`); if
another writer took a revision number, the primary key refuses the whole batch
(`AbortPass`). An amendment is asked for by the console, which leaves out what the
grade already carries (`Ask`), is computed (`PlanAmendment`), written
(`MintAmendment`, or `KeepAmendment` under the no-op rule), and audited in a later
transaction (`WriteAudit`). Scores change underneath: aggregation, reviews, key
corrections.

*Abstracted*: the policy is the sum of the points and the grade a function of the
sum; a criterion in triage is one without points; `review_queue` is reduced to the
rescan rows a pass routes; the review window is fixed for a run, although the
console can change it; the pass's first reads are one step. `compute_one`, which
nothing in production calls, is the pass of one submission and has no action of
its own. A cohort's other runs are left out.

### 2.5 Cells

`Dispatch` sees units, `RunControl` statuses; here a run is driven pass by pass
through what its units are for. A cell is one submission under the one criterion
modelled. Its units are its enumerated extraction, the extraction the gate files for
itself (`Own`), and the seats of its panel, numbered in the order of the run's panel
and, past it, of the escalation ladder: `status[c][u]` is the unit's row, `absent`
before it is inserted. `driver.pc` says where `run_to_completion` is: batches of
extraction units while one completes something (`ClaimExtract`), one batch of scoring
units (`ClaimScore`), the gate over `ReadyPre` (`Verify`, then `MarkPre` in a later
transaction), the aggregation over `ReadyAggregate` (`Reverify`, then `Settle`), and
the pass's end (`LeavePaused`, `Finish`, `NextPass`). `Settle` is the hook's branch in
the code's order: no verdict, an even panel by quarantine (replaced or set aside), an
aggregation that is refused and faults the run, or a score with what
`enqueue_escalation` decides in the same transaction (`Before`, `Halts`, `Seatless`,
`Widens`). `Probe` is the completion probe wherever the code makes it.

A claim pass serves the claim order it has in memory and reads the ledger only when it has
none (`Ordered`). `driver.cached` is what is left of the orders of the two stages; a strike or
a requeue drops both, and an order with seats the budget defers is dropped when the walk comes
to one (`ServeSeats`). What became ready meanwhile is not in an order from memory. The pass
also stops extracting after `WalkBatch` completions. `unusable` and `stale` are history:
whether a call of the pass got an answer of no use, and whether its seats were served from
memory.

*Abstracted*: whether a score asks for more judges, and whether a lone verdict is a
decision engine's, is left free; leases expire all or none at a start; the spend and
control rows are in `Dispatch` and `RunControl`; which cells may carry a described-evidence
review unit is a constant (`Described`). One driver: what two would do to each
other is in those modules. The random arm is a cell with a larger enumerated panel.
Breakers of other criteria do not touch this one's; the budget, which is the run's,
is read over the cells modelled.

### 2.6 WriteQueue and CommitLog

`WriteQueue` has the fields of `store/write_queue.py` (`_queue`, `_pending`,
`_stopping`, `_broken`, `_failures`), the lock, the open transaction of the write
connection, and the threads: callers that queue a row (`Enqueue`, `EnsureWriter`,
`Admit`: the guard, the thread's start and the wait for room are cut where the code
releases the condition) or run a transaction of two rows (`BeginTransaction` to
`TxCommit`), the writer (`WriterTop` to `WriterSettle`) and `close()`. A statement
succeeds, fails, or finds the disk full; a connection closed under its user is a
failure. The disk-full hook exits the process (production) or returns (the hook tests
install). A call may also be cut short with its transaction open (`TxCutShort`): by an
interrupt after `BEGIN` and before the body's `try`, or at `COMMIT`, whose handler rolls back
an `OperationalError` and nothing else. The lock is freed and the transaction stays open on
the shared connection, so that each later `BEGIN` fails; `cut` remembers that it happened.

`CommitLog` is what a caller may rely on: accepted rows wait in order, at most `Depth`
of them, land in batches that are whole, or fail as a batch; the rows of a transaction
land together; a kill loses what waited. The refinement (`Promise`) reads `waiting` as
the batch in flight followed by the queue, until the batch has landed or failed.

*Abstracted*: the age after which a partial batch is due (any moment), busy retries,
name guards, metrics, transactions nested across tiers.

### 2.7 ScanStore

A blob is its hash. A row of `upload_part` names the first chunk of an upload, a
document the whole scan, a package the scans of its exemplars (`Named`). `put()` is
two steps: a hash that is present is left alone, any other is staged and then renamed
into place. An upload stages chunk by chunk, records its part and joins the class's
queue; the reader of the class puts the scan together, looks whether the class holds it
(`known`), stores it, admits a submission unless it was held, and commits its document; an import stores, then installs the file. `DeleteClass` is
the console's action: with promoted evidence a purge (one transaction that reads the
class's hashes and empties its tables, the compaction, a scan of every other database,
the unlinks one by one), else, or when the purge raises, a discard (count, then remove
the file, under any handle still open on it). History, for the properties: `before`
(what the class named when its rows went), `since` (what each database has named ever
since then) and `again` (what was stored meanwhile).

*Abstracted*: page rasters and crops share the life of their scan; staging names and
their reaping; the schema guards of a purge; the AI-call journal folder; intake from
the command line, which is another process with the same steps. The class's test paper
(`kind="assessment"`, a document that belongs to no submission) is taken to be read: it is
one more document of the class, stored and named as a scan is.

## 3. What is checked

The instance sizes are the constants of each `.cfg`.

| Run | Question | Result |
| --- | --- | --- |
| `WorkLedger` | do the lease columns, the failure count, the durable counter and the ends survive every interleaving of two processes, their kills and restarts, and is what remains to see of it a behaviour of `LeaseSpec`? | holds |
| `RunControl` | one driving process, console and operators, a kill: is no unit claimed past a pause that was read, does each applied pause take effect, is each request honoured in the end? | holds |
| `RunControlRace` | two processes drive one run: does the status follow the machine's edges, is what a completion counted still ended when it is written? | holds |
| `Dispatch` | two drivers on each other's runs: spend, panel, width | holds |
| `DispatchLive` | two cohorts: does a leased unit of a running run get resolved? | holds |
| `Grade` | two passes, corrections, reviews, amendments, kills: revisions, amendments, audit, settlement, routing | holds |
| `Cells` | two cells, strikes, widenings, a lost seat, an outage, a pause or a crash: does a complete run count every verdict, does scoring follow extraction, is a panel widened once, does a hook ever meet a panel it refuses, is a stall explained, does a latched breaker halt, does every driver return? | holds |
| `CellsStall` | is the escalation budget the only stall that another pass cannot clear? | violated |
| `WriteQueue` | two callers, failing statements, a full disk, a call cut short, a close, a kill: does the tier keep the promise of `CommitLog`, is a depth of zero durable, is a failure only its own batch's or a cut call's, does a close flush, is a broken queue closed to waiters too, does every call return? | holds |
| `Scans` | uploads, readers, imports, purges, discards, faults and a crash: does a purge spare what others name, is a reported purge whole, is every queued file taken? | holds |
| `ScansLeft` | is a purged class's scan gone? | violated |
| `GradeAmend` | does an amendment the console reports as made land? | violated |

### 3.1 Bounds

- `WorkLedger`: 2 processes and 2 units, so that a unit can be swept, reclaimed by
  the other process and reported late by the first while another unit moves;
  `MaxAttempts` 2 separates a failure from the last one; TTL 1 and margin 1 within
  3 ticks (`MaxTicks`) give leases that expire, are renewed, and outlive a restart.
  Processes and units are interchangeable, each a symmetry of this run.
- `RunControl`: 1 process, 2 units (a completion needs the last of several, an
  enumeration can be cut between them), 4 names of rows with at most 2 queued by
  operators (`MaxQueued`: two pauses around a resume need the resume's own row
  too), 1 kill (`MaxKills`). `RunControlRace`: 2 processes and 2 units, so that one
  driver can requeue, sweep or report a unit, or enumerate the second, between the other's
  count and its write; 3 names of rows, 1 queued by operators, no kill.
- `Dispatch`: 2 drivers, 2 runs; run A has a unit for each of 2 judges, run B an
  extraction unit; ceiling 2 with unit costs of 1, so that a requeued unit's second
  claim crosses; width 2 and divisor 2, so that a second reduction would reach 0; the
  out-of-memory limit is 1; what is asked does not depend on the cohorts, and there is one.
  `DispatchLive` has a cohort for each run, so that a requeue that names one leaves the
  other's unit leased; one unit and one judge per run and width 1, because the fairness
  graph is what is large.
- `Grade`: one submission with two criteria, one of them multiple-choice; points 0
  and 1; two passes and the console; `Budget` 2 bounds reviews, corrections,
  amendments and kills together, which is what a race of three writers needs
  (one that changes the scores, one that amends). `GradeAmend` finds its
  counterexample with a budget of 1.

- `Cells`: two cells, because the breaker, its window and the budget relate cells; the
  first has a panel of 3 (a random-arm pair), so that one loss makes it even and a
  replacement repairs it, the second one judge, so that a widening takes it to 3; 4 or
  6 models, so that the ladder runs out for the larger panel or for none (`MaxSeats` is the
  larger of the two); one attempt
  per unit (`MaxAttempts`), so that any strike may cost a seat; width 2, so that a panel of 3
  leaves an order in memory; one extraction a pass (`WalkBatch`), so that the cells come to
  their panels in different passes; the first cell may carry a review unit (`Described`);
  the breaker
  trips on one widened cell in a window of one; budget 50%, so that one escalated cell
  of two is at it and one of one over it; the driver gives up after 2 passes
  (`StallPasses`; the code's 3 only repeats the same pass); one refusal, outage, pause
  or crash (`MaxFaults`), at any point. `CellsStall` needs none, and no review unit.
- `WriteQueue`: 2 callers, depth and batch 2 with 3 rows in all, so that one waits for
  room behind a batch in flight; one transaction, which races the drain for the lock;
  2 faults (a call cut short is one), a kill, a close. `MaxCalls` and `MaxTxs` bound calls, not rows per call.
- `Scans`: 2 classes and one paper, uploaded to both or twice to one, so that every
  blob is shared; an import of a package that names it; one fault or crash. Papers
  longer than a chunk (`Big`) add nothing to these properties; `ScansLeft` has one.

`CHECK_DEADLOCK FALSE` stands in every configuration but those of `WorkLedger` and
`RunControl`: there the system really stops, once every run is complete or stalled,
every grade settled, every file read, the queue closed, and the bounds are spent.

### 3.2 Fairness

- `RunControl`, `WF_vars(Drive(p))`: a living process's loop goes on and its calls
  return; a process that is off is started again, with recovery (a service manager
  or an operator does it). Kills, faults and requests are never owed.
- `Dispatch`, `WF_vars(Drive(d))` and `WF_vars(EndWalk(d))`: the same for drivers,
  and a claim walk ends, being a loop over finite lists: without the second, the
  freedom left to the walk would let it turn from run to run for ever. The default
  `pass_sleep` of 0, with which a stall ends the loop, is assumed; see 5.
- `GradeLedger`, weak fairness of "some pass goes on or a recovery starts one": a
  pass is a finite computation, and a complete run that is not settled is recovered
  at the next start. Nothing is assumed of teachers, the console or the clock.
- `Cells`, `WF_vars(Drive)`: the driver's thread goes on and every call to a model is
  answered somehow (the provider's client has a timeout). Nobody owes a start or a
  resume, so what is claimed is only that a driver that runs comes to an end.
- `WriteQueue`: the writer's thread, `close()` once the thread has ended, and every call
  that has begun go on. Weak fairness of `Call(c)` is enough although a call waits for
  the lock: the writer blocks on its condition when the queue is empty, and calls are
  bounded. Nobody owes a call, a close or a kill.
- `ScanStore`, `WF_vars(Reader(c))`: a class's reader goes on. Uploads, imports and
  purges owe nothing.
- `WorkLedger` has no liveness property and no fairness.

### 3.3 Where the code disagrees with its own text

Shown by a run, and a `finding` in `PROJECT.json` with the quoted line:

1. `GradeAmend`: the no-op test compares totals, so an amendment that moves points
   between criteria is audited and lost.
2. `CellsStall`: a quarantined extraction holds the scoring units of its cell back for
   ever. The gate files an extraction of its own on its first look at every cell, so
   one unusable reply too many leaves a run that is `running`, within its budget, and
   that no driver can move; the driver's comment takes every stall but the budget's to
   be worth another pass.
3. `ScansLeft`: only the first chunk of an upload is on record. A purge reclaims that
   chunk and the whole scan; the other chunks of a file longer than 4 MiB stay, and no
   row names them.

Shown by a property that stands in its module, with a configuration that names it
alone (the constants are those of the module's other runs unless said):

4. `WorkLedger!SweepSparesLiveLeases`: `store/leases.py` takes every earlier lease to
   belong to a process that is gone. A second process on the same data directory
   restores its clock past the first one's leases and its sweep requeues them under a
   live worker. The ledger stays consistent (`WorkLedger`); the work is done twice.
5. `RunControl!StopOutranksRestart`: recovery resumes a running run whose operator has
   queued a pause, and the resume supersedes that pause.
6. `RunControl!CompleteMeansAllPlanned`: completion is probed before a half-written
   enumeration is repaired, so a killed enumeration can end as a complete run.
7. `Dispatch!RequeueFreesBatch` with two cohorts (`Dispatch.cfg` with
   `CohortOf <- TwoCohorts`): a batch may hold units of several cohorts, the requeue names
   one; the others stay leased until a sweep, although `_requeue_units`' docstring has "the
   very next claim pass" see the requeued units.
8. `Dispatch!PanelOnlyShrinks`: two judges dropped in one pass are dropped from the same
   stale panel, and the second write restores the first judge.
9. `WriteQueue!NothingAfterClose`: a transaction looks at `_stopping` before it waits
   for the lock, so one that waits through a close reopens the connection and commits
   after it, which the comment at that check rules out.
10. `WriteQueue!NothingInherited`: the comment at `transaction()` (`write_queue.py:207-212`)
   has every way out end the transaction, and a call that is interrupted between `BEGIN` and
   the body, or whose `COMMIT` ends in anything but an `OperationalError`, leaves it open on
   the connection with the lock free. Every later `BEGIN` fails, its batch with it.
11. `Cells!StallExplained` without its last disjunct: over the escalation budget a pass that
   is served the rest of an order read earlier, all of it deferred, claims nothing, although
   another cell's seat became ready since. The walk drops that order "so the NEXT pass
   re-derives" (`leasing.py:142-147`), and the driver, which takes "spinning" to change
   nothing over the budget (`driver.py:309`), gives up before that pass.

## 4. What is proved

With TLAPS, for any constants that satisfy the modules' ASSUMEs. All safety properties that
the passing runs check are theorems, but for one: `PauseTakesEffect` holds of a run with one
driver only.

**Work ledger** (`WorkLedgerProofs`; any processes, units, TTL, margin and retry
limit): `TypeCorrect`, `LeaseColumns`, `Quarantine`, `MarkCovers`, and the action
properties `Ended` and `OpenExpires`; for the refinement of `LeaseSpec`, `PromiseKept`.
The inductive invariant `LedgerInv` is the conjunction of the checked invariants,
`CallsCarryExpiry` and `ReportsLast`. The first of these two says that a lease or a
heartbeat in progress carries a real expiry. Without it the induction fails at
`LeaseClaim`, which writes the expiry the call carries, and `LeaseColumnsAgree` needs it
to be one.
Every statement of `LedgerRows` is shown once, in a lemma of its own, to keep a row
well formed, to leave an ended row alone and to write no expiry but the given one
(`KeepsRow`); a step's proof then only says which rows it touches. `OpenExpires`,
that a process which opens the store reads every lease as expired, rests on
`MarkCovers`: the durable counter covers every lease in the ledger.
`PromiseStep` goes through the calls one by one. What makes it more than a renaming is a
report: it is read in one transaction and written in another, the abstract one happens at
the write, and it is the process's last word only because of `ReportsLast`, that a process
which is reporting a unit no longer holds it. A process in a call begins no other and is
handed units by its own claims alone, which is why `ReportsLast` lasts until the write.

**Run control** (`RunControlProofs`; any processes, units, rows and kills):
`StatusAlwaysFollowsEdges`, `ControlInvariant`, `ClaimsStopAtPauses` and `CountsStay`.
`NoClaimPastPause` says that a claim pass has put every pause of its snapshot behind it.
A snapshot goes stale at once, so the invariant `ControlInv` holds what does not:

- `Agrees`: a row of the snapshot that is still in the table is the row it was. A name is
  free for a new row only when no snapshot holds it.
- `PastIsOlder`, with `TableIsOrdered` and `SnapshotIsOrdered`: what the call has been past
  is older than what is left. It makes a resume supersede every pause the call has been
  past, the ones it left queued too, so that the gate it then clears was for nothing else.
- `PausesAreBehind`: a pause the call has been past is out of the table, or the gate is set.

Every driver claims units of every running run of its cohort and applies that run's control
rows (`leasing.py:60-76`), so several drivers on a run are the ordinary case, and what a
status read earlier still says is seldom provable. `CountedStays` is what is left of
"completion waits for every unit": the probe counts in one transaction and completes in
another, and by then each unit it counted is still ended (`CountInv`), because no statement
moves a unit that has ended, whoever issues it. The count does not know of units that another
driver's enumeration inserts in between (section 5).

**Dispatch** (`DispatchProofs`; any drivers, runs, units, judges, costs, ceiling,
width and divisor): `DispatchTypes`, `CeilingHolds`, `WidthHolds`, `PanelSurvives`,
and `SpendCovers`.
`SpendWithinCeiling` and `PanelKeepsAJudge` are inductive next to the types: a claim
compares the very spend it raises, in one transaction, and a drop, even from a stale
panel, is of one judge out of two or more. `WidthUsable` is not: a pass that begins
sets a new, possibly smaller, width, which is sound only because nothing is out then.
`WidthInv` adds that (an idle driver has no batch, a claiming one nothing to requeue)
and that the batch is finite, which the cardinality facts need.
`SpendCoversClaims` compares a run's spend with the price of what is out or done, as the
size of a set with one element per unit of price (`Bill`); sums over data are out of the
prover's reach, cardinalities are not. It needs `HeldInv`: what a driver holds is leased
and in no other driver's hands, so that a requeue frees nothing another is being charged
for.

**Cells** (`CellsProofs`; any cells, panels, widths, breaker, budget, patience and faults):
`CellsInvariant`, `HooksNeverFaultAtAll`, `ScoringAlwaysFollows`, `PanelsWidenOnce`,
`CompleteRunsCountAll`, `BreakerAlwaysHalts`. The hooks read once which cells are ready and
settle them one by one afterwards, so the proof turns on `TodoIsReady`: every cell in the
list is still whole, each seat of its panel done or lost, when its turn comes. From there
the panels are facts of one cell's step: `PanelOf` (a prefix of the ladder, of the
enumerated size plus at most a repair and a widening, each with its record) and `CountOf`
(a score counts verdicts there are, all of them once nothing closed since). The order of
extraction and scoring is a fact of one unit's step (`BatchHasPassed`, `Filed`), and of the
claim order in memory: a unit in it is still pending, and a seat in it is of a cell that was
ready when the order was read and is ready still (`Remembered`).
`BreakerHalts` rests on `LatchIsCurrent`: the hook takes its copy of the breaker with its
list, and a score that trips the breaker sets both. `CompleteIsOver` says that nothing is
left to claim or settle in a complete run.

**Stalls** (`StallProofs`; the same constants and any patience): `StallsAreExplained`. The
driver judges a pass by comparing three counts with those of the pass before. The first of
them, the units done, never falls (`MadeGrows`), so that a call that succeeded shows. A pass in
which any call ended has therefore paid for itself (`Paid`): with a unit more done, or with an
answer of no use (`unusable`). A batch with a unit in it has such a call. `PassIsExplained`
follows a pass that claimed nothing from step to step: it read the ledger and found every open
unit held, or a cell that waits for the gate, which is headway; or it was served an order from
memory that held nothing but seats over the budget (`stale`). The last cause is what the code's
order cache adds: without that disjunct TLC finds finding 11 of 3.3.

**Grade ledger** (`GradeProofs`; any submissions, criteria, points and passes):
`LedgerInvariant`, `AlwaysDiffer`, `AuditAlwaysMatches`, `LedgerIsAppendOnly`,
`AmendmentsAreKept`. A pass and an amendment write from a revision they read long before.
The invariant says that this revision is still there with the content and the overrides it
had (only its state may have moved), and that what is planned differs from it; `Grown` is
what any step does to a submission's revisions: the last one settled, or one row added
behind it. A plan made for a revision that is no longer the last cannot land, by the
primary key, so what lands follows the revision it was computed from. Totals are left as
whatever `Computed` returns (`Totals`), the sum being a fold.

**Scan store** (`ScanProofs`; any classes, files, uploads, imports and faults):
`PurgeInvariant`, `NamedBlobsAreSpared`, `ReportsAreWhole`. The argument follows the
purge's lists: what the class named waits to be unlinked or was stored again (`ToUnlink`);
what another database has named ever since the rows went, it names (`StillNamed`) and, once
that database has been scanned, is kept (`ScannedIsKept`). A class without a file is never
scanned, hence `NoFileNoRows`, and hence `OpenIsThere`: a reader that still writes through
a handle writes to a file that is there.

**Write queue** (`WriteQueueProofs`; any callers, depth, batch size, hook and numbers of
calls, transactions, faults and kills): `DepthDurable`, `OwnFailures`, `CloseHasFlushed`,
`BrokenRefuses`, `SessionIsOne` and, for the refinement of `CommitLog`, `PromiseKept`. The
inductive invariant `QueueInv` has one part for each thing the code keeps in step:

- `Holding`: the lock with the transaction that is open on the connection, until a call is
  cut short (`cut`, which only a new process clears: `CutStays`). It is what makes `BEGIN`
  succeed for whoever gets the lock, and so what makes a failure need a fault of its own
  (`Charged`, which also counts the batch that a close which gave up on the thread is about
  to fail). After a cut it claims nothing, and neither does `OwnFailures`: from there on
  batches do fail without a fault of their own. The promise, the depth, the flush at close
  and the refusal of a broken queue hold after a cut too.
- `Content`: the rows of the open transaction with its owner; it makes a commit of the
  writer land the batch in its hand, a commit of a caller its two rows.
- `Counting`: `_pending` with the queue and the batch in flight.
- `Numbered`: transactions not yet committed with the tier, so that none lands twice.
- `Closing`: where the thread, the queue and the failures are when `close()` returns.

No part of it says where a row is. `PromiseStep` shows that a step of the queue is a step
of `CommitLog` or none, and `AccountedStep` takes it from there: by the promise alone,
every row accepted waits, has landed, has failed or was lost. `DepthDurable` and
`CloseHasFlushed` only add that nothing waits. The abstract `Land` and `Fail` take the
front of what waits; `Split` and `Cut` say that this is the batch in the writer's hand.
`OneSession`, like the type invariants of this module and of `Dispatch`, is no run's
property: the proof says more.

**Only model-checked**:

- Liveness (`RequestsAreHonoured`, `LeaseResolves`, `GradesSettle`, `IncompleteIsRouted`,
  `DriverReturns`, `CallsReturn`, `QueuedFilesAreTaken`), which is out of the prover's reach.
- `PauseTakesEffect`, with one process. With two it is false: a pause whose guarded write
  lost is marked applied all the same (section 5).
- What a fold or a recursive definition computes: the sum of a grade's points.


## 5. What is not modelled

- Model calls, prompts, parsing, statistics and scores as numbers: data, not control.
- SQLite itself: a transaction is one step, a guarded UPDATE succeeds or not.
- Screens, reports, exports, rosters and the command line: they read.
- Components marked `not_modelled` in `PROJECT.json`, with the reason. Those the plan
  takes up are in section 6.

Known from reading and modelling, and without a run:

- Grades. `settle_current` finalizes whichever revision is current when it is written:
  with two passes, a settlement decided for a complete revision can finalize a newer,
  incomplete one; `IncompleteIsRouted` therefore allows a grade that is no longer marked
  incomplete. A second amendment through the console can drop the first one's override.
  A rescan row stays queued while any other criterion of the submission is missing. A
  review settled when every grade of a run is final never reaches the grade.
- Runs. With two processes, a pause whose guarded transition lost is still marked
  applied; and a run completes over units that another process's enumeration inserted after
  the completion's count. A completion that lost a race raises `WorkLedgerError`, although `complete()`
  is documented as idempotent. With a pass sleep above 0 a driver waits on a lease that
  only a recovery would sweep.
- Cells. Over the budget, where one pass without headway is enough, a pass that was only
  rate-limited, or served the deferred rest of an old claim order, ends the driver although a
  unit is claimable; a pass whose only outcome is a judge's strike counts as no headway, and
  so does one that loses one unit and files another, since the driver compares totals; a
  described-evidence review unit keeps a run from completing until it is decided; the
  gate's re-extraction is not gated again before scoring; the gate picks the first
  document by id, superseded or not; a cell that trips the breaker keeps its `final`
  score; evidence found insufficient after scoring triggers nothing.
- Write queue. A call that is cut short with its transaction open leaves every later `BEGIN`
  of the process to fail (3.3). With a hook that returns, a caller that waits at a full queue waits for
  ever when a transaction finds the disk full while the writer is between two batches
  (`CallsReturn` excuses a broken queue for it); `close()` gives up on its thread after
  30 s without a word; a kill can lose up to `Depth` rows.
- Scans. A purge that fails after its commit is answered by the discard of the class it
  has just emptied, which reports a class that never held a paper while its blobs stay,
  and a second purge finds no rows to reclaim them by. Discarding a paper leaves its
  blob. `put()` can find a blob present that another class's purge unlinks before the
  caller's row commits. A blob that another class stops naming and names again while a
  purge scans can be unlinked under its new name: the scan saw it unnamed
  (`PurgeSparesNamedBlobs` speaks of what was named all along). A failed chunk is swallowed at upload and found at reading.
  The handler in `store/blobs.py` for a failed rename names a variable it does not bind.

## 6. The plan

In order of weight; done: 1 to 7.

1. `WorkLedger` with `LedgerRows`, proofs.
2. `RunControl`.
3. `Dispatch`, proofs.
4. `GradeLedger`.
5. `Cells`: cells, phases, the gate, aggregation, escalation, the breaker and the budget,
   completion and the stall.
6. `WriteQueue` with `CommitLog`, which it implements, proofs; `ScanStore`: the order of
   deletions and of an intake under failures.
7. `LeaseSpec`, what a worker may rely on, implemented by `WorkLedger`, proved; why a
   driver stalls, proved.
8. Review decisions and ingest corrections beside a run; a settlement that names the
   revision it decided for, as a run on `GradeLedger`.
9. `prov`: retry budget and call journal. `console`: jobs and draft locks. `pkg`:
   publication and lock.
10. Bounded checks of pure rules: grade rollup selection, width and backpressure
    arithmetic, escalation policy.

Theorems to come: `PanelOnlyShrinks` for panels written from a fresh row, which is the
repair of finding 8 rather than the code.

## 7. Running it

    tlc -workers 2 -config Grade.cfg MCGradeLedger.tla
    tlapm WriteQueueProofs.tla

Each entry of `runs` in `PROJECT.json` names its module and configuration. The
`WorkLedger`, `Dispatch`, `Grade`, `Cells` and `Scans` runs take between one and a few
minutes, every other one about one or less; each module of proofs takes between one and three.
