------------------------------ MODULE RunControl ------------------------------
(***************************************************************************)
(* The life of one run: the guarded moves of run.status, the control rows  *)
(* through which everybody asks for a pause or a resume, and the completion*)
(* probe that ends the run.                                                *)
(*                                                                         *)
(* A request is never its own effect (CT-ORCH-13): it is a row, applied by *)
(* whichever process next reads the run's unapplied rows, oldest first.    *)
(* Reading the status, reading the rows, moving the status and marking the *)
(* row are four transactions; here they are four steps, so another process *)
(* can act, and this one can be killed, between any two of them.           *)
(*                                                                         *)
(* Leases are reduced to what the lifecycle reads: a unit is absent,       *)
(* pending, leased or done (WorkLedger has their clocks and attempts).     *)
(***************************************************************************)
EXTENDS Naturals, FiniteSets

CONSTANTS
  Procs,      \* the processes driving or recovering the run
  Units,      \* the units the run's enumeration plans
  RowIds,     \* names of unapplied control rows
  MaxQueued,  \* bound: no pause is requested, and no console row written,
              \* while this many rows are unapplied
  MaxKills    \* bound: uncontrolled kills

ASSUME BoundAssumption == MaxQueued \in Nat /\ MaxKills \in Nat

VARIABLES
  status,   \* run.status
  reason,   \* run.pause_reason, by whom: "none" for NULL
  queue,    \* the run_control rows with applied_at NULL
  ledger,   \* work_unit.status of each planned unit, "absent" before its insert
  work,     \* the units each process has claimed and is executing
  call,     \* what each process is in the middle of
  kills     \* kills so far

vars == <<status, reason, queue, ledger, work, call, kills>>

-----------------------------------------------------------------------------
Status == {"pending", "running", "paused", "complete"}
Dispatchable == {"pending", "running"}
By == {"operator", "program"}

(* A row, with the rows before it: requested_at, as far as the rows that   *)
(* are not applied are told apart by it.                                    *)
ControlRow == [id : RowIds, action : {"pause", "resume"}, by : By, earlier : SUBSET RowIds]
Ids(R) == {r.id : r \in R}
NoRow == [id |-> "none", action |-> "resume", by |-> "program", earlier |-> {}]

(* Where a process is: off, idle between calls, or at a step of a call.     *)
Steps == {"off", "idle", "recover", "insert", "satisfy", "status", "controls",
          "apply", "supersede", "mark", "claim", "report", "starting",
          "probe", "complete", "enumerate"}
Jobs == {"none", "claim", "start", "pause", "resume", "report"}

(* rows is the snapshot of unapplied rows the call applies, left those it   *)
(* has yet to come to, row the last it came to, gate a pause left queued on *)
(* a pending run.  Kept for a property alone: counted, the units that a     *)
(* completion probe found in the ledger and ended.                          *)
Call == [at : Steps, job : Jobs, seen : Status, rows : SUBSET ControlRow,
         left : SUBSET ControlRow, row : ControlRow \cup {NoRow}, gate : BOOLEAN,
         counted : SUBSET Units]

At(step, job, seen) ==
  [at |-> step, job |-> job, seen |-> seen, rows |-> {}, left |-> {}, row |-> NoRow,
   gate |-> FALSE, counted |-> {}]

Off == At("off", "none", "pending")
Idle == At("idle", "none", "pending")

TypeOK ==
  /\ status \in Status
  /\ reason \in {"none", "ceiling"} \cup By
  /\ queue \subseteq ControlRow
  /\ ledger \in [Units -> {"absent", "pending", "leased", "done"}]
  /\ work \in [Procs -> SUBSET Units]
  /\ call \in [Procs -> Call]
  /\ kills \in 0..MaxKills

Init ==
  /\ status = "pending"
  /\ reason = "none"
  /\ queue = {}
  /\ ledger = [u \in Units |-> "absent"]
  /\ work = [p \in Procs |-> {}]
  /\ call = [p \in Procs |-> Off]
  /\ kills = 0

-----------------------------------------------------------------------------
Goto(p, step) == call' = [call EXCEPT ![p].at = step]
Begin(p, c) == call' = [call EXCEPT ![p] = c]
Return(p) == Begin(p, Idle)
IsAt(p, step) == call[p].at = step

Open == {u \in Units : ledger[u] \in {"pending", "leased"}}
Enumerated == {u \in Units : ledger[u] # "absent"}

(* _transition_run: the move happens if the status is still the one it is   *)
(* to move from, and never along another edge.                              *)
TransitionUnguarded(from, to, why) == status' = to /\ reason' = why
Transition(from, to, why) ==
  IF status = from
  THEN status' = to /\ reason' = why
  ELSE UNCHANGED <<status, reason>>

(* pause_run_sensed: the ceiling pauses a run it finds dispatchable.        *)
PauseSensed ==
  IF status \in Dispatchable
  THEN status' = "paused" /\ reason' = "ceiling"
  ELSE UNCHANGED <<status, reason>>

(* Rows: a fresh name for an insert, the deletion of those marked applied.  *)
RowIdsInUse == Ids(queue) \cup UNION {Ids(call[p].rows) : p \in Procs}

InsertControl(action, by) ==
  /\ RowIds \ RowIdsInUse # {}
  /\ queue' = queue \cup {[id |-> CHOOSE i \in RowIds \ RowIdsInUse : TRUE,
                            action |-> action, by |-> by, earlier |-> Ids(queue)]}

MarkApplied(R) == queue' = {[r EXCEPT !.earlier = @ \ Ids(R)] : r \in queue \ R}

Pauses == {r \in queue : r.action = "pause"}

MarkControlApplied(id) == MarkApplied({r \in queue : r.id = id})
MarkPausesApplied == MarkApplied(Pauses)

(* A resume supersedes the pauses requested before it, those and no others. *)
MarkAllPauses(earlier) == MarkApplied(Pauses)
MarkPausesAppliedBefore(earlier) == MarkApplied({r \in Pauses : r.id \in earlier})

-----------------------------------------------------------------------------
(* Requests.  The console writes a row and does nothing else.               *)

ConsoleRequest(action) ==
  /\ Cardinality(queue) < MaxQueued
  /\ InsertControl(action, "operator")
  /\ UNCHANGED <<status, reason, ledger, work, call, kills>>

(* pause(cause), called by a driver on a fault or a provider that is gone,  *)
(* after which its loop ends: the status is read first, a terminal run      *)
(* refuses.                                                                 *)
BeginPause(p) ==
  /\ IsAt(p, "idle")
  /\ work[p] = {}
  /\ status # "complete"
  /\ Cardinality(queue) < MaxQueued
  /\ Begin(p, At("insert", "pause", status))
  /\ UNCHANGED <<status, reason, queue, ledger, work, kills>>

(* The row is written; pause() on a run it read as paused then marks every  *)
(* pause satisfied, every other call applies the rows.                      *)
InsertRequest(p) ==
  /\ IsAt(p, "insert")
  /\ InsertControl(call[p].job, "program")
  /\ Goto(p, IF call[p].job = "pause" /\ call[p].seen = "paused"
             THEN "satisfy" ELSE "status")
  /\ UNCHANGED <<status, reason, ledger, work, kills>>

SatisfyPauses(p) ==
  /\ IsAt(p, "satisfy")
  /\ MarkPausesApplied
  /\ Begin(p, Off)
  /\ UNCHANGED <<status, reason, ledger, work, kills>>

-----------------------------------------------------------------------------
(* _apply_control_rows(). *)

ReadStatus(p) ==
  /\ IsAt(p, "status")
  /\ call' = [call EXCEPT ![p].seen = status, ![p].at = "controls"]
  /\ UNCHANGED <<status, reason, queue, ledger, work, kills>>

ReadControls(p) ==
  /\ IsAt(p, "controls")
  /\ call' = [call EXCEPT ![p].rows = queue, ![p].left = queue, ![p].at = "apply"]
  /\ UNCHANGED <<status, reason, queue, ledger, work, kills>>

(* The rows are applied oldest first.                                       *)
Applying(p, r, action) ==
  /\ IsAt(p, "apply")
  /\ r \in call[p].left /\ r.action = action
  /\ r.earlier \cap Ids(call[p].left) = {}

Take(p, r, step) == call' = [call EXCEPT ![p].row = r, ![p].at = step]

(* The local status follows a transition that won.                          *)
Follow(p, r, from, to, step) ==
  call' = [call EXCEPT ![p].seen = IF status = from THEN to ELSE @,
                       ![p].row = r, ![p].at = step]

(* A pause moves a running run, or a pending one that start() is honouring  *)
(* it for; on another pending run it stays queued; else it is satisfied.    *)
ApplyPause(p, r) ==
  /\ Applying(p, r, "pause")
  /\ LET seen == call[p].seen
         honoured == seen = "running" \/ (seen = "pending" /\ call[p].job = "start")
     IN \/ /\ honoured
           /\ Transition(seen, "paused", r.by)
           /\ Follow(p, r, seen, "paused", "mark")
        \/ /\ seen = "pending"
           /\ ~honoured
           /\ call' = [call EXCEPT ![p].gate = TRUE, ![p].row = r, ![p].left = @ \ {r}]
           /\ UNCHANGED <<status, reason>>
        \/ /\ seen \notin Dispatchable
           /\ Take(p, r, "mark")
           /\ UNCHANGED <<status, reason>>
  /\ UNCHANGED <<queue, ledger, work, kills>>

ApplyResume(p, r) ==
  /\ Applying(p, r, "resume")
  /\ IF call[p].seen = "paused"
     THEN /\ Transition("paused", "running", "none")
          /\ Follow(p, r, "paused", "running", "supersede")
     ELSE /\ Take(p, r, "supersede")
          /\ UNCHANGED <<status, reason>>
  /\ UNCHANGED <<queue, ledger, work, kills>>

Supersede(p) ==
  /\ IsAt(p, "supersede")
  /\ MarkPausesAppliedBefore(call[p].row.earlier)
  /\ call' = [call EXCEPT ![p].gate = FALSE, ![p].at = "mark"]
  /\ UNCHANGED <<status, reason, ledger, work, kills>>

MarkRow(p) ==
  /\ IsAt(p, "mark")
  /\ MarkControlApplied(call[p].row.id)
  /\ call' = [call EXCEPT ![p].left = @ \ {call[p].row}, ![p].at = "apply"]
  /\ UNCHANGED <<status, reason, ledger, work, kills>>

(* What each caller does with the status and the gate it is handed.         *)
AfterApplyUngated(c) ==
  CASE c.job = "claim" -> IF c.seen \in Dispatchable THEN "claim" ELSE "idle"
    [] c.job = "start" -> "starting"
    [] c.job = "pause" -> "off"
    [] c.job = "resume" -> IF c.seen = "running" THEN "probe" ELSE "enumerate"

AfterApply(c) ==
  CASE c.job = "claim" -> IF c.seen \in Dispatchable /\ ~c.gate THEN "claim" ELSE "idle"
    [] c.job = "start" -> "starting"
    [] c.job = "pause" -> "off"
    [] c.job = "resume" -> IF c.seen = "running" THEN "probe" ELSE "enumerate"

ApplyDone(p) ==
  /\ IsAt(p, "apply")
  /\ call[p].left = {}
  /\ LET next == AfterApply(call[p])
     IN CASE next = "idle" -> Return(p)
          [] next = "off" -> Begin(p, Off)
          [] next = "claim" -> Goto(p, next)
          [] OTHER -> Begin(p, At(next, call[p].job, call[p].seen))
  /\ UNCHANGED <<status, reason, queue, ledger, work, kills>>

-----------------------------------------------------------------------------
(* Dispatch: a claim pass, and the reports on what it claimed.              *)

BeginClaim(p) ==
  /\ IsAt(p, "idle")
  /\ work[p] = {}
  /\ status \in Dispatchable
  /\ Begin(p, At("status", "claim", status))
  /\ UNCHANGED <<status, reason, queue, ledger, work, kills>>

(* The claim's transaction guards the unit, not the run.  The cost ceiling  *)
(* may let the claim through, let it through and pause, or refuse and pause;*)
(* the pass goes on to its next unit, or ends: at its size, or at a pause.  *)
Claim(p, u) ==
  /\ IsAt(p, "claim")
  /\ ledger[u] = "pending"
  /\ ledger' = [ledger EXCEPT ![u] = "leased"]
  /\ work' = [work EXCEPT ![p] = @ \cup {u}]
  /\ \/ UNCHANGED <<status, reason>> /\ (Return(p) \/ UNCHANGED call)
     \/ PauseSensed /\ Return(p)
  /\ UNCHANGED <<queue, kills>>

ClaimRefused(p) ==
  /\ IsAt(p, "claim")
  /\ \E u \in Units : ledger[u] = "pending"
  /\ PauseSensed
  /\ Return(p)
  /\ UNCHANGED <<queue, ledger, work, kills>>

(* Nothing to claim: lease() enumerates a run that has no unit at all and   *)
(* claims again, and otherwise returns what the pass has.                   *)
ClaimNothing(p) ==
  /\ IsAt(p, "claim")
  /\ \A u \in Units : ledger[u] # "pending"
  /\ IF work[p] # {}
     THEN Return(p)
     ELSE Begin(p, At(IF Enumerated = {} THEN "enumerate" ELSE "report",
                      "claim", "running"))
  /\ UNCHANGED <<status, reason, queue, ledger, work, kills>>

(* A pass that left no unit open: the driver calls resume(run_id), its      *)
(* closer, unless it reads the run as stopped.                              *)
Report(p) ==
  /\ IsAt(p, "report")
  /\ IF Open = {} /\ status \in Dispatchable
     THEN Begin(p, At("insert", "resume", status))
     ELSE Return(p)
  /\ UNCHANGED <<status, reason, queue, ledger, work, kills>>

(* complete(): also lands on a unit swept back to pending, then probes.     *)
Complete(p, u) ==
  /\ IsAt(p, "idle")
  /\ u \in work[p]
  /\ work' = [work EXCEPT ![p] = @ \ {u}]
  /\ IF ledger[u] = "done"
     THEN UNCHANGED <<ledger, call>>
     ELSE /\ ledger' = [ledger EXCEPT ![u] = "done"]
          /\ Begin(p, At("probe", "report", "running"))
  /\ UNCHANGED <<status, reason, queue, kills>>

Requeue(p, u) ==
  /\ IsAt(p, "idle")
  /\ u \in work[p]
  /\ work' = [work EXCEPT ![p] = @ \ {u}]
  /\ ledger' = [ledger EXCEPT ![u] = IF @ = "leased" THEN "pending" ELSE @]
  /\ UNCHANGED <<status, reason, queue, call, kills>>

-----------------------------------------------------------------------------
(* _maybe_complete_run(): a running run with units, none of them open and   *)
(* no cell still waiting for its aggregation, is complete.                  *)

FinishedIgnoringLeases ==
  Enumerated # {} /\ \A u \in Units : ledger[u] # "pending"

Finished == Enumerated # {} /\ Open = {}

AfterProbe(p) ==
  IF call[p].job = "resume"
  THEN Begin(p, At("enumerate", "resume", call[p].seen))
  ELSE Return(p)

Probe(p) ==
  /\ IsAt(p, "probe")
  /\ \/ /\ status = "running" /\ Finished
        /\ call' = [call EXCEPT ![p].at = "complete", ![p].counted = Enumerated]
     \/ AfterProbe(p)   \* not finished, or a cell awaits its aggregation
  /\ UNCHANGED <<status, reason, queue, ledger, work, kills>>

CompleteRun(p) ==
  /\ IsAt(p, "complete")
  /\ Transition("running", "complete", "none")
  /\ AfterProbe(p)
  /\ UNCHANGED <<queue, ledger, work, kills>>

(* enumerate_units(): the planned units not yet in the ledger, one batch to *)
(* a transaction; a claim that had to enumerate claims again.               *)
EnumerateBatch(p, u) ==
  /\ IsAt(p, "enumerate")
  /\ ledger[u] = "absent"
  /\ ledger' = [ledger EXCEPT ![u] = "pending"]
  /\ UNCHANGED <<status, reason, queue, work, call, kills>>

EnumerateDone(p) ==
  /\ IsAt(p, "enumerate")
  /\ Enumerated = Units
  /\ IF call[p].job = "claim" THEN Begin(p, At("status", "claim", status)) ELSE Return(p)
  /\ UNCHANGED <<status, reason, queue, ledger, work, kills>>

-----------------------------------------------------------------------------
(* start(): queued rows first, then pending -> running, then the probe.     *)

BeginStart(p) ==
  /\ IsAt(p, "idle")
  /\ work[p] = {}
  /\ status = "pending"
  /\ Begin(p, At("status", "start", status))
  /\ UNCHANGED <<status, reason, queue, ledger, work, kills>>

StartRun(p) ==
  /\ IsAt(p, "starting")
  /\ Transition("pending", "running", "none")
  /\ IF status = "pending" THEN Goto(p, "probe") ELSE Return(p)
  /\ UNCHANGED <<queue, ledger, work, kills>>

(* recover(), with which every process starts: the sweep, which reads the   *)
(* runs that may dispatch and no others, puts back what no living process   *)
(* is executing; then a running run, or a paused one with a resume queued,  *)
(* is resumed.                                                              *)
Recover(p) ==
  /\ IsAt(p, "off")
  /\ ledger' = [u \in Units |->
                 IF /\ ledger[u] = "leased"
                    /\ status \in Dispatchable
                    /\ \A q \in Procs : u \notin work[q]
                 THEN "pending" ELSE ledger[u]]
  /\ Begin(p, At("recover", "none", "pending"))
  /\ UNCHANGED <<status, reason, queue, work, kills>>

LastRowResumes ==
  \E r \in queue : r.action = "resume" /\ \A s \in queue : r.id \notin s.earlier

HasQueuedResume == \E r \in queue : r.action = "resume"

RecoverResumes(p) ==
  /\ IsAt(p, "recover")
  /\ IF status = "running" \/ (status = "paused" /\ HasQueuedResume)
     THEN Begin(p, At("insert", "resume", status))
     ELSE Return(p)
  /\ UNCHANGED <<status, reason, queue, ledger, work, kills>>

(* The closer on a run that is complete already leaves its status and rows  *)
(* alone, and still inserts what the ledger lacks.                          *)
ClosesAgain == status = "complete" /\ Open = {} /\ Enumerated # Units

EnumerateComplete(p) ==
  /\ IsAt(p, "idle")
  /\ work[p] = {}
  /\ ClosesAgain
  /\ Begin(p, At("enumerate", "report", status))
  /\ UNCHANGED <<status, reason, queue, ledger, work, kills>>

(* The driver's loop ends on a run that is paused or complete.              *)
Exit(p) ==
  /\ IsAt(p, "idle")
  /\ work[p] = {}
  /\ status \notin Dispatchable
  /\ ~ClosesAgain
  /\ Begin(p, Off)
  /\ UNCHANGED <<status, reason, queue, ledger, work, kills>>

Kill(p) ==
  /\ ~IsAt(p, "off")
  /\ kills < MaxKills
  /\ kills' = kills + 1
  /\ Begin(p, Off)
  /\ work' = [work EXCEPT ![p] = {}]
  /\ UNCHANGED <<status, reason, queue, ledger>>

-----------------------------------------------------------------------------
(* Every step a living process owes: its loop turns, its calls return.  A   *)
(* kill and a fault are never owed.                                         *)
ApplyStep(p) ==
  \/ ReadStatus(p) \/ ReadControls(p)
  \/ \E r \in call[p].left : ApplyPause(p, r) \/ ApplyResume(p, r)
  \/ Supersede(p) \/ MarkRow(p) \/ ApplyDone(p)

Drive(p) ==
  \/ InsertRequest(p) \/ SatisfyPauses(p) \/ ApplyStep(p)
  \/ BeginClaim(p) \/ Report(p) \/ BeginStart(p) \/ StartRun(p)
  \/ ClaimRefused(p) \/ ClaimNothing(p) \/ Probe(p) \/ CompleteRun(p) \/ EnumerateDone(p)
  \/ Recover(p) \/ RecoverResumes(p) \/ EnumerateComplete(p) \/ Exit(p)
  \/ \E u \in Units :
       Claim(p, u) \/ Complete(p, u) \/ Requeue(p, u) \/ EnumerateBatch(p, u)

Next ==
  \/ \E a \in {"pause", "resume"} : ConsoleRequest(a)
  \/ \E p \in Procs : Drive(p) \/ BeginPause(p) \/ Kill(p)

Spec == Init /\ [][Next]_vars

FairSpec == Spec /\ \A p \in Procs : WF_vars(Drive(p))

-----------------------------------------------------------------------------
(* Properties. *)

(* The status moves only along the machine's edges, whatever a process read *)
(* before it wrote: a complete run never reopens, and nothing returns to    *)
(* pending (FR-ORCH-25).                                                    *)
Edges == {<<"pending", "running">>, <<"pending", "paused">>,
          <<"running", "paused">>, <<"paused", "running">>,
          <<"running", "complete">>}

StatusFollowsEdges == [][status' # status => <<status, status'>> \in Edges]_status

(* The completion probe counts, and writes later: what it counted is still  *)
(* ended by then, whatever the other drivers of the run requeue, sweep and  *)
(* report in between.  A unit of a run that completes is open only if it    *)
(* was inserted after the count (run_lifecycle.py, _maybe_complete_run).    *)
CountedStays ==
  [][\A p \in Procs :
       CompleteRun(p) /\ status' # status =>
         call[p].counted # {} /\ Open \cap call[p].counted = {}]_vars

(* A pause that is marked applied took effect, the run being paused or      *)
(* complete in that state, unless a resume requested after it superseded    *)
(* it: a later resume never consumes a pause requested after itself.        *)
LaterResume(i) ==
  \E p \in Procs : call[p].at = "supersede" /\ i \in call[p].row.earlier

PauseRow(q, i) == \E r \in q : r.id = i /\ r.action = "pause"

PauseStep ==
  \A i \in RowIds :
    PauseRow(queue, i) /\ ~PauseRow(queue', i)
      => status \in {"paused", "complete"} \/ LaterResume(i)

PauseTakesEffect == [][PauseStep]_vars

(* A claim pass never hands out a unit past a pause it has read: the rows   *)
(* of its snapshot that ask for a pause have all been applied or superseded *)
(* by the time it claims (CT-ORCH-13).                                      *)
NoClaimPastPause ==
  \A p \in Procs :
    call[p].at = "claim" =>
      \A r \in call[p].rows : ~PauseRow(queue, r.id)

(* A request that the machine can honour is honoured: a pause queued on a   *)
(* running run, a resume queued on a paused one, while somebody restarts    *)
(* the program and its loop turns.                                          *)
Honourable(i) ==
  \E r \in queue :
    /\ r.id = i
    /\ status = IF r.action = "pause" THEN "running" ELSE "paused"

RequestsAreHonoured == \A i \in RowIds : Honourable(i) ~> ~Honourable(i)

(* What the documents say of a stop: a run the operator paused runs again   *)
(* on an operator's resume only ("a stop an operator requested outranks a   *)
(* scheduler's restart", driver.py and run_lifecycle.py).                   *)
StopOutranksRestart ==
  [][status = "paused" /\ reason = "operator" /\ status' = "running"
       => \E p \in Procs, r \in queue : IsAt(p, "apply") /\ r \in call[p].left
                                       /\ r.by = "operator" /\ r.action = "resume"]_vars

(* What the documents say of completion: a complete run has done every unit *)
(* it planned, a ledger half populated by a crash being repaired by         *)
(* resume() before the run can end.                                         *)
CompleteMeansAllPlanned ==
  status = "complete" => \A u \in Units : ledger[u] = "done"

=============================================================================
