------------------------------- MODULE Dispatch -------------------------------
(***************************************************************************)
(* Dispatch passes: drivers, each driving its own run, claim batches of    *)
(* units, send them to the model and settle what comes back.               *)
(*                                                                         *)
(* A claim walk visits every run that may dispatch, whoever drives it; the *)
(* claim, the run's spend and the pause at its cost ceiling are one        *)
(* transaction.  What a batch answered is settled in steps: completions,   *)
(* one requeue, a pause, the out-of-memory remedy for each judge, the      *)
(* reduction of the width.  The pass works from the run row it read when   *)
(* it began.                                                               *)
(*                                                                         *)
(* Lease expiry is abstracted (WorkLedger has it): a restarting driver's   *)
(* sweep takes the leases no living driver holds.  So is the application   *)
(* of control rows (RunControl has it), and the order of a walk, which is  *)
(* left free.                                                              *)
(***************************************************************************)
EXTENDS Naturals, FiniteSets

CONSTANTS
  Drivers,   \* driver threads, each with an Orchestrator of its own
  Runs,
  Units,
  Judges,    \* the panel every run froze
  NoJudge,   \* the judge of an extraction unit
  NoRun,
  Drives,    \* [Drivers -> Runs], the run a driver was started for
  CohortOf,  \* [Runs -> cohort]
  RunOf,     \* [Units -> Runs]
  JudgeOf,   \* [Units -> Judges \cup {NoJudge}]
  Cost,      \* [Units -> Nat], the figure a claim adds to the run's spend
  Ceiling,   \* cost_ceiling, the same for every run
  Width,     \* concurrency_ceiling
  Divisor,   \* the divisor of a reduction and of the backpressure clamp
  OomLimit   \* HARNESS_ORCH_OOM_DROP_THRESHOLD

ASSUME DispatchAssumption ==
  /\ Drives \in [Drivers -> Runs]
  /\ RunOf \in [Units -> Runs]
  /\ JudgeOf \in [Units -> Judges \cup {NoJudge}]
  /\ NoJudge \notin Judges
  /\ NoRun \notin Runs
  /\ Cost \in [Units -> Nat]
  /\ Ceiling \in Nat
  /\ {Width, OomLimit} \subseteq Nat \ {0}
  /\ Divisor \in Nat \ {0, 1}
  /\ Cardinality(Judges) \in Nat \ {0}

VARIABLES
  ledger,  \* work_unit.status
  status,  \* run.status
  spend,   \* run.cost_spend
  panel,   \* run.panel_config's arms
  driver   \* what each driver is in the middle of

vars == <<ledger, status, spend, panel, driver>>

-----------------------------------------------------------------------------
(* A driver's memory.  stage is the one the pass claims for; seen the panel *)
(* of the run row the pass began with; walking the run whose order it is in,*)
(* skipped that run's dropped judges; batch is out with the model, retry to *)
(* be requeued; oomed counts the batch's out-of-memory calls, ooms the      *)
(* driver's life's.                                                         *)
Driver == [at : {"off", "idle", "claim", "answer"},
           stage : {"extract", "score"},
           cap : Nat, width : Nat, reduced : BOOLEAN,
           seen : SUBSET Judges, walking : Runs \cup {NoRun},
           skipped : SUBSET Judges,
           batch : SUBSET Units, retry : SUBSET Units,
           blocked : BOOLEAN, faulted : BOOLEAN,
           oomed : [Judges -> Nat], ooms : [Judges -> Nat]]

None == [j \in Judges |-> 0]

Fresh(step) ==
  [at |-> step, stage |-> "extract", cap |-> Width, width |-> Width, reduced |-> FALSE,
   seen |-> {}, walking |-> NoRun, skipped |-> {}, batch |-> {}, retry |-> {},
   blocked |-> FALSE, faulted |-> FALSE, oomed |-> None, ooms |-> None]

TypeOK ==
  /\ ledger \in [Units -> {"pending", "leased", "done"}]
  /\ status \in [Runs -> {"running", "paused", "complete"}]
  /\ spend \in [Runs -> Nat]
  /\ panel \in [Runs -> SUBSET Judges]
  /\ driver \in [Drivers -> Driver]

Init ==
  /\ ledger = [u \in Units |-> "pending"]
  /\ status = [r \in Runs |-> "running"]
  /\ spend = [r \in Runs |-> 0]
  /\ panel = [r \in Runs |-> Judges]
  /\ driver = [d \in Drivers |-> Fresh("off")]

-----------------------------------------------------------------------------
IsAt(d, step) == driver[d].at = step
Own(d) == Drives[d]
Held == UNION {driver[d].batch \cup driver[d].retry : d \in Drivers}

ReducedNoFloor(n) == n \div Divisor
Reduced(n) == IF n \div Divisor = 0 THEN 1 ELSE n \div Divisor

Dropped(r) == Judges \ panel[r]

(* An extraction unit has no judge; every other unit is a judge's to score. *)
StageOf(u) == IF JudgeOf[u] = NoJudge THEN "extract" ELSE "score"

(* pause_run_sensed, and pause() on the run its caller drives.              *)
PauseRun(r) ==
  status' = [status EXCEPT ![r] = IF @ = "running" THEN "paused" ELSE @]

(* _dispatch_pass begins: the width is the reduced one, clamped further     *)
(* while the store signals backpressure.                                    *)
BeginPass(d) ==
  /\ IsAt(d, "idle")
  /\ status[Own(d)] = "running"
  /\ \E w \in {driver[d].cap, Reduced(driver[d].cap)} :
       driver' = [driver EXCEPT ![d].at = "claim", ![d].width = w,
                                ![d].stage = "extract",
                                ![d].seen = panel[Own(d)]]
  /\ UNCHANGED <<ledger, status, spend, panel>>

(* The walk turns to a run that may dispatch and has units of the stage, its*)
(* own or another's, and reads that run's dropped judges.                   *)
WalkRun(d, r) ==
  /\ IsAt(d, "claim")
  /\ driver[d].walking # r
  /\ \E u \in Units : /\ RunOf[u] = r
                      /\ StageOf(u) = driver[d].stage
                      /\ ledger[u] = "pending"
  /\ status[r] = "running"
  /\ driver' = [driver EXCEPT ![d].walking = r, ![d].skipped = Dropped(r)]
  /\ UNCHANGED <<ledger, status, spend, panel>>

CanClaim(d, u) ==
  /\ IsAt(d, "claim")
  /\ Cardinality(driver[d].batch) < driver[d].width
  /\ RunOf[u] = driver[d].walking
  /\ JudgeOf[u] \notin driver[d].skipped
  /\ StageOf(u) = driver[d].stage
  /\ ledger[u] = "pending"

(* The ceiling is compared with what this claim would make of the spend.    *)
CrossesLate(u) == spend[RunOf[u]] > Ceiling
Crosses(u) == spend[RunOf[u]] + Cost[u] > Ceiling

(* The spend commits with the claim: a unit claimed again is paid again.    *)
AccrueOnce(u) ==
  spend' = [spend EXCEPT ![RunOf[u]] = IF @ = 0 THEN Cost[u] ELSE @]
Accrue(u) == spend' = [spend EXCEPT ![RunOf[u]] = @ + Cost[u]]

ReachesCeiling(u) == Cost[u] > 0 /\ spend[RunOf[u]] + Cost[u] >= Ceiling

(* A crossing claim is refused and pauses the run, a claim that lands at    *)
(* the ceiling goes through and pauses it; either ends the walk of the run. *)
ClaimRefused(d, u) ==
  /\ CanClaim(d, u)
  /\ Crosses(u)
  /\ PauseRun(RunOf[u])
  /\ driver' = [driver EXCEPT ![d].walking = NoRun, ![d].skipped = {}]
  /\ UNCHANGED <<ledger, spend, panel>>

Claim(d, u) ==
  /\ CanClaim(d, u)
  /\ ~Crosses(u)
  /\ ledger' = [ledger EXCEPT ![u] = "leased"]
  /\ Accrue(u)
  /\ IF ReachesCeiling(u) THEN PauseRun(RunOf[u]) ELSE UNCHANGED status
  /\ driver' = [driver EXCEPT ![d].batch = @ \cup {u},
                              ![d].walking = IF ReachesCeiling(u) THEN NoRun ELSE @,
                              ![d].skipped = IF ReachesCeiling(u) THEN {} ELSE @]
  /\ UNCHANGED <<panel>>

(* The walk hands out what it has.  An empty extraction batch leads to the  *)
(* judged one; a pass that got nothing, on counts that do not move, is the  *)
(* stall that ends the driver's loop.                                       *)
EndWalk(d) ==
  /\ IsAt(d, "claim")
  /\ LET rec == [driver[d] EXCEPT !.walking = NoRun, !.skipped = {}]
     IN driver' = [driver EXCEPT ![d] =
          CASE rec.batch # {}        -> [rec EXCEPT !.at = "answer"]
            [] rec.stage = "extract" -> [rec EXCEPT !.stage = "score"]
            [] OTHER                 -> Fresh("off")]
  /\ UNCHANGED <<ledger, status, spend, panel>>

-----------------------------------------------------------------------------
(* _run_model_batch: the answers, one unit at a time. *)

Answering(d, u) == IsAt(d, "answer") /\ u \in driver[d].batch

(* complete(): the unit is done, in whichever cohort it is; its run is      *)
(* complete once nothing of it is open.                                     *)
AnswerOk(d, u) ==
  /\ Answering(d, u)
  /\ ledger' = [ledger EXCEPT ![u] = "done"]
  /\ status' = [status EXCEPT ![RunOf[u]] =
       IF @ = "running" /\ \A v \in Units : RunOf[v] = RunOf[u] => ledger'[v] = "done"
       THEN "complete" ELSE @]
  /\ driver' = [driver EXCEPT ![d].batch = @ \ {u}]
  /\ UNCHANGED <<spend, panel>>

Retry(d, u, rec) ==
  driver' = [driver EXCEPT ![d] = [rec EXCEPT !.batch = @ \ {u}, !.retry = @ \cup {u},
                                              !.blocked = TRUE]]

(* Rate-limited, or struck out inside the worker's own budget. *)
AnswerRetry(d, u) ==
  /\ Answering(d, u)
  /\ Retry(d, u, driver[d])
  /\ UNCHANGED <<ledger, status, spend, panel>>

(* Out of memory; an extraction unit has no judge to count it against. *)
AnswerOom(d, u) ==
  /\ Answering(d, u)
  /\ JudgeOf[u] # NoJudge
  /\ Retry(d, u, [driver[d] EXCEPT !.oomed[JudgeOf[u]] = @ + 1])
  /\ UNCHANGED <<ledger, status, spend, panel>>

(* The provider is gone, or answers as another build. *)
AnswerGone(d, u) ==
  /\ Answering(d, u)
  /\ Retry(d, u, [driver[d] EXCEPT !.faulted = TRUE])
  /\ UNCHANGED <<ledger, status, spend, panel>>

(* An exception nobody classifies leaves the whole batch leased: the driver *)
(* pauses its run and ends.                                                 *)
Abort(d, u) ==
  /\ Answering(d, u)
  /\ PauseRun(Own(d))
  /\ driver' = [driver EXCEPT ![d] = Fresh("off")]
  /\ UNCHANGED <<ledger, spend, panel>>

(* _requeue_units: one transaction, in the cohort of the driver's own run.  *)
RequeueTo(u, d) == CohortOf[RunOf[u]] = CohortOf[Own(d)] /\ ledger[u] = "leased"

Requeued(u, d) == u \in driver[d].retry /\ RequeueTo(u, d)

Answered(d) == IsAt(d, "answer") /\ driver[d].batch = {}

Requeue(d) ==
  /\ Answered(d)
  /\ driver[d].retry # {}
  /\ ledger' = [u \in Units |-> IF Requeued(u, d) THEN "pending" ELSE ledger[u]]
  /\ driver' = [driver EXCEPT ![d].retry = {}]
  /\ UNCHANGED <<status, spend, panel>>

PauseOwn(d) ==
  /\ Answered(d)
  /\ driver[d].retry = {}
  /\ driver[d].faulted
  /\ PauseRun(Own(d))
  /\ driver' = [driver EXCEPT ![d].faulted = FALSE]
  /\ UNCHANGED <<ledger, spend, panel>>

(* _oom_remedy: at the limit the judge leaves the panel the pass read, if   *)
(* that panel has another.                                                  *)
DropFrom(arms, j) == arms \ {j}
DropsLastArm(arms, j) == j \in arms
Drops(arms, j) == j \in arms /\ Cardinality(arms) > 1

ToRemedy(d) == Answered(d) /\ driver[d].retry = {} /\ ~driver[d].faulted

Remedy(d, j) ==
  /\ ToRemedy(d)
  /\ driver[d].oomed[j] > 0
  /\ LET count == driver[d].ooms[j] + driver[d].oomed[j] IN
       /\ driver' = [driver EXCEPT ![d].oomed[j] = 0,
                       ![d].ooms[j] = IF count > OomLimit THEN OomLimit ELSE count]
       /\ panel' = IF count >= OomLimit /\ Drops(driver[d].seen, j)
                   THEN [panel EXCEPT ![Own(d)] = DropFrom(driver[d].seen, j)]
                   ELSE panel
  /\ UNCHANGED <<ledger, status, spend>>

(* The reduction, once a pass, if any call was blocked.  An extraction      *)
(* batch is followed by another, or by the judged one, in the same pass;    *)
(* the judged batch ends it.                                                *)
EndBatch(d) ==
  /\ ToRemedy(d)
  /\ driver[d].oomed = None
  /\ LET reduce == driver[d].blocked /\ ~driver[d].reduced
         rec == [driver[d] EXCEPT
                   !.cap = IF reduce THEN Reduced(@) ELSE @,
                   !.reduced = @ \/ reduce,
                   !.blocked = FALSE]
     IN \/ /\ rec.stage = "extract"
           /\ \E s \in {"extract", "score"} :
                driver' = [driver EXCEPT ![d] = [rec EXCEPT !.at = "claim", !.stage = s]]
        \/ /\ rec.stage = "score"
           /\ driver' = [driver EXCEPT ![d] =
                [Fresh("idle") EXCEPT !.cap = rec.cap, !.width = rec.cap,
                                      !.ooms = rec.ooms]]
  /\ UNCHANGED <<ledger, status, spend, panel>>

-----------------------------------------------------------------------------
(* The driver's life. *)

(* The loop ends on a run that is paused or complete. *)
EndLoop(d) ==
  /\ IsAt(d, "idle")
  /\ status[Own(d)] # "running"
  /\ driver' = [driver EXCEPT ![d] = Fresh("off")]
  /\ UNCHANGED <<ledger, status, spend, panel>>

(* A process start: recover()'s sweep reads the runs that may dispatch and  *)
(* reclaims what no living driver holds, then the driver is back.           *)
SweptNothing(u) == FALSE
Swept(u) == ledger[u] = "leased" /\ u \notin Held /\ status[RunOf[u]] = "running"

Restart(d) ==
  /\ IsAt(d, "off")
  /\ status[Own(d)] # "complete"
  /\ ledger' = [u \in Units |-> IF Swept(u) THEN "pending" ELSE ledger[u]]
  /\ driver' = [driver EXCEPT ![d] = Fresh("idle")]
  /\ UNCHANGED <<status, spend, panel>>

Kill(d) ==
  /\ ~IsAt(d, "off")
  /\ driver' = [driver EXCEPT ![d] = Fresh("off")]
  /\ UNCHANGED <<ledger, status, spend, panel>>

(* An operator resumes a paused run. *)
Resume(r) ==
  /\ status[r] = "paused"
  /\ status' = [status EXCEPT ![r] = "running"]
  /\ UNCHANGED <<ledger, spend, panel, driver>>

-----------------------------------------------------------------------------
Settle(d) ==
  \/ Requeue(d) \/ PauseOwn(d) \/ EndBatch(d)
  \/ \E j \in Judges : Remedy(d, j)
  \/ \E u \in Units : AnswerOk(d, u) \/ AnswerRetry(d, u) \/ AnswerOom(d, u)
                        \/ AnswerGone(d, u) \/ Abort(d, u)

Drive(d) ==
  \/ BeginPass(d) \/ EndWalk(d) \/ EndLoop(d) \/ Restart(d) \/ Settle(d)
  \/ \E r \in Runs : WalkRun(d, r)
  \/ \E u \in Units : Claim(d, u) \/ ClaimRefused(d, u)

Next ==
  \/ \E d \in Drivers : Drive(d) \/ Kill(d)
  \/ \E r \in Runs : Resume(r)

Spec == Init /\ [][Next]_vars

FairSpec == Spec /\ \A d \in Drivers : WF_vars(Drive(d)) /\ WF_vars(EndWalk(d))

-----------------------------------------------------------------------------
(* Properties. *)

(* Spend never passes the ceiling, whoever claims the run's units and       *)
(* however often a unit is claimed again (FR-ORCH-15).                      *)
SpendWithinCeiling == \A r \in Runs : spend[r] <= Ceiling

(* A cost of n is n marks, each with the name of its unit.                  *)
Bill(S) == UNION {{u} \X (1..Cost[u]) : u \in S}
Out(r) == {u \in Units : RunOf[u] = r /\ ledger[u] # "pending"}

(* No unit is out or done that its run's spend does not cover: no crash, no *)
(* requeue and no other driver dispatches work the ceiling never saw.       *)
SpendCoversClaims == \A r \in Runs : Cardinality(Bill(Out(r))) <= spend[r]

(* However many judges run out of memory, a run keeps a judge.              *)
PanelKeepsAJudge == \A r \in Runs : panel[r] # {}

(* Every pass asks lease() for at least one unit (it refuses to claim none) *)
(* and never has more out than the width it began with, the frozen one at   *)
(* most.                                                                    *)
WidthUsable ==
  \A d \in Drivers :
    /\ driver[d].cap \in 1..Width
    /\ Cardinality(driver[d].batch \cup driver[d].retry) <= driver[d].width
    /\ driver[d].width \in 1..Width

(* What a comment says of a requeue: no unit of the batch is still leased   *)
(* ("so the very next claim pass sees the requeued units", leasing.py).     *)
(* Only a batch within one cohort has that: what it holds of another cohort *)
(* stays leased until a sweep.                                              *)
RequeueFreesBatch ==
  [][\A d \in Drivers : Requeue(d) =>
        \A u \in driver[d].retry : ledger'[u] # "leased"]_vars

(* A panel only shrinks: a judge the box could not hold stays dropped ("the *)
(* drop lands when the count reaches the threshold", dispatch.py).          *)
PanelOnlyShrinks == [][\A r \in Runs : panel'[r] \subseteq panel[r]]_vars

(* A leased unit of a running run does not stay leased: it is done, or      *)
(* requeued, or swept after its driver died or when its batch was another   *)
(* cohort's, or its run stops running.                                      *)
LeaseResolves ==
  \A u \in Units :
    ledger[u] = "leased" /\ status[RunOf[u]] = "running"
      ~> ledger[u] # "leased" \/ status[RunOf[u]] # "running"

=============================================================================
