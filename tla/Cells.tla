-------------------------------- MODULE Cells --------------------------------
(***************************************************************************)
(* A run driven pass by pass: the cells of one criterion, one cell to a    *)
(* submission, from extraction over the integrity gate and the panel to    *)
(* the score, with the panel widened, replaced or halted on the way.       *)
(*                                                                         *)
(* A pass claims extraction units until it makes no headway, claims one    *)
(* batch of scoring units, then runs two hooks: the gate verifies cells    *)
(* whose extraction has finished, and cells whose panel has finished are   *)
(* aggregated, the score, the escalation and the phase in one transaction. *)
(* The driver may die between any two transactions, and is started again.  *)
(*                                                                         *)
(* Abstracted: what a span or a verdict says (whether a score calls for    *)
(* more judges is left free), leases (WorkLedger), the spend (Dispatch)    *)
(* and control rows (RunControl).  The gate's record of the panel state it *)
(* routed on is left out: it suppresses only writes that would be ignored. *)
(***************************************************************************)
EXTENDS Integers, FiniteSets, FiniteSetsExt, Sequences, SequencesExt

CONSTANTS
  Cells,         \* a prefix of 1, 2, ...: the order the hooks visit them in
  BaseOf,        \* [Cells -> Nat], judges enumeration gave a cell, the random arm's too
  Described,     \* the cells whose answer may lie in a described graphic
  SeatCounts,    \* how many judge models a run may be able to serve
  MaxSeats,      \* bound: the seats that have a name
  MaxAttempts,   \* HARNESS_ORCH_MAX_ATTEMPTS
  Width,         \* the concurrency a batch is claimed at, at most: the governor
                 \* and the store's backpressure may narrow it
  WalkBatch,     \* HARNESS_ORCH_DISPATCH_WALK_BATCH: extractions completed in a pass
  BreakerMinN,   \* HARNESS_ORCH_CRITERION_BREAKER_MIN_N
  BreakerRate,   \* HARNESS_ORCH_CRITERION_BREAKER_RATE, in percent
  Budget,        \* HARNESS_ORCH_ESCALATION_BUDGET, in percent
  StallPasses,   \* passes without headway before the driver gives up
  MaxFaults      \* bound: refusals, outages, pauses and crashes in a behaviour

ASSUME CellsAssumption ==
  /\ Cells # {} /\ IsFiniteSet(Cells) /\ Cells = 1..Cardinality(Cells)
  /\ BaseOf \in [Cells -> Nat] /\ \A c \in Cells : BaseOf[c] % 2 = 1
  /\ Described \subseteq Cells
  /\ SeatCounts \subseteq Nat /\ SeatCounts # {}
  /\ MaxSeats \in Nat
  /\ \A n \in SeatCounts \cup {BaseOf[c] : c \in Cells} : n <= MaxSeats
  /\ {MaxAttempts, Width, WalkBatch, BreakerMinN, StallPasses} \subseteq Nat \ {0}
  /\ {BreakerRate, Budget} \subseteq 0..100
  /\ MaxFaults \in Nat

VARIABLES
  status,    \* [Cells -> [Units -> work_unit.status]]
  attempts,  \* [Cells -> [Units -> work_unit.attempts]]
  pre,       \* the cells with an integrity_pre phase
  consumed,  \* cell_phase.units_consumed of `aggregated', None without the row
  score,     \* criterion_score: the judges it was computed over, and its state
  review,    \* the cells that carry a described-evidence review unit
  replaced,  \* the cells whose replacement request is on record
  breaker,   \* the criterion's breaker has latched
  order,     \* the cells in the order of their first verdict (done_ticks)
  run,       \* run.status
  seats,     \* the run's judge models (seat_count)
  driver,    \* what the driver is in the middle of
  faults     \* faults so far

ledger == <<status, attempts>>
cellVars == <<pre, consumed, score, review, replaced, breaker>>
vars == <<ledger, cellVars, order, run, seats, driver, faults>>

-----------------------------------------------------------------------------
(* Units.  Every cell has one enumerated extraction unit; Own is the second *)
(* extraction the gate files; 1, 2, ... are the seats of the panel, in the  *)
(* order of the run's panel and, past it, of the escalation ladder.         *)

Extraction == 0
Own == -1
Extractions == {Own, Extraction}
AllSeats == 1..MaxSeats
Units == Extractions \cup AllSeats
None == -1
NoScore == [judges |-> {}, state |-> "none"]

Open == {"pending", "leased"}
Terminal == {"done", "quarantined"}

Panel(c) == {s \in AllSeats : status[c][s] # "absent"}
Verdicts(c) == {s \in AllSeats : status[c][s] = "done"}
Lost(c) == {s \in AllSeats : status[c][s] = "quarantined"}
Closed(c) == Cardinality(Verdicts(c) \cup Lost(c))

(* origin = 'escalation': the seats past the enumerated panel.              *)
Added(c) == {s \in Panel(c) : s > BaseOf[c]}

Extracted(c) == \A u \in Extractions : status[c][u] \in Terminal \cup {"absent"}

(* Mutant: a quarantined extraction counts as finished.                     *)
BlockedWhileOpen(c) == \E u \in Extractions : status[c][u] \in Open

(* select_not_done_extracts: a quarantined extraction blocks like an open   *)
(* one.                                                                     *)
Blocked(c) == \E u \in Extractions : status[c][u] \in Open \cup {"quarantined"}

-----------------------------------------------------------------------------
(* The escalation budget and the criterion's breaker, both read from what   *)
(* has been scored so far.                                                  *)

Processed == {c \in Cells : Verdicts(c) # {}}
Escalated == {c \in Cells : Verdicts(c) \cap Added(c) # {}}
OverBudget == 100 * Cardinality(Escalated) > Budget * Cardinality(Processed)

Window == ToSet(SubSeq(order, 1, Min({BreakerMinN, Len(order)})))
Trips ==
  LET widened == {c \in Window : Added(c) # {}} IN
    /\ Cardinality(Window) >= BreakerMinN
    /\ 100 * Cardinality(widened) > BreakerRate * Cardinality(Window)

(* Mutant: a cell is aggregated once, widened or not.                       *)
ReadyOnce == {c \in Cells : Closed(c) = Cardinality(Panel(c)) /\ consumed[c] = None}

(* What the hooks find ready.                                               *)
ReadyPre == {c \in Cells : Extracted(c) /\ c \notin pre}
ReadyAggregate == {c \in Cells : Closed(c) = Cardinality(Panel(c)) /\ Closed(c) > consumed[c]}
AwaitingAggregation ==
  (\E c \in Cells : c \in pre \/ consumed[c] # None) /\ ReadyAggregate # {}

OpenUnits == {cu \in Cells \X Units : status[cu[1]][cu[2]] \in Open}
NothingOpen == OpenUnits = {} /\ review = {}

(* The completion probe, after the write beside it: a running run with no   *)
(* open unit and no cell the aggregate hook has yet to decide about.        *)
Probe ==
  run' = IF run = "running" /\ NothingOpen' /\ ~AwaitingAggregation'
           THEN "complete" ELSE run

-----------------------------------------------------------------------------
(* The driver.  pc is where in a pass it is, or how its last pass ended;    *)
(* claimed the units of the batch and calls those still under way, headway  *)
(* whether one completed, outage whether one met a provider that is gone;   *)
(* walked the extractions completed in the pass; cached what _order_cache   *)
(* still holds of the claim orders (an empty order is no entry); todo the   *)
(* cells a hook has yet to visit, worked whether a hook had any this pass,  *)
(* latched its copy of the breaker; seen the counts the last pass reported, *)
(* moved whether they changed, stalled the passes since.  Kept for the      *)
(* properties alone: unusable, whether a call of the pass got an answer it  *)
(* could not use; stale, whether its scoring order was one from memory.     *)

Stopped == {"off", "stalled", "faulted"}
Idle == [pc |-> "off", claimed |-> {}, calls |-> {}, headway |-> FALSE, outage |-> FALSE,
         todo |-> {}, worked |-> FALSE, moved |-> FALSE, latched |-> FALSE,
         seen |-> <<>>, stalled |-> 0, walked |-> 0, cached |-> {},
         unusable |-> FALSE, stale |-> FALSE]

Goto(pc) == driver' = [driver EXCEPT !.pc = pc]

(* The report's counts: done, pending and in flight over every stage.       *)
Count(S) == Cardinality({cu \in Cells \X Units : status[cu[1]][cu[2]] \in S})
Report == <<Count({"done"}), Count({"pending"}) + Cardinality(review), Count({"leased"})>>

Init ==
  /\ status = [c \in Cells |-> [u \in Units |->
       IF u = Extraction \/ u \in 1..BaseOf[c] THEN "pending" ELSE "absent"]]
  /\ attempts = [c \in Cells |-> [u \in Units |-> 0]]
  /\ pre = {} /\ review = {} /\ replaced = {}
  /\ consumed = [c \in Cells |-> None]
  /\ score = [c \in Cells |-> NoScore]
  /\ breaker = FALSE
  /\ order = <<>>
  /\ run = "running"
  /\ seats \in SeatCounts
  /\ driver = Idle
  /\ faults = 0

(* A process picks the run up: expired leases go back to pending, all of    *)
(* them or, when their time is not up, none, and the resume's probe runs.   *)
Start ==
  /\ driver.pc \in Stopped /\ run = "running"
  /\ \/ status' = [c \in Cells |-> [u \in Units |->
          IF status[c][u] = "leased" THEN "pending" ELSE status[c][u]]]
     \/ UNCHANGED status
  /\ driver' = [Idle EXCEPT !.pc = "extract"]
  /\ UNCHANGED <<attempts, cellVars, order, seats, faults>>
  /\ Probe

-----------------------------------------------------------------------------
(* Mutant: the blocked cells are looked up by criterion alone.              *)
ReadyByCriterion(c, u) ==
  /\ status[c][u] = "pending"
  /\ u \in AllSeats => c \in pre /\ \A other \in Cells : ~Blocked(other)

(* Claims.  A scoring unit waits for its cell's extractions and for the     *)
(* gate's phase; over the escalation budget an added seat is passed over.   *)

Ready(c, u) ==
  /\ status[c][u] = "pending"
  /\ u \in AllSeats => ~Blocked(c) /\ c \in pre

Deferred(c, u) == u \in Added(c) /\ OverBudget

(* The claim order of a stage: what is left of the one in memory, else read *)
(* from the ledger.  What becomes ready meanwhile is not in the first.      *)
Cached(U) == driver.cached \cap (Cells \X U)
Ordered(U) ==
  IF Cached(U) # {} THEN Cached(U) ELSE {cu \in Cells \X U : Ready(cu[1], cu[2])}

(* The batch B, with `left' still in memory of the order it came from.  A   *)
(* unit in memory is still pending, there being one driver: the guarded     *)
(* write does not miss.                                                     *)
Lease(B, U, left) ==
  /\ status' = [c \in Cells |-> [u \in Units |->
       IF <<c, u>> \in B THEN "leased" ELSE status[c][u]]]
  /\ driver' = [driver EXCEPT !.claimed = B, !.calls = B, !.headway = FALSE, !.outage = FALSE,
       !.cached = (@ \ Cached(U)) \cup left, !.stale = U = AllSeats /\ Cached(U) # {},
       !.pc = IF driver.pc = "extract" THEN "extracting" ELSE "scoring"]

ClaimExtract ==
  /\ driver.pc = "extract"
  /\ IF run # "running" \/ Ordered(Extractions) = {} \/ driver.walked >= WalkBatch
       THEN Goto("score") /\ UNCHANGED status
       ELSE \E n \in 1..Min({Width, WalkBatch - driver.walked}) : LET order_ == Ordered(Extractions) IN
              \E B \in kSubset(Min({n, Cardinality(order_)}), order_) :
                Lease(B, Extractions, order_ \ B)
  /\ UNCHANGED <<attempts, cellVars, order, run, seats, faults>>

(* Seats go in the order of the panel until the batch is full.  An order    *)
(* that had seats to pass over is forgotten, so that the next pass reads    *)
(* the ledger; one that still holds such seats behind a full batch is not.  *)
ServeSeats(T) ==
  LET B == {t \in T : ~Deferred(t[1], t[2])}
      left == Ordered(AllSeats) \ T IN
    /\ \A t \in T, l \in left : t[2] <= l[2]
    /\ \E n \in 1..Width :
         IF Cardinality(B) = n THEN \A t \in T : \E b \in B : t[2] <= b[2]
                               ELSE Cardinality(B) < n /\ left = {}
    /\ Lease(B, AllSeats, IF B = T THEN left ELSE {})

ClaimScore ==
  /\ driver.pc = "score"
  /\ IF run # "running" \/ Ordered(AllSeats) = {}
       THEN driver' = [driver EXCEPT !.pc = "pre", !.stale = FALSE] /\ UNCHANGED status
       ELSE \E T \in SUBSET Ordered(AllSeats) : ServeSeats(T)
  /\ UNCHANGED <<attempts, cellVars, order, run, seats, faults>>

-----------------------------------------------------------------------------
(* What becomes of a unit of the batch.  Calls end in any order.            *)

Ended(c, u, ok) ==
  driver' = [driver EXCEPT !.calls = @ \ {<<c, u>>}, !.headway = @ \/ ok,
    !.walked = IF ok /\ u \in Extractions THEN @ + 1 ELSE @]

(* The worker's own transaction: the payload and the done mark.  A unit its *)
(* own strikes have put back is still done by the success; a quarantined    *)
(* one is not, and its result is dropped.                                   *)
Succeed(c, u) ==
  /\ <<c, u>> \in driver.calls
  /\ status[c][u] \in Open
  /\ status' = [status EXCEPT ![c][u] = "done"]
  /\ order' = IF u \in AllSeats /\ Verdicts(c) = {} THEN Append(order, c) ELSE order
  /\ Ended(c, u, TRUE)
  /\ UNCHANGED <<attempts, cellVars, run, seats, faults>>

(* fail(): the attempt is counted and the unit put back, or quarantined at  *)
(* the ceiling, and the claim orders in memory go; the run is probed after. *)
Fail(c, u) ==
  LET n == attempts[c][u] + 1 IN
    /\ attempts' = [attempts EXCEPT ![c][u] = n]
    /\ status' = [status EXCEPT ![c][u] = IF n >= MaxAttempts THEN "quarantined" ELSE "pending"]

(* An unusable reply: the extraction worker reports each strike and calls   *)
(* again, the judge's executor reports one and gives the unit back.         *)
Strike(c, u) ==
  /\ <<c, u>> \in driver.calls
  /\ status[c][u] \in Open
  /\ Fail(c, u)
  /\ driver' = [driver EXCEPT !.cached = {}, !.unusable = TRUE,
       !.calls = IF u \in Extractions THEN @ ELSE @ \ {<<c, u>>}]
  /\ UNCHANGED <<cellVars, order, seats, faults>>
  /\ Probe

(* The strikes ran out: the extraction worker returns without a result.     *)
GiveUp(c, u) ==
  /\ <<c, u>> \in driver.calls
  /\ status[c][u] = "quarantined"
  /\ Ended(c, u, FALSE)
  /\ UNCHANGED <<ledger, cellVars, order, run, seats, faults>>

(* No fault of the unit's: a refusal for the rate, or a provider that is    *)
(* gone or changed its build.  The unit stays leased until the batch ends.  *)
Refuse(c, u, gone) ==
  /\ <<c, u>> \in driver.calls
  /\ faults < MaxFaults
  /\ faults' = faults + 1
  /\ driver' = [driver EXCEPT !.calls = @ \ {<<c, u>>}, !.outage = @ \/ gone,
       !.unusable = TRUE]
  /\ UNCHANGED <<ledger, cellVars, order, run, seats>>

(* The batch is over: what it left leased is requeued in one transaction,   *)
(* which drops the claim orders in memory when it requeued anything.        *)
EndBatch ==
  /\ driver.pc \in {"extracting", "scoring"} /\ driver.calls = {}
  /\ status' = [c \in Cells |-> [u \in Units |->
       IF <<c, u>> \in driver.claimed /\ status[c][u] = "leased"
         THEN "pending" ELSE status[c][u]]]
  /\ driver' = [driver EXCEPT !.claimed = {}, !.headway = FALSE, !.outage = FALSE,
       !.cached = IF status' = status THEN @ ELSE {},
       !.pc = CASE driver.outage -> "pausing"
                [] ~driver.outage /\ driver.pc = "extracting" /\ driver.headway -> "extract"
                [] ~driver.outage /\ driver.pc = "extracting" /\ ~driver.headway -> "score"
                [] OTHER -> "pre"]
  /\ UNCHANGED <<attempts, cellVars, order, run, seats, faults>>

(* After an outage the run is paused; what the pass would still claim is    *)
(* no longer claimable, and its hooks run.                                  *)
PauseAfterOutage ==
  /\ driver.pc = "pausing"
  /\ run' = IF run = "running" THEN "paused" ELSE run
  /\ Goto("pre")
  /\ UNCHANGED <<ledger, cellVars, order, seats, faults>>

-----------------------------------------------------------------------------
(* The gate.  Before any verdict the panel's flags cannot be read, which    *)
(* counts as insufficient: whatever the spans, the gate files its own       *)
(* extraction unit, and the bump that follows counts one attempt on it.     *)
(* A unit it filed before stands as it is.                                  *)

BeginPre ==
  /\ driver.pc = "pre"
  /\ driver' = [driver EXCEPT !.todo = ReadyPre, !.worked = ReadyPre # {}, !.pc = "verify",
       !.moved = Report # driver.seen, !.seen = Report, !.walked = 0]
  /\ UNCHANGED <<ledger, cellVars, order, run, seats, faults>>

Verify(c) ==
  /\ driver.pc = "verify" /\ driver.todo # {} /\ c = Min(driver.todo)
  /\ IF status[c][Own] = "absent"
       THEN /\ status' = [status EXCEPT ![c][Own] = "pending"]
            /\ attempts' = [attempts EXCEPT ![c][Own] = 1]
       ELSE UNCHANGED ledger
  /\ Goto("mark")
  /\ UNCHANGED <<cellVars, order, run, seats, faults>>

MarkPre(c) ==
  /\ driver.pc = "mark" /\ c = Min(driver.todo)
  /\ pre' = pre \cup {c}
  /\ driver' = [driver EXCEPT !.todo = @ \ {c}, !.pc = "verify"]
  /\ UNCHANGED <<ledger, consumed, score, review, replaced, breaker, order, run, seats, faults>>

(* The aggregate hook reads the breaker and the ready cells once.           *)
BeginAggregate ==
  /\ driver.pc = "verify" /\ driver.todo = {}
  /\ driver' = [driver EXCEPT !.todo = ReadyAggregate, !.latched = breaker,
       !.worked = @ \/ ReadyAggregate # {}, !.pc = "reverify"]
  /\ UNCHANGED <<ledger, cellVars, order, run, seats, faults>>

(* The gate again, over the panel's verdicts: no extraction is open, so the *)
(* one write it can make to the ledger is the review unit of an answer that *)
(* lies in a described graphic; without verdicts not even that.             *)
Reverify(c) ==
  /\ driver.pc = "reverify" /\ driver.todo # {} /\ c = Min(driver.todo)
  /\ \/ c \in Described /\ review' = review \cup {c} /\ Verdicts(c) # {}
     \/ UNCHANGED review
  /\ Goto("settle")
  /\ UNCHANGED <<ledger, pre, consumed, score, replaced, breaker, order, run, seats, faults>>

-----------------------------------------------------------------------------
(* Settling a cell: one transaction, with the phase but for a replacement.  *)

Settled(c) == driver' = [driver EXCEPT !.todo = @ \ {c}, !.pc = "reverify"]

(* Every seat was quarantined: the phase alone.                             *)
NoVerdicts(c) ==
  /\ Verdicts(c) = {}
  /\ consumed' = [consumed EXCEPT ![c] = Closed(c)]
  /\ Settled(c)
  /\ UNCHANGED <<ledger, score, replaced, breaker, run>>

EvenByLoss(c) ==
  LET n == Cardinality(Verdicts(c)) IN n > 2 /\ n % 2 = 0 /\ Lost(c) # {}

(* New seats drop the claim orders in memory.                               *)
NextSeats(c, n) == (Cardinality(Panel(c)) + 1)..(Cardinality(Panel(c)) + n)

Insert(c, S) ==
  status' = [status EXCEPT ![c] = [u \in Units |-> IF u \in S THEN "pending" ELSE @[u]]]

(* enqueue_replacement_arm: one further judge, once for a cell; without it  *)
(* the panel is set aside as ungradeable.                                   *)
MayReplace(c) ==
  /\ Closed(c) + 1 <= seats
  /\ c \notin replaced
  /\ ~breaker
  /\ ~OverBudget

Replace(c) ==
  /\ EvenByLoss(c) /\ MayReplace(c)
  /\ Insert(c, NextSeats(c, 1))
  /\ replaced' = replaced \cup {c}
  /\ driver' = [driver EXCEPT !.todo = @ \ {c}, !.pc = "reverify", !.cached = {}]
  /\ UNCHANGED <<attempts, consumed, score, breaker, run>>

SetAside(c) ==
  /\ EvenByLoss(c) /\ ~MayReplace(c)
  /\ score' = [score EXCEPT ![c] = [judges |-> Verdicts(c), state |-> "ungradeable"]]
  /\ consumed' = [consumed EXCEPT ![c] = Closed(c)]
  /\ Settled(c)
  /\ UNCHANGED <<ledger, replaced, breaker, run>>

(* aggregate and enqueue_escalation refuse an even panel: the hook faults,  *)
(* its transaction is undone and the run is paused.                         *)
FallsBack(c) == Cardinality(Verdicts(c)) = 2 /\ Lost(c) # {}
EvenPanel(c) ==
  /\ Verdicts(c) # {} /\ ~EvenByLoss(c) /\ ~FallsBack(c)
  /\ Cardinality(Verdicts(c)) % 2 = 0

(* Mutant: the parity check misreads a replaced unit as corruption.         *)
CorruptByCount(c) == Cardinality(Panel(c)) % 2 = 0
CorruptPlan(c) == c \notin replaced /\ Cardinality(Panel(c)) % 2 = 0

Refused(c, wants) == EvenPanel(c) \/ (wants /\ CorruptPlan(c))

(* aggregate: the state of a score over an odd panel, or over the one       *)
(* verdict kept of two.  engine says a lone verdict is a decision engine's. *)
StateOf(c, engine) ==
  CASE driver.latched -> "ungradeable"
    [] ~driver.latched /\ Cardinality(Verdicts(c)) <= 2 /\ ~engine -> "provisional"
    [] OTHER -> "final"

(* Mutant: only a replacement counts as widened before.                     *)
BeforeByReplacement(c) == c \in replaced

(* The steps of enqueue_escalation that widen nothing, in their order: the  *)
(* cell was widened or replaced before, the breaker halts it or trips on    *)
(* it, no model could fill the seats.                                       *)
Before(c) == c \in replaced \/ Added(c) # {}
Halts(c) == ~Before(c) /\ (breaker \/ Trips)
Seatless(c) == ~Before(c) /\ ~Halts(c) /\ Cardinality(Panel(c)) + 2 > seats
Widens(c) == ~Before(c) /\ ~Halts(c) /\ ~Seatless(c)

(* Mutant: the hook's copy of the breaker is not kept current.              *)
ScoreStale(c, wants, engine) ==
  /\ score' = [score EXCEPT ![c] = [judges |-> Verdicts(c), state |->
       IF wants /\ Seatless(c) /\ StateOf(c, engine) = "final"
         THEN "provisional" ELSE StateOf(c, engine)]]
  /\ IF wants /\ Widens(c) THEN Insert(c, NextSeats(c, 2)) ELSE UNCHANGED status
  /\ breaker' = (breaker \/ (wants /\ Halts(c)))
  /\ consumed' = [consumed EXCEPT ![c] = Closed(c)]
  /\ driver' = [driver EXCEPT !.todo = @ \ {c}, !.pc = "reverify",
       !.cached = IF wants /\ Widens(c) THEN {} ELSE @]
  /\ UNCHANGED <<attempts, replaced, run>>

Score(c, wants, engine) ==
  /\ score' = [score EXCEPT ![c] = [judges |-> Verdicts(c), state |->
       IF wants /\ Seatless(c) /\ StateOf(c, engine) = "final"
         THEN "provisional" ELSE StateOf(c, engine)]]
  /\ IF wants /\ Widens(c) THEN Insert(c, NextSeats(c, 2)) ELSE UNCHANGED status
  /\ breaker' = (breaker \/ (wants /\ Halts(c)))
  /\ consumed' = [consumed EXCEPT ![c] = Closed(c)]
  /\ driver' = [driver EXCEPT !.todo = @ \ {c}, !.pc = "reverify",
       !.cached = IF wants /\ Widens(c) THEN {} ELSE @, !.latched = @ \/ (wants /\ Halts(c))]
  /\ UNCHANGED <<attempts, replaced, run>>

Fault ==
  /\ run' = IF run = "running" THEN "paused" ELSE run
  /\ driver' = [Idle EXCEPT !.pc = "faulted"]
  /\ UNCHANGED <<ledger, consumed, score, replaced, breaker>>

Aggregate(c, wants, engine) ==
  /\ Verdicts(c) # {} /\ ~EvenByLoss(c)
  /\ engine => Cardinality(Verdicts(c)) = 1 /\ ~wants
  /\ IF Refused(c, wants) THEN Fault ELSE Score(c, wants, engine)

Settle(c) ==
  /\ driver.pc = "settle" /\ c = Min(driver.todo)
  /\ \/ NoVerdicts(c) \/ Replace(c) \/ SetAside(c)
     \/ \E wants, engine \in BOOLEAN : Aggregate(c, wants, engine)
  /\ UNCHANGED <<pre, review, order, seats, faults>>

-----------------------------------------------------------------------------
(* The end of a pass: a paused run is left; a run with nothing open and no  *)
(* hook work is probed; a pass that moved is followed by another; one that  *)
(* did not is tried again a few times, unless the budget is what holds it.  *)

PassDone == driver.pc = "reverify" /\ driver.todo = {}

LeavePaused ==
  /\ PassDone /\ run = "paused"
  /\ driver' = Idle
  /\ UNCHANGED <<ledger, cellVars, order, run, seats, faults>>

Finish ==
  /\ PassDone /\ run # "paused" /\ NothingOpen /\ ~driver.worked
  /\ driver' = Idle
  /\ UNCHANGED <<ledger, cellVars, order, seats, faults>>
  /\ Probe

(* Mutant: passes without headway are not counted.                          *)
NextPassTireless ==
  /\ PassDone /\ run # "paused" /\ ~(NothingOpen /\ ~driver.worked)
  /\ LET moved == driver.worked \/ driver.moved
         n == 0 IN
       IF moved \/ (~OverBudget /\ n < StallPasses)
         THEN driver' = [Idle EXCEPT !.pc = "extract", !.seen = driver.seen,
                !.cached = driver.cached, !.stalled = n]
         ELSE driver' = [driver EXCEPT !.stalled = n, !.pc = "stalled"]
  /\ UNCHANGED <<ledger, cellVars, order, run, seats, faults>>

NextPass ==
  /\ PassDone /\ run # "paused" /\ ~(NothingOpen /\ ~driver.worked)
  /\ LET moved == driver.worked \/ driver.moved
         n == IF moved THEN 0 ELSE driver.stalled + 1 IN
       IF moved \/ (~OverBudget /\ n < StallPasses)
         THEN driver' = [Idle EXCEPT !.pc = "extract", !.seen = driver.seen,
                !.cached = driver.cached, !.stalled = n]
         ELSE driver' = [driver EXCEPT !.stalled = n, !.pc = "stalled"]
  /\ UNCHANGED <<ledger, cellVars, order, run, seats, faults>>

-----------------------------------------------------------------------------
(* The operator, and the process dying.                                     *)

Pause ==
  /\ run = "running" /\ faults < MaxFaults
  /\ faults' = faults + 1
  /\ run' = "paused"
  /\ UNCHANGED <<ledger, cellVars, order, seats, driver>>

Resume ==
  /\ run = "paused" /\ driver.pc \in Stopped
  /\ run' = IF NothingOpen /\ ~AwaitingAggregation THEN "complete" ELSE "running"
  /\ UNCHANGED <<ledger, cellVars, order, seats, driver, faults>>

Crash ==
  /\ driver.pc \notin Stopped /\ faults < MaxFaults
  /\ faults' = faults + 1
  /\ driver' = Idle
  /\ UNCHANGED <<ledger, cellVars, order, run, seats>>

Drive ==
  \/ ClaimExtract \/ ClaimScore \/ EndBatch \/ PauseAfterOutage
  \/ BeginPre \/ BeginAggregate \/ LeavePaused \/ Finish \/ NextPass
  \/ \E c \in Cells : Verify(c) \/ MarkPre(c) \/ Reverify(c) \/ Settle(c)
  \/ \E c \in Cells, u \in Units : Succeed(c, u) \/ Strike(c, u) \/ GiveUp(c, u)

Next ==
  \/ Drive \/ Start \/ Pause \/ Resume \/ Crash
  \/ \E c \in Cells, u \in Units, gone \in BOOLEAN : Refuse(c, u, gone)

Spec == Init /\ [][Next]_vars

(* The driver's thread goes on, and every call it made is answered; nobody  *)
(* has to start a driver, resume a run or stop one.                         *)
FairSpec == Spec /\ WF_vars(Drive)

-----------------------------------------------------------------------------
(* Safety.                                                                  *)

(* Every variable keeps its type.                                           *)
TypeOK ==
  /\ status \in [Cells -> [Units -> {"absent"} \cup Open \cup Terminal]]
  /\ attempts \in [Cells -> [Units -> 0..MaxAttempts + 1]]
  /\ {pre, review, replaced} \subseteq SUBSET Cells
  /\ consumed \in [Cells -> {None} \cup 0..MaxSeats]
  /\ \A c \in Cells :
       /\ score[c].judges \subseteq AllSeats
       /\ score[c].state \in {"none", "final", "provisional", "ungradeable"}
  /\ breaker \in BOOLEAN
  /\ ToSet(order) \subseteq Cells
  /\ run \in {"running", "paused", "complete"}
  /\ seats \in SeatCounts
  /\ driver.claimed \subseteq Cells \X Units /\ driver.calls \subseteq driver.claimed
  /\ driver.todo \subseteq Cells
  /\ faults \in 0..MaxFaults

(* A complete run has settled every cell over the whole of its panel, the   *)
(* seats added last included: no verdict came in after the score that       *)
(* stands, and a cell without a score has no verdict.                       *)
CompleteCountsEveryVerdict ==
  run = "complete" => \A c \in Cells :
    /\ Panel(c) = Verdicts(c) \cup Lost(c)
    /\ consumed[c] = Closed(c)
    /\ score[c].judges = Verdicts(c)

(* Scoring never overtakes extraction: a seat that was ever handed out      *)
(* belongs to a cell the gate has passed on and whose extractions, the      *)
(* gate's own included, are done, whatever crashed in between.              *)
ScoringFollowsExtraction ==
  \A c \in Cells :
    (\E s \in AllSeats : status[c][s] \in {"leased"} \cup Terminal) =>
      /\ c \in pre
      /\ \A u \in Extractions : status[c][u] = "done"

(* A panel is widened by two once and repaired by one once, never past the  *)
(* models there are; what was added is on record beside the score it was    *)
(* added for, or beside the replacement request.                            *)
WidenedOnce ==
  \A c \in Cells :
    LET repair == IF c \in replaced THEN 1 ELSE 0 IN
      /\ Cardinality(Added(c)) - repair \in {0, 2}
      /\ Added(c) # {} => Cardinality(Panel(c)) <= seats
      /\ Cardinality(Added(c)) - repair = 2 => score[c] # NoScore /\ consumed[c] # None

(* The hooks meet no even panel and no corrupt plan, however many judges    *)
(* are lost and wherever the driver dies.                                   *)
HooksNeverFault == driver.pc # "faulted"

(* A driver gives up only after a pass in which a call got an answer it     *)
(* could not use, or when every open unit is held where another pass cannot *)
(* reach it: a lease nobody's driver holds, a seat of a cell whose          *)
(* extraction is held or lost, an added seat over the budget.  Over the     *)
(* budget one more cause is left: the pass was served the rest of an order  *)
(* that was read before other units became ready.                           *)
Held(c, u) ==
  \/ status[c][u] = "leased"
  \/ u \in AllSeats /\ (Blocked(c) \/ Deferred(c, u))
StallExplained ==
  driver.pc = "stalled" =>
    \/ driver.unusable
    \/ \A cu \in OpenUnits : Held(cu[1], cu[2])
    \/ OverBudget /\ driver.stale

(* Once the breaker has latched no panel of the criterion grows, and no     *)
(* score is written as final.                                               *)
BreakerHalts ==
  [][breaker => \A c \in Cells :
       /\ Added(c)' = Added(c)
       /\ score[c]' # score[c] => score[c].state' # "final"]_vars

(* A driver that runs comes to an end, whatever is refused, lost or paused. *)
DriverReturns == driver.pc \notin Stopped ~> driver.pc \in Stopped

(* What the driver's own comment says of a stall: the escalation budget is  *)
(* the one thing that another pass cannot clear.                            *)
OnlyBudgetStalls ==
  driver.pc = "stalled" =>
    OverBudget \/ \E c \in Cells, u \in Units : Ready(c, u)

=============================================================================
