----------------------------- MODULE StallProofs -----------------------------
(***************************************************************************)
(* Why a driver gives up: the stalls of Cells, for every patience, every   *)
(* width of a batch and any number of faults.                              *)
(*                                                                         *)
(* The argument.  The driver judges a pass by counts, and the first of     *)
(* them, the units done, never falls (MadeGrows).  So a pass in which a    *)
(* call ended has paid for itself: with a unit more done, or with an       *)
(* answer that was of no use (Paid).  A batch with a unit in it has such a *)
(* call.  A pass that claimed no unit either read the ledger and found     *)
(* every open unit held, or a cell for the gate, which is headway; or it   *)
(* was served an order from memory with nothing in it but seats over the   *)
(* budget (PassIsExplained).                                               *)
(***************************************************************************)
EXTENDS CellsProofs

-----------------------------------------------------------------------------
(* The inductive invariant. *)

(* The units done, which a report counts first, and whether they are more   *)
(* than at the last report.                                                 *)
Made == Count({"done"})
Moves == driver.seen = <<>> \/ Made > driver.seen[1]
Paid == driver.unusable \/ Moves

AllHeld == \A cu \in OpenUnits : Held(cu[1], cu[2])
Cause == AllHeld \/ (OverBudget /\ driver.stale)
NoExtraction == \A c \in Cells, u \in Extractions : status[c][u] # "pending"

BeforeHooks == {"extract", "extracting", "score", "scoring", "pausing", "pre"}

RunTyped == run \in {"running", "paused", "complete"}

MadeGrows == driver.seen # <<>> => driver.seen[1] \in Nat /\ driver.seen[1] <= Made

(* A pass that completed an extraction has paid; hooks without work have no *)
(* cells to visit.                                                          *)
NothingIdle ==
  /\ driver.pc \in BeforeHooks /\ driver.walked # 0 => Paid
  /\ driver.pc \in HookSteps /\ ~driver.worked => driver.todo = {}

(* What this pass has to show, or why it has nothing.                       *)
PassIsExplained ==
  run = "running" =>
    /\ driver.pc = "score" => Paid \/ NoExtraction
    /\ driver.pc \in BatchSteps =>
         \/ Paid
         \/ driver.calls # {} /\ driver.calls \subseteq OpenUnits
         \/ driver.pc = "scoring" /\ driver.claimed = {} /\ (Cause \/ ReadyPre # {})
    /\ driver.pc = "pre" => Paid \/ Cause \/ ReadyPre # {}
    /\ driver.pc \in HookSteps => driver.worked \/ driver.moved \/ driver.unusable \/ Cause

Account == MadeGrows /\ NothingIdle /\ PassIsExplained /\ StallExplained

StallInv == RunTyped /\ Account

-----------------------------------------------------------------------------
(* Counting units. *)

(* There are finitely many units.                                           *)
LEMMA UnitsAreFinite == IsFiniteSet(Cells \X Units)
<1>1. IsFiniteSet(AllSeats)
  BY SeatsAreFinite
<1>2. IsFiniteSet({Own}) /\ IsFiniteSet({Extraction})
  BY FS_Singleton
<1>3. IsFiniteSet({Own} \cup {Extraction})
  BY <1>2, FS_Union
<1>4. Units = ({Own} \cup {Extraction}) \cup AllSeats
  BY DEF Units, Extractions
<1>5. IsFiniteSet(Units)
  BY <1>1, <1>3, <1>4, FS_Union
<1> QED
  BY <1>5, CellsAssumption, FS_Product

(* A set of units has as many units as a natural number.                    *)
LEMMA UnitsCount ==
  ASSUME NEW S, S \subseteq Cells \X Units
  PROVE  IsFiniteSet(S) /\ Cardinality(S) \in Nat
BY UnitsAreFinite, FS_Subset, FS_CardinalityType

(* Fewer units are fewer.                                                   *)
LEMMA FewerUnits ==
  ASSUME NEW S, NEW T, S \subseteq T, T \subseteq Cells \X Units
  PROVE  /\ Cardinality(S) <= Cardinality(T)
         /\ S # T => Cardinality(S) < Cardinality(T)
<1>1. IsFiniteSet(T) /\ Cardinality(T) \in Nat /\ Cardinality(S) \in Nat
  BY UnitsCount
<1>2. Cardinality(S) <= Cardinality(T) /\ (Cardinality(T) = Cardinality(S) => T = S)
  BY <1>1, FS_Subset
<1> QED
  BY <1>1, <1>2

DoneUnits == {cu \in Cells \X Units : status[cu[1]][cu[2]] = "done"}

(* The first of the report's counts.                                        *)
LEMMA ReportCounts ==
  /\ Made = Cardinality(DoneUnits) /\ Made' = Cardinality(DoneUnits')
  /\ Made \in Nat /\ Made' \in Nat
  /\ Report # <<>> /\ Report[1] = Made
<1>1. {cu \in Cells \X Units : status[cu[1]][cu[2]] \in {"done"}} = DoneUnits
  BY DEF DoneUnits
<1>2. {cu \in Cells \X Units : status'[cu[1]][cu[2]] \in {"done"}} = DoneUnits'
  BY DEF DoneUnits
<1>3. Made = Cardinality(DoneUnits) /\ Made' = Cardinality(DoneUnits')
  BY <1>1, <1>2 DEF Made, Count
<1>4. DoneUnits \subseteq Cells \X Units /\ DoneUnits' \subseteq Cells \X Units
  BY DEF DoneUnits
<1>5. Report # <<>> /\ Report[1] = Made
  BY DEF Report, Made
<1> QED
  BY <1>3, <1>4, <1>5, UnitsCount

-----------------------------------------------------------------------------
(* What a step does to the counts. *)

(* Units that are only shuffled leave the counts as they are.               *)
LEMMA ShufflesKeep ==
  ASSUME Typed, \A c \in Cells, u \in Units : Shuffled(c, u)
  PROVE  OpenUnits' = OpenUnits /\ Made' = Made
<1>1. ASSUME NEW c \in Cells, NEW u \in Units
      PROVE  /\ status'[c][u] \in Open <=> status[c][u] \in Open
             /\ status'[c][u] = "done" <=> status[c][u] = "done"
  <2>1. Shuffled(c, u)
    OBVIOUS
  <2> QED
    BY <2>1 DEF Shuffled, PutBack, HandedOut, Ready, Open
<1>2. OpenUnits' = OpenUnits
  BY <1>1 DEF OpenUnits
<1>3. DoneUnits' = DoneUnits
  BY <1>1 DEF DoneUnits
<1> QED
  BY <1>2, <1>3, ReportCounts

(* No step takes back a unit that is done.                                  *)
LEMMA DoneStays ==
  ASSUME Typed, \A c \in Cells, u \in Units : UnitStep(c, u)
  PROVE  Made <= Made'
<1>1. ASSUME NEW c \in Cells, NEW u \in Units, status[c][u] = "done"
      PROVE  status'[c][u] = "done"
  <2>1. UnitStep(c, u)
    OBVIOUS
  <2> QED
    BY <1>1, <2>1 DEF UnitStep, Shuffled, PutBack, HandedOut, Ready, EndedByCall, New, Open
<1>2. DoneUnits \subseteq DoneUnits' /\ DoneUnits' \subseteq Cells \X Units
  BY <1>1 DEF DoneUnits
<1> QED
  BY <1>2, FewerUnits, ReportCounts

(* A unit done is one more.                                                 *)
LEMMA SuccessCounts ==
  ASSUME Typed, NEW c \in Cells, NEW u \in Units, Succeed(c, u)
  PROVE  Made < Made'
<1>1. status \in [Cells -> [Units -> Statuses]]
  BY DEF Typed
<1>2. status[c][u] \in Open /\ status' = [status EXCEPT ![c][u] = "done"]
  BY DEF Succeed
<1>3. /\ status'[c][u] = "done"
      /\ \A d \in Cells, v \in Units : <<d, v>> # <<c, u>> => status'[d][v] = status[d][v]
  BY <1>1, <1>2
<1>4. DoneUnits \subseteq DoneUnits' /\ DoneUnits' \subseteq Cells \X Units
  BY <1>3 DEF DoneUnits
<1>5. <<c, u>> \in DoneUnits' /\ <<c, u>> \notin DoneUnits
  BY <1>2, <1>3 DEF DoneUnits, Open
<1> QED
  BY <1>4, <1>5, FewerUnits, ReportCounts

(* What has been paid stays paid, and the counts go on, while the driver    *)
(* remembers the same report.                                               *)
LEMMA PaidStays ==
  ASSUME CellsInv, Next, MadeGrows, driver'.seen = driver.seen,
         driver.unusable => driver'.unusable
  PROVE  MadeGrows' /\ (Paid => Paid')
<1>1. Made <= Made' /\ Made \in Nat /\ Made' \in Nat
  BY EveryStep, DoneStays, ReportCounts DEF CellsInv
<1>2. MadeGrows'
  <2>1. CASE driver.seen = <<>>
    BY <2>1 DEF MadeGrows
  <2>2. CASE driver.seen # <<>>
    <3>1. driver.seen[1] \in Nat /\ driver.seen[1] <= Made
      BY <2>2 DEF MadeGrows
    <3>2. driver.seen[1] <= Made'
      BY <1>1, <3>1
    <3> QED
      BY <3>1, <3>2 DEF MadeGrows
  <2> QED
    BY <2>1, <2>2
<1>3. Moves => Moves'
  <2>1. CASE driver.seen = <<>>
    BY <2>1 DEF Moves
  <2>2. CASE driver.seen # <<>>
    <3>1. driver.seen[1] \in Nat
      BY <2>2 DEF MadeGrows
    <3>2. Made > driver.seen[1] => Made' > driver.seen[1]
      BY <1>1, <3>1
    <3> QED
      BY <2>2, <3>2 DEF Moves
  <2> QED
    BY <2>1, <2>2
<1> QED
  BY <1>2, <1>3 DEF Paid

(* What holds a unit is read off the units.                                 *)
LEMMA HeldStays ==
  ASSUME UNCHANGED <<status, pre>>
  PROVE  /\ AllHeld' <=> AllHeld
         /\ ReadyPre' = ReadyPre /\ OpenUnits' = OpenUnits
         /\ OverBudget' <=> OverBudget
<1>1. OverBudget' <=> OverBudget
  BY DEF OverBudget, Escalated, Processed, Verdicts, Added, Panel
<1>2. OpenUnits' = OpenUnits
  BY DEF OpenUnits
<1>3. \A c \in Cells, u \in Units : Held(c, u)' <=> Held(c, u)
  BY <1>1 DEF Held, Blocked, Deferred, Added, Panel
<1>4. AllHeld' <=> AllHeld
  BY <1>2, <1>3 DEF AllHeld, OpenUnits
<1>5. ReadyPre' = ReadyPre
  BY DEF ReadyPre, Extracted
<1> QED
  BY <1>1, <1>2, <1>4, <1>5

-----------------------------------------------------------------------------
(* What a step does to what the driver remembers of its passes. *)

PassKept ==
  /\ driver'.seen = driver.seen /\ driver'.unusable = driver.unusable
  /\ driver'.stale = driver.stale
WalkKept == driver'.walked = driver.walked
HeadwayKept == driver'.worked = driver.worked /\ driver'.moved = driver.moved

(* Starting, ending and dying forget it.                                    *)
LEMMA RestNotes ==
  ASSUME Start \/ LeavePaused \/ Finish \/ Crash
  PROVE  driver'.seen = <<>> /\ driver'.walked = 0 /\ driver'.pc \in {"off", "extract"}
<1>1. driver' = Idle \/ driver' = [Idle EXCEPT !.pc = "extract"]
  BY Zenon DEF Start, LeavePaused, Finish, Crash
<1> QED
  BY <1>1 DEF Idle

(* A call that ends: with a unit more done, with an answer of no use, or    *)
(* with what was known before.                                              *)
LEMMA CallNotes ==
  ASSUME Typed, NEW c \in Cells, NEW u \in Units, NEW gone \in BOOLEAN,
         Succeed(c, u) \/ Strike(c, u) \/ GiveUp(c, u) \/ Refuse(c, u, gone)
  PROVE  /\ driver'.seen = driver.seen
         /\ driver.unusable => driver'.unusable
         /\ Strike(c, u) \/ Refuse(c, u, gone) => driver'.unusable
         /\ GiveUp(c, u) => WalkKept
<1>1. DriverShape
  BY DEF Typed
<1>2. ASSUME NEW ok \in BOOLEAN, Ended(c, u, ok)
      PROVE  /\ driver'.seen = driver.seen /\ driver'.unusable = driver.unusable
             /\ ~ok => WalkKept
  <2> DEFINE walked == IF ok /\ u \in Extractions THEN driver.walked + 1 ELSE driver.walked
  <2>1. driver' = [driver EXCEPT !.calls = @ \ {<<c, u>>}, !.headway = @ \/ ok,
           !.walked = walked]
    BY <1>2 DEF Ended
  <2>2. ~ok => walked = driver.walked
    OBVIOUS
  <2> HIDE DEF walked
  <2> QED
    BY <1>1, <2>1, <2>2 DEF DriverShape, WalkKept
<1>3. ASSUME Strike(c, u) \/ Refuse(c, u, gone)
      PROVE  driver'.seen = driver.seen /\ driver'.unusable = TRUE
  <2> DEFINE calls == IF u \in Extractions THEN driver.calls ELSE driver.calls \ {<<c, u>>}
             outage == driver.outage \/ gone
             yes == TRUE
  <2>1. \/ driver' = [driver EXCEPT !.cached = {}, !.unusable = yes, !.calls = calls]
        \/ driver' = [driver EXCEPT !.calls = @ \ {<<c, u>>}, !.outage = outage,
                        !.unusable = yes]
    BY <1>3 DEF Strike, Refuse
  <2>2. yes = TRUE
    OBVIOUS
  <2> HIDE DEF calls, outage, yes
  <2>3. driver'.seen = driver.seen /\ driver'.unusable = yes
    BY <1>1, <2>1 DEF DriverShape
  <2> QED
    BY <2>2, <2>3
<1>4. \/ Succeed(c, u) /\ Ended(c, u, TRUE)
      \/ GiveUp(c, u) /\ Ended(c, u, FALSE)
      \/ Strike(c, u) \/ Refuse(c, u, gone)
  BY Zenon DEF Succeed, GiveUp
<1>5. GiveUp(c, u) => Ended(c, u, FALSE)
  BY DEF GiveUp
<1>6. \/ \E ok \in BOOLEAN : Ended(c, u, ok)
      \/ Strike(c, u) \/ Refuse(c, u, gone)
  BY <1>4
<1>7. driver'.seen = driver.seen /\ (driver.unusable => driver'.unusable)
  BY <1>2, <1>3, <1>6
<1>8. Strike(c, u) \/ Refuse(c, u, gone) => driver'.unusable
  BY <1>3
<1>9. GiveUp(c, u) => WalkKept
  BY <1>2, <1>5
<1> QED
  BY <1>7, <1>8, <1>9

(* A batch that goes out, and the order it came from.                       *)
LEMMA ServeNotes ==
  ASSUME Typed, NEW B, NEW U, NEW left, Serves(B, U, left)
  PROVE  /\ driver'.seen = driver.seen /\ driver'.unusable = driver.unusable /\ WalkKept
         /\ driver'.stale <=> (U = AllSeats /\ Cached(U) # {})
         /\ driver'.claimed = B /\ driver'.calls = B
         /\ driver'.pc = IF driver.pc = "extract" THEN "extracting" ELSE "scoring"
<1> DEFINE stale == U = AllSeats /\ Cached(U) # {}
           cached == (driver.cached \ Cached(U)) \cup left
           pc == IF driver.pc = "extract" THEN "extracting" ELSE "scoring"
<1>1. driver' = [driver EXCEPT !.claimed = B, !.calls = B, !.headway = FALSE,
         !.outage = FALSE, !.cached = cached, !.stale = stale, !.pc = pc]
  BY DEF Serves, Lease
<1>2. stale <=> (U = AllSeats /\ Cached(U) # {})
  OBVIOUS
<1>3. pc = IF driver.pc = "extract" THEN "extracting" ELSE "scoring"
  OBVIOUS
<1> HIDE DEF stale, cached, pc
<1>4. DriverShape
  BY DEF Typed
<1>5. /\ driver'.seen = driver.seen /\ driver'.unusable = driver.unusable /\ WalkKept
      /\ driver'.stale = stale /\ driver'.claimed = B /\ driver'.calls = B /\ driver'.pc = pc
  BY <1>1, <1>4 DEF DriverShape, WalkKept
<1> QED
  BY <1>2, <1>3, <1>5

(* A claim that finds nothing moves the pass on.                            *)
LEMMA PassOnNotes ==
  ASSUME Typed,
         \/ driver' = [driver EXCEPT !.pc = "score"]
         \/ driver' = [driver EXCEPT !.pc = "pre", !.stale = FALSE]
  PROVE  driver'.seen = driver.seen /\ driver'.unusable = driver.unusable /\ WalkKept
BY DEF Typed, DriverShape, WalkKept

(* The end of a batch and the pause after an outage.                        *)
LEMMA BatchNotes ==
  ASSUME Typed, EndBatch \/ PauseAfterOutage
  PROVE  PassKept /\ WalkKept
<1>1. DriverShape
  BY DEF Typed
<1>2. CASE EndBatch
  <2> DEFINE cached == IF status' = status THEN driver.cached ELSE {}
             next == CASE driver.outage -> "pausing"
                [] ~driver.outage /\ driver.pc = "extracting" /\ driver.headway -> "extract"
                [] ~driver.outage /\ driver.pc = "extracting" /\ ~driver.headway -> "score"
                [] OTHER -> "pre"
  <2>1. driver' = [driver EXCEPT !.claimed = {}, !.headway = FALSE, !.outage = FALSE,
           !.cached = cached, !.pc = next]
    BY <1>2 DEF EndBatch
  <2> HIDE DEF cached, next
  <2> QED
    BY <1>1, <2>1 DEF DriverShape, PassKept, WalkKept
<1>3. CASE PauseAfterOutage
  BY <1>1, <1>3 DEF PauseAfterOutage, Goto, DriverShape, PassKept, WalkKept
<1> QED
  BY <1>2, <1>3

(* The gate's hook begins with a report.                                    *)
LEMMA ReportNotes ==
  ASSUME Typed, BeginPre
  PROVE  /\ driver'.unusable = driver.unusable /\ driver'.stale = driver.stale
         /\ driver'.seen = Report
         /\ driver'.moved <=> Report # driver.seen
         /\ driver'.worked <=> ReadyPre # {}
<1> DEFINE seen == Report
           moved == Report # driver.seen
           worked == ReadyPre # {}
           todo == ReadyPre
<1>1. driver' = [driver EXCEPT !.todo = todo, !.worked = worked, !.pc = "verify",
                  !.moved = moved, !.seen = seen, !.walked = 0]
  BY DEF BeginPre
<1>2. (moved <=> Report # driver.seen) /\ (worked <=> ReadyPre # {}) /\ seen = Report
  OBVIOUS
<1> HIDE DEF seen, moved, worked, todo
<1>3. DriverShape
  BY DEF Typed
<1>4. /\ driver'.unusable = driver.unusable /\ driver'.stale = driver.stale
      /\ driver'.seen = seen /\ driver'.moved = moved /\ driver'.worked = worked
  BY <1>1, <1>3 DEF DriverShape
<1> QED
  BY <1>2, <1>4

(* The hooks' steps.                                                        *)
LEMMA HookNotes ==
  ASSUME CellsInv, NEW c \in Cells, Verify(c) \/ MarkPre(c) \/ Reverify(c) \/ Settle(c)
  PROVE  PassKept /\ HeadwayKept
<1>1. DriverShape
  BY DEF CellsInv, Typed
<1>2. CASE Verify(c) \/ MarkPre(c) \/ Reverify(c)
  BY <1>1, <1>2 DEF Verify, MarkPre, Reverify, Goto, DriverShape, PassKept, HeadwayKept
<1>3. CASE NoVerdicts(c) \/ Replace(c) \/ SetAside(c)
  <2>1. \/ driver' = [driver EXCEPT !.todo = @ \ {c}, !.pc = "reverify"]
        \/ driver' = [driver EXCEPT !.todo = @ \ {c}, !.pc = "reverify", !.cached = {}]
    BY <1>3 DEF NoVerdicts, Replace, SetAside, Settled
  <2> QED
    BY <1>1, <2>1 DEF DriverShape, PassKept, HeadwayKept
<1>4. ASSUME NEW wants \in BOOLEAN, NEW engine \in BOOLEAN, Score(c, wants, engine)
      PROVE  PassKept /\ HeadwayKept
  <2> DEFINE latched == driver.latched \/ (wants /\ Halts(c))
             cached == IF wants /\ Widens(c) THEN {} ELSE driver.cached
  <2>1. driver' = [driver EXCEPT !.todo = @ \ {c}, !.pc = "reverify", !.cached = cached,
           !.latched = latched]
    BY <1>4 DEF Score
  <2> HIDE DEF latched, cached
  <2> QED
    BY <1>1, <2>1 DEF DriverShape, PassKept, HeadwayKept
<1> QED
  BY <1>2, <1>3, <1>4, SettleOutcomes DEF CellsInv

(* The aggregation begins: it has work, or all is as it was.                *)
LEMMA AggregateNotes ==
  ASSUME Typed, BeginAggregate
  PROVE  /\ PassKept /\ driver'.moved = driver.moved
         /\ driver'.worked <=> (driver.worked \/ ReadyAggregate # {})
<1> DEFINE worked == driver.worked \/ ReadyAggregate # {}
           todo == ReadyAggregate
<1>1. driver' = [driver EXCEPT !.todo = todo, !.latched = breaker, !.worked = worked,
                  !.pc = "reverify"]
  BY DEF BeginAggregate
<1>2. worked <=> (driver.worked \/ ReadyAggregate # {})
  OBVIOUS
<1> HIDE DEF worked, todo
<1>3. DriverShape
  BY DEF Typed
<1>4. PassKept /\ driver'.moved = driver.moved /\ driver'.worked = worked
  BY <1>1, <1>3 DEF DriverShape, PassKept
<1> QED
  BY <1>2, <1>4

(* A pass ends: the next one starts afresh, with the counts of this one's   *)
(* report, or the driver gives up after a pass without headway.             *)
LEMMA PassNotes ==
  ASSUME Typed, NextPass
  PROVE  /\ driver'.seen = driver.seen /\ driver'.pc \in {"extract", "stalled"}
         /\ driver'.pc = "extract" => driver'.walked = 0
         /\ driver'.pc = "stalled" => PassKept /\ ~driver.worked /\ ~driver.moved
<1>1. DriverShape
  BY DEF Typed
<1>2. PICK n : \/ driver' = [Idle EXCEPT !.pc = "extract", !.seen = driver.seen,
                     !.cached = driver.cached, !.stalled = n]
               \/ /\ driver' = [driver EXCEPT !.stalled = n, !.pc = "stalled"]
                  /\ ~driver.worked /\ ~driver.moved
  BY Zenon DEF NextPass
<1>3. CASE driver' = [Idle EXCEPT !.pc = "extract", !.seen = driver.seen,
                !.cached = driver.cached, !.stalled = n]
  BY <1>3 DEF Idle
<1>4. CASE /\ driver' = [driver EXCEPT !.stalled = n, !.pc = "stalled"]
           /\ ~driver.worked /\ ~driver.moved
  BY <1>1, <1>4 DEF DriverShape, PassKept
<1> QED
  BY <1>2, <1>3, <1>4

(* A run is running, paused or complete, and runs again only when no driver *)
(* is at work.                                                              *)
LEMMA WhoRuns ==
  ASSUME Next, RunTyped
  PROVE  /\ RunTyped'
         /\ run' = "running" => run = "running" \/ Resume
<1>1. \/ run' = run
      \/ Probe
      \/ run' = IF run = "running" THEN "paused" ELSE run
      \/ run' = "paused"
      \/ Resume
  BY ZenonT(40) DEF Next, Drive, Start, ClaimExtract, ClaimScore, EndBatch, PauseAfterOutage,
    BeginPre, BeginAggregate, LeavePaused, Finish, NextPass, Verify, MarkPre, Reverify, Settle,
    NoVerdicts, Replace, SetAside, Aggregate, Score, Fault,
    Succeed, Strike, GiveUp, Refuse, Pause, Resume, Crash, cellVars
<1>2. CASE Resume
  BY <1>2 DEF Resume, RunTyped
<1>3. CASE Probe
  BY <1>3 DEF Probe, RunTyped
<1> QED
  BY <1>1, <1>2, <1>3 DEF RunTyped

-----------------------------------------------------------------------------
(* Batches. *)

(* The first call of a batch that ends pays for the pass.                   *)
LEMMA CallsPay ==
  ASSUME CellsInv, StallInv, Next,
         NEW c \in Cells, NEW u \in Units, NEW gone \in BOOLEAN,
         Succeed(c, u) \/ Strike(c, u) \/ GiveUp(c, u) \/ Refuse(c, u, gone)
  PROVE  Account'
<1>1. Typed /\ BatchIsOut /\ MadeGrows /\ NothingIdle
  BY DEF CellsInv, StallInv, Account
<1>2. /\ driver.pc \in BatchSteps /\ driver'.pc = driver.pc /\ driver'.seen = driver.seen
      /\ driver.unusable => driver'.unusable
      /\ Strike(c, u) \/ Refuse(c, u, gone) => driver'.unusable
      /\ GiveUp(c, u) => WalkKept
  BY <1>1, CallStep, CallNotes
<1>3. MadeGrows' /\ (Paid => Paid')
  BY <1>1, <1>2, PaidStays
<1>4. CASE Succeed(c, u)
  <2>1. Made < Made' /\ Made \in Nat /\ Made' \in Nat
    BY <1>1, <1>4, SuccessCounts, ReportCounts
  <2>2. Moves'
    BY <1>1, <1>2, <2>1 DEF Moves, MadeGrows
  <2> QED
    BY <1>2, <1>3, <2>2
      DEF Account, Paid, NothingIdle, PassIsExplained, StallExplained, BatchSteps, HookSteps
<1>5. CASE Strike(c, u) \/ Refuse(c, u, gone)
  <2>1. Paid'
    BY <1>2, <1>5 DEF Paid
  <2> QED
    BY <1>2, <1>3, <2>1
      DEF Account, NothingIdle, PassIsExplained, StallExplained, BatchSteps, HookSteps
<1>6. CASE GiveUp(c, u)
  <2>1. <<c, u>> \in driver.calls /\ status[c][u] = "quarantined" /\ run' = run
    BY <1>6 DEF GiveUp
  <2>2. <<c, u>> \in driver.claimed /\ <<c, u>> \notin OpenUnits
    BY <1>1, <2>1 DEF Typed, OpenUnits, Open
  <2>3. run = "running" => Paid
    BY <1>2, <2>1, <2>2 DEF StallInv, Account, PassIsExplained
  <2>4. driver'.walked # 0 => Paid
    BY <1>1, <1>2, <1>6 DEF NothingIdle, WalkKept, BatchSteps, BeforeHooks
  <2> QED
    BY <1>2, <1>3, <2>1, <2>3, <2>4
      DEF Account, NothingIdle, PassIsExplained, StallExplained, BatchSteps, HookSteps
<1> QED
  BY <1>4, <1>5, <1>6

(* What the ledger offers in memory's place: everything that is ready.      *)
LEMMA FreshOrder ==
  ASSUME NEW U, U \subseteq Units, Cached(U) = {}
  PROVE  \A c \in Cells, u \in U : Ready(c, u) => <<c, u>> \in Ordered(U)
BY DEF Ordered

(* A batch with a unit in it has a call that will end.                      *)
LEMMA BatchIsOpen ==
  ASSUME CellsInv, StallInv, Next, ClaimExtract \/ ClaimScore,
         NEW B, NEW U, NEW left, Serves(B, U, left), B # {}
  PROVE  Account'
<1>1. Typed /\ Remembered /\ MadeGrows /\ NothingIdle
  BY DEF CellsInv, StallInv, Account
<1>2. /\ driver'.seen = driver.seen /\ driver'.unusable = driver.unusable /\ WalkKept
      /\ driver'.calls = B
      /\ driver'.pc = IF driver.pc = "extract" THEN "extracting" ELSE "scoring"
  BY <1>1, ServeNotes
<1>3. MadeGrows' /\ (Paid => Paid')
  BY <1>1, <1>2, PaidStays
<1>4. B \subseteq OpenUnits'
  <2>1. \A cu \in B : Ready(cu[1], cu[2]) /\ cu \in Cells \X Units
    BY <1>1, OrderIsReady, UnitNames DEF Serves
  <2>2. B \subseteq OpenUnits
    BY <2>1 DEF OpenUnits, Ready, Open
  <2> QED
    BY <1>1, <2>2, ServeShuffles, ShufflesKeep
<1>5. driver.walked # 0 => Paid
  BY <1>1 DEF NothingIdle, BeforeHooks, ClaimExtract, ClaimScore
<1>6. NothingIdle'
  BY <1>2, <1>3, <1>5 DEF NothingIdle, WalkKept, HookSteps
<1>7. PassIsExplained' /\ StallExplained'
  BY <1>2, <1>4 DEF PassIsExplained, StallExplained, BatchSteps, HookSteps
<1> QED
  BY <1>3, <1>6, <1>7 DEF Account

(* A claim of extractions: a batch goes out, or none is left to claim, or   *)
(* enough were completed in this pass.                                      *)
LEMMA ExtractionsAreExplained ==
  ASSUME CellsInv, StallInv, Next, ClaimExtract
  PROVE  Account'
<1>1. Typed /\ Remembered /\ MadeGrows /\ NothingIdle
  BY DEF CellsInv, StallInv, Account
<1>2. WalkBatch \in Nat /\ WalkBatch # 0
  BY CellsAssumption
<1>3. CASE /\ run # "running" \/ Ordered(Extractions) = {} \/ driver.walked >= WalkBatch
           /\ driver' = [driver EXCEPT !.pc = "score"] /\ UNCHANGED status
  <2>1. /\ driver'.seen = driver.seen /\ driver'.unusable = driver.unusable /\ WalkKept
        /\ driver'.pc = "score" /\ UNCHANGED <<status, run>>
    BY <1>1, <1>3, PassOnNotes DEF ClaimExtract, Typed, DriverShape
  <2>2. MadeGrows' /\ (Paid => Paid')
    BY <1>1, <2>1, PaidStays
  <2>3. driver.walked # 0 => Paid
    BY <1>1 DEF NothingIdle, BeforeHooks, ClaimExtract
  <2>4. Ordered(Extractions) = {} => NoExtraction
    <3>1. SUFFICES ASSUME Ordered(Extractions) = {}, NEW c \in Cells, NEW u \in Extractions,
                          status[c][u] = "pending"
                   PROVE  FALSE
      BY DEF NoExtraction
    <3>2. Ready(c, u)
      BY <3>1, UnitNames DEF Ready
    <3>3. Cached(Extractions) = {}
      BY <3>1 DEF Ordered
    <3>4. <<c, u>> \in Ordered(Extractions)
      BY <3>2, <3>3, FreshOrder, UnitNames
    <3> QED
      BY <3>1, <3>4
  <2>5. run = "running" => Paid \/ NoExtraction
    BY <1>2, <1>3, <2>3, <2>4
  <2>6. NoExtraction => NoExtraction'
    BY <2>1 DEF NoExtraction
  <2> QED
    BY <2>1, <2>2, <2>3, <2>5, <2>6 DEF Account, NothingIdle, WalkKept, PassIsExplained,
      StallExplained, BatchSteps, HookSteps
<1>4. ASSUME Ordered(Extractions) # {},
             NEW n \in 1..Min({Width, WalkBatch - driver.walked}),
             NEW B \in kSubset(Min({n, Cardinality(Ordered(Extractions))}), Ordered(Extractions)),
             Lease(B, Extractions, Ordered(Extractions) \ B)
      PROVE  Account'
  <2> DEFINE size == Cardinality(Ordered(Extractions))
  <2>1. IsFiniteSet(Ordered(Extractions)) /\ size \in Nat
    BY <1>1, OrderIsReady, UnitNames, UnitsCount
  <2>2. size # 0
    BY <1>4, <2>1, FS_EmptySet
  <2>3. n \in Int /\ n >= 1
    BY <1>4
  <2>4. B \in SUBSET Ordered(Extractions) /\ Cardinality(B) = Min({n, size})
    BY <1>4 DEF kSubset
  <2> HIDE DEF size
  <2>5. Min({n, size}) \in {n, size}
    <3>1. \E x \in {n, size} : \A y \in {n, size} : x <= y
      BY <2>1, <2>3
    <3> QED
      BY <3>1 DEF Min
  <2>6. B # {}
    BY <2>2, <2>3, <2>4, <2>5, FS_EmptySet
  <2>7. Serves(B, Extractions, Ordered(Extractions) \ B)
    BY <1>4, <2>4 DEF Serves
  <2> QED
    BY <2>6, <2>7, BatchIsOpen
<1> QED
  BY <1>3, <1>4 DEF ClaimExtract, Goto

(* With nothing to claim but what the budget defers, every open unit is     *)
(* held or a cell waits for the gate.                                       *)
LEMMA NothingToClaim ==
  ASSUME Typed, NoExtraction, Cached(AllSeats) = {},
         \A cu \in Ordered(AllSeats) : Deferred(cu[1], cu[2])
  PROVE  AllHeld \/ ReadyPre # {}
<1>1. SUFFICES ASSUME NEW cu \in OpenUnits, ~Held(cu[1], cu[2]) PROVE ReadyPre # {}
  BY DEF AllHeld
<1>2. PICK c \in Cells, u \in Units : cu = <<c, u>>
  BY DEF OpenUnits
<1>3. status[c][u] = "pending" /\ ~Held(c, u)
  BY <1>1, <1>2 DEF OpenUnits, Open, Held
<1>4. u \in AllSeats
  BY <1>3, UnitNames DEF NoExtraction
<1>5. ~Blocked(c) /\ ~Deferred(c, u)
  BY <1>3, <1>4 DEF Held
<1>6. c \notin pre
  <2>1. SUFFICES ASSUME c \in pre PROVE FALSE
    OBVIOUS
  <2>2. Ready(c, u)
    BY <1>3, <1>5, <2>1 DEF Ready
  <2>3. <<c, u>> \in Ordered(AllSeats)
    BY <1>4, <2>2, FreshOrder, UnitNames
  <2> QED
    BY <1>5, <2>3
<1>7. Extracted(c)
  <2>1. \A e \in Extractions : status[c][e] \in Statuses /\ status[c][e] \notin Open
    BY <1>5, UnitNames DEF Typed, Blocked
  <2> QED
    BY <2>1 DEF Extracted, Statuses
<1> QED
  BY <1>6, <1>7 DEF ReadyPre

(* What a walk of the seats' order serves, and why it may serve nothing.    *)
LEMMA SeatsServed ==
  ASSUME NEW T \in SUBSET Ordered(AllSeats), Ordered(AllSeats) # {}, ServeSeats(T)
  PROVE  \E B, left : /\ Serves(B, AllSeats, left)
                      /\ B = {} => \A cu \in Ordered(AllSeats) : Deferred(cu[1], cu[2])
<1> DEFINE B == {t \in T : ~Deferred(t[1], t[2])}
           rest == Ordered(AllSeats) \ T
           left == IF B = T THEN rest ELSE {}
<1>1. PICK n \in 1..Width :
        IF Cardinality(B) = n THEN \A t \in T : \E b \in B : t[2] <= b[2]
                              ELSE Cardinality(B) < n /\ rest = {}
  BY DEF ServeSeats
<1>2. Serves(B, AllSeats, left)
  BY DEF ServeSeats, Serves
<1>3. ASSUME B = {} PROVE \A cu \in Ordered(AllSeats) : Deferred(cu[1], cu[2])
  <2>1. Cardinality(B) = 0
    BY <1>3, FS_EmptySet
  <2>2. n # 0
    BY CellsAssumption
  <2>3. rest = {}
    BY <1>1, <2>1, <2>2
  <2>4. T = Ordered(AllSeats)
    BY <2>3
  <2> QED
    BY <1>3, <2>4
<1> HIDE DEF B, left
<1> QED
  BY <1>2, <1>3

(* A claim of seats: a batch goes out, or there is nothing to claim, or the *)
(* order was one from memory that the budget defers.                        *)
LEMMA SeatsAreExplained ==
  ASSUME CellsInv, StallInv, Next, ClaimScore
  PROVE  Account'
<1>1. Typed /\ Remembered /\ BatchIsOut /\ MadeGrows /\ NothingIdle
  BY DEF CellsInv, StallInv, Account
<1>2. driver.pc = "score" /\ UNCHANGED <<pre, run>>
  BY DEF ClaimScore, cellVars
<1>3. driver.walked # 0 => Paid
  BY <1>1, <1>2 DEF NothingIdle, BeforeHooks
<1>4. run = "running" => Paid \/ NoExtraction
  BY <1>2 DEF StallInv, Account, PassIsExplained
<1>5. CASE /\ run # "running" \/ Ordered(AllSeats) = {}
           /\ driver' = [driver EXCEPT !.pc = "pre", !.stale = FALSE] /\ UNCHANGED status
  <2>1. /\ driver'.seen = driver.seen /\ driver'.unusable = driver.unusable /\ WalkKept
        /\ driver'.pc = "pre"
    BY <1>1, <1>5, PassOnNotes DEF Typed, DriverShape
  <2>2. MadeGrows' /\ (Paid => Paid')
    BY <1>1, <2>1, PaidStays
  <2>3. Ordered(AllSeats) = {} => Cached(AllSeats) = {}
    BY DEF Ordered
  <2>4. run = "running" => Paid \/ AllHeld \/ ReadyPre # {}
    BY <1>1, <1>4, <1>5, <2>3, NothingToClaim
  <2>5. run = "running" => Paid' \/ AllHeld' \/ ReadyPre' # {}
    BY <1>2, <1>5, <2>2, <2>4, HeldStays
  <2> QED
    BY <1>2, <1>3, <2>1, <2>2, <2>5 DEF Account, NothingIdle, WalkKept, PassIsExplained, Cause,
      StallExplained, BatchSteps, HookSteps
<1>6. ASSUME NEW T \in SUBSET Ordered(AllSeats), Ordered(AllSeats) # {}, ServeSeats(T)
      PROVE  Account'
  <2>1. PICK B, left : /\ Serves(B, AllSeats, left)
                       /\ B = {} => \A cu \in Ordered(AllSeats) : Deferred(cu[1], cu[2])
    BY <1>6, SeatsServed
  <2>2. CASE B # {}
    BY <2>1, <2>2, BatchIsOpen
  <2>3. CASE B = {}
    <3>1. /\ driver'.seen = driver.seen /\ driver'.unusable = driver.unusable /\ WalkKept
          /\ driver'.stale <=> Cached(AllSeats) # {}
          /\ driver'.claimed = {} /\ driver'.pc = "scoring"
      BY <1>1, <1>2, <2>1, <2>3, ServeNotes
    <3>2. MadeGrows' /\ (Paid => Paid')
      BY <1>1, <3>1, PaidStays
    <3>3. status' = status
      BY <1>1, <2>1, <2>3 DEF Serves, Lease, Typed
    <3>4. CASE Cached(AllSeats) = {}
      <4>1. run = "running" => Paid' \/ AllHeld' \/ ReadyPre' # {}
        BY <1>1, <1>2, <1>4, <2>1, <2>3, <3>2, <3>3, <3>4, NothingToClaim, HeldStays
      <4> QED
        BY <1>2, <1>3, <3>1, <3>2, <4>1 DEF Account, NothingIdle, WalkKept, PassIsExplained,
          Cause, StallExplained, BatchSteps, HookSteps
    <3>5. CASE Cached(AllSeats) # {}
      <4>1. OverBudget
        BY <1>6, <2>1, <2>3 DEF Deferred
      <4>2. OverBudget' /\ driver'.stale
        BY <1>2, <3>1, <3>3, <3>5, <4>1, HeldStays
      <4> QED
        BY <1>3, <3>1, <3>2, <4>2 DEF Account, NothingIdle, WalkKept, PassIsExplained, Cause,
          StallExplained, BatchSteps, HookSteps
    <3> QED
      BY <3>4, <3>5
  <2> QED
    BY <2>2, <2>3
<1> QED
  BY <1>5, <1>6 DEF ClaimScore

-----------------------------------------------------------------------------
(* Between the batches. *)

(* Starting, ending and dying leave nothing to explain.                     *)
LEMMA RestIsExplained ==
  ASSUME Start \/ LeavePaused \/ Finish \/ Crash
  PROVE  Account'
<1>1. driver'.seen = <<>> /\ driver'.walked = 0 /\ driver'.pc \in {"off", "extract"}
  BY RestNotes
<1> QED
  BY <1>1 DEF Account, MadeGrows, NothingIdle, PassIsExplained, StallExplained,
    BatchSteps, HookSteps

(* A batch that is over has paid, or had no unit in it for a reason.        *)
LEMMA EndedBatchIsExplained ==
  ASSUME CellsInv, StallInv, Next, EndBatch
  PROVE  Account'
<1>1. Typed /\ MadeGrows /\ NothingIdle
  BY DEF CellsInv, StallInv, Account
<1>2. /\ driver'.seen = driver.seen /\ driver'.unusable = driver.unusable
      /\ driver'.stale = driver.stale /\ driver'.walked = driver.walked
      /\ driver'.pc \in {"pausing", "extract", "score", "pre"}
      /\ driver.pc \in BatchSteps /\ driver.calls = {} /\ UNCHANGED <<run, pre>>
  BY <1>1, BatchNotes, BatchEndStep DEF PassKept, WalkKept, EndBatch, BatchSteps, cellVars
<1>3. MadeGrows' /\ (Paid => Paid')
  BY <1>1, <1>2, PaidStays
<1>4. NothingIdle'
  BY <1>1, <1>2, <1>3 DEF NothingIdle, BeforeHooks, BatchSteps, HookSteps
<1>5. ASSUME run = "running", ~Paid
      PROVE  driver'.pc \notin {"extract", "score"} /\ (Cause \/ ReadyPre # {})' /\ ~Paid
  <2>1. driver.pc = "scoring" /\ driver.claimed = {} /\ (Cause \/ ReadyPre # {})
    BY <1>2, <1>5 DEF StallInv, Account, PassIsExplained
  <2>2. status' = status
    BY <1>1, <2>1 DEF EndBatch, Typed
  <2>3. driver'.pc \in {"pausing", "pre"}
    <3> DEFINE next == CASE driver.outage -> "pausing"
                [] ~driver.outage /\ driver.pc = "extracting" /\ driver.headway -> "extract"
                [] ~driver.outage /\ driver.pc = "extracting" /\ ~driver.headway -> "score"
                [] OTHER -> "pre"
               cached == IF status' = status THEN driver.cached ELSE {}
    <3>1. driver' = [driver EXCEPT !.claimed = {}, !.headway = FALSE, !.outage = FALSE,
             !.cached = cached, !.pc = next]
      BY DEF EndBatch
    <3>2. next \in {"pausing", "pre"}
      BY <2>1
    <3> HIDE DEF next, cached
    <3> QED
      BY <1>1, <3>1, <3>2 DEF Typed, DriverShape
  <2>4. (Cause \/ ReadyPre # {})'
    BY <1>2, <2>1, <2>2, HeldStays DEF Cause
  <2> QED
    BY <1>5, <2>3, <2>4
<1>6. PassIsExplained' /\ StallExplained'
  BY <1>2, <1>3, <1>5 DEF PassIsExplained, StallExplained, BatchSteps, HookSteps
<1> QED
  BY <1>3, <1>4, <1>6 DEF Account

(* A run paused for an outage gives the driver nothing to give up on.       *)
LEMMA OutageIsExplained ==
  ASSUME CellsInv, StallInv, Next, PauseAfterOutage
  PROVE  Account'
<1>1. Typed /\ MadeGrows /\ NothingIdle
  BY DEF CellsInv, StallInv, Account
<1>2. /\ driver'.seen = driver.seen /\ driver'.unusable = driver.unusable
      /\ driver'.walked = driver.walked /\ driver.pc = "pausing" /\ driver'.pc = "pre"
  BY <1>1, BatchNotes, PauseAfterOutageStep DEF PassKept, WalkKept, Passing
<1>3. run' # "running"
  BY DEF PauseAfterOutage
<1>4. MadeGrows' /\ (Paid => Paid')
  BY <1>1, <1>2, PaidStays
<1> QED
  BY <1>1, <1>2, <1>3, <1>4
    DEF Account, NothingIdle, PassIsExplained, StallExplained, BeforeHooks, HookSteps

-----------------------------------------------------------------------------
(* The hooks and the end of a pass. *)

(* The gate's hook: what was paid shows in the counts.                      *)
LEMMA GateIsExplained ==
  ASSUME CellsInv, StallInv, Next, BeginPre
  PROVE  Account'
<1>1. Typed /\ MadeGrows
  BY DEF CellsInv, StallInv, Account
<1>2. /\ driver'.unusable = driver.unusable /\ driver'.stale = driver.stale
      /\ driver'.seen = Report
      /\ driver'.moved <=> Report # driver.seen
      /\ driver'.worked <=> ReadyPre # {}
      /\ driver.pc = "pre" /\ driver'.pc = "verify" /\ driver'.todo = ReadyPre
      /\ UNCHANGED <<status, pre, run>>
  BY <1>1, ReportNotes, BeginPreStep DEF Passing, BeginPre, ledger, cellVars
<1>3. Report # <<>> /\ Report[1] = Made /\ Made \in Nat
  BY ReportCounts
<1>4. Made' = Made
  BY <1>2 DEF Made, Count
<1>5. MadeGrows'
  BY <1>2, <1>3, <1>4 DEF MadeGrows
<1>6. Moves => driver'.moved
  BY <1>1, <1>2, <1>3 DEF Moves, MadeGrows
<1>7. Cause => Cause'
  BY <1>2, HeldStays DEF Cause
<1>8. run = "running" => Paid \/ Cause \/ ReadyPre # {}
  BY <1>2 DEF StallInv, Account, PassIsExplained
<1>9. run' = "running" => driver'.worked \/ driver'.moved \/ driver'.unusable \/ Cause'
  BY <1>2, <1>6, <1>7, <1>8 DEF Paid
<1>10. NothingIdle'
  BY <1>2 DEF NothingIdle, BeforeHooks, HookSteps
<1>11. PassIsExplained' /\ StallExplained'
  BY <1>2, <1>9 DEF PassIsExplained, StallExplained, BatchSteps, HookSteps
<1> QED
  BY <1>5, <1>10, <1>11 DEF Account

(* The aggregate hook.                                                      *)
LEMMA AggregationIsExplained ==
  ASSUME CellsInv, StallInv, Next, BeginAggregate
  PROVE  Account'
<1>1. Typed /\ MadeGrows
  BY DEF CellsInv, StallInv, Account
<1>2. /\ driver'.seen = driver.seen /\ driver'.unusable = driver.unusable
      /\ driver'.stale = driver.stale /\ driver'.moved = driver.moved
      /\ driver'.worked <=> (driver.worked \/ ReadyAggregate # {})
      /\ driver.pc = "verify" /\ driver'.pc = "reverify" /\ driver'.todo = ReadyAggregate
      /\ UNCHANGED <<status, pre, run>>
  BY <1>1, AggregateNotes, BeginAggregateStep
    DEF PassKept, Passing, BeginAggregate, ledger, cellVars
<1>3. MadeGrows'
  BY <1>1, <1>2, PaidStays
<1>4. Cause => Cause'
  BY <1>2, HeldStays DEF Cause
<1>5. run = "running" => driver.worked \/ driver.moved \/ driver.unusable \/ Cause
  BY <1>2 DEF StallInv, Account, PassIsExplained, HookSteps
<1>6. NothingIdle'
  BY <1>2 DEF NothingIdle, BeforeHooks, HookSteps
<1>7. PassIsExplained' /\ StallExplained'
  BY <1>2, <1>4, <1>5 DEF PassIsExplained, StallExplained, BatchSteps, HookSteps
<1> QED
  BY <1>3, <1>6, <1>7 DEF Account

(* A hook at a cell has work.                                               *)
LEMMA HooksAreExplained ==
  ASSUME CellsInv, StallInv, Next,
         NEW c \in Cells, Verify(c) \/ MarkPre(c) \/ Reverify(c) \/ Settle(c)
  PROVE  Account'
<1>1. Typed /\ PanelsHold /\ TodoIsReady /\ MadeGrows /\ NothingIdle
  BY DEF CellsInv, StallInv, Account
<1>2. /\ driver'.seen = driver.seen /\ driver'.unusable = driver.unusable
      /\ driver'.worked = driver.worked
  BY HookNotes DEF PassKept, HeadwayKept
<1>3. /\ driver.pc \in HookSteps /\ driver'.pc \in HookSteps
      /\ driver.todo # {}
  BY <1>1, VerifyDrives, MarkPreStep, ReverifyStep, SettleDrives
    DEF Passing, HookSteps, TodoIsReady, MarkPre, Settle
<1>4. driver.worked
  BY <1>1, <1>3 DEF NothingIdle
<1>5. MadeGrows'
  BY <1>1, <1>2, PaidStays
<1> QED
  BY <1>2, <1>3, <1>4, <1>5 DEF Account, NothingIdle, PassIsExplained, StallExplained,
    BeforeHooks, BatchSteps, HookSteps

(* A pass ends: with headway in another one, without it for a cause.        *)
LEMMA PassEndIsExplained ==
  ASSUME CellsInv, StallInv, Next, NextPass
  PROVE  Account'
<1>1. Typed /\ MadeGrows /\ CompleteIsOver
  BY DEF CellsInv, StallInv, Account
<1>2. /\ driver'.seen = driver.seen /\ driver'.pc \in {"extract", "stalled"}
      /\ driver'.pc = "extract" => driver'.walked = 0
      /\ driver'.pc = "stalled" => PassKept /\ ~driver.worked /\ ~driver.moved
  BY <1>1, PassNotes
<1>3. /\ driver.pc = "reverify" /\ run # "paused" /\ ~(NothingOpen /\ ~driver.worked)
      /\ UNCHANGED <<status, pre>>
  BY DEF NextPass, PassDone, ledger, cellVars
<1>4. MadeGrows'
  <2>1. Made' = Made
    BY <1>3 DEF Made, Count
  <2> QED
    BY <1>1, <1>2, <2>1 DEF MadeGrows
<1>5. ASSUME driver'.pc = "stalled" PROVE StallExplained'
  <2>1. run = "running"
    BY <1>1, <1>2, <1>3, <1>5 DEF CompleteIsOver, StallInv, RunTyped
  <2>2. driver.unusable \/ Cause
    BY <1>2, <1>3, <1>5, <2>1 DEF StallInv, Account, PassIsExplained, HookSteps
  <2>3. (driver.unusable \/ Cause)'
    BY <1>2, <1>3, <1>5, <2>2, HeldStays DEF PassKept, Cause
  <2> QED
    BY <2>3 DEF StallExplained, Cause, AllHeld
<1>6. NothingIdle' /\ PassIsExplained'
  BY <1>2 DEF NothingIdle, PassIsExplained, BeforeHooks, BatchSteps, HookSteps
<1> QED
  BY <1>2, <1>4, <1>5, <1>6 DEF Account, StallExplained

(* The operator's requests change nothing the driver goes by.               *)
LEMMA RequestsAreExplained ==
  ASSUME CellsInv, StallInv, Next, Pause \/ Resume
  PROVE  Account'
<1>1. Typed /\ MadeGrows /\ NothingIdle
  BY DEF CellsInv, StallInv, Account
<1>2. driver' = driver /\ UNCHANGED <<status, pre>> /\ (Resume => driver.pc \in Stopped)
  BY <1>1, OperatorLeavesDriver DEF ledger, cellVars
<1>3. Made' = Made
  BY <1>2 DEF Made, Count
<1>4. MadeGrows'
  BY <1>1, <1>2, <1>3 DEF MadeGrows
<1>5. Paid' <=> Paid
  BY <1>2, <1>3 DEF Paid, Moves
<1>6. NothingIdle'
  BY <1>1, <1>2, <1>5 DEF NothingIdle
<1>7. run' = "running" => driver.pc \in Stopped
  BY <1>2 DEF Pause
<1>8. PassIsExplained'
  BY <1>2, <1>7 DEF PassIsExplained, Stopped, BatchSteps, HookSteps
<1>9. StallExplained'
  BY <1>1, <1>2, HeldStays DEF StallInv, Account, StallExplained, AllHeld
<1> QED
  BY <1>4, <1>6, <1>8, <1>9 DEF Account

-----------------------------------------------------------------------------
(* The invariant. *)

(* The initial states have nothing to explain.                              *)
LEMMA InitIsExplained == Init => StallInv
<1>1. SUFFICES ASSUME Init PROVE StallInv
  OBVIOUS
<1>2. driver = Idle /\ run = "running"
  BY <1>1 DEF Init
<1>3. driver.seen = <<>> /\ driver.pc = "off"
  BY <1>2 DEF Idle
<1> QED
  BY <1>2, <1>3 DEF StallInv, RunTyped, Account, MadeGrows, NothingIdle, PassIsExplained,
    StallExplained, BeforeHooks, BatchSteps, HookSteps

(* Every step keeps the account.                                            *)
LEMMA StepIsExplained ==
  ASSUME CellsInv, StallInv, Next
  PROVE  StallInv'
<1>1. RunTyped'
  BY WhoRuns DEF StallInv
<1>2. Account'
  BY WhoActs, RestIsExplained, CallsPay, ExtractionsAreExplained, SeatsAreExplained,
    EndedBatchIsExplained, OutageIsExplained, GateIsExplained, AggregationIsExplained,
    PassEndIsExplained, HooksAreExplained, RequestsAreExplained
<1> QED
  BY <1>1, <1>2 DEF StallInv

(* So does a step that changes nothing.                                     *)
LEMMA StutterIsExplained ==
  ASSUME StallInv, UNCHANGED vars
  PROVE  StallInv'
<1>1. UNCHANGED <<status, pre, run, driver>>
  BY DEF vars, ledger, cellVars
<1>2. Made' = Made
  BY <1>1 DEF Made, Count
<1>3. (AllHeld' <=> AllHeld) /\ ReadyPre' = ReadyPre /\ OpenUnits' = OpenUnits
      /\ (OverBudget' <=> OverBudget)
  BY <1>1, HeldStays
<1>4. (Paid' <=> Paid) /\ (Cause' <=> Cause) /\ (NoExtraction' <=> NoExtraction)
  BY <1>1, <1>2, <1>3 DEF Paid, Moves, Cause, NoExtraction
<1>5. MadeGrows' /\ RunTyped'
  BY <1>1, <1>2 DEF StallInv, Account, MadeGrows, RunTyped
<1>6. NothingIdle'
  BY <1>1, <1>4 DEF StallInv, Account, NothingIdle
<1>7. PassIsExplained'
  BY <1>1, <1>3, <1>4 DEF StallInv, Account, PassIsExplained
<1>8. StallExplained'
  BY <1>1, <1>3 DEF StallInv, Account, StallExplained, AllHeld
<1> QED
  BY <1>5, <1>6, <1>7, <1>8 DEF StallInv, Account

(* A driver gives up only after a pass in which some call got an answer it  *)
(* could not use, or with every open unit held where another pass cannot    *)
(* reach it; over the escalation budget, where it gives up at once, also    *)
(* after a pass that was served the rest of a claim order read before other *)
(* units became ready: leasing.py's cached order, driver.py's stall.        *)
THEOREM StallsAreExplained == Spec => []StallExplained
<1>1. Init => StallInv
  BY InitIsExplained
<1>2. CellsInv /\ StallInv /\ [Next]_vars => StallInv'
  BY StepIsExplained, StutterIsExplained
<1>3. StallInv => StallExplained
  BY DEF StallInv, Account
<1> QED
  BY <1>1, <1>2, <1>3, CellsInvariant, PTL DEF Spec

=============================================================================
