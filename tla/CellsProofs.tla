----------------------------- MODULE CellsProofs -----------------------------
(***************************************************************************)
(* What TLAPS proves of the cells of a run: for every number of cells,     *)
(* every width of a batch, every breaker and budget, and any number of     *)
(* faults.                                                                 *)
(*                                                                         *)
(* The argument.  A step treats a cell in one of three ways (CellStep): it *)
(* leaves the cell's panel as it is, it closes one seat of it, or it       *)
(* settles the cell; and a cell is only ever settled whole, with every     *)
(* seat of its panel done or lost.  The last is the point: the hooks read  *)
(* the cells that are ready once, and settle them one by one afterwards,   *)
(* so that nothing may touch the panel of a cell that waits (TodoIsReady). *)
(* Panels, what a score counted and what a replacement request implies are *)
(* then facts of one cell's step; the order of extraction and scoring is a *)
(* fact of one unit's (UnitStep).                                          *)
(***************************************************************************)
EXTENDS Cells, FiniteSetTheorems, WellFoundedInduction, TLAPS

-----------------------------------------------------------------------------
(* The inductive invariant. *)

Statuses == {"absent"} \cup Open \cup Terminal

(* The driver's record, by its fields, and what the sets in it hold.        *)
DriverShape ==
  driver \in [pc : {driver.pc}, claimed : {driver.claimed}, calls : {driver.calls},
              headway : {driver.headway}, outage : {driver.outage}, todo : {driver.todo},
              worked : {driver.worked}, moved : {driver.moved}, latched : {driver.latched},
              seen : {driver.seen}, stalled : {driver.stalled}, walked : {driver.walked},
              cached : {driver.cached}, unusable : {driver.unusable}, stale : {driver.stale}]

States == {"none", "final", "provisional", "ungradeable"}

Typed ==
  /\ status \in [Cells -> [Units -> Statuses]]
  /\ pre \subseteq Cells /\ replaced \subseteq Cells
  /\ consumed \in [Cells -> {None} \cup Nat]
  /\ score \in [Cells -> [judges : SUBSET AllSeats, state : States]]
  /\ seats \in SeatCounts
  /\ DriverShape
  /\ driver.claimed \subseteq Cells \X Units
  /\ driver.calls \subseteq driver.claimed
  /\ driver.todo \subseteq Cells
  /\ driver.cached \subseteq Cells \X Units

(* The units of a batch are out only while it is under way.                 *)
BatchIsOut ==
  driver.pc \notin {"extracting", "scoring"} => driver.claimed = {}

(* What is in memory of the claim orders is what the ledger would still     *)
(* offer: nothing that is out, nothing that ended or was put back since.    *)
Remembered ==
  \A cu \in driver.cached : Ready(cu[1], cu[2]) /\ cu \notin driver.claimed

(* The gate has passed a cell on, both extractions behind it.               *)
Passed(c) == c \in pre /\ \A u \in Extractions : status[c][u] = "done"

BatchHasPassed ==
  \A cu \in driver.claimed : cu[2] \in AllSeats => Passed(cu[1])

(* Every cell has its enumerated extraction, and a cell the gate has passed *)
(* on has the gate's own.                                                   *)
Filed ==
  \A c \in Cells :
    /\ status[c][Extraction] # "absent"
    /\ c \in pre => status[c][Own] # "absent"

(* Every seat of the panel is done or lost.                                 *)
Whole(c) == Panel(c) = Verdicts(c) \cup Lost(c)

(* What a hook has yet to visit is still as the hook found it.              *)
TodoIsReady ==
  /\ driver.pc \in {"mark", "settle"} => driver.todo # {}
  /\ driver.pc = "mark" => status[Min(driver.todo)][Own] # "absent"
  /\ driver.pc \in {"reverify", "settle"} => \A c \in driver.todo : Whole(c)

(* A panel is a prefix of the seats: the enumerated judges, two more once,  *)
(* one more once for a judge that was lost.                                 *)
Size(c) == Cardinality(Panel(c))
Repair(c) == IF c \in replaced THEN 1 ELSE 0

PanelOf(c) ==
  /\ Panel(c) = 1..Size(c)
  /\ Size(c) \in Nat /\ Size(c) <= MaxSeats
  /\ Size(c) = BaseOf[c] + Repair(c) \/ Size(c) = BaseOf[c] + Repair(c) + 2
  /\ Size(c) # BaseOf[c] => Size(c) <= seats
  /\ Size(c) = BaseOf[c] + Repair(c) + 2 => score[c].judges # {} /\ consumed[c] # None
  /\ c \in replaced => Lost(c) # {}

(* A score counts verdicts there are, and a cell with nothing closed since  *)
(* it was settled is scored over all of them.                               *)
CountOf(c) ==
  /\ score[c].judges \subseteq Verdicts(c)
  /\ consumed[c] <= Closed(c)
  /\ consumed[c] = Closed(c) => score[c].judges = Verdicts(c)

PanelsHold == \A c \in Cells : PanelOf(c)
CountsHold == \A c \in Cells : CountOf(c)

(* The hook's copy of the breaker is current while it settles.              *)
LatchIsCurrent ==
  driver.pc \in {"reverify", "settle"} /\ breaker => driver.latched

(* A complete run is left alone.                                            *)
CompleteIsOver ==
  run = "complete" =>
    /\ NothingOpen
    /\ \A c \in Cells : c \in pre /\ consumed[c] = Closed(c)
    /\ driver.pc \notin {"mark", "settle"}
    /\ driver.pc \in {"verify", "reverify"} => driver.todo = {}

CellsInv ==
  /\ Typed
  /\ BatchIsOut
  /\ Remembered
  /\ BatchHasPassed
  /\ Filed
  /\ TodoIsReady
  /\ PanelsHold
  /\ CountsHold
  /\ ScoringFollowsExtraction
  /\ LatchIsCurrent
  /\ CompleteIsOver
  /\ HooksNeverFault

-----------------------------------------------------------------------------
(* Sets of seats. *)

(* What the assumptions say of the numbers of a run.                        *)
LEMMA Bounds ==
  /\ MaxSeats \in Nat
  /\ \A n \in SeatCounts : n \in Nat /\ n <= MaxSeats
  /\ \A c \in Cells : BaseOf[c] \in Nat /\ BaseOf[c] <= MaxSeats /\ BaseOf[c] % 2 = 1
BY CellsAssumption

(* A set of seats is finite, and has as many seats as a natural number.     *)
LEMMA SeatsAreFinite ==
  ASSUME NEW S, S \subseteq AllSeats
  PROVE  IsFiniteSet(S) /\ Cardinality(S) \in Nat
<1>1. 1 \in Int /\ MaxSeats \in Int
  BY Bounds
<1>2. IsFiniteSet(1..MaxSeats)
  BY <1>1, FS_Interval
<1>3. IsFiniteSet(S)
  BY <1>2, FS_Subset DEF AllSeats
<1> QED
  BY <1>3, FS_CardinalityType

(* Fewer seats are fewer, and as many of them are the same.                 *)
LEMMA SubsetOfSeats ==
  ASSUME NEW S, NEW T, S \subseteq T, T \subseteq AllSeats
  PROVE  /\ Cardinality(S) <= Cardinality(T)
         /\ Cardinality(S) = Cardinality(T) => S = T
<1>1. IsFiniteSet(T)
  BY SeatsAreFinite
<1> QED
  BY <1>1, FS_Subset

(* One more seat is one more.                                               *)
LEMMA OneMoreSeat ==
  ASSUME NEW S, S \subseteq AllSeats, NEW s, s \notin S
  PROVE  Cardinality(S \cup {s}) = Cardinality(S) + 1
<1>1. IsFiniteSet(S)
  BY SeatsAreFinite
<1> QED
  BY <1>1, FS_AddElement

(* The first n seats are n.                                                 *)
LEMMA FirstSeats ==
  ASSUME NEW n \in Nat
  PROVE  Cardinality(1..n) = n
BY FS_Interval

-----------------------------------------------------------------------------
(* Steps, cell by cell. *)

(* The panel of a cell is as it was, and nothing is noted of it.            *)
Kept(c) ==
  score'[c] = score[c] /\ consumed'[c] = consumed[c] /\ (c \in replaced' <=> c \in replaced)

Same(c) ==
  Panel(c)' = Panel(c) /\ Verdicts(c)' = Verdicts(c) /\ Lost(c)' = Lost(c)

(* A seat of the panel ends, with a verdict or without one.                 *)
Closing(c) ==
  /\ Panel(c)' = Panel(c)
  /\ \E s \in Panel(c) \ (Verdicts(c) \cup Lost(c)) :
       \/ Verdicts(c)' = Verdicts(c) \cup {s} /\ Lost(c)' = Lost(c)
       \/ Verdicts(c)' = Verdicts(c) /\ Lost(c)' = Lost(c) \cup {s}

(* The panel gets its next n seats.                                         *)
Grows(c, n) ==
  /\ c \notin replaced /\ Size(c) + n <= seats
  /\ Panel(c)' = 1..(Size(c) + n)

Unmoved(c) == Panel(c)' = Panel(c) /\ (c \in replaced' <=> c \in replaced)
Counts(c) == score'[c].judges = Verdicts(c) /\ consumed'[c] = Closed(c)

(* A whole panel is settled: with its score, or by asking for one more.     *)
Settling(c) ==
  /\ Whole(c)
  /\ Verdicts(c)' = Verdicts(c) /\ Lost(c)' = Lost(c)
  /\ \/ Unmoved(c) /\ Counts(c)
     \/ /\ Unmoved(c) /\ Verdicts(c) = {}
        /\ score'[c] = score[c] /\ consumed'[c] = Closed(c)
     \/ /\ Grows(c, 1) /\ Lost(c) # {} /\ c \in replaced'
        /\ score'[c] = score[c] /\ consumed'[c] = consumed[c]
     \/ /\ Grows(c, 2) /\ Added(c) = {} /\ c \notin replaced' /\ Verdicts(c) # {}
        /\ Counts(c)

CellStep(c) ==
  \/ (Same(c) \/ Closing(c)) /\ Kept(c)
  \/ Settling(c)

(* What every lemma on the sets of a cell starts from.                      *)
LEMMA SetsOfCell ==
  ASSUME NEW c \in Cells
  PROVE  /\ Panel(c) \subseteq AllSeats /\ Verdicts(c) \subseteq Panel(c)
         /\ Lost(c) \subseteq Panel(c) /\ Verdicts(c) \cap Lost(c) = {}
         /\ Panel(c)' \subseteq AllSeats /\ Verdicts(c)' \subseteq Panel(c)'
         /\ Lost(c)' \subseteq Panel(c)' /\ Verdicts(c)' \cap Lost(c)' = {}
BY DEF Panel, Verdicts, Lost

-----------------------------------------------------------------------------
(* What a step does to one cell. *)

(* A cell that is only closed further keeps its panel's shape.              *)
LEMMA PanelIsKept ==
  ASSUME NEW c \in Cells, PanelOf(c), seats' = seats,
         Panel(c)' = Panel(c), Lost(c) \subseteq Lost(c)', Kept(c)
  PROVE  PanelOf(c)'
<1>1. Size(c)' = Size(c) /\ Repair(c)' = Repair(c)
  BY DEF Size, Repair, Kept
<1>2. c \in replaced' => Lost(c)' # {}
  BY DEF Kept, PanelOf
<1> QED
  BY <1>1, <1>2 DEF PanelOf, Kept

(* A panel that grows has as many seats more.                               *)
LEMMA PanelGrows ==
  ASSUME NEW c \in Cells, PanelOf(c), NEW n \in Nat, Grows(c, n), seats \in SeatCounts
  PROVE  /\ Size(c)' = Size(c) + n /\ Panel(c)' = 1..Size(c)'
         /\ Size(c)' \in Nat /\ Size(c)' <= MaxSeats /\ Size(c)' <= seats
         /\ Size(c) = BaseOf[c] \/ Size(c) = BaseOf[c] + 2
<1>1. Size(c) \in Nat /\ Size(c) + n \in Nat
  BY DEF PanelOf
<1>2. Size(c)' = Size(c) + n
  BY <1>1, FirstSeats DEF Grows, Size
<1>3. Panel(c)' = 1..(Size(c) + n) /\ Size(c) + n <= seats /\ c \notin replaced
  BY DEF Grows
<1>4. seats \in Nat /\ MaxSeats \in Nat /\ seats <= MaxSeats
  BY Bounds
<1>5. Repair(c) = 0
  BY <1>3 DEF Repair
<1>6. Size(c) = BaseOf[c] \/ Size(c) = BaseOf[c] + 2
  BY <1>5, Bounds DEF PanelOf
<1>7. Size(c) + n <= MaxSeats
  BY <1>1, <1>3, <1>4
<1> QED
  BY <1>1, <1>2, <1>3, <1>6, <1>7

(* A cell that is settled keeps its panel's shape.                          *)
LEMMA SettledPanel ==
  ASSUME NEW c \in Cells, PanelOf(c), CountOf(c), Settling(c), seats' = seats,
         seats \in SeatCounts, consumed[c] \in {None} \cup Nat
  PROVE  PanelOf(c)'
<1>1. Closed(c) \in Nat
  BY SeatsAreFinite, SetsOfCell DEF Closed
<1>2. CASE Unmoved(c) /\ Counts(c)
  <2>1. Size(c)' = Size(c) /\ Repair(c)' = Repair(c)
    BY <1>2 DEF Unmoved, Size, Repair
  <2>2. Lost(c)' = Lost(c) /\ Panel(c)' = Panel(c) /\ (c \in replaced' <=> c \in replaced)
    BY <1>2 DEF Unmoved, Settling
  <2>3. consumed'[c] # None
    BY <1>1, <1>2 DEF Counts, None
  <2>4. score'[c].judges = Verdicts(c) /\ score[c].judges \subseteq Verdicts(c)
    BY <1>2 DEF Counts, CountOf
  <2> QED
    BY <2>1, <2>2, <2>3, <2>4 DEF PanelOf
<1>3. CASE Unmoved(c) /\ score'[c] = score[c] /\ consumed'[c] = Closed(c)
  <2>1. Size(c)' = Size(c) /\ Repair(c)' = Repair(c)
    BY <1>3 DEF Unmoved, Size, Repair
  <2>2. Lost(c)' = Lost(c) /\ Panel(c)' = Panel(c) /\ (c \in replaced' <=> c \in replaced)
    BY <1>3 DEF Unmoved, Settling
  <2>3. consumed'[c] # None
    BY <1>1, <1>3 DEF None
  <2> QED
    BY <2>1, <2>2, <2>3, <1>3 DEF PanelOf
<1>4. CASE /\ Grows(c, 1) /\ Lost(c) # {} /\ c \in replaced'
           /\ score'[c] = score[c] /\ consumed'[c] = consumed[c]
  <2>1. /\ Size(c)' = Size(c) + 1 /\ Panel(c)' = 1..Size(c)'
        /\ Size(c)' \in Nat /\ Size(c)' <= MaxSeats /\ Size(c)' <= seats
        /\ Size(c) = BaseOf[c] \/ Size(c) = BaseOf[c] + 2
    BY <1>4, PanelGrows
  <2>2. Lost(c)' # {} /\ Repair(c)' = 1
    BY <1>4 DEF Settling, Repair
  <2>3. Repair(c) = 0
    BY <1>4 DEF Grows, Repair
  <2>4. Size(c) = BaseOf[c] + 2 => score[c].judges # {} /\ consumed[c] # None
    BY <2>3, Bounds DEF PanelOf
  <2>5. BaseOf[c] \in Nat
    BY Bounds
  <2>6. Size(c)' = BaseOf[c] + 1 \/ Size(c)' = BaseOf[c] + 1 + 2
    BY <2>1, <2>5
  <2>7. Size(c)' = BaseOf[c] + 1 + 2 => Size(c) = BaseOf[c] + 2
    BY <2>1, <2>5
  <2> QED
    BY <1>4, <2>1, <2>2, <2>4, <2>6, <2>7 DEF PanelOf
<1>5. CASE /\ Grows(c, 2) /\ Added(c) = {} /\ c \notin replaced' /\ Verdicts(c) # {}
           /\ Counts(c)
  <2>1. /\ Size(c)' = Size(c) + 2 /\ Panel(c)' = 1..Size(c)'
        /\ Size(c)' \in Nat /\ Size(c)' <= MaxSeats /\ Size(c)' <= seats
        /\ Size(c) = BaseOf[c] \/ Size(c) = BaseOf[c] + 2
    BY <1>5, PanelGrows
  <2>2. BaseOf[c] \in Nat
    BY Bounds
  <2>3. Size(c) # BaseOf[c] + 2
    <3>1. SUFFICES ASSUME Size(c) = BaseOf[c] + 2 PROVE FALSE
      OBVIOUS
    <3>2. Size(c) \in Panel(c) /\ Size(c) > BaseOf[c]
      BY <2>2, <3>1 DEF PanelOf
    <3> QED
      BY <1>5, <3>2 DEF Added
  <2>4. Repair(c)' = 0
    BY <1>5 DEF Repair
  <2>5. score'[c].judges # {} /\ consumed'[c] # None
    BY <1>1, <1>5 DEF Counts, None
  <2>6. Size(c)' = BaseOf[c] + 0 + 2
    BY <2>1, <2>2, <2>3
  <2> QED
    BY <1>5, <2>1, <2>4, <2>5, <2>6 DEF PanelOf
<1> QED
  BY <1>2, <1>3, <1>4, <1>5 DEF Settling

(* What a score counted stays counted.                                      *)
LEMMA CountsAreKept ==
  ASSUME NEW c \in Cells, CountOf(c), CellStep(c), consumed[c] \in {None} \cup Nat
  PROVE  CountOf(c)'
<1>1. Closed(c) \in Nat
  BY SeatsAreFinite, SetsOfCell DEF Closed
<1>2. Closed(c)' = Cardinality(Verdicts(c)' \cup Lost(c)')
  BY DEF Closed
<1>3. CASE Same(c) /\ Kept(c)
  BY <1>2, <1>3 DEF Same, Kept, CountOf, Closed
<1>4. CASE Closing(c) /\ Kept(c)
  <2>1. PICK s \in Panel(c) \ (Verdicts(c) \cup Lost(c)) :
          \/ Verdicts(c)' = Verdicts(c) \cup {s} /\ Lost(c)' = Lost(c)
          \/ Verdicts(c)' = Verdicts(c) /\ Lost(c)' = Lost(c) \cup {s}
    BY <1>4 DEF Closing
  <2>2. Verdicts(c)' \cup Lost(c)' = (Verdicts(c) \cup Lost(c)) \cup {s}
    BY <2>1
  <2>3. Closed(c)' = Closed(c) + 1
    BY <1>2, <2>1, <2>2, OneMoreSeat, SetsOfCell DEF Closed
  <2>4. consumed'[c] = consumed[c] /\ score'[c] = score[c] /\ Verdicts(c) \subseteq Verdicts(c)'
    BY <1>4, <2>1 DEF Kept
  <2>5. consumed[c] <= Closed(c) /\ consumed[c] \in Int
    BY DEF CountOf, None
  <2>6. consumed[c] <= Closed(c) + 1 /\ consumed[c] # Closed(c) + 1
    BY <1>1, <2>5
  <2> QED
    BY <2>3, <2>4, <2>6 DEF CountOf
<1>5. CASE Settling(c)
  <2>1. Verdicts(c)' = Verdicts(c) /\ Closed(c)' = Closed(c)
    BY <1>2, <1>5 DEF Settling, Closed
  <2>2. CASE Counts(c)
    BY <1>1, <2>1, <2>2 DEF Counts, CountOf
  <2>3. CASE Verdicts(c) = {} /\ score'[c] = score[c] /\ consumed'[c] = Closed(c)
    BY <1>1, <2>1, <2>3 DEF CountOf
  <2>4. CASE score'[c] = score[c] /\ consumed'[c] = consumed[c]
    BY <2>1, <2>4 DEF CountOf
  <2> QED
    BY <1>5, <2>2, <2>3, <2>4 DEF Settling
<1> QED
  BY <1>3, <1>4, <1>5 DEF CellStep

-----------------------------------------------------------------------------
(* Steps, unit by unit. *)

(* The steps that leave every unit where it is, and settle nothing.         *)
Still == UNCHANGED <<status, score, consumed, replaced>>

(* The steps that write units, and those that leave every one alone.        *)
LEMMA WhoWritesUnits ==
  ASSUME Next
  PROVE  \/ Still
         \/ (Start \/ ClaimExtract \/ ClaimScore \/ EndBatch)
              /\ UNCHANGED <<score, consumed, replaced, pre>>
         \/ \E c \in Cells : Verify(c) \/ Settle(c)
         \/ \E c \in Cells, u \in Units : Succeed(c, u) \/ Strike(c, u)
BY Zenon DEF Next, Drive, Still, Start, ClaimExtract, ClaimScore, EndBatch, PauseAfterOutage,
  BeginPre, BeginAggregate, LeavePaused, Finish, NextPass, MarkPre, Reverify, GiveUp,
  Refuse, Pause, Resume, Crash, ledger, cellVars

(* A unit that moves: it is put back, handed out with the batch, ended by a *)
(* call of the batch, or new.                                               *)
PutBack(c, u) == status[c][u] \in Open /\ status'[c][u] = "pending"
HandedOut(c, u) == Ready(c, u) /\ <<c, u>> \in driver'.claimed /\ status'[c][u] = "leased"
EndedByCall(c, u) ==
  <<c, u>> \in driver.calls /\ status[c][u] \in Open /\ status'[c][u] \in Terminal
New(c, u) == status[c][u] = "absent" /\ status'[c][u] = "pending" /\ u # Extraction

Shuffled(c, u) == status'[c][u] = status[c][u] \/ PutBack(c, u) \/ HandedOut(c, u)
UnitStep(c, u) == Shuffled(c, u) \/ EndedByCall(c, u) \/ New(c, u)

(* What a batch is drawn from, whether in memory or read from the ledger.   *)
LEMMA OrderIsReady ==
  ASSUME Typed, Remembered, NEW U \in SUBSET Units
  PROVE  \A cu \in Ordered(U) : /\ Ready(cu[1], cu[2]) /\ cu \in Cells \X Units
                                /\ cu \in Cells \X U
BY DEF Ordered, Cached, Remembered, Typed

(* The extraction, the cell's own unit and the seats are told apart.        *)
LEMMA UnitNames ==
  /\ Extractions \subseteq Units /\ AllSeats \subseteq Units
  /\ Extraction \in Extractions /\ Own \in Extractions /\ Own # Extraction
  /\ \A s \in AllSeats : s # Own /\ s # Extraction
  /\ \A u \in Extractions : u \notin AllSeats
  /\ \A u \in Units : u \in AllSeats \/ u \in Extractions
BY Bounds DEF Units, Extractions, AllSeats, Extraction, Own

(* A claim takes a batch from a stage's order, and leaves in memory some of *)
(* what it did not take.                                                    *)
Serves(B, U, left) ==
  /\ U \in {Extractions, AllSeats}
  /\ B \subseteq Ordered(U) /\ left \subseteq Ordered(U) \ B
  /\ Lease(B, U, left)

(* What a claim does: it moves the pass on, or it takes a batch.            *)
LEMMA ClaimsServe ==
  ASSUME ClaimExtract \/ ClaimScore
  PROVE  \/ /\ UNCHANGED status
            /\ \/ driver' = [driver EXCEPT !.pc = "score"] /\ driver.pc = "extract"
               \/ /\ driver' = [driver EXCEPT !.pc = "pre", !.stale = FALSE]
                  /\ driver.pc = "score"
         \/ /\ \E B, U, left : Serves(B, U, left)
            /\ driver.pc \in {"extract", "score"} /\ run = "running"
<1>1. CASE ClaimExtract
  <2>1. CASE Goto("score") /\ UNCHANGED status
    BY <1>1, <2>1 DEF Goto, ClaimExtract
  <2>2. CASE \E B \in SUBSET Ordered(Extractions) : Lease(B, Extractions, Ordered(Extractions) \ B)
             /\ run = "running"
    BY <1>1, <2>2 DEF Serves, ClaimExtract
  <2> QED
    BY <1>1, <2>1, <2>2 DEF ClaimExtract, kSubset
<1>2. CASE ClaimScore
  <2>1. CASE driver' = [driver EXCEPT !.pc = "pre", !.stale = FALSE] /\ UNCHANGED status
    BY <1>2, <2>1 DEF ClaimScore
  <2>2. ASSUME NEW T \in SUBSET Ordered(AllSeats), ServeSeats(T)
        PROVE  \E B, U, left : Serves(B, U, left)
    <3>1. PICK B \in SUBSET T : Lease(B, AllSeats, IF B = T THEN Ordered(AllSeats) \ T ELSE {})
      <4>1. {t \in T : ~Deferred(t[1], t[2])} \in SUBSET T
        OBVIOUS
      <4> QED
        BY <2>2, <4>1 DEF ServeSeats
    <3>2. Serves(B, AllSeats, IF B = T THEN Ordered(AllSeats) \ T ELSE {})
      BY <3>1 DEF Serves
    <3> QED
      BY <3>2
  <2> QED
    BY <1>2, <2>1, <2>2 DEF ClaimScore
<1> QED
  BY <1>1, <1>2

(* A batch that is claimed, with the driver's record as it then stands.     *)
LEMMA ServeShuffles ==
  ASSUME Typed, Remembered, NEW B, NEW U, NEW left, Serves(B, U, left)
  PROVE  /\ driver'.claimed = B /\ driver'.calls = B
         /\ \A c \in Cells, u \in Units : Shuffled(c, u)
<1>1. driver'.claimed = B /\ driver'.calls = B
  BY DEF Serves, Lease, Typed, DriverShape
<1>2. \A cu \in B : Ready(cu[1], cu[2])
  BY OrderIsReady, UnitNames DEF Serves
<1>3. ASSUME NEW c \in Cells, NEW u \in Units PROVE Shuffled(c, u)
  <2>1. status'[c][u] = IF <<c, u>> \in B THEN "leased" ELSE status[c][u]
    BY DEF Serves, Lease
  <2>2. CASE <<c, u>> \in B
    <3>1. Ready(c, u)
      BY <1>2, <2>2
    <3> QED
      BY <1>1, <2>1, <2>2, <3>1 DEF Shuffled, HandedOut
  <2> QED
    BY <2>1, <2>2 DEF Shuffled
<1> QED
  BY <1>1, <1>3

(* Claiming only shuffles.                                                  *)
LEMMA ClaimsShuffle ==
  ASSUME Typed, Remembered, ClaimExtract \/ ClaimScore
  PROVE  \A c \in Cells, u \in Units : Shuffled(c, u)
BY ClaimsServe, ServeShuffles DEF Shuffled

-----------------------------------------------------------------------------
(* What the hooks visit next. *)

(* A set of cells that is not empty has a first.                            *)
LEMMA FirstOfCells ==
  ASSUME NEW S, S \subseteq Cells, S # {}
  PROVE  Min(S) \in S
<1>1. S \subseteq Nat
  <2>1. Cardinality(Cells) \in Nat
    BY CellsAssumption, FS_CardinalityType
  <2> QED
    BY <2>1, CellsAssumption
<1>2. \E x \in S : \A y \in S : ~(<<y, x>> \in OpToRel(<, Nat))
  BY <1>1, NatLessThanWellFounded, WFMin
<1>3. \E x \in S : \A y \in S : x <= y
  <2>1. PICK x \in S : \A y \in S : ~(<<y, x>> \in OpToRel(<, Nat))
    BY <1>2
  <2>2. ASSUME NEW y \in S PROVE x <= y
    <3>1. x \in Nat /\ y \in Nat
      BY <1>1
    <3>2. ~(<<y, x>> \in OpToRel(<, Nat))
      BY <2>1
    <3>3. ~(y < x)
      BY <3>1, <3>2 DEF OpToRel
    <3> QED
      BY <3>1, <3>3
  <2> QED
    BY <2>2
<1> QED
  BY <1>3 DEF Min

-----------------------------------------------------------------------------
(* From the units of a cell to its sets. *)

(* A cell whose seats are only shuffled keeps its sets.                     *)
LEMMA SameByUnits ==
  ASSUME NEW c \in Cells,
         \A s \in AllSeats : status'[c][s] = status[c][s] \/ (status[c][s] \in Open /\ status'[c][s] \in Open)
  PROVE  Same(c)
BY DEF Same, Panel, Verdicts, Lost, Open

(* Units that are only claimed or put back leave the cell as it was.        *)
LEMMA ShuffledIsSame ==
  ASSUME NEW c \in Cells, \A u \in Units : Shuffled(c, u)
  PROVE  Same(c)
<1>1. ASSUME NEW s \in AllSeats
      PROVE  status'[c][s] = status[c][s] \/ (status[c][s] \in Open /\ status'[c][s] \in Open)
  <2>1. Shuffled(c, s)
    BY UnitNames
  <2> QED
    BY <2>1 DEF Shuffled, PutBack, HandedOut, Ready, Open
<1> QED
  BY <1>1, SameByUnits

(* Recovery and the end of a batch put units back.                          *)
LEMMA RecoveryShuffles ==
  ASSUME Typed, Start \/ EndBatch
  PROVE  \A c \in Cells, u \in Units : Shuffled(c, u)
<1>1. ASSUME NEW c \in Cells, NEW u \in Units PROVE Shuffled(c, u)
  <2>1. CASE Start
    <3>1. status'[c][u] = status[c][u] \/ (status[c][u] = "leased" /\ status'[c][u] = "pending")
      BY <2>1 DEF Start
    <3> QED
      BY <3>1 DEF Shuffled, PutBack, Open
  <2>2. CASE EndBatch
    <3>1. status' = [d \in Cells |-> [v \in Units |->
             IF <<d, v>> \in driver.claimed /\ status[d][v] = "leased"
               THEN "pending" ELSE status[d][v]]]
      BY <2>2 DEF EndBatch
    <3>2. status'[c][u] = status[c][u] \/ (status[c][u] = "leased" /\ status'[c][u] = "pending")
      BY <3>1
    <3> QED
      BY <3>2 DEF Shuffled, PutBack, Open
  <2> QED
    BY <2>1, <2>2
<1> QED
  BY <1>1

(* One unit that a call ends.                                               *)
LEMMA CallsEndUnits ==
  ASSUME Typed, NEW c \in Cells, NEW u \in Units, Succeed(c, u) \/ Strike(c, u)
  PROVE  /\ <<c, u>> \in driver.calls /\ status[c][u] \in Open
         /\ status'[c][u] \in {"pending"} \cup Terminal
         /\ status' = [status EXCEPT ![c][u] = status'[c][u]]
         /\ Kept(c) /\ \A d \in Cells : Kept(d)
         /\ pre' = pre
<1>1. \/ status' = [status EXCEPT ![c][u] = "done"]
      \/ status' = [status EXCEPT ![c][u] = "quarantined"]
      \/ status' = [status EXCEPT ![c][u] = "pending"]
  BY DEF Succeed, Strike, Fail
<1>2. status \in [Cells -> [Units -> Statuses]]
  BY DEF Typed
<1>3. status'[c][u] \in {"pending"} \cup Terminal /\ status' = [status EXCEPT ![c][u] = status'[c][u]]
  BY <1>1, <1>2 DEF Terminal
<1>4. UNCHANGED <<score, consumed, replaced, pre>>
  BY DEF Succeed, Strike, cellVars
<1>5. <<c, u>> \in driver.calls /\ status[c][u] \in Open
  BY DEF Succeed, Strike
<1> QED
  BY <1>3, <1>4, <1>5 DEF Kept

(* The end of a call is a step of one unit and of its cell.                 *)
LEMMA CallsStep ==
  ASSUME Typed, NEW c \in Cells, NEW u \in Units, Succeed(c, u) \/ Strike(c, u)
  PROVE  /\ \A d \in Cells, v \in Units : UnitStep(d, v)
         /\ \A d \in Cells : CellStep(d)
<1>1. /\ <<c, u>> \in driver.calls /\ status[c][u] \in Open
      /\ status'[c][u] \in {"pending"} \cup Terminal
      /\ status' = [status EXCEPT ![c][u] = status'[c][u]]
      /\ \A d \in Cells : Kept(d)
  BY CallsEndUnits
<1>2. status \in [Cells -> [Units -> Statuses]]
  BY DEF Typed
<1>3. \A d \in Cells, v \in Units : <<d, v>> # <<c, u>> => status'[d][v] = status[d][v]
  BY <1>1, <1>2
<1>4. EndedByCall(c, u) \/ PutBack(c, u)
  BY <1>1 DEF EndedByCall, PutBack
<1>5. \A d \in Cells, v \in Units : UnitStep(d, v)
  BY <1>3, <1>4 DEF UnitStep, Shuffled
<1>6. ASSUME NEW d \in Cells PROVE CellStep(d)
  <2>1. CASE d # c \/ u \notin AllSeats \/ status'[c][u] = "pending"
    <3>1. \A s \in AllSeats : status'[d][s] = status[d][s] \/ (status[d][s] \in Open /\ status'[d][s] \in Open)
      BY <1>1, <1>3, <2>1, UnitNames DEF Open
    <3> QED
      BY <1>1, <3>1, SameByUnits DEF CellStep
  <2>2. CASE d = c /\ u \in AllSeats /\ status'[c][u] \in Terminal
    <3>1. \A s \in AllSeats : s # u => status'[c][s] = status[c][s]
      BY <1>3, UnitNames
    <3>2. Panel(c)' = Panel(c)
      BY <1>1, <2>2, <3>1 DEF Panel, Open, Terminal
    <3>3. u \in Panel(c) \ (Verdicts(c) \cup Lost(c))
      BY <1>1, <2>2 DEF Panel, Verdicts, Lost, Open
    <3>4. CASE status'[c][u] = "done"
      <4>1. Verdicts(c)' = Verdicts(c) \cup {u} /\ Lost(c)' = Lost(c)
        BY <1>1, <2>2, <3>1, <3>4 DEF Verdicts, Lost, Open
      <4> QED
        BY <1>1, <2>2, <3>2, <3>3, <4>1 DEF Closing, CellStep
    <3>5. CASE status'[c][u] = "quarantined"
      <4>1. Verdicts(c)' = Verdicts(c) /\ Lost(c)' = Lost(c) \cup {u}
        BY <1>1, <2>2, <3>1, <3>5 DEF Verdicts, Lost, Open
      <4> QED
        BY <1>1, <2>2, <3>2, <3>3, <4>1 DEF Closing, CellStep
    <3> QED
      BY <2>2, <3>4, <3>5 DEF Terminal
  <2> QED
    BY <1>1, <2>1, <2>2
<1> QED
  BY <1>5, <1>6

(* The gate files its own extraction and touches no seat.                   *)
LEMMA VerifyStep ==
  ASSUME Typed, NEW c \in Cells, Verify(c)
  PROVE  /\ \A d \in Cells, v \in Units : UnitStep(d, v)
         /\ \A d \in Cells : CellStep(d)
         /\ pre' = pre /\ status'[c][Own] # "absent"
<1>1. \/ status' = status /\ status[c][Own] # "absent"
      \/ status' = [status EXCEPT ![c][Own] = "pending"] /\ status[c][Own] = "absent"
  BY Zenon DEF Verify, ledger
<1>2. UNCHANGED <<score, consumed, replaced, pre>>
  BY DEF Verify, cellVars
<1>3. status \in [Cells -> [Units -> Statuses]] /\ Own \in Units
  BY UnitNames DEF Typed
<1>4. \A d \in Cells, v \in Units : <<d, v>> # <<c, Own>> => status'[d][v] = status[d][v]
  BY <1>1, <1>3
<1>5. \A d \in Cells, v \in Units : UnitStep(d, v)
  <2>1. UnitStep(c, Own)
    BY <1>1, <1>3, UnitNames DEF UnitStep, Shuffled, New
  <2> QED
    BY <1>4, <2>1 DEF UnitStep, Shuffled
<1>6. \A d \in Cells : \A s \in AllSeats : status'[d][s] = status[d][s]
  BY <1>4, UnitNames
<1>7. \A d \in Cells : Same(d) /\ Kept(d)
  BY <1>2, <1>6, SameByUnits DEF Kept
<1> QED
  BY <1>1, <1>2, <1>3, <1>5, <1>7 DEF CellStep

-----------------------------------------------------------------------------
(* Settling a cell. *)

(* A panel is given its next seats, which nobody had before.                *)
LEMMA InsertStep ==
  ASSUME Typed, NEW c \in Cells, PanelOf(c), NEW n \in Nat,
         Insert(c, NextSeats(c, n)), Size(c) + n <= seats
  PROVE  /\ Panel(c)' = 1..(Size(c) + n)
         /\ Verdicts(c)' = Verdicts(c) /\ Lost(c)' = Lost(c)
         /\ \A d \in Cells, v \in Units : UnitStep(d, v)
         /\ \A d \in Cells : d # c => Same(d)
<1> DEFINE S == (Size(c) + 1)..(Size(c) + n)
<1>1. Size(c) \in Nat /\ Panel(c) = 1..Size(c)
  BY DEF PanelOf
<1>2. seats \in Nat /\ seats <= MaxSeats /\ MaxSeats \in Nat
  BY Bounds DEF Typed
<1>3. S \subseteq AllSeats
  BY <1>1, <1>2 DEF AllSeats
<1>4. S \cap Panel(c) = {}
  BY <1>1
<1>5. \A s \in S : status[c][s] = "absent"
  BY <1>3, <1>4 DEF Panel
<1>6. status' = [status EXCEPT ![c] = [u \in Units |-> IF u \in S THEN "pending" ELSE status[c][u]]]
  <2>1. status' = [status EXCEPT ![c] = [u \in Units |-> IF u \in NextSeats(c, n) THEN "pending" ELSE @[u]]]
    BY DEF Insert
  <2>2. NextSeats(c, n) = S
    BY DEF NextSeats, Size
  <2> QED
    BY <2>1, <2>2
<1>7. status \in [Cells -> [Units -> Statuses]]
  BY DEF Typed
<1> HIDE DEF S
<1>8. \A u \in Units : status'[c][u] = IF u \in S THEN "pending" ELSE status[c][u]
  BY <1>6, <1>7
<1>9. \A d \in Cells : d # c => status'[d] = status[d]
  BY <1>6, <1>7
<1>10. Panel(c)' = Panel(c) \cup S
  BY <1>3, <1>8, UnitNames DEF Panel
<1>11. Panel(c) \cup S = 1..(Size(c) + n)
  BY <1>1 DEF S
<1>12. Verdicts(c)' = Verdicts(c) /\ Lost(c)' = Lost(c)
  BY <1>3, <1>5, <1>8, UnitNames DEF Verdicts, Lost
<1>13. ASSUME NEW d \in Cells, NEW v \in Units PROVE UnitStep(d, v)
  <2>1. CASE d = c /\ v \in S
    BY <1>3, <1>5, <1>8, <2>1, UnitNames DEF UnitStep, New
  <2>2. CASE ~(d = c /\ v \in S)
    BY <1>8, <1>9, <2>2 DEF UnitStep, Shuffled
  <2> QED
    BY <2>1, <2>2
<1>14. ASSUME NEW d \in Cells, d # c PROVE Same(d)
  BY <1>9, <1>14, SameByUnits
<1> QED
  BY <1>10, <1>11, <1>12, <1>13, <1>14

(* A whole panel is odd unless it was repaired, and even by a loss if it    *)
(* was; so no hook is handed a panel it would refuse.                       *)
LEMMA NothingIsRefused ==
  ASSUME NEW c \in Cells, Whole(c), PanelOf(c), Verdicts(c) # {}, ~EvenByLoss(c),
         NEW wants \in BOOLEAN
  PROVE  ~Refused(c, wants)
<1>1. BaseOf[c] \in Nat /\ BaseOf[c] % 2 = 1
  BY Bounds
<1>2. c \notin replaced => Size(c) % 2 = 1
  <2>1. c \notin replaced => Size(c) = BaseOf[c] \/ Size(c) = BaseOf[c] + 2
    BY <1>1 DEF PanelOf, Repair
  <2> QED
    BY <1>1, <2>1
<1>3. ~CorruptPlan(c)
  BY <1>2 DEF CorruptPlan, Size
<1>4. ~EvenPanel(c)
  <2>1. Cardinality(Verdicts(c)) \in Nat /\ Cardinality(Verdicts(c)) # 0
    <3>1. IsFiniteSet(Verdicts(c)) /\ Cardinality(Verdicts(c)) \in Nat
      BY SetsOfCell, SeatsAreFinite
    <3> QED
      BY <3>1, FS_EmptySet
  <2>2. CASE Lost(c) = {}
    <3>1. c \notin replaced /\ Verdicts(c) = Panel(c)
      BY <2>2 DEF PanelOf, Whole
    <3> QED
      BY <1>2, <3>1 DEF EvenPanel, Size
  <2>3. CASE Lost(c) # {}
    <3>1. SUFFICES ASSUME EvenPanel(c) PROVE FALSE
      OBVIOUS
    <3>2. Cardinality(Verdicts(c)) % 2 = 0 /\ Cardinality(Verdicts(c)) # 2
      BY <2>3, <3>1 DEF EvenPanel, FallsBack
    <3>3. Cardinality(Verdicts(c)) > 2
      BY <2>1, <3>2
    <3> QED
      BY <2>3, <3>2, <3>3 DEF EvenByLoss
  <2> QED
    BY <2>2, <2>3
<1> QED
  BY <1>3, <1>4 DEF Refused


(* The hook that settles a cell finds it whole, and is never refused.       *)
LEMMA SettleOutcomes ==
  ASSUME Typed, PanelsHold, TodoIsReady, NEW c \in Cells, Settle(c)
  PROVE  /\ c \in driver.todo /\ Whole(c) /\ PanelOf(c)
         /\ \/ NoVerdicts(c) \/ Replace(c) \/ SetAside(c)
            \/ \E wants, engine \in BOOLEAN :
                 Verdicts(c) # {} /\ ~EvenByLoss(c) /\ Score(c, wants, engine)
         /\ \A d \in Cells : d # c => Kept(d)
         /\ UNCHANGED <<pre, review, order, seats, faults>>
<1>1. c \in driver.todo
  <2>1. driver.todo \subseteq Cells /\ driver.todo # {} /\ c = Min(driver.todo)
    BY DEF Settle, TodoIsReady, Typed
  <2> QED
    BY <2>1, FirstOfCells
<1>2. Whole(c) /\ PanelOf(c)
  BY <1>1 DEF Settle, TodoIsReady, PanelsHold
<1>3. \/ NoVerdicts(c) \/ Replace(c) \/ SetAside(c)
      \/ \E wants, engine \in BOOLEAN :
           Verdicts(c) # {} /\ ~EvenByLoss(c) /\ Score(c, wants, engine)
  <2>1. ASSUME NEW wants \in BOOLEAN, NEW engine \in BOOLEAN, Aggregate(c, wants, engine)
        PROVE  Verdicts(c) # {} /\ ~EvenByLoss(c) /\ Score(c, wants, engine)
    <3>1. Verdicts(c) # {} /\ ~EvenByLoss(c)
      BY <2>1 DEF Aggregate
    <3>2. ~Refused(c, wants)
      BY <1>2, <3>1, NothingIsRefused
    <3> QED
      BY <2>1, <3>1, <3>2 DEF Aggregate
  <2> QED
    BY <2>1, Zenon DEF Settle
<1>4. ASSUME NEW d \in Cells, d # c PROVE Kept(d)
  <2>1. score'[d] = score[d] /\ consumed'[d] = consumed[d]
    BY <1>3, <1>4 DEF NoVerdicts, Replace, SetAside, Score, Typed
  <2>2. d \in replaced' <=> d \in replaced
    BY <1>3, <1>4 DEF NoVerdicts, Replace, SetAside, Score
  <2> QED
    BY <2>1, <2>2 DEF Kept
<1>5. UNCHANGED <<pre, review, order, seats, faults>>
  BY DEF Settle
<1> QED
  BY <1>1, <1>2, <1>3, <1>4, <1>5

(* A score is written over the verdicts there are, and the panel stays or   *)
(* grows by two.                                                            *)
LEMMA ScoreStep ==
  ASSUME Typed, NEW c \in Cells, Whole(c), PanelOf(c), Verdicts(c) # {},
         NEW wants \in BOOLEAN, NEW engine \in BOOLEAN, Score(c, wants, engine)
  PROVE  /\ Settling(c)
         /\ \A d \in Cells, v \in Units : UnitStep(d, v)
         /\ \A d \in Cells : d # c => Same(d)
         /\ breaker => Added(c)' = Added(c)
<1>1. Counts(c)
  <2>1. /\ score' = [score EXCEPT ![c] = [judges |-> Verdicts(c), state |->
              IF wants /\ Seatless(c) /\ StateOf(c, engine) = "final"
                THEN "provisional" ELSE StateOf(c, engine)]]
        /\ consumed' = [consumed EXCEPT ![c] = Closed(c)]
    BY DEF Score
  <2>2. DOMAIN score = Cells /\ DOMAIN consumed = Cells
    BY DEF Typed
  <2>3. consumed'[c] = Closed(c)
    BY <2>1, <2>2
  <2>4. score'[c].judges = Verdicts(c)
    BY <2>1, <2>2
  <2> QED
    BY <2>3, <2>4 DEF Counts
<1>2. c \in replaced' <=> c \in replaced
  BY DEF Score
<1>3. CASE UNCHANGED status
  <2>1. \A d \in Cells : Same(d)
    BY <1>3, SameByUnits
  <2>2. \A d \in Cells, v \in Units : UnitStep(d, v)
    BY <1>3 DEF UnitStep, Shuffled
  <2>3. Settling(c)
    BY <1>1, <1>2, <2>1 DEF Settling, Same, Unmoved
  <2>4. Added(c)' = Added(c)
    BY <2>1 DEF Added, Same
  <2> QED
    BY <2>1, <2>2, <2>3, <2>4
<1>4. CASE Widens(c) /\ Insert(c, NextSeats(c, 2))
  <2>1. c \notin replaced /\ Added(c) = {} /\ ~breaker
    BY <1>4 DEF Widens, Before, Halts
  <2>2. Size(c) \in Nat /\ seats \in Nat
    BY Bounds DEF PanelOf, Typed
  <2>3. Size(c) + 2 <= seats
    BY <1>4, <2>2 DEF Widens, Seatless, Size
  <2>4. /\ Panel(c)' = 1..(Size(c) + 2)
        /\ Verdicts(c)' = Verdicts(c) /\ Lost(c)' = Lost(c)
        /\ \A d \in Cells, v \in Units : UnitStep(d, v)
        /\ \A d \in Cells : d # c => Same(d)
    BY <1>4, <2>3, InsertStep
  <2>5. Settling(c)
    BY <1>1, <1>2, <2>1, <2>3, <2>4 DEF Settling, Grows
  <2> QED
    BY <2>1, <2>4, <2>5
<1> QED
  BY <1>3, <1>4 DEF Score

(* Asking for a replacement adds one seat to a panel that lost one.         *)
LEMMA ReplaceStep ==
  ASSUME Typed, NEW c \in Cells, Whole(c), PanelOf(c), Replace(c)
  PROVE  /\ Settling(c)
         /\ \A d \in Cells, v \in Units : UnitStep(d, v)
         /\ \A d \in Cells : d # c => Same(d)
         /\ ~breaker
<1>1. /\ c \notin replaced /\ ~breaker /\ Closed(c) + 1 <= seats
      /\ Lost(c) # {} /\ c \in replaced' /\ Insert(c, NextSeats(c, 1))
      /\ score' = score /\ consumed' = consumed
  BY DEF Replace, MayReplace, EvenByLoss
<1>2. Closed(c) = Size(c)
  BY DEF Whole, Closed, Size
<1>3. /\ Panel(c)' = 1..(Size(c) + 1)
      /\ Verdicts(c)' = Verdicts(c) /\ Lost(c)' = Lost(c)
      /\ \A d \in Cells, v \in Units : UnitStep(d, v)
      /\ \A d \in Cells : d # c => Same(d)
  BY <1>1, <1>2, InsertStep
<1>4. Settling(c)
  BY <1>1, <1>2, <1>3 DEF Settling, Grows
<1> QED
  BY <1>1, <1>3, <1>4

(* The two settlements that leave the panel alone.                          *)
LEMMA PhaseStep ==
  ASSUME Typed, NEW c \in Cells, Whole(c), NoVerdicts(c) \/ SetAside(c)
  PROVE  /\ Settling(c)
         /\ \A d \in Cells, v \in Units : UnitStep(d, v)
         /\ \A d \in Cells : Same(d)
<1>1. status' = status /\ replaced' = replaced
  BY DEF NoVerdicts, SetAside, ledger
<1>2. \A d \in Cells : Same(d)
  BY <1>1, SameByUnits
<1>3. DOMAIN score = Cells /\ DOMAIN consumed = Cells
  BY DEF Typed
<1>4. consumed'[c] = Closed(c)
  BY <1>3 DEF NoVerdicts, SetAside
<1>5. (Verdicts(c) = {} /\ score'[c] = score[c]) \/ score'[c].judges = Verdicts(c)
  BY <1>3 DEF NoVerdicts, SetAside
<1>6. Settling(c)
  BY <1>1, <1>2, <1>4, <1>5 DEF Settling, Same, Unmoved, Counts
<1> QED
  BY <1>1, <1>2, <1>6 DEF UnitStep, Shuffled

(* Every settlement at once.                                                *)
LEMMA SettleStep ==
  ASSUME Typed, PanelsHold, TodoIsReady, NEW c \in Cells, Settle(c)
  PROVE  /\ c \in driver.todo
         /\ \A d \in Cells, v \in Units : UnitStep(d, v)
         /\ \A d \in Cells : CellStep(d)
         /\ \A d \in Cells : d # c => Same(d)
         /\ breaker => Added(c)' = Added(c)
         /\ pre' = pre
<1>1. /\ c \in driver.todo /\ Whole(c) /\ PanelOf(c)
      /\ \/ NoVerdicts(c) \/ Replace(c) \/ SetAside(c)
         \/ \E wants, engine \in BOOLEAN :
              Verdicts(c) # {} /\ ~EvenByLoss(c) /\ Score(c, wants, engine)
      /\ \A d \in Cells : d # c => Kept(d)
      /\ pre' = pre
  BY SettleOutcomes
<1>2. /\ Settling(c)
      /\ \A d \in Cells, v \in Units : UnitStep(d, v)
      /\ \A d \in Cells : d # c => Same(d)
      /\ breaker => Added(c)' = Added(c)
  <2>1. CASE NoVerdicts(c) \/ SetAside(c)
    <3>1. Same(c)
      BY <1>1, <2>1, PhaseStep
    <3>2. Added(c)' = Added(c)
      BY <3>1 DEF Added, Same
    <3> QED
      BY <1>1, <2>1, <3>2, PhaseStep
  <2>2. CASE Replace(c)
    BY <1>1, <2>2, ReplaceStep
  <2>3. CASE \E wants, engine \in BOOLEAN :
               Verdicts(c) # {} /\ ~EvenByLoss(c) /\ Score(c, wants, engine)
    BY <1>1, <2>3, ScoreStep
  <2> QED
    BY <1>1, <2>1, <2>2, <2>3
<1>3. \A d \in Cells : CellStep(d)
  BY <1>1, <1>2 DEF CellStep
<1> QED
  BY <1>1, <1>2, <1>3

-----------------------------------------------------------------------------
(* The driver. *)

HookSteps == {"verify", "mark", "reverify", "settle"}
BatchSteps == {"extracting", "scoring"}

(* A driver that starts, ends or dies holds nothing.                        *)
LEMMA RestStep ==
  ASSUME Start \/ LeavePaused \/ Finish \/ Crash
  PROVE  /\ DriverShape'
         /\ driver'.pc \in {"off", "extract"}
         /\ driver'.claimed = {} /\ driver'.calls = {} /\ driver'.todo = {}
         /\ driver'.cached = {}
<1>1. driver' = Idle \/ driver' = [Idle EXCEPT !.pc = "extract"]
  BY Zenon DEF Start, LeavePaused, Finish, Crash
<1>2. CASE driver' = Idle
  BY <1>2 DEF Idle, DriverShape
<1>3. CASE driver' = [Idle EXCEPT !.pc = "extract"]
  BY <1>3 DEF Idle, DriverShape
<1> QED
  BY <1>1, <1>2, <1>3

(* A call that ends is taken off the batch's calls.                         *)
LEMMA CallStep ==
  ASSUME Typed, BatchIsOut, NEW c \in Cells, NEW u \in Units, NEW gone \in BOOLEAN,
         Succeed(c, u) \/ Strike(c, u) \/ GiveUp(c, u) \/ Refuse(c, u, gone)
  PROVE  /\ DriverShape'
         /\ driver.pc \in BatchSteps /\ driver'.pc = driver.pc
         /\ driver'.claimed = driver.claimed /\ driver'.calls \subseteq driver.calls
         /\ driver'.todo = driver.todo /\ driver'.cached \subseteq driver.cached
<1>1. \/ \E ok \in BOOLEAN : Ended(c, u, ok)
      \/ Refuse(c, u, gone) \/ Strike(c, u)
  BY Zenon DEF Succeed, GiveUp
<1>2. <<c, u>> \in driver.calls
  BY Zenon DEF Succeed, Strike, GiveUp, Refuse
<1>3. driver.pc \in BatchSteps
  BY <1>2 DEF BatchIsOut, BatchSteps, Typed
<1>4. DriverShape
  BY DEF Typed
<1> DEFINE Good == /\ DriverShape' /\ driver'.pc = driver.pc /\ driver'.claimed = driver.claimed
                   /\ driver'.calls \subseteq driver.calls /\ driver'.todo = driver.todo
                   /\ driver'.cached \subseteq driver.cached
<1>5. ASSUME NEW ok \in BOOLEAN, Ended(c, u, ok) PROVE Good
  <2> DEFINE walked == IF ok /\ u \in Extractions THEN driver.walked + 1 ELSE driver.walked
  <2>1. driver' = [driver EXCEPT !.calls = @ \ {<<c, u>>}, !.headway = @ \/ ok,
           !.walked = walked]
    BY <1>5 DEF Ended
  <2> HIDE DEF walked
  <2> QED
    BY <1>4, <2>1 DEF DriverShape
<1>6. ASSUME Refuse(c, u, gone) PROVE Good
  <2> DEFINE outage == driver.outage \/ gone
             unusable == TRUE
  <2>1. driver' = [driver EXCEPT !.calls = @ \ {<<c, u>>}, !.outage = outage,
           !.unusable = unusable]
    BY <1>6 DEF Refuse
  <2> HIDE DEF outage, unusable
  <2> QED
    BY <1>4, <2>1 DEF DriverShape
<1>7. ASSUME Strike(c, u) PROVE Good
  <2> DEFINE calls == IF u \in Extractions THEN driver.calls ELSE driver.calls \ {<<c, u>>}
             unusable == TRUE
  <2>1. driver' = [driver EXCEPT !.cached = {}, !.unusable = unusable, !.calls = calls]
    BY <1>7 DEF Strike
  <2>2. calls \subseteq driver.calls
    OBVIOUS
  <2> HIDE DEF calls, unusable
  <2> QED
    BY <1>4, <2>1, <2>2 DEF DriverShape
<1> HIDE DEF Good
<1>8. Good
  BY <1>1, <1>5, <1>6, <1>7, Zenon
<1> QED
  BY <1>3, <1>8 DEF Good

(* What the two stages' orders offer.                                       *)
Offered == Ordered(Extractions) \cup Ordered(AllSeats)

(* Everything that is offered is ready.                                     *)
LEMMA OfferedIsReady ==
  ASSUME Typed, Remembered
  PROVE  /\ Offered \subseteq Cells \X Units
         /\ \A cu \in Offered : Ready(cu[1], cu[2])
BY OrderIsReady, UnitNames DEF Offered

(* A claim puts a batch out, or moves the driver on with none.              *)
LEMMA ClaimStep ==
  ASSUME Typed, BatchIsOut, Remembered, ClaimExtract \/ ClaimScore
  PROVE  /\ DriverShape'
         /\ driver'.pc \in {"score", "pre"} \cup BatchSteps
         /\ driver'.todo = driver.todo /\ driver'.calls \subseteq driver'.claimed
         /\ driver'.claimed \subseteq Offered
         /\ driver'.cached \subseteq (driver.cached \cup Offered) \ driver'.claimed
         /\ driver'.pc \notin BatchSteps => driver'.claimed = {}
         /\ driver.calls = {}
<1>1. DriverShape /\ driver.calls \subseteq driver.claimed
  BY DEF Typed
<1>2. driver.pc \in {"extract", "score"}
  BY DEF ClaimExtract, ClaimScore
<1>3. driver.claimed = {}
  BY <1>2 DEF BatchIsOut
<1>4. CASE \/ driver' = [driver EXCEPT !.pc = "score"]
           \/ driver' = [driver EXCEPT !.pc = "pre", !.stale = FALSE]
  BY <1>1, <1>3, <1>4 DEF DriverShape, BatchSteps
<1>5. ASSUME NEW B, NEW U, NEW left, Serves(B, U, left)
      PROVE  /\ DriverShape' /\ driver'.pc \in BatchSteps /\ driver'.todo = driver.todo
             /\ driver'.claimed = B /\ driver'.calls = B /\ B \subseteq Offered
             /\ driver'.cached \subseteq (driver.cached \cup Offered) \ B
  <2> DEFINE stale == U = AllSeats /\ Cached(U) # {}
             cached == (driver.cached \ Cached(U)) \cup left
             pc == IF driver.pc = "extract" THEN "extracting" ELSE "scoring"
  <2>1. driver' = [driver EXCEPT !.claimed = B, !.calls = B, !.headway = FALSE,
           !.outage = FALSE, !.cached = cached, !.stale = stale, !.pc = pc]
    BY <1>5 DEF Serves, Lease
  <2>2. B \subseteq Ordered(U) /\ left \subseteq Ordered(U) \ B /\ Ordered(U) \subseteq Offered
    BY <1>5 DEF Serves, Offered
  <2>3. B \subseteq Cells \X U
    BY <1>5, <2>2, OrderIsReady, UnitNames DEF Serves
  <2>4. cached \subseteq (driver.cached \cup Offered) \ B
    BY <2>2, <2>3 DEF Cached
  <2>5. pc \in BatchSteps
    BY DEF BatchSteps
  <2> HIDE DEF stale, cached, pc
  <2> QED
    BY <1>1, <2>1, <2>2, <2>4, <2>5 DEF DriverShape
<1> QED
  BY <1>1, <1>3, <1>4, <1>5, ClaimsServe

(* The end of a batch.                                                      *)
LEMMA BatchEndStep ==
  ASSUME Typed, EndBatch
  PROVE  /\ DriverShape'
         /\ driver'.pc \in {"pausing", "extract", "score", "pre"}
         /\ driver'.todo = driver.todo /\ driver'.calls = {} /\ driver'.claimed = {}
         /\ driver'.cached \subseteq driver.cached
<1>1. DriverShape /\ driver.calls = {}
  BY DEF Typed, EndBatch
<1> DEFINE cached == IF status' = status THEN driver.cached ELSE {}
           next == CASE driver.outage -> "pausing"
                [] ~driver.outage /\ driver.pc = "extracting" /\ driver.headway -> "extract"
                [] ~driver.outage /\ driver.pc = "extracting" /\ ~driver.headway -> "score"
                [] OTHER -> "pre"
<1>2. next \in {"pausing", "extract", "score", "pre"} /\ cached \subseteq driver.cached
  OBVIOUS
<1>3. driver' = [driver EXCEPT !.claimed = {}, !.headway = FALSE, !.outage = FALSE,
         !.cached = cached, !.pc = next]
  BY DEF EndBatch
<1> HIDE DEF cached, next
<1> QED
  BY <1>1, <1>2, <1>3 DEF DriverShape

(* Between batches: the pass, its hooks and its end, each by the fields of  *)
(* the driver's record.                                                     *)
Passing(from, to) == driver.pc = from /\ driver'.pc = to
BatchKept ==
  /\ driver'.claimed = driver.claimed /\ driver'.calls = driver.calls
  /\ driver'.cached \subseteq driver.cached

(* The step from the outage's pause to the gate's hook.                     *)
LEMMA PauseAfterOutageStep ==
  ASSUME Typed, PauseAfterOutage
  PROVE  DriverShape' /\ BatchKept /\ Passing("pausing", "pre") /\ driver'.todo = driver.todo
BY DEF Typed, PauseAfterOutage, Goto, DriverShape, Passing, BatchKept

(* The gate's hook begins with the cells that are ready for it.             *)
LEMMA BeginPreStep ==
  ASSUME Typed, BeginPre
  PROVE  DriverShape' /\ BatchKept /\ Passing("pre", "verify") /\ driver'.todo = ReadyPre
<1> DEFINE seen == Report
           moved == Report # driver.seen
           worked == ReadyPre # {}
           todo == ReadyPre
<1>1. /\ driver' = [driver EXCEPT !.todo = todo, !.worked = worked, !.pc = "verify",
                     !.moved = moved, !.seen = seen, !.walked = 0]
      /\ driver.pc = "pre"
  BY DEF BeginPre
<1>2. todo = ReadyPre
  OBVIOUS
<1> HIDE DEF seen, moved, worked, todo
<1>3. DriverShape
  BY DEF Typed
<1>4. DriverShape' /\ BatchKept /\ Passing("pre", "verify") /\ driver'.todo = todo
  BY <1>1, <1>3 DEF DriverShape, Passing, BatchKept
<1> QED
  BY <1>2, <1>4

(* The gate's check of the first cell of the list.                          *)
LEMMA VerifyDrives ==
  ASSUME Typed, NEW c \in Cells, Verify(c)
  PROVE  /\ DriverShape' /\ BatchKept /\ Passing("verify", "mark")
         /\ driver'.todo = driver.todo /\ driver.todo # {} /\ c = Min(driver.todo)
BY DEF Typed, Verify, Goto, DriverShape, Passing, BatchKept

(* The gate's mark takes the first cell off the list.                       *)
LEMMA MarkPreStep ==
  ASSUME Typed, NEW c \in Cells, MarkPre(c)
  PROVE  /\ DriverShape' /\ BatchKept /\ Passing("mark", "verify")
         /\ driver'.todo = driver.todo \ {c} /\ c = Min(driver.todo)
BY DEF Typed, MarkPre, DriverShape, Passing, BatchKept

(* The aggregation begins with the ready cells and the breaker as it is.    *)
LEMMA BeginAggregateStep ==
  ASSUME Typed, BeginAggregate
  PROVE  /\ DriverShape' /\ BatchKept /\ Passing("verify", "reverify")
         /\ driver'.todo = ReadyAggregate /\ driver'.latched = breaker
<1> DEFINE worked == driver.worked \/ ReadyAggregate # {}
           todo == ReadyAggregate
<1>1. /\ driver' = [driver EXCEPT !.todo = todo, !.latched = breaker, !.worked = worked,
                     !.pc = "reverify"]
      /\ driver.pc = "verify"
  BY DEF BeginAggregate
<1>2. todo = ReadyAggregate
  OBVIOUS
<1> HIDE DEF worked, todo
<1>3. DriverShape
  BY DEF Typed
<1>4. /\ DriverShape' /\ BatchKept /\ Passing("verify", "reverify")
      /\ driver'.todo = todo /\ driver'.latched = breaker
  BY <1>1, <1>3 DEF DriverShape, Passing, BatchKept
<1> QED
  BY <1>2, <1>4

(* The aggregation's check of a cell of the list.                           *)
LEMMA ReverifyStep ==
  ASSUME Typed, NEW c \in Cells, Reverify(c)
  PROVE  /\ DriverShape' /\ BatchKept /\ Passing("reverify", "settle")
         /\ driver'.todo = driver.todo /\ driver.todo # {} /\ driver'.latched = driver.latched
BY DEF Typed, Reverify, Goto, DriverShape, Passing, BatchKept

(* A pass ends in the next one or in a stall.                               *)
LEMMA NextPassStep ==
  ASSUME Typed, BatchIsOut, NextPass
  PROVE  /\ DriverShape' /\ BatchKept /\ driver.pc = "reverify"
         /\ driver'.pc \in {"extract", "stalled"} /\ driver'.todo \subseteq driver.todo
<1>1. DriverShape /\ driver.pc = "reverify"
  BY DEF Typed, NextPass, PassDone
<1>2. driver.claimed = {} /\ driver.calls = {}
  BY <1>1 DEF BatchIsOut, Typed
<1>3. PICK n : \/ driver' = [Idle EXCEPT !.pc = "extract", !.seen = driver.seen,
                     !.cached = driver.cached, !.stalled = n]
               \/ driver' = [driver EXCEPT !.stalled = n, !.pc = "stalled"]
  BY Zenon DEF NextPass
<1>4. CASE driver' = [Idle EXCEPT !.pc = "extract", !.seen = driver.seen,
                !.cached = driver.cached, !.stalled = n]
  BY <1>1, <1>2, <1>4 DEF DriverShape, BatchKept, Idle
<1>5. CASE driver' = [driver EXCEPT !.stalled = n, !.pc = "stalled"]
  BY <1>1, <1>5 DEF DriverShape, BatchKept
<1> QED
  BY <1>1, <1>3, <1>4, <1>5

(* Settling takes the cell off the list, and latches the breaker it trips.  *)
LEMMA SettleDrives ==
  ASSUME Typed, PanelsHold, TodoIsReady, NEW c \in Cells, Settle(c)
  PROVE  /\ DriverShape' /\ BatchKept /\ Passing("settle", "reverify")
         /\ driver'.todo = driver.todo \ {c}
         /\ (breaker => driver.latched) => (breaker' => driver'.latched)
<1>1. DriverShape /\ driver.pc = "settle"
  BY DEF Typed, Settle
<1>2. CASE NoVerdicts(c) \/ Replace(c) \/ SetAside(c)
  <2>1. /\ \/ driver' = [driver EXCEPT !.todo = @ \ {c}, !.pc = "reverify"]
           \/ driver' = [driver EXCEPT !.todo = @ \ {c}, !.pc = "reverify", !.cached = {}]
        /\ breaker' = breaker
    BY <1>2 DEF NoVerdicts, Replace, SetAside, Settled
  <2>2. /\ DriverShape' /\ BatchKept /\ Passing("settle", "reverify")
        /\ driver'.todo = driver.todo \ {c} /\ driver'.latched = driver.latched
    BY <1>1, <2>1 DEF DriverShape, Passing, BatchKept
  <2> QED
    BY <2>1, <2>2
<1>3. ASSUME NEW wants \in BOOLEAN, NEW engine \in BOOLEAN, Score(c, wants, engine)
      PROVE  /\ DriverShape' /\ BatchKept /\ Passing("settle", "reverify")
             /\ driver'.todo = driver.todo \ {c}
             /\ (breaker => driver.latched) => (breaker' => driver'.latched)
  <2> DEFINE trips == wants /\ Halts(c)
             latched == driver.latched \/ trips
             cached == IF wants /\ Widens(c) THEN {} ELSE driver.cached
  <2>1. /\ driver' = [driver EXCEPT !.todo = @ \ {c}, !.pc = "reverify", !.cached = cached,
               !.latched = latched]
        /\ breaker' = (breaker \/ trips)
    BY <1>3 DEF Score
  <2>2. (breaker => driver.latched) => ((breaker \/ trips) => latched)
    OBVIOUS
  <2>7. cached \subseteq driver.cached
    OBVIOUS
  <2> HIDE DEF trips, latched, cached
  <2>3. /\ DriverShape' /\ BatchKept /\ Passing("settle", "reverify")
        /\ driver'.todo = driver.todo \ {c} /\ driver'.latched = latched
    BY <1>1, <2>1, <2>7 DEF DriverShape, Passing, BatchKept
  <2>4. breaker' <=> (breaker \/ trips)
    BY <2>1
  <2>5. driver'.latched <=> latched
    BY <2>3
  <2>6. (breaker => driver.latched) => (breaker' => driver'.latched)
    BY <2>2, <2>4, <2>5
  <2> QED
    BY <2>3, <2>6
<1> QED
  BY <1>2, <1>3, SettleOutcomes

-----------------------------------------------------------------------------
(* Every step: what it does to a unit, to a cell, and to the types.         *)

(* Every step is a step of each unit and of each cell.                      *)
LEMMA EveryStep ==
  ASSUME Typed, Remembered, PanelsHold, TodoIsReady, Next
  PROVE  /\ \A c \in Cells, u \in Units : UnitStep(c, u)
         /\ \A c \in Cells : CellStep(c)
<1>1. CASE Still
  <2>1. \A c \in Cells, u \in Units : UnitStep(c, u)
    BY <1>1 DEF Still, UnitStep, Shuffled
  <2>2. \A c \in Cells : Same(c) /\ Kept(c)
    BY <1>1, SameByUnits DEF Still, Kept
  <2> QED
    BY <2>1, <2>2 DEF CellStep
<1>2. CASE (Start \/ ClaimExtract \/ ClaimScore \/ EndBatch) /\ UNCHANGED <<score, consumed, replaced>>
  <2>1. \A c \in Cells, u \in Units : Shuffled(c, u)
    BY <1>2, RecoveryShuffles, ClaimsShuffle
  <2>2. \A c \in Cells : Same(c) /\ Kept(c)
    BY <1>2, <2>1, ShuffledIsSame DEF Kept
  <2> QED
    BY <2>1, <2>2 DEF CellStep, UnitStep
<1>3. CASE \E c \in Cells : Verify(c) \/ Settle(c)
  BY <1>3, VerifyStep, SettleStep
<1>4. CASE \E c \in Cells, u \in Units : Succeed(c, u) \/ Strike(c, u)
  BY <1>4, CallsStep
<1> QED
  BY <1>1, <1>2, <1>3, <1>4, WhoWritesUnits

(* The panel a run is configured with never changes.                        *)
LEMMA SeatsStay ==
  ASSUME Next
  PROVE  seats' = seats
BY Zenon DEF Next, Drive, Start, ClaimExtract, ClaimScore, EndBatch, PauseAfterOutage,
  BeginPre, BeginAggregate, LeavePaused, Finish, NextPass, Verify, MarkPre, Reverify, Settle,
  Succeed, Strike, GiveUp, Refuse, Pause, Resume, Crash

(* Only the gate's mark adds to the cells it has passed on.                 *)
LEMMA PreGrows ==
  ASSUME Next
  PROVE  pre' = pre \/ \E c \in Cells : MarkPre(c) /\ pre' = pre \cup {c}
BY Zenon DEF Next, Drive, Start, ClaimExtract, ClaimScore, EndBatch, PauseAfterOutage,
  BeginPre, BeginAggregate, LeavePaused, Finish, NextPass, Verify, MarkPre, Reverify, Settle,
  Succeed, Strike, GiveUp, Refuse, Pause, Resume, Crash, cellVars

(* Units keep their type.                                                   *)
LEMMA StatusIsTyped ==
  ASSUME Typed, Remembered, PanelsHold, TodoIsReady, Next
  PROVE  status' \in [Cells -> [Units -> Statuses]]
<1>1. status \in [Cells -> [Units -> Statuses]]
  BY DEF Typed
<1>2. CASE Still
  BY <1>1, <1>2 DEF Still
<1>3. CASE Start
  BY <1>1, <1>3 DEF Start, Statuses, Open
<1>4. CASE EndBatch
  <2>1. status' = [c \in Cells |-> [u \in Units |->
          IF <<c, u>> \in driver.claimed /\ status[c][u] = "leased"
            THEN "pending" ELSE status[c][u]]]
    BY <1>4 DEF EndBatch
  <2> QED
    BY <1>1, <2>1 DEF Statuses, Open
<1>5. CASE ClaimExtract \/ ClaimScore
  <2>1. status' = status \/ \E B, U, left : Lease(B, U, left)
    BY <1>5, ClaimsServe, Zenon DEF Serves
  <2>2. ASSUME NEW B, NEW U, NEW left, Lease(B, U, left)
        PROVE  status' \in [Cells -> [Units -> Statuses]]
    <3>1. status' = [c \in Cells |-> [u \in Units |->
            IF <<c, u>> \in B THEN "leased" ELSE status[c][u]]]
      BY <2>2 DEF Lease
    <3> QED
      BY <1>1, <3>1 DEF Statuses, Open
  <2> QED
    BY <1>1, <2>1, <2>2
<1>6. ASSUME NEW c \in Cells, Verify(c) PROVE status' \in [Cells -> [Units -> Statuses]]
  <2>1. status' = status \/ status' = [status EXCEPT ![c][Own] = "pending"]
    BY <1>6, Zenon DEF Verify, ledger
  <2> QED
    BY <1>1, <2>1, UnitNames DEF Statuses, Open
<1>7. ASSUME NEW c \in Cells, NEW u \in Units, Succeed(c, u) \/ Strike(c, u)
      PROVE  status' \in [Cells -> [Units -> Statuses]]
  <2>1. /\ status' = [status EXCEPT ![c][u] = status'[c][u]]
        /\ status'[c][u] \in {"pending"} \cup Terminal
    BY <1>7, CallsEndUnits
  <2>2. PICK s \in Statuses : status' = [status EXCEPT ![c][u] = s]
    BY <2>1 DEF Statuses, Open
  <2> QED
    BY <1>1, <2>2
<1>8. ASSUME NEW c \in Cells, Settle(c) PROVE status' \in [Cells -> [Units -> Statuses]]
  <2>1. status' = status \/ \E S : Insert(c, S)
    BY <1>8, SettleOutcomes, Zenon DEF NoVerdicts, SetAside, Replace, Score, ledger
  <2>2. ASSUME NEW S, Insert(c, S) PROVE status' \in [Cells -> [Units -> Statuses]]
    <3>1. status' = [status EXCEPT ![c] = [u \in Units |-> IF u \in S THEN "pending" ELSE status[c][u]]]
      BY <2>2 DEF Insert
    <3>2. [u \in Units |-> IF u \in S THEN "pending" ELSE status[c][u]] \in [Units -> Statuses]
      BY <1>1 DEF Statuses, Open
    <3> QED
      BY <1>1, <3>1, <3>2
  <2> QED
    BY <1>1, <2>1, <2>2
<1> QED
  BY <1>2, <1>3, <1>4, <1>5, <1>6, <1>7, <1>8, WhoWritesUnits

(* What a settlement notes has its type.                                    *)
LEMMA NotesAreTyped ==
  ASSUME Typed, Remembered, PanelsHold, TodoIsReady, Next
  PROVE  /\ consumed' \in [Cells -> {None} \cup Nat]
         /\ score' \in [Cells -> [judges : SUBSET AllSeats, state : States]]
         /\ replaced' \subseteq Cells
<1> DEFINE Good == /\ consumed' \in [Cells -> {None} \cup Nat]
                   /\ score' \in [Cells -> [judges : SUBSET AllSeats, state : States]]
                   /\ replaced' \subseteq Cells
<1>1. /\ consumed \in [Cells -> {None} \cup Nat]
      /\ score \in [Cells -> [judges : SUBSET AllSeats, state : States]]
      /\ replaced \subseteq Cells
  BY DEF Typed
<1>2. CASE UNCHANGED <<score, consumed, replaced>>
  BY <1>1, <1>2
<1>3. ASSUME NEW c \in Cells, Settle(c) PROVE Good
  <2>1. Closed(c) \in Nat /\ Verdicts(c) \subseteq AllSeats
    BY SeatsAreFinite, SetsOfCell DEF Closed
  <2>2. CASE Replace(c)
    BY <1>1, <2>2 DEF Replace
  <2>3. CASE NoVerdicts(c) \/ SetAside(c)
    <3>1. consumed' \in [Cells -> {None} \cup Nat] /\ replaced' = replaced
      BY <1>1, <2>1, <2>3 DEF NoVerdicts, SetAside
    <3>2. score' \in [Cells -> [judges : SUBSET AllSeats, state : States]]
      BY <1>1, <2>1, <2>3 DEF NoVerdicts, SetAside, States
    <3> QED
      BY <1>1, <3>1, <3>2
  <2>4. ASSUME NEW wants \in BOOLEAN, NEW engine \in BOOLEAN, Score(c, wants, engine)
        PROVE  Good
    <3> DEFINE state == IF wants /\ Seatless(c) /\ StateOf(c, engine) = "final"
                          THEN "provisional" ELSE StateOf(c, engine)
    <3>1. StateOf(c, engine) \in States
      BY DEF StateOf, States
    <3>2. state \in States
      BY <3>1 DEF States
    <3>3. /\ score' = [score EXCEPT ![c] = [judges |-> Verdicts(c), state |-> state]]
          /\ consumed' = [consumed EXCEPT ![c] = Closed(c)] /\ replaced' = replaced
      BY <2>4 DEF Score
    <3> HIDE DEF state
    <3> QED
      BY <1>1, <2>1, <3>2, <3>3
  <2> HIDE DEF Good
  <2> QED
    BY <1>3, <2>2, <2>3, <2>4, SettleOutcomes
<1>4. \/ UNCHANGED <<score, consumed, replaced>>
      \/ \E c \in Cells : Settle(c)
  BY WhoWritesUnits, Zenon DEF Still, Verify, Succeed, Strike, cellVars
<1> HIDE DEF Good
<1>5. Good
  BY <1>2, <1>3, <1>4 DEF Good
<1> QED
  BY <1>5 DEF Good

-----------------------------------------------------------------------------
(* The invariant's parts, one by one. *)

(* The steps of the system, by what they do to the driver.                  *)
LEMMA WhoActs ==
  ASSUME Next
  PROVE  \/ Start \/ LeavePaused \/ Finish \/ Crash
         \/ \E c \in Cells, u \in Units, gone \in BOOLEAN :
              Succeed(c, u) \/ Strike(c, u) \/ GiveUp(c, u) \/ Refuse(c, u, gone)
         \/ ClaimExtract \/ ClaimScore
         \/ EndBatch
         \/ PauseAfterOutage \/ BeginPre \/ BeginAggregate \/ NextPass
         \/ \E c \in Cells : Verify(c) \/ MarkPre(c) \/ Reverify(c) \/ Settle(c)
         \/ Pause \/ Resume
BY Zenon DEF Next, Drive

(* The operator's requests leave the driver alone.                          *)
LEMMA OperatorLeavesDriver ==
  ASSUME Typed, Pause \/ Resume
  PROVE  /\ driver' = driver /\ DriverShape' /\ UNCHANGED <<ledger, cellVars>>
         /\ Resume => driver.pc \in Stopped
<1>1. driver' = driver /\ UNCHANGED <<ledger, cellVars>>
  BY Zenon DEF Pause, Resume
<1> QED
  BY <1>1 DEF Typed, DriverShape, Resume

(* The driver keeps its type, and its batch is what it was or was offered.  *)
LEMMA DriverIsTyped ==
  ASSUME Typed, BatchIsOut, Remembered, PanelsHold, TodoIsReady, Next
  PROVE  /\ DriverShape'
         /\ driver'.claimed \subseteq Cells \X Units
         /\ driver'.calls \subseteq driver'.claimed
         /\ driver'.todo \subseteq Cells
         /\ driver'.pc \notin BatchSteps => driver'.claimed = {}
         /\ driver'.claimed \subseteq driver.claimed \cup Offered
         /\ driver'.cached \subseteq driver.cached \cup Offered
         /\ driver'.cached \cap driver'.claimed = {}
         /\ driver.calls # {} => driver'.cached \subseteq driver.cached
<1> DEFINE Good ==
      /\ DriverShape'
      /\ driver'.claimed \subseteq Cells \X Units
      /\ driver'.calls \subseteq driver'.claimed
      /\ driver'.todo \subseteq Cells
      /\ driver'.pc \notin BatchSteps => driver'.claimed = {}
      /\ driver'.claimed \subseteq driver.claimed \cup Offered
      /\ driver'.cached \subseteq driver.cached \cup Offered
      /\ driver'.cached \cap driver'.claimed = {}
      /\ driver.calls # {} => driver'.cached \subseteq driver.cached
<1> SUFFICES Good
  OBVIOUS
<1>1. /\ driver.claimed \subseteq Cells \X Units
      /\ driver.calls \subseteq driver.claimed
      /\ driver.todo \subseteq Cells
      /\ driver.cached \cap driver.claimed = {}
  BY DEF Typed, Remembered
<1>2. driver.pc \notin BatchSteps => driver.claimed = {}
  BY DEF BatchIsOut, BatchSteps
<1>3. ReadyPre \subseteq Cells /\ ReadyAggregate \subseteq Cells
  BY DEF ReadyPre, ReadyAggregate
<1>4. Offered \subseteq Cells \X Units
  BY OfferedIsReady
<1>5. CASE Start \/ LeavePaused \/ Finish \/ Crash
  BY <1>5, RestStep
<1>6. ASSUME NEW c \in Cells, NEW u \in Units, NEW gone \in BOOLEAN,
             Succeed(c, u) \/ Strike(c, u) \/ GiveUp(c, u) \/ Refuse(c, u, gone)
      PROVE  Good
  BY <1>1, <1>2, <1>6, CallStep
<1>7. CASE ClaimExtract \/ ClaimScore
  BY <1>1, <1>2, <1>4, <1>7, ClaimStep
<1>8. CASE EndBatch
  BY <1>1, <1>8, BatchEndStep
<1>9. CASE PauseAfterOutage
  BY <1>1, <1>2, <1>9, PauseAfterOutageStep DEF Passing, BatchKept, BatchSteps
<1>10. CASE BeginPre
  BY <1>1, <1>2, <1>3, <1>10, BeginPreStep DEF Passing, BatchKept, BatchSteps
<1>11. CASE BeginAggregate
  BY <1>1, <1>2, <1>3, <1>11, BeginAggregateStep DEF Passing, BatchKept, BatchSteps
<1>12. CASE NextPass
  BY <1>1, <1>2, <1>12, NextPassStep DEF BatchKept, BatchSteps
<1>13. ASSUME NEW c \in Cells, Verify(c) PROVE Good
  BY <1>1, <1>2, <1>13, VerifyDrives DEF Passing, BatchKept, BatchSteps
<1>14. ASSUME NEW c \in Cells, MarkPre(c) PROVE Good
  BY <1>1, <1>2, <1>14, MarkPreStep DEF Passing, BatchKept, BatchSteps
<1>15. ASSUME NEW c \in Cells, Reverify(c) PROVE Good
  BY <1>1, <1>2, <1>15, ReverifyStep DEF Passing, BatchKept, BatchSteps
<1>16. ASSUME NEW c \in Cells, Settle(c) PROVE Good
  BY <1>1, <1>2, <1>16, SettleDrives DEF Passing, BatchKept, BatchSteps
<1>17. CASE Pause \/ Resume
  BY <1>1, <1>2, <1>17, OperatorLeavesDriver
<1> HIDE DEF Good
<1> QED
  BY <1>5, <1>6, <1>7, <1>8, <1>9, <1>10, <1>11, <1>12, <1>13, <1>14, <1>15, <1>16, <1>17,
    WhoActs

(* The type invariant is kept.                                              *)
LEMMA TypedIsKept ==
  ASSUME Typed, BatchIsOut, Remembered, PanelsHold, TodoIsReady, Next
  PROVE  Typed' /\ BatchIsOut'
<1>3. driver'.cached \subseteq Cells \X Units
  BY DriverIsTyped, OfferedIsReady DEF Typed
<1>1. pre' \subseteq Cells
  BY PreGrows DEF Typed
<1>2. seats' \in SeatCounts
  BY SeatsStay DEF Typed
<1> QED
  BY <1>1, <1>2, <1>3, StatusIsTyped, NotesAreTyped, DriverIsTyped DEF Typed, BatchIsOut, BatchSteps

(* What the gate has passed on stays passed on, and whole panels stay whole *)
(* where nothing moves.                                                     *)
LEMMA PassedStays ==
  ASSUME Typed, NEW c \in Cells, Passed(c), \A u \in Units : UnitStep(c, u), Next
  PROVE  Passed(c)'
<1>1. c \in pre'
  BY PreGrows DEF Passed
<1>2. ASSUME NEW u \in Extractions PROVE status'[c][u] = "done"
  <2>1. UnitStep(c, u) /\ status[c][u] = "done"
    BY UnitNames DEF Passed
  <2> QED
    BY <2>1 DEF UnitStep, Shuffled, PutBack, HandedOut, Ready, EndedByCall, New, Open
<1> QED
  BY <1>1, <1>2 DEF Passed

(* A seat is ready only in a cell whose extractions have passed.        *)
LEMMA ReadyHasPassed ==
  ASSUME Typed, Filed, NEW c \in Cells, NEW s \in AllSeats, Ready(c, s)
  PROVE  Passed(c)
<1>1. c \in pre /\ ~Blocked(c)
  BY DEF Ready
<1>2. \A u \in Extractions : status[c][u] \in Statuses /\ status[c][u] # "absent"
  <2>1. \A u \in Extractions : status[c][u] \in Statuses
    BY UnitNames DEF Typed
  <2>2. status[c][Extraction] # "absent" /\ status[c][Own] # "absent"
    BY <1>1 DEF Filed
  <2> QED
    BY <2>1, <2>2 DEF Extractions
<1> QED
  BY <1>1, <1>2 DEF Blocked, Passed, Statuses, Open, Terminal

(* What is in memory stays ready until it is claimed or forgotten.          *)
LEMMA MemoryIsKept ==
  ASSUME Typed, BatchIsOut, Remembered, Filed, PanelsHold, TodoIsReady, Next
  PROVE  Remembered'
<1>1. ASSUME NEW cu \in driver'.cached
      PROVE  Ready(cu[1], cu[2])' /\ cu \notin driver'.claimed
  <2>1. cu \notin driver'.claimed /\ cu \in driver.cached \cup Offered
    BY DriverIsTyped
  <2>2. PICK c \in Cells, u \in Units : cu = <<c, u>>
    BY <2>1, OfferedIsReady DEF Typed
  <2>3. Ready(c, u)
    BY <2>1, <2>2, OfferedIsReady DEF Remembered
  <2>4. \A v \in Units : UnitStep(c, v)
    BY EveryStep
  <2>5. CASE cu \in driver.calls
    <3>1. cu \in driver.claimed /\ cu \in driver.cached
      BY <2>5, DriverIsTyped DEF Typed
    <3> QED
      BY <3>1 DEF Remembered
  <2>6. CASE cu \notin driver.calls
    <3>1. status'[c][u] = "pending"
      BY <2>1, <2>2, <2>3, <2>4, <2>6
        DEF UnitStep, Shuffled, PutBack, HandedOut, EndedByCall, New, Ready
    <3>2. CASE u \in AllSeats
      <4>1. Passed(c)'
        BY <2>3, <2>4, <3>2, ReadyHasPassed, PassedStays
      <4> QED
        BY <2>1, <2>2, <3>1, <4>1 DEF Ready, Passed, Blocked, Open
    <3> QED
      BY <2>1, <2>2, <3>1, <3>2 DEF Ready
  <2> QED
    BY <2>5, <2>6
<1> QED
  BY <1>1 DEF Remembered

(* Scoring keeps following the extraction.                                  *)
LEMMA OrderIsKept ==
  ASSUME Typed, BatchIsOut, Remembered, BatchHasPassed, Filed, PanelsHold, TodoIsReady,
         ScoringFollowsExtraction, Next
  PROVE  BatchHasPassed' /\ Filed' /\ ScoringFollowsExtraction'
<1>1. \A c \in Cells, u \in Units : UnitStep(c, u)
  BY EveryStep
<1>2. \A c \in Cells : Passed(c) => Passed(c)'
  BY <1>1, PassedStays
<1>3. BatchHasPassed'
  <2>1. ASSUME NEW cu \in driver'.claimed, cu[2] \in AllSeats PROVE Passed(cu[1])'
    <3>1. cu \in driver.claimed \cup Offered
      BY DriverIsTyped
    <3>2. CASE cu \in driver.claimed
      BY <1>2, <2>1, <3>2 DEF BatchHasPassed, Typed
    <3>3. CASE cu \in Offered
      <4>1. Ready(cu[1], cu[2]) /\ cu[1] \in Cells
        BY <3>3, OfferedIsReady
      <4> QED
        BY <1>2, <2>1, <4>1, ReadyHasPassed
    <3> QED
      BY <3>1, <3>2, <3>3
  <2> QED
    BY <2>1 DEF BatchHasPassed
<1>4. Filed'
  <2>1. ASSUME NEW c \in Cells, NEW u \in Units, status[c][u] # "absent" PROVE status'[c][u] # "absent"
    <3>1. UnitStep(c, u)
      BY <1>1
    <3>2. status'[c][u] \in {status[c][u], "pending", "leased", "done", "quarantined"}
      BY <3>1 DEF UnitStep, Shuffled, PutBack, HandedOut, EndedByCall, New, Terminal
    <3> QED
      BY <2>1, <3>2
  <2>2. ASSUME NEW c \in Cells, c \in pre' PROVE status[c][Own] # "absent"
    <3>1. CASE c \in pre
      BY <3>1 DEF Filed
    <3>2. CASE c \notin pre
      <4>1. MarkPre(c)
        BY <2>2, <3>2, PreGrows
      <4> QED
        BY <4>1 DEF MarkPre, TodoIsReady
    <3> QED
      BY <3>1, <3>2
  <2> QED
    BY <2>1, <2>2, UnitNames DEF Filed
<1>5. ScoringFollowsExtraction'
  <2>1. ASSUME NEW c \in Cells, NEW s \in AllSeats, status'[c][s] \in {"leased"} \cup Terminal
        PROVE  Passed(c)'
    <3>1. UnitStep(c, s) /\ s \in Units
      BY <1>1, UnitNames
    <3>2. CASE status'[c][s] = status[c][s]
      BY <1>2, <2>1, <3>2 DEF ScoringFollowsExtraction, Passed
    <3>3. CASE HandedOut(c, s)
      BY <1>2, <3>3, ReadyHasPassed DEF HandedOut
    <3>4. CASE EndedByCall(c, s)
      <4>1. <<c, s>> \in driver.claimed
        BY <3>4 DEF EndedByCall, Typed
      <4> QED
        BY <1>2, <4>1 DEF BatchHasPassed
    <3>5. ~PutBack(c, s) /\ ~New(c, s)
      BY <2>1 DEF PutBack, New, Terminal
    <3> QED
      BY <3>1, <3>2, <3>3, <3>4, <3>5 DEF UnitStep, Shuffled
  <2> QED
    BY <2>1 DEF ScoringFollowsExtraction, Passed
<1> QED
  BY <1>3, <1>4, <1>5

(* Panels and their counts are kept, cell by cell.                          *)
LEMMA PanelsAreKept ==
  ASSUME Typed, Remembered, PanelsHold, CountsHold, TodoIsReady, Next
  PROVE  PanelsHold' /\ CountsHold'
<1>1. ASSUME NEW c \in Cells PROVE PanelOf(c)' /\ CountOf(c)'
  <2>1. CellStep(c) /\ PanelOf(c) /\ CountOf(c) /\ seats' = seats /\ seats \in SeatCounts
        /\ consumed[c] \in {None} \cup Nat
    BY EveryStep, SeatsStay DEF PanelsHold, CountsHold, Typed
  <2>2. CASE (Same(c) \/ Closing(c)) /\ Kept(c)
    <3>1. Panel(c)' = Panel(c) /\ Lost(c) \subseteq Lost(c)'
      BY <2>2 DEF Same, Closing
    <3> QED
      BY <2>1, <2>2, <3>1, PanelIsKept, CountsAreKept
  <2>3. CASE Settling(c)
    BY <2>1, <2>3, SettledPanel, CountsAreKept
  <2> QED
    BY <2>1, <2>2, <2>3 DEF CellStep
<1> QED
  BY <1>1 DEF PanelsHold, CountsHold

-----------------------------------------------------------------------------
(* The hooks. *)

(* What a hook reads as ready is whole.                                     *)
LEMMA ReadyIsWhole ==
  ASSUME NEW c \in ReadyAggregate
  PROVE  c \in Cells /\ Whole(c)
<1>1. c \in Cells /\ Cardinality(Verdicts(c) \cup Lost(c)) = Cardinality(Panel(c))
  BY DEF ReadyAggregate, Closed
<1>2. Verdicts(c) \cup Lost(c) \subseteq Panel(c) /\ Panel(c) \subseteq AllSeats
  BY <1>1, SetsOfCell
<1> QED
  BY <1>1, <1>2, SubsetOfSeats DEF Whole

(* A whole cell whose seats did not change stays whole.                     *)
LEMMA WholeStays ==
  ASSUME NEW c \in Cells, Whole(c), Same(c)
  PROVE  Whole(c)'
BY DEF Whole, Same

(* The hooks' list stays a list of ready cells, so that no hook faults.     *)
LEMMA HooksAreKept ==
  ASSUME Typed, BatchIsOut, Remembered, PanelsHold, TodoIsReady, LatchIsCurrent,
         HooksNeverFault, Next
  PROVE  TodoIsReady' /\ LatchIsCurrent' /\ HooksNeverFault'
<1> DEFINE Good == TodoIsReady' /\ LatchIsCurrent' /\ HooksNeverFault'
<1> SUFFICES Good
  OBVIOUS
<1>1. ASSUME driver'.pc \notin {"mark", "reverify", "settle", "faulted"} PROVE Good
  BY <1>1 DEF TodoIsReady, LatchIsCurrent, HooksNeverFault
<1>2. driver.pc # "faulted"
  BY DEF HooksNeverFault
<1>3. CASE Start \/ LeavePaused \/ Finish \/ Crash
  <2>1. driver'.pc \in {"off", "extract"}
    BY <1>3, RestStep
  <2> QED
    BY <1>1, <2>1
<1>4. ASSUME NEW c \in Cells, NEW u \in Units, NEW gone \in BOOLEAN,
             Succeed(c, u) \/ Strike(c, u) \/ GiveUp(c, u) \/ Refuse(c, u, gone)
      PROVE  Good
  <2>1. driver'.pc \in BatchSteps
    BY <1>4, CallStep
  <2> QED
    BY <1>1, <2>1 DEF BatchSteps
<1>5. CASE ClaimExtract \/ ClaimScore
  <2>1. driver'.pc \in {"score", "pre"} \cup BatchSteps
    BY <1>5, ClaimStep
  <2> QED
    BY <1>1, <2>1 DEF BatchSteps
<1>6. CASE EndBatch
  <2>1. driver'.pc \in {"pausing", "extract", "score", "pre"}
    BY <1>6, BatchEndStep
  <2> QED
    BY <1>1, <2>1
<1>7. CASE PauseAfterOutage
  BY <1>1, <1>7, PauseAfterOutageStep DEF Passing
<1>8. CASE BeginPre
  BY <1>1, <1>8, BeginPreStep DEF Passing
<1>9. CASE BeginAggregate
  <2>1. driver'.pc = "reverify" /\ driver'.todo = ReadyAggregate /\ driver'.latched = breaker
    BY <1>9, BeginAggregateStep DEF Passing
  <2>2. UNCHANGED <<status, breaker>>
    BY <1>9 DEF BeginAggregate, ledger, cellVars
  <2>3. \A c \in driver'.todo : Whole(c)'
    BY <2>1, <2>2, ReadyIsWhole, WholeStays, SameByUnits
  <2>4. TodoIsReady'
    BY <2>1, <2>3 DEF TodoIsReady
  <2>5. LatchIsCurrent'
    BY <2>1, <2>2 DEF LatchIsCurrent
  <2> QED
    BY <2>1, <2>4, <2>5 DEF HooksNeverFault
<1>10. CASE NextPass
  <2>1. driver'.pc \in {"extract", "stalled"}
    BY <1>10, NextPassStep
  <2> QED
    BY <1>1, <2>1
<1>11. ASSUME NEW c \in Cells, Verify(c) PROVE Good
  <2>1. driver'.pc = "mark" /\ driver'.todo = driver.todo /\ driver.todo # {} /\ c = Min(driver.todo)
    BY <1>11, VerifyDrives DEF Passing
  <2>2. status'[c][Own] # "absent"
    BY <1>11, VerifyStep
  <2> QED
    BY <2>1, <2>2 DEF TodoIsReady, LatchIsCurrent, HooksNeverFault
<1>12. ASSUME NEW c \in Cells, MarkPre(c) PROVE Good
  BY <1>1, <1>12, MarkPreStep DEF Passing
<1>13. ASSUME NEW c \in Cells, Reverify(c) PROVE Good
  <2>1. /\ driver.pc = "reverify" /\ driver'.pc = "settle" /\ driver'.todo = driver.todo
        /\ driver.todo # {} /\ driver'.latched = driver.latched
    BY <1>13, ReverifyStep DEF Passing
  <2>2. UNCHANGED <<status, breaker>>
    BY <1>13 DEF Reverify, ledger
  <2>3. \A d \in Cells : Same(d)
    BY <2>2, SameByUnits
  <2>4. \A d \in driver.todo : Whole(d)'
    BY <2>1, <2>3, WholeStays DEF TodoIsReady, Typed
  <2>5. TodoIsReady'
    BY <2>1, <2>4 DEF TodoIsReady
  <2>6. LatchIsCurrent'
    BY <2>1, <2>2 DEF LatchIsCurrent
  <2> QED
    BY <2>1, <2>5, <2>6 DEF HooksNeverFault
<1>14. ASSUME NEW c \in Cells, Settle(c) PROVE Good
  <2>1. /\ driver.pc = "settle" /\ driver'.pc = "reverify" /\ driver'.todo = driver.todo \ {c}
        /\ (breaker => driver.latched) => (breaker' => driver'.latched)
    BY <1>14, SettleDrives DEF Passing
  <2>2. \A d \in Cells : d # c => Same(d)
    BY <1>14, SettleStep
  <2>3. \A d \in driver'.todo : Whole(d)'
    BY <2>1, <2>2, WholeStays DEF TodoIsReady, Typed
  <2>4. TodoIsReady'
    BY <2>1, <2>3 DEF TodoIsReady
  <2>5. LatchIsCurrent'
    BY <2>1 DEF LatchIsCurrent
  <2> QED
    BY <2>1, <2>4, <2>5 DEF HooksNeverFault
<1>15. CASE Pause \/ Resume
  <2>1. driver' = driver /\ UNCHANGED <<status, breaker>>
    BY <1>15, OperatorLeavesDriver DEF ledger, cellVars
  <2>2. \A d \in Cells : Same(d)
    BY <2>1, SameByUnits
  <2>3. driver.pc \in {"reverify", "settle"} => \A d \in driver.todo : Whole(d)'
    BY <2>2, WholeStays DEF TodoIsReady, Typed
  <2>4. TodoIsReady'
    BY <2>1, <2>3 DEF TodoIsReady
  <2> QED
    BY <2>1, <2>4 DEF LatchIsCurrent, HooksNeverFault
<1> HIDE DEF Good
<1> QED
  BY <1>3, <1>4, <1>5, <1>6, <1>7, <1>8, <1>9, <1>10, <1>11, <1>12, <1>13, <1>14, <1>15,
    WhoActs

-----------------------------------------------------------------------------
(* Completion. *)

(* Nothing open, unit by unit.                                              *)
LEMMA NoOpenUnits ==
  ASSUME NEW q, {cu \in Cells \X Units : q[cu[1]][cu[2]] \in Open} = {}
  PROVE  \A c \in Cells, u \in Units : q[c][u] \notin Open
<1>1. ASSUME NEW c \in Cells, NEW u \in Units, q[c][u] \in Open PROVE FALSE
  <2>1. <<c, u>> \in {cu \in Cells \X Units : q[cu[1]][cu[2]] \in Open}
    BY <1>1
  <2> QED
    BY <2>1
<1> QED
  BY <1>1

(* With nothing open and nothing awaiting the aggregate hook, every cell is *)
(* settled over the whole of its panel.                                     *)
LEMMA NothingAwaits ==
  ASSUME Typed', PanelsHold', CountsHold', ScoringFollowsExtraction',
         NothingOpen', ~AwaitingAggregation'
  PROVE  \A c \in Cells : c \in pre' /\ consumed'[c] = Closed(c)'
<1>1. \A c \in Cells, u \in Units : status'[c][u] \notin Open
  <2>1. {cu \in Cells \X Units : status'[cu[1]][cu[2]] \in Open} = {}
    BY DEF NothingOpen, OpenUnits
  <2> QED
    BY <2>1, NoOpenUnits
<1>2. ASSUME NEW c \in Cells
      PROVE  Whole(c)' /\ c \in pre'
  <2>1. \A s \in AllSeats : status'[c][s] \in Statuses /\ status'[c][s] \notin Open
    BY <1>1, UnitNames DEF Typed
  <2>2. Whole(c)'
    BY <2>1 DEF Whole, Panel, Verdicts, Lost, Statuses, Terminal
  <2>3. 1 \in Panel(c)'
    <3>1. Panel(c)' = 1..Size(c)' /\ Size(c)' \in Nat
      BY DEF PanelsHold, PanelOf
    <3>2. \/ Size(c)' = BaseOf[c] + Repair(c)'
          \/ Size(c)' = BaseOf[c] + Repair(c)' + 2
      BY DEF PanelsHold, PanelOf
    <3>3. Repair(c)' \in {0, 1} /\ BaseOf[c] \in Nat /\ BaseOf[c] % 2 = 1
      BY Bounds DEF Repair
    <3>4. BaseOf[c] # 0
      BY <3>3
    <3>5. Size(c)' >= 1
      BY <3>1, <3>2, <3>3, <3>4
    <3> QED
      BY <3>1, <3>5
  <2>4. 1 \in AllSeats /\ status'[c][1] # "absent"
    BY <2>3 DEF Panel
  <2>5. status'[c][1] \in Terminal
    BY <2>1, <2>4 DEF Statuses
  <2> QED
    BY <2>2, <2>4, <2>5 DEF ScoringFollowsExtraction
<1>3. ReadyAggregate' = {}
  <2>1. \E c \in Cells : c \in pre'
    BY <1>2, CellsAssumption
  <2> QED
    BY <2>1 DEF AwaitingAggregation
<1>4. ASSUME NEW c \in Cells PROVE consumed'[c] = Closed(c)'
  <2>1. Closed(c)' = Cardinality(Panel(c)')
    BY <1>2 DEF Whole, Closed
  <2>2. ~(Closed(c)' > consumed'[c])
    BY <1>3, <2>1 DEF ReadyAggregate
  <2>3. Closed(c)' \in Nat /\ consumed'[c] \in Int
    BY <2>1, SetsOfCell, SeatsAreFinite DEF Typed, None
  <2>4. consumed'[c] <= Closed(c)'
    BY DEF CountsHold, CountOf
  <2> QED
    BY <2>2, <2>3, <2>4
<1> QED
  BY <1>2, <1>4

(* The steps that end a run.                                                *)
LEMMA WhoCompletes ==
  ASSUME Next, run # "complete", run' = "complete"
  PROVE  /\ NothingOpen' /\ ~AwaitingAggregation'
         /\ \/ Start \/ Finish \/ Resume
            \/ \E c \in Cells, u \in Units : Strike(c, u)
<1>1. \/ Probe /\ (Start \/ Finish \/ \E c \in Cells, u \in Units : Strike(c, u))
      \/ Resume
  <2>1. ~Pause /\ ~PauseAfterOutage
    BY DEF Pause, PauseAfterOutage
  <2>2. \A c \in Cells : ~Settle(c)
    BY DEF Settle, NoVerdicts, Replace, SetAside, Aggregate, Fault, Score
  <2> QED
    BY <2>1, <2>2, Zenon DEF Next, Drive, Start, ClaimExtract, ClaimScore, EndBatch,
      BeginPre, BeginAggregate, LeavePaused, Finish, NextPass, Verify, MarkPre, Reverify,
      Succeed, Strike, GiveUp, Refuse, Crash
<1>2. CASE Probe
  BY <1>1, <1>2, Zenon DEF Probe
<1>3. CASE Resume
  <2>1. NothingOpen /\ ~AwaitingAggregation
    BY <1>3 DEF Resume
  <2>2. UNCHANGED <<status, pre, consumed, review>>
    BY <1>3 DEF Resume, ledger, cellVars
  <2>3. NothingOpen'
    BY <2>1, <2>2 DEF NothingOpen, OpenUnits
  <2>4. ReadyAggregate' = ReadyAggregate
    <3>1. \A c \in Cells : Closed(c)' = Closed(c) /\ Panel(c)' = Panel(c)
      BY <2>2, SameByUnits DEF Same, Closed
    <3> QED
      BY <2>2, <3>1 DEF ReadyAggregate
  <2>5. ~AwaitingAggregation'
    BY <2>1, <2>2, <2>4 DEF AwaitingAggregation
  <2> QED
    BY <1>3, <2>3, <2>5
<1> QED
  BY <1>1, <1>2, <1>3

(* A complete run has nothing to claim, to end, to verify or to settle.     *)
LEMMA OverIsOver ==
  ASSUME Typed, BatchIsOut, Remembered, PanelsHold, CountsHold, TodoIsReady, CompleteIsOver,
         run = "complete", Next
  PROVE  /\ run' = "complete" /\ UNCHANGED <<status, consumed, review>>
         /\ driver'.pc \notin {"mark", "settle"}
         /\ driver'.pc \in {"verify", "reverify"} => driver'.todo = {}
<1> DEFINE Good ==
      /\ run' = "complete" /\ UNCHANGED <<status, consumed, review>>
      /\ driver'.pc \notin {"mark", "settle"}
      /\ driver'.pc \in {"verify", "reverify"} => driver'.todo = {}
<1> SUFFICES Good
  OBVIOUS
<1>1. /\ \A c \in Cells, u \in Units : status[c][u] \notin Open
      /\ review = {}
      /\ \A c \in Cells : c \in pre /\ consumed[c] = Closed(c)
      /\ driver.pc \notin {"mark", "settle"}
      /\ driver.pc \in {"verify", "reverify"} => driver.todo = {}
      /\ ~(run = "running") /\ ~(run = "paused")
  <2>1. NothingOpen
    BY DEF CompleteIsOver
  <2>2. \A c \in Cells, u \in Units : status[c][u] \notin Open
    BY <2>1, NoOpenUnits DEF NothingOpen, OpenUnits
  <2> QED
    BY <2>1, <2>2 DEF CompleteIsOver, NothingOpen
<1>2. ~Start /\ ~LeavePaused /\ ~Pause /\ ~Resume
  BY <1>1 DEF Start, LeavePaused, Pause, Resume
<1>3. \A c \in Cells : ~Verify(c) /\ ~MarkPre(c) /\ ~Reverify(c) /\ ~Settle(c)
  BY <1>1 DEF Verify, MarkPre, Reverify, Settle
<1>4. \A c \in Cells, u \in Units : ~Succeed(c, u) /\ ~Strike(c, u)
  BY <1>1 DEF Succeed, Strike
<1>5. CASE Finish \/ Crash
  <2>1. driver'.pc \in {"off", "extract"}
    BY <1>5, RestStep
  <2>2. UNCHANGED <<status, consumed, review>>
    BY <1>5 DEF Finish, Crash, ledger, cellVars
  <2>3. run' = "complete"
    BY <1>5 DEF Finish, Crash, Probe
  <2> QED
    BY <2>1, <2>2, <2>3
<1>6. ASSUME NEW c \in Cells, NEW u \in Units, NEW gone \in BOOLEAN,
             GiveUp(c, u) \/ Refuse(c, u, gone)
      PROVE  Good
  <2>1. driver'.pc \in BatchSteps
    BY <1>6, CallStep
  <2>2. UNCHANGED <<status, consumed, review, run>>
    BY <1>6 DEF GiveUp, Refuse, ledger, cellVars
  <2> QED
    BY <2>1, <2>2 DEF BatchSteps
<1>7. CASE ClaimExtract \/ ClaimScore
  <2>1. UNCHANGED status
    BY <1>1, <1>7, ClaimsServe
  <2>2. UNCHANGED <<status, consumed, review, run>>
    BY <1>7, <2>1 DEF ClaimExtract, ClaimScore, cellVars
  <2>3. driver'.pc \in {"score", "pre"} \cup BatchSteps
    BY <1>7, ClaimStep
  <2> QED
    BY <2>2, <2>3 DEF BatchSteps
<1>8. CASE EndBatch
  <2>1. status' = [c \in Cells |-> [u \in Units |->
          IF <<c, u>> \in driver.claimed /\ status[c][u] = "leased"
            THEN "pending" ELSE status[c][u]]]
    BY <1>8 DEF EndBatch
  <2>2. status' = [c \in Cells |-> [u \in Units |-> status[c][u]]]
    BY <1>1, <2>1 DEF Open
  <2>3. status' = status
    BY <2>2 DEF Typed
  <2>4. UNCHANGED <<consumed, review, run>>
    BY <1>8 DEF EndBatch, cellVars
  <2>5. driver'.pc \in {"pausing", "extract", "score", "pre"}
    BY <1>8, BatchEndStep
  <2> QED
    BY <2>3, <2>4, <2>5
<1>9. CASE PauseAfterOutage
  <2>1. run' = run /\ UNCHANGED <<status, consumed, review>>
    BY <1>1, <1>9 DEF PauseAfterOutage, ledger, cellVars
  <2> QED
    BY <2>1, <1>9, PauseAfterOutageStep DEF Passing
<1>10. CASE BeginPre
  <2>1. ReadyPre = {}
    BY <1>1 DEF ReadyPre
  <2>2. UNCHANGED <<status, consumed, review, run>>
    BY <1>10 DEF BeginPre, ledger, cellVars
  <2> QED
    BY <1>10, <2>1, <2>2, BeginPreStep DEF Passing
<1>11. CASE BeginAggregate
  <2>1. ReadyAggregate = {}
    <3>1. \A c \in Cells : Closed(c) \in Nat
      BY SeatsAreFinite, SetsOfCell DEF Closed
    <3> QED
      BY <1>1, <3>1 DEF ReadyAggregate
  <2>2. UNCHANGED <<status, consumed, review, run>>
    BY <1>11 DEF BeginAggregate, ledger, cellVars
  <2> QED
    BY <1>11, <2>1, <2>2, BeginAggregateStep DEF Passing
<1>12. CASE NextPass
  <2>1. UNCHANGED <<status, consumed, review, run>>
    BY <1>12 DEF NextPass, ledger, cellVars
  <2> QED
    BY <1>12, <2>1, NextPassStep
<1> HIDE DEF Good
<1> QED
  BY <1>2, <1>3, <1>4, <1>5, <1>6, <1>7, <1>8, <1>9, <1>10, <1>11, <1>12, WhoActs

(* A complete run stays over: its cells are scored from every verdict.      *)
LEMMA CompletionIsKept ==
  ASSUME Typed, BatchIsOut, Remembered, PanelsHold, CountsHold, TodoIsReady, CompleteIsOver, Next,
         Typed', PanelsHold', CountsHold', ScoringFollowsExtraction'
  PROVE  CompleteIsOver'
<1>1. SUFFICES ASSUME run' = "complete" PROVE CompleteIsOver'
  BY DEF CompleteIsOver
<1>2. CASE run = "complete"
  <2>1. /\ UNCHANGED <<status, consumed, review>>
        /\ driver'.pc \notin {"mark", "settle"}
        /\ driver'.pc \in {"verify", "reverify"} => driver'.todo = {}
    BY <1>2, OverIsOver
  <2>2. NothingOpen /\ \A c \in Cells : c \in pre /\ consumed[c] = Closed(c)
    BY <1>2 DEF CompleteIsOver
  <2>3. NothingOpen'
    BY <2>1, <2>2 DEF NothingOpen, OpenUnits
  <2>4. \A c \in Cells : c \in pre'
    BY <2>2, PreGrows
  <2>5. \A c \in Cells : consumed'[c] = Closed(c)'
    <3>1. \A c \in Cells : Same(c)
      BY <2>1, SameByUnits
    <3> QED
      BY <2>1, <2>2, <3>1 DEF Same, Closed
  <2> QED
    BY <2>1, <2>3, <2>4, <2>5 DEF CompleteIsOver
<1>3. CASE run # "complete"
  <2>1. /\ NothingOpen' /\ ~AwaitingAggregation'
        /\ \/ Start \/ Finish \/ Resume
           \/ \E c \in Cells, u \in Units : Strike(c, u)
    BY <1>1, <1>3, WhoCompletes
  <2>2. \A c \in Cells : c \in pre' /\ consumed'[c] = Closed(c)'
    BY <2>1, NothingAwaits
  <2>3. driver'.pc \notin HookSteps
    <3>1. CASE Start \/ Finish
      BY <3>1, RestStep DEF HookSteps
    <3>2. CASE Resume
      BY <3>2, OperatorLeavesDriver DEF HookSteps, Stopped
    <3>3. ASSUME NEW c \in Cells, NEW u \in Units, Strike(c, u) PROVE driver'.pc \notin HookSteps
      <4>1. \A gone \in BOOLEAN : driver'.pc \in BatchSteps
        BY <3>3, CallStep
      <4> QED
        BY <4>1 DEF HookSteps, BatchSteps
    <3> QED
      BY <2>1, <3>1, <3>2, <3>3
  <2> QED
    BY <2>1, <2>2, <2>3 DEF CompleteIsOver, HookSteps
<1> QED
  BY <1>2, <1>3

-----------------------------------------------------------------------------
(* The invariant, and what follows from it. *)

(* The invariant holds at first.                                            *)
LEMMA InitIsGood ==
  ASSUME Init
  PROVE  CellsInv
<1>1. status = [c \in Cells |-> [u \in Units |->
         IF u = Extraction \/ u \in 1..BaseOf[c] THEN "pending" ELSE "absent"]]
  BY DEF Init
<1>2. /\ pre = {} /\ review = {} /\ replaced = {} /\ breaker = FALSE /\ run = "running"
      /\ consumed = [c \in Cells |-> None] /\ score = [c \in Cells |-> NoScore]
      /\ seats \in SeatCounts /\ driver = Idle
  BY DEF Init
<1>3. status \in [Cells -> [Units -> Statuses]]
  BY <1>1 DEF Statuses, Open
<1>4. score \in [Cells -> [judges : SUBSET AllSeats, state : States]]
  BY <1>2 DEF NoScore, States
<1>5. DriverShape
  BY <1>2 DEF DriverShape, Idle
<1>6. /\ driver.pc = "off" /\ driver.claimed = {} /\ driver.calls = {} /\ driver.todo = {}
      /\ driver.cached = {}
  BY <1>2 DEF Idle
<1>7. Typed
  BY <1>2, <1>3, <1>4, <1>5, <1>6 DEF Typed
<1>8. ASSUME NEW c \in Cells
      PROVE  PanelOf(c) /\ CountOf(c)
  <2>1. BaseOf[c] \in Nat /\ BaseOf[c] <= MaxSeats /\ MaxSeats \in Nat
    BY Bounds
  <2>2. \A s \in AllSeats : status[c][s] = IF s \in 1..BaseOf[c] THEN "pending" ELSE "absent"
    BY <1>1, UnitNames
  <2>3. Panel(c) = 1..BaseOf[c]
    BY <2>1, <2>2 DEF Panel, AllSeats
  <2>4. Verdicts(c) = {} /\ Lost(c) = {}
    BY <2>2 DEF Verdicts, Lost
  <2>5. Size(c) = BaseOf[c]
    BY <2>1, <2>3, FirstSeats DEF Size
  <2>6. Repair(c) = 0
    BY <1>2 DEF Repair
  <2>7. PanelOf(c)
    BY <1>2, <2>1, <2>3, <2>5, <2>6 DEF PanelOf
  <2>8. Closed(c) = 0
    BY <2>4, FS_EmptySet DEF Closed
  <2>9. consumed[c] = -1 /\ score[c].judges = {}
    BY <1>2 DEF None, NoScore
  <2> QED
    BY <2>4, <2>7, <2>8, <2>9 DEF CountOf
<1>9. ScoringFollowsExtraction
  <2>1. \A c \in Cells, s \in AllSeats : status[c][s] \in {"pending", "absent"}
    BY <1>1, UnitNames
  <2> QED
    BY <2>1 DEF ScoringFollowsExtraction, Terminal
<1>10. Filed
  BY <1>1, <1>2, UnitNames DEF Filed
<1>11. /\ BatchIsOut /\ Remembered /\ BatchHasPassed /\ TodoIsReady /\ LatchIsCurrent
       /\ CompleteIsOver /\ HooksNeverFault
  BY <1>2, <1>6 DEF BatchIsOut, Remembered, BatchHasPassed, TodoIsReady, LatchIsCurrent, CompleteIsOver,
    HooksNeverFault
<1> QED
  BY <1>7, <1>8, <1>9, <1>10, <1>11 DEF CellsInv, PanelsHold, CountsHold

(* Each step keeps the invariant.                                           *)
LEMMA StepIsGood ==
  ASSUME CellsInv, Next
  PROVE  CellsInv'
<1>1. Typed' /\ BatchIsOut'
  BY TypedIsKept DEF CellsInv
<1>2. Remembered' /\ BatchHasPassed' /\ Filed' /\ ScoringFollowsExtraction'
  BY MemoryIsKept, OrderIsKept DEF CellsInv
<1>3. PanelsHold' /\ CountsHold'
  BY PanelsAreKept DEF CellsInv
<1>4. TodoIsReady' /\ LatchIsCurrent' /\ HooksNeverFault'
  BY HooksAreKept DEF CellsInv
<1>5. CompleteIsOver'
  BY <1>1, <1>2, <1>3, CompletionIsKept DEF CellsInv
<1> QED
  BY <1>1, <1>2, <1>3, <1>4, <1>5 DEF CellsInv

(* So does a step that changes nothing.                                     *)
LEMMA StutterIsGood ==
  ASSUME CellsInv, UNCHANGED vars
  PROVE  CellsInv'
<1>1. UNCHANGED <<status, pre, consumed, score, review, replaced, breaker, run, seats, driver>>
  BY DEF vars, ledger, cellVars
<1>2. Typed' /\ BatchIsOut' /\ Remembered' /\ BatchHasPassed' /\ Filed'
  <2>1. Typed' /\ BatchIsOut'
    BY <1>1, Zenon DEF CellsInv, Typed, DriverShape, BatchIsOut
  <2>3. Remembered'
    BY <1>1, Zenon DEF CellsInv, Remembered, Ready, Blocked
  <2>2. BatchHasPassed' /\ Filed'
    BY <1>1, Zenon DEF CellsInv, BatchHasPassed, Passed, Filed
  <2> QED
    BY <2>1, <2>2, <2>3
<1>3. \A c \in Cells : Same(c)
  BY <1>1, SameByUnits
<1>4. TodoIsReady'
  BY <1>1, <1>3, WholeStays DEF CellsInv, TodoIsReady, Typed
<1>5. ASSUME NEW c \in Cells PROVE PanelOf(c)' /\ CountOf(c)'
  <2>1. CellStep(c) /\ PanelOf(c) /\ CountOf(c) /\ consumed[c] \in {None} \cup Nat /\ Kept(c)
    BY <1>1, <1>3 DEF CellsInv, CellStep, Kept, PanelsHold, CountsHold, Typed
  <2>2. Panel(c)' = Panel(c) /\ Lost(c) \subseteq Lost(c)' /\ seats' = seats
    BY <1>1, <1>3 DEF Same
  <2> QED
    BY <2>1, <2>2, PanelIsKept, CountsAreKept
<1>6. ScoringFollowsExtraction'
  BY <1>1, Zenon DEF CellsInv, ScoringFollowsExtraction
<1>7. LatchIsCurrent' /\ HooksNeverFault'
  BY <1>1, Zenon DEF CellsInv, LatchIsCurrent, HooksNeverFault
<1>8. CompleteIsOver'
  <2>1. \A c \in Cells : Closed(c)' = Closed(c)
    BY <1>3 DEF Same, Closed
  <2>2. NothingOpen' = NothingOpen
    BY <1>1, Zenon DEF NothingOpen, OpenUnits
  <2> QED
    BY <1>1, <2>1, <2>2 DEF CellsInv, CompleteIsOver
<1> QED
  BY <1>2, <1>4, <1>5, <1>6, <1>7, <1>8 DEF CellsInv, PanelsHold, CountsHold

(* The invariant holds in every state: of every cell, of every unit, of the *)
(* hooks' lists and of a run that is complete.                              *)
THEOREM CellsInvariant == Spec => []CellsInv
<1>1. Init => CellsInv
  BY InitIsGood
<1>2. CellsInv /\ [Next]_vars => CellsInv'
  BY StepIsGood, StutterIsGood
<1> QED
  BY <1>1, <1>2, PTL DEF Spec

(* However many judges are lost and wherever the driver dies, no hook meets *)
(* a panel that aggregate or enqueue_escalation would refuse.               *)
THEOREM HooksNeverFaultAtAll == Spec => []HooksNeverFault
<1>1. CellsInv => HooksNeverFault
  BY DEF CellsInv
<1> QED
  BY <1>1, CellsInvariant, PTL

(* A seat is only ever handed out, or ended, in a cell whose extractions    *)
(* are done and which the gate has passed on.                               *)
THEOREM ScoringAlwaysFollows == Spec => []ScoringFollowsExtraction
<1>1. CellsInv => ScoringFollowsExtraction
  BY DEF CellsInv
<1> QED
  BY <1>1, CellsInvariant, PTL

(* The seats added to a panel are those past the enumerated ones.           *)
LEMMA AddedSeats ==
  ASSUME NEW c \in Cells, PanelOf(c)
  PROVE  Cardinality(Added(c)) = Size(c) - BaseOf[c]
<1>1. BaseOf[c] \in Nat /\ Size(c) \in Nat /\ Panel(c) = 1..Size(c)
  BY Bounds DEF PanelOf
<1>2. Size(c) >= BaseOf[c]
  BY <1>1 DEF PanelOf, Repair
<1>3. Added(c) = (BaseOf[c] + 1)..Size(c)
  BY <1>1 DEF Added
<1>4. BaseOf[c] + 1 \in Int /\ Size(c) \in Int
  BY <1>1
<1> DEFINE from == BaseOf[c] + 1
<1> HIDE DEF from
<1>5. Cardinality(from..Size(c)) = IF from > Size(c) THEN 0 ELSE Size(c) - from + 1
  BY <1>4, FS_Interval DEF from
<1> QED
  BY <1>1, <1>2, <1>3, <1>5 DEF from

(* A panel is widened by two once and repaired by one once, within the      *)
(* models there are, and what widened it is on record.                      *)
THEOREM PanelsWidenOnce == Spec => []WidenedOnce
<1>1. CellsInv => WidenedOnce
  <2>1. SUFFICES ASSUME CellsInv, NEW c \in Cells
                 PROVE  /\ Cardinality(Added(c)) - Repair(c) \in {0, 2}
                        /\ Added(c) # {} => Cardinality(Panel(c)) <= seats
                        /\ Cardinality(Added(c)) - Repair(c) = 2
                             => score[c] # NoScore /\ consumed[c] # None
    BY DEF WidenedOnce, Repair
  <2>2. PanelOf(c) /\ BaseOf[c] \in Nat /\ Size(c) \in Nat /\ Repair(c) \in {0, 1}
    BY <2>1, Bounds DEF CellsInv, PanelsHold, PanelOf, Repair
  <2>3. Cardinality(Added(c)) = Size(c) - BaseOf[c]
    BY <2>2, AddedSeats
  <2>4. Cardinality(Added(c)) - Repair(c) \in {0, 2}
    BY <2>2, <2>3 DEF PanelOf
  <2>5. Added(c) # {} => Cardinality(Panel(c)) <= seats
    <3>1. SUFFICES ASSUME Added(c) # {} PROVE Size(c) <= seats
      BY DEF Size
    <3>2. PICK s \in 1..Size(c) : s > BaseOf[c]
      BY <2>2, <3>1 DEF Added, PanelOf
    <3>3. Size(c) # BaseOf[c]
      BY <2>2, <3>2
    <3> QED
      BY <2>2, <3>3 DEF PanelOf
  <2>6. Cardinality(Added(c)) - Repair(c) = 2 => score[c].judges # {} /\ consumed[c] # None
    <3>1. Cardinality(Added(c)) - Repair(c) = 2 => Size(c) = BaseOf[c] + Repair(c) + 2
      BY <2>2, <2>3
    <3> QED
      BY <2>2, <3>1 DEF PanelOf
  <2>7. score[c].judges # {} => score[c] # NoScore
    BY DEF NoScore
  <2> QED
    BY <2>4, <2>5, <2>6, <2>7
<1> QED
  BY <1>1, CellsInvariant, PTL

(* A run that is complete has scored every cell over all of its verdicts.   *)
THEOREM CompleteRunsCountAll == Spec => []CompleteCountsEveryVerdict
<1>1. CellsInv => CompleteCountsEveryVerdict
  <2>1. SUFFICES ASSUME CellsInv, run = "complete", NEW c \in Cells
                 PROVE  /\ Panel(c) = Verdicts(c) \cup Lost(c)
                        /\ consumed[c] = Closed(c)
                        /\ score[c].judges = Verdicts(c)
    BY DEF CompleteCountsEveryVerdict
  <2>2. NothingOpen /\ consumed[c] = Closed(c)
    BY <2>1 DEF CellsInv, CompleteIsOver
  <2>3. \A s \in AllSeats : status[c][s] \in Statuses /\ status[c][s] \notin Open
    BY <2>1, <2>2, NoOpenUnits, UnitNames DEF CellsInv, Typed, NothingOpen, OpenUnits
  <2>4. Panel(c) = Verdicts(c) \cup Lost(c)
    BY <2>3 DEF Panel, Verdicts, Lost, Statuses, Terminal
  <2>5. score[c].judges = Verdicts(c)
    BY <2>1, <2>2 DEF CellsInv, CountsHold, CountOf
  <2> QED
    BY <2>2, <2>4, <2>5
<1> QED
  BY <1>1, CellsInvariant, PTL

(* What a step may do once the breaker has latched: no panel grows, and no  *)
(* score is written as final.                                               *)
LEMMA LatchedStep ==
  ASSUME CellsInv, Next, breaker, NEW c \in Cells
  PROVE  Added(c)' = Added(c) /\ (score'[c] # score[c] => score'[c].state # "final")
<1> DEFINE Good == Added(c)' = Added(c) /\ (score'[c] # score[c] => score'[c].state # "final")
<1> SUFFICES Good
  OBVIOUS
<1>1. Typed /\ Remembered /\ PanelsHold /\ TodoIsReady /\ LatchIsCurrent
  BY DEF CellsInv
<1>2. ASSUME Panel(c)' = Panel(c), score'[c] = score[c] PROVE Good
  BY <1>2 DEF Added
<1>3. CASE Still
  BY <1>2, <1>3, SameByUnits DEF Still, Same
<1>4. CASE (Start \/ ClaimExtract \/ ClaimScore \/ EndBatch) /\ UNCHANGED score
  <2>1. Same(c)
    BY <1>1, <1>4, RecoveryShuffles, ClaimsShuffle, ShuffledIsSame
  <2> QED
    BY <1>2, <1>4, <2>1 DEF Same
<1>5. ASSUME NEW d \in Cells, Verify(d) PROVE Good
  <2>1. status' = status \/ status' = [status EXCEPT ![d][Own] = "pending"]
    BY <1>5, Zenon DEF Verify, ledger
  <2>2. \A s \in AllSeats : status'[c][s] = status[c][s]
    BY <1>1, <2>1, UnitNames DEF Typed
  <2>3. Panel(c)' = Panel(c) /\ score' = score
    BY <1>5, <2>2 DEF Panel, Verify, cellVars
  <2> QED
    BY <1>2, <2>3
<1>6. ASSUME NEW d \in Cells, NEW u \in Units, Succeed(d, u) \/ Strike(d, u) PROVE Good
  <2>1. /\ status[d][u] \in Open
        /\ status'[d][u] \in {"pending"} \cup Terminal
        /\ status' = [status EXCEPT ![d][u] = status'[d][u]]
    BY <1>1, <1>6, CallsEndUnits
  <2>2. \A s \in AllSeats : status'[c][s] = "absent" <=> status[c][s] = "absent"
    BY <1>1, <2>1, UnitNames DEF Typed, Open, Terminal
  <2>3. Panel(c)' = Panel(c) /\ score' = score
    BY <1>6, <2>2 DEF Panel, Succeed, Strike, cellVars
  <2> QED
    BY <1>2, <2>3
<1>7. ASSUME NEW d \in Cells, Settle(d) PROVE Good
  <2>1. Added(c)' = Added(c)
    <3>1. (\A e \in Cells : e # d => Same(e)) /\ (breaker => Added(d)' = Added(d))
      BY <1>1, <1>7, SettleStep
    <3> QED
      BY <3>1 DEF Same, Added
  <2>2. \/ NoVerdicts(d) \/ Replace(d) \/ SetAside(d)
        \/ \E wants, engine \in BOOLEAN : Score(d, wants, engine)
    BY <1>1, <1>7, SettleOutcomes
  <2>3. DOMAIN score = Cells
    BY <1>1 DEF Typed
  <2>4. CASE NoVerdicts(d) \/ Replace(d) \/ SetAside(d)
    <3>1. \/ score' = score
          \/ score' = [score EXCEPT ![d] = [judges |-> Verdicts(d), state |-> "ungradeable"]]
      BY <2>4, Zenon DEF NoVerdicts, Replace, SetAside
    <3> QED
      BY <2>1, <2>3, <3>1
  <2>5. ASSUME NEW wants \in BOOLEAN, NEW engine \in BOOLEAN, Score(d, wants, engine) PROVE Good
    <3>1. driver.latched
      BY <1>1, <1>7 DEF LatchIsCurrent, Settle
    <3>2. StateOf(d, engine) = "ungradeable"
      BY <3>1 DEF StateOf
    <3>3. score' = [score EXCEPT ![d] = [judges |-> Verdicts(d), state |-> "ungradeable"]]
      BY <2>5, <3>2 DEF Score
    <3> QED
      BY <2>1, <2>3, <3>3
  <2> HIDE DEF Good
  <2> QED
    BY <2>2, <2>4, <2>5
<1> HIDE DEF Good
<1> QED
  BY <1>3, <1>4, <1>5, <1>6, <1>7, WhoWritesUnits

(* Once the breaker has latched no panel grows and no score is final: the   *)
(* hook's copy of the breaker is current whenever it settles a cell.        *)
THEOREM BreakerAlwaysHalts == Spec => BreakerHalts
<1>1. CellsInv /\ [Next]_vars =>
        [breaker => \A c \in Cells :
           /\ Added(c)' = Added(c)
           /\ score[c]' # score[c] => score[c].state' # "final"]_vars
  BY LatchedStep
<1> QED
  BY <1>1, CellsInvariant, PTL DEF Spec, BreakerHalts

==============================================================================
