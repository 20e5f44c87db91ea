---------------------------- MODULE DispatchProofs ----------------------------
(***************************************************************************)
(* What the dispatch of units keeps for every number of drivers, runs,     *)
(* units and judges, every cost and every ceiling: the types, the cost     *)
(* ceiling, a spend that covers every claim, a panel that is never empty   *)
(* and a width that can be used.                                           *)
(*                                                                         *)
(* SpendWithinCeiling and PanelKeepsAJudge are inductive next to the types:*)
(* a claim compares the spend of the very transaction that raises it, and  *)
(* a drop leaves the panel it read short of one of at least two judges.    *)
(* WidthUsable needs to know where a driver has units out at all, and      *)
(* SpendCoversClaims that what a driver has out is leased and in no other  *)
(* driver's hands: a unit that ended while it was pending would be done    *)
(* and unpaid.                                                             *)
(***************************************************************************)
EXTENDS Dispatch, FiniteSetTheorems, TLAPS

(* The reduced width is a number, whatever the divisor.                     *)
LEMMA ReducedType ==
  ASSUME NEW n \in Nat
  PROVE  Reduced(n) \in Nat
<1>1. Divisor \in Nat /\ Divisor > 0
  BY DispatchAssumption
<1>2. n \div Divisor \in Nat
  BY <1>1
<1> QED
  BY <1>2 DEF Reduced

(* A reduced width is at least one and no wider than it was.                *)
LEMMA ReducedRange ==
  ASSUME NEW n \in Nat \ {0}
  PROVE  Reduced(n) \in 1..n
<1>1. Divisor \in Nat /\ Divisor > 0
  BY DispatchAssumption
<1>2. n \div Divisor \in Nat /\ n \div Divisor <= n
  BY <1>1
<1> QED
  BY <1>2 DEF Reduced

(* A driver starts, and starts over, with a well-typed memory.              *)
LEMMA FreshType ==
  ASSUME NEW step \in {"off", "idle", "claim", "answer"}
  PROVE  Fresh(step) \in Driver
BY DispatchAssumption DEF Fresh, Driver, None

(* The drop of one judge of several leaves a judge.                         *)
LEMMA DropLeavesOne ==
  ASSUME NEW arms, NEW j, Drops(arms, j)
  PROVE  DropFrom(arms, j) # {}
<1>1. SUFFICES ASSUME arms \ {j} = {} PROVE FALSE
  BY DEF DropFrom
<1>2. arms = {j}
  BY <1>1 DEF Drops
<1>3. Cardinality({j}) = 1
  BY FS_Singleton
<1> QED
  BY <1>2, <1>3 DEF Drops

(* A panel has a judge to begin with.                                       *)
LEMMA SomeJudge == Judges # {}
<1>1. Cardinality({}) = 0
  BY FS_EmptySet
<1> QED
  BY <1>1, DispatchAssumption

-----------------------------------------------------------------------------
(* What WidthUsable rests on: a driver that is off, or between passes, has  *)
(* nothing out, one that claims has nothing to requeue.                     *)
DriverWidth(m) ==
  /\ m.cap \in 1..Width
  /\ m.width \in 1..Width
  /\ IsFiniteSet(m.batch \cup m.retry)
  /\ Cardinality(m.batch \cup m.retry) <= m.width
  /\ m.at \in {"off", "idle"} => m.batch = {}
  /\ m.at # "answer" => m.retry = {}

WidthInv == \A d \in Drivers : DriverWidth(driver[d])

(* A fresh driver has nothing out and the frozen width.                     *)
LEMMA FreshWidth ==
  ASSUME NEW step
  PROVE  DriverWidth(Fresh(step))
<1>1. Cardinality({}) = 0 /\ IsFiniteSet({})
  BY FS_EmptySet
<1>2. Width \in Nat \ {0}
  BY DispatchAssumption
<1> QED
  BY <1>1, <1>2 DEF DriverWidth, Fresh

(* A step of one driver concerns that driver only.                          *)
LEMMA OneWidth ==
  ASSUME TypeOK, WidthInv, NEW d \in Drivers, NEW m, DriverWidth(m),
         driver' = [driver EXCEPT ![d] = m]
  PROVE  WidthInv'
BY DEF TypeOK, WidthInv, DriverWidth

(* What a driver has out may shrink or change hands.                        *)
LEMMA FewerOut ==
  ASSUME NEW m \in Driver, NEW n \in Driver, DriverWidth(m),
         n.batch \cup n.retry \subseteq m.batch \cup m.retry,
         n.cap \in 1..Width, n.width = m.width,
         n.at \in {"off", "idle"} => n.batch = {},
         n.at # "answer" => n.retry = {}
  PROVE  DriverWidth(n)
<1>1. IsFiniteSet(m.batch \cup m.retry)
  BY DEF DriverWidth
<1>2. /\ IsFiniteSet(n.batch \cup n.retry)
      /\ Cardinality(n.batch \cup n.retry) <= Cardinality(m.batch \cup m.retry)
  BY <1>1, FS_Subset
<1>3. Cardinality(n.batch \cup n.retry) \in Nat /\ Cardinality(m.batch \cup m.retry) \in Nat
  BY <1>1, <1>2, FS_CardinalityType
<1>4. m.width \in Nat
  BY DEF Driver
<1> QED
  BY <1>2, <1>3, <1>4 DEF DriverWidth

-----------------------------------------------------------------------------
(* The inductive invariant. *)
DispatchInv ==
  /\ TypeOK
  /\ SpendWithinCeiling
  /\ PanelKeepsAJudge
  /\ WidthInv

(* It holds when the runs start.                                            *)
LEMMA InvInit == Init => DispatchInv
<1> SUFFICES ASSUME Init PROVE DispatchInv
  OBVIOUS
<1>1. \A d \in Drivers : driver[d] \in Driver
  BY FreshType DEF Init
<1>2. TypeOK
  BY <1>1 DEF Init, TypeOK
<1>3. SpendWithinCeiling
  BY DispatchAssumption DEF Init, SpendWithinCeiling
<1>4. PanelKeepsAJudge
  BY SomeJudge DEF Init, PanelKeepsAJudge
<1>5. WidthInv
  BY FreshWidth DEF Init, WidthInv
<1> QED
  BY <1>2, <1>3, <1>4, <1>5 DEF DispatchInv

(* A pause is a change of status only.                                      *)
LEMMA PauseType ==
  ASSUME TypeOK, NEW r \in Runs, PauseRun(r)
  PROVE  status' \in [Runs -> {"running", "paused", "complete"}]
BY DEF TypeOK, PauseRun

(* The driver's own steps: whatever changes one driver's memory keeps every *)
(* driver's.                                                                *)
LEMMA OneDriver ==
  ASSUME TypeOK, NEW d \in Drivers, NEW m \in Driver,
         driver' = [driver EXCEPT ![d] = m]
  PROVE  driver' \in [Drivers -> Driver]
BY DEF TypeOK

(* Every step of a driver keeps the types.                                  *)
LEMMA DriveType ==
  ASSUME TypeOK, NEW d \in Drivers, Drive(d)
  PROVE  TypeOK'
<1> USE DEF IsAt, Own
<1>d. driver[d] \in Driver /\ Own(d) \in Runs
  BY DispatchAssumption DEF TypeOK
<1>1. CASE BeginPass(d)
  <2>1. PICK w \in {driver[d].cap, Reduced(driver[d].cap)} :
          driver' = [driver EXCEPT ![d].at = "claim", ![d].width = w,
                                   ![d].stage = "extract", ![d].seen = panel[Own(d)]]
    BY <1>1 DEF BeginPass
  <2>2. w \in Nat
    BY <1>d, ReducedType DEF Driver
  <2>3. driver' \in [Drivers -> Driver]
    BY ZenonT(60), <1>d, <2>1, <2>2 DEF TypeOK, Driver
  <2> QED
    BY <1>1, <2>3 DEF BeginPass, TypeOK
<1>2. CASE EndWalk(d)
  <2> DEFINE rec == [driver[d] EXCEPT !.walking = NoRun, !.skipped = {}]
  <2>1. rec \in Driver
    BY <1>d DEF Driver
  <2>2. [rec EXCEPT !.at = "answer"] \in Driver
    BY <2>1 DEF Driver
  <2>3. [rec EXCEPT !.stage = "score"] \in Driver
    BY <2>1 DEF Driver
  <2>4. Fresh("off") \in Driver
    BY FreshType
  <2>5. PICK m \in Driver : driver' = [driver EXCEPT ![d] = m]
    BY <1>2, <2>2, <2>3, <2>4 DEF EndWalk
  <2>6. driver' \in [Drivers -> Driver]
    BY <2>5, OneDriver
  <2> QED
    BY <1>2, <2>6 DEF EndWalk, TypeOK
<1>3. CASE EndLoop(d)
  <2>1. driver' \in [Drivers -> Driver]
    BY <1>3, FreshType, OneDriver DEF EndLoop
  <2> QED
    BY <1>3, <2>1 DEF EndLoop, TypeOK
<1>4. CASE Restart(d)
  <2>1. driver' \in [Drivers -> Driver]
    BY <1>4, FreshType, OneDriver DEF Restart
  <2>2. ledger' \in [Units -> {"pending", "leased", "done"}]
    BY <1>4 DEF Restart, TypeOK
  <2> QED
    BY <1>4, <2>1, <2>2 DEF Restart, TypeOK
<1>5. CASE Requeue(d)
  <2>1. driver' \in [Drivers -> Driver]
    BY <1>5, <1>d DEF Requeue, TypeOK, Driver
  <2>2. ledger' \in [Units -> {"pending", "leased", "done"}]
    BY <1>5 DEF Requeue, TypeOK
  <2> QED
    BY <1>5, <2>1, <2>2 DEF Requeue, TypeOK
<1>6. CASE PauseOwn(d)
  <2>1. driver' \in [Drivers -> Driver]
    BY <1>6, <1>d DEF PauseOwn, TypeOK, Driver
  <2>2. status' \in [Runs -> {"running", "paused", "complete"}]
    BY <1>6, <1>d, PauseType DEF PauseOwn
  <2> QED
    BY <1>6, <2>1, <2>2 DEF PauseOwn, TypeOK
<1>7. CASE EndBatch(d)
  <2> DEFINE reduce == driver[d].blocked /\ ~driver[d].reduced
             rec == [driver[d] EXCEPT
                       !.cap = IF reduce THEN Reduced(@) ELSE @,
                       !.reduced = @ \/ reduce,
                       !.blocked = FALSE]
  <2>1. Reduced(driver[d].cap) \in Nat
    BY <1>d, ReducedType DEF Driver
  <2>2. rec \in Driver
    BY <1>d, <2>1 DEF Driver
  <2>3. \A s \in {"extract", "score"} : [rec EXCEPT !.at = "claim", !.stage = s] \in Driver
    <3> HIDE DEF rec
    <3> QED
      BY <2>2 DEF Driver
  <2>4. [Fresh("idle") EXCEPT !.cap = rec.cap, !.width = rec.cap, !.ooms = rec.ooms]
          \in Driver
    <3>1. Fresh("idle") \in Driver
      BY FreshType
    <3>2. rec.cap \in Nat /\ rec.ooms \in [Judges -> Nat]
      BY <2>2 DEF Driver
    <3> HIDE DEF rec
    <3> QED
      BY <3>1, <3>2 DEF Driver
  <2>5. PICK m \in Driver : driver' = [driver EXCEPT ![d] = m]
    BY <1>7, <2>3, <2>4 DEF EndBatch
  <2>6. driver' \in [Drivers -> Driver]
    BY <2>5, OneDriver
  <2> QED
    BY <1>7, <2>6 DEF EndBatch, TypeOK
<1>8. CASE \E j \in Judges : Remedy(d, j)
  <2>1. PICK j \in Judges : Remedy(d, j)
    BY <1>8
  <2> DEFINE count == driver[d].ooms[j] + driver[d].oomed[j]
             kept == IF count > OomLimit THEN OomLimit ELSE count
  <2>2. kept \in Nat
    BY <1>d, DispatchAssumption DEF Driver
  <2>3. driver' = [driver EXCEPT ![d].oomed[j] = 0, ![d].ooms[j] = kept]
    BY <2>1 DEF Remedy
  <2>4. driver' \in [Drivers -> Driver]
    BY <1>d, <2>2, <2>3 DEF TypeOK, Driver
  <2>5. panel' \in [Runs -> SUBSET Judges]
    BY <1>d, <2>1 DEF Remedy, TypeOK, Driver, DropFrom
  <2> QED
    BY <2>1, <2>4, <2>5 DEF Remedy, TypeOK
<1>9. CASE \E u \in Units : AnswerOk(d, u)
  <2>1. PICK u \in Units : AnswerOk(d, u)
    BY <1>9
  <2>2. driver' \in [Drivers -> Driver]
    BY <1>d, <2>1 DEF AnswerOk, TypeOK, Driver
  <2>3. ledger' \in [Units -> {"pending", "leased", "done"}]
    BY <2>1 DEF AnswerOk, TypeOK
  <2>4. status' \in [Runs -> {"running", "paused", "complete"}]
    BY <2>1 DEF AnswerOk, TypeOK
  <2> QED
    BY <2>1, <2>2, <2>3, <2>4 DEF AnswerOk, TypeOK
<1>10. CASE \E u \in Units : AnswerRetry(d, u) \/ AnswerOom(d, u) \/ AnswerGone(d, u)
  <2>1. PICK u \in Units : AnswerRetry(d, u) \/ AnswerOom(d, u) \/ AnswerGone(d, u)
    BY <1>10
  <2>2. JudgeOf[u] \in Judges \cup {NoJudge}
    BY DispatchAssumption
  <2>3. \E rec \in Driver : Retry(d, u, rec)
    <3>1. CASE AnswerRetry(d, u)
      BY <1>d, <3>1 DEF AnswerRetry
    <3>2. CASE AnswerOom(d, u)
      <4>1. [driver[d] EXCEPT !.oomed[JudgeOf[u]] = @ + 1] \in Driver
        BY <1>d, <2>2, <3>2 DEF AnswerOom, Driver
      <4> QED
        BY <3>2, <4>1 DEF AnswerOom
    <3>3. CASE AnswerGone(d, u)
      <4>1. [driver[d] EXCEPT !.faulted = TRUE] \in Driver
        BY <1>d DEF Driver
      <4> QED
        BY <3>3, <4>1 DEF AnswerGone
    <3> QED
      BY <2>1, <3>1, <3>2, <3>3
  <2>4. PICK rec \in Driver : Retry(d, u, rec)
    BY <2>3
  <2>5. [rec EXCEPT !.batch = @ \ {u}, !.retry = @ \cup {u}, !.blocked = TRUE] \in Driver
    BY <2>4 DEF Driver
  <2>6. driver' \in [Drivers -> Driver]
    BY <2>4, <2>5, OneDriver DEF Retry
  <2> QED
    BY <2>1, <2>6 DEF AnswerRetry, AnswerOom, AnswerGone, TypeOK
<1>11. CASE \E u \in Units : Abort(d, u)
  <2>1. driver' \in [Drivers -> Driver]
    BY <1>11, FreshType, OneDriver DEF Abort
  <2>2. status' \in [Runs -> {"running", "paused", "complete"}]
    BY <1>11, <1>d, PauseType DEF Abort
  <2> QED
    BY <1>11, <2>1, <2>2 DEF Abort, TypeOK
<1>12. CASE \E r \in Runs : WalkRun(d, r)
  <2>1. PICK r \in Runs : WalkRun(d, r)
    BY <1>12
  <2>2. driver' \in [Drivers -> Driver]
    BY <1>d, <2>1 DEF WalkRun, TypeOK, Driver, Dropped
  <2> QED
    BY <2>1, <2>2 DEF WalkRun, TypeOK
<1>13. CASE \E u \in Units : ClaimRefused(d, u)
  <2>1. PICK u \in Units : ClaimRefused(d, u)
    BY <1>13
  <2>2. driver' \in [Drivers -> Driver]
    BY <1>d, <2>1 DEF ClaimRefused, TypeOK, Driver
  <2>3. status' \in [Runs -> {"running", "paused", "complete"}]
    BY <2>1, DispatchAssumption, PauseType DEF ClaimRefused
  <2> QED
    BY <2>1, <2>2, <2>3 DEF ClaimRefused, TypeOK
<1>14. CASE \E u \in Units : Claim(d, u)
  <2>1. PICK u \in Units : Claim(d, u)
    BY <1>14
  <2>2. driver' \in [Drivers -> Driver]
    <3>1. PICK w \in Runs \cup {NoRun}, k \in SUBSET Judges :
            driver' = [driver EXCEPT ![d].batch = @ \cup {u}, ![d].walking = w,
                                     ![d].skipped = k]
      BY <1>d, <2>1 DEF Claim, Driver
    <3> QED
      BY ZenonT(60), <1>d, <3>1 DEF TypeOK, Driver
  <2>3. status' \in [Runs -> {"running", "paused", "complete"}]
    BY <2>1, DispatchAssumption, PauseType DEF Claim, TypeOK
  <2>4. spend' \in [Runs -> Nat]
    <3>1. RunOf[u] \in Runs /\ Cost[u] \in Nat
      BY DispatchAssumption
    <3>2. spend[RunOf[u]] + Cost[u] \in Nat
      BY <3>1 DEF TypeOK
    <3>3. spend' = [spend EXCEPT ![RunOf[u]] = spend[RunOf[u]] + Cost[u]]
      BY <2>1 DEF Claim, Accrue
    <3> QED
      BY <3>1, <3>2, <3>3 DEF TypeOK
  <2>5. ledger' \in [Units -> {"pending", "leased", "done"}]
    BY <2>1 DEF Claim, TypeOK
  <2> QED
    BY <2>1, <2>2, <2>3, <2>4, <2>5 DEF Claim, TypeOK
<1> QED
  BY <1>1, <1>2, <1>3, <1>4, <1>5, <1>6, <1>7, <1>8, <1>9, <1>10, <1>11, <1>12, <1>13,
     <1>14 DEF Drive, Settle

(* So does every step, and a stutter.                                       *)
LEMMA StepType == TypeOK /\ [Next]_vars => TypeOK'
<1> SUFFICES ASSUME TypeOK, [Next]_vars PROVE TypeOK'
  OBVIOUS
<1>1. CASE \E d \in Drivers : Drive(d)
  BY <1>1, DriveType
<1>2. CASE \E d \in Drivers : Kill(d)
  <2>1. PICK d \in Drivers : Kill(d)
    BY <1>2
  <2>2. driver' \in [Drivers -> Driver]
    BY <2>1, FreshType, OneDriver DEF Kill
  <2> QED
    BY <2>1, <2>2 DEF Kill, TypeOK
<1>3. CASE \E r \in Runs : Resume(r)
  BY <1>3 DEF Resume, TypeOK
<1>4. CASE UNCHANGED vars
  BY <1>4 DEF vars, TypeOK
<1> QED
  BY <1>1, <1>2, <1>3, <1>4 DEF Next

-----------------------------------------------------------------------------
(* Only a claim raises a run's spend, and it has compared the raised figure *)
(* with the ceiling.                                                        *)
LEMMA StepSpend == TypeOK /\ SpendWithinCeiling /\ [Next]_vars => SpendWithinCeiling'
<1> SUFFICES ASSUME TypeOK, SpendWithinCeiling, [Next]_vars PROVE SpendWithinCeiling'
  OBVIOUS
<1>1. CASE \E d \in Drivers, u \in Units : Claim(d, u)
  <2>1. PICK d \in Drivers, u \in Units : Claim(d, u)
    BY <1>1
  <2>2. RunOf[u] \in Runs /\ Cost[u] \in Nat /\ Ceiling \in Nat
    BY DispatchAssumption
  <2>3. spend[RunOf[u]] + Cost[u] <= Ceiling
    BY <2>1, <2>2 DEF Claim, Crosses, TypeOK
  <2>4. spend' = [spend EXCEPT ![RunOf[u]] = spend[RunOf[u]] + Cost[u]]
    BY <2>1 DEF Claim, Accrue
  <2> QED
    BY <2>2, <2>3, <2>4 DEF SpendWithinCeiling, TypeOK
<1>2. CASE UNCHANGED spend
  BY <1>2 DEF SpendWithinCeiling
<1>3. ASSUME NEW d \in Drivers, Drive(d), ~\E u \in Units : Claim(d, u)
      PROVE  UNCHANGED spend
  <2>1. CASE Settle(d)
    BY <2>1 DEF Settle, AnswerOk, AnswerRetry, AnswerOom, AnswerGone, Abort, Requeue,
                PauseOwn, Remedy, EndBatch
  <2>2. CASE BeginPass(d) \/ EndWalk(d) \/ EndLoop(d) \/ Restart(d)
    BY <2>2 DEF BeginPass, EndWalk, EndLoop, Restart
  <2>3. CASE (\E r \in Runs : WalkRun(d, r)) \/ \E u \in Units : ClaimRefused(d, u)
    BY <2>3 DEF WalkRun, ClaimRefused
  <2> QED
    BY <1>3, <2>1, <2>2, <2>3 DEF Drive
<1>4. CASE (\E d \in Drivers : Kill(d)) \/ (\E r \in Runs : Resume(r)) \/ UNCHANGED vars
  BY <1>2, <1>4 DEF Kill, Resume, vars
<1> QED
  BY <1>1, <1>2, <1>3, <1>4 DEF Next

(* Only the out-of-memory remedy writes a panel, and what it writes is a    *)
(* panel of at least two less one.                                          *)
LEMMA StepPanel == TypeOK /\ PanelKeepsAJudge /\ [Next]_vars => PanelKeepsAJudge'
<1> SUFFICES ASSUME TypeOK, PanelKeepsAJudge, [Next]_vars PROVE PanelKeepsAJudge'
  OBVIOUS
<1>1. CASE \E d \in Drivers, j \in Judges : Remedy(d, j)
  <2>1. PICK d \in Drivers, j \in Judges : Remedy(d, j)
    BY <1>1
  <2>2. CASE panel' = panel
    BY <2>2 DEF PanelKeepsAJudge
  <2>3. CASE /\ Drops(driver[d].seen, j)
             /\ panel' = [panel EXCEPT ![Own(d)] = DropFrom(driver[d].seen, j)]
    <3>1. DropFrom(driver[d].seen, j) # {}
      BY <2>3, DropLeavesOne
    <3> QED
      BY <2>3, <3>1 DEF PanelKeepsAJudge, TypeOK
  <2> QED
    BY <2>1, <2>2, <2>3 DEF Remedy
<1>2. CASE UNCHANGED panel
  BY <1>2 DEF PanelKeepsAJudge
<1>3. ASSUME NEW d \in Drivers, Drive(d), ~\E j \in Judges : Remedy(d, j)
      PROVE  UNCHANGED panel
  <2>1. CASE Settle(d)
    BY <1>3, <2>1 DEF Settle, AnswerOk, AnswerRetry, AnswerOom, AnswerGone, Abort, Requeue,
                      PauseOwn, EndBatch
  <2>2. CASE BeginPass(d) \/ EndWalk(d) \/ EndLoop(d) \/ Restart(d)
    BY <2>2 DEF BeginPass, EndWalk, EndLoop, Restart
  <2>3. CASE \/ \E r \in Runs : WalkRun(d, r)
             \/ \E u \in Units : Claim(d, u) \/ ClaimRefused(d, u)
    BY <2>3 DEF WalkRun, Claim, ClaimRefused
  <2> QED
    BY <1>3, <2>1, <2>2, <2>3 DEF Drive
<1>4. CASE (\E d \in Drivers : Kill(d)) \/ (\E r \in Runs : Resume(r)) \/ UNCHANGED vars
  BY <1>2, <1>4 DEF Kill, Resume, vars
<1> QED
  BY <1>1, <1>2, <1>3, <1>4 DEF Next

-----------------------------------------------------------------------------
(* The steps that change a driver's memory keep its width usable.           *)
LEMMA DriveWidth ==
  ASSUME TypeOK, TypeOK', WidthInv, NEW d \in Drivers, Drive(d)
  PROVE  WidthInv'
<1> USE DEF IsAt, Own
<1>d. driver[d] \in Driver /\ DriverWidth(driver[d])
  BY DEF TypeOK, WidthInv
<1>n. driver'[d] \in Driver
  BY DEF TypeOK
<1>w. Width \in Nat \ {0}
  BY DispatchAssumption
<1>o. \A e \in Drivers : driver'[e] = driver[e] => DriverWidth(driver'[e])
  BY DEF WidthInv
<1>1. CASE BeginPass(d)
  <2>1. PICK w \in {driver[d].cap, Reduced(driver[d].cap)} :
          driver' = [driver EXCEPT ![d].at = "claim", ![d].width = w,
                                   ![d].stage = "extract", ![d].seen = panel[Own(d)]]
    BY <1>1 DEF BeginPass
  <2>2. w \in 1..Width
    BY <1>d, <1>w, ReducedRange DEF DriverWidth
  <2>3. driver[d].batch = {} /\ driver[d].retry = {}
    BY <1>1, <1>d DEF BeginPass, DriverWidth
  <2>4. Cardinality({}) = 0 /\ IsFiniteSet({})
    BY FS_EmptySet
  <2>5. /\ driver'[d].at = "claim" /\ driver'[d].width = w
        /\ driver'[d].cap = driver[d].cap
        /\ driver'[d].batch = {} /\ driver'[d].retry = {}
    BY <2>1, <2>3, <1>d DEF TypeOK, Driver
  <2>6. DriverWidth(driver'[d])
    BY <1>d, <1>w, <2>2, <2>4, <2>5 DEF DriverWidth
  <2> QED
    BY <1>o, <2>1, <2>6 DEF WidthInv, TypeOK
<1>2. CASE EndWalk(d)
  <2>1. /\ \A e \in Drivers \ {d} : driver'[e] = driver[e]
        /\ \/ driver'[d] = Fresh("off")
           \/ /\ driver'[d].batch = driver[d].batch /\ driver'[d].retry = driver[d].retry
              /\ driver'[d].cap = driver[d].cap /\ driver'[d].width = driver[d].width
              /\ driver'[d].at \in {"claim", "answer"}
    BY <1>2, <1>d DEF EndWalk, TypeOK, Driver
  <2>2. driver[d].retry = {}
    BY <1>2, <1>d DEF EndWalk, DriverWidth
  <2>3. DriverWidth(driver'[d])
    BY <1>d, <2>1, <2>2, FreshWidth DEF DriverWidth
  <2> QED
    BY <1>o, <2>1, <2>3 DEF WidthInv
<1>3. CASE EndLoop(d) \/ Restart(d) \/ \E u \in Units : Abort(d, u)
  <2>1. \E step \in {"off", "idle"} : driver' = [driver EXCEPT ![d] = Fresh(step)]
    BY <1>3 DEF EndLoop, Restart, Abort
  <2> QED
    BY <2>1, FreshWidth, OneWidth
<1>4. CASE \/ Requeue(d) \/ PauseOwn(d)
           \/ \E j \in Judges : Remedy(d, j)
           \/ \E u \in Units : AnswerOk(d, u)
           \/ \E u \in Units : AnswerRetry(d, u) \/ AnswerOom(d, u) \/ AnswerGone(d, u)
  <2>1. \A e \in Drivers \ {d} : driver'[e] = driver[e]
    BY ZenonT(60), <1>4 DEF Requeue, PauseOwn, Remedy, AnswerOk, AnswerRetry, AnswerOom, AnswerGone,
                Retry, TypeOK
  <2>2. /\ driver'[d].at = "answer" /\ driver'[d].cap = driver[d].cap
        /\ driver'[d].width = driver[d].width
        /\ driver'[d].batch \cup driver'[d].retry \subseteq driver[d].batch \cup driver[d].retry
    <3>1. CASE Requeue(d)
      BY <1>d, <3>1 DEF Requeue, Answered, TypeOK, Driver
    <3>2. CASE PauseOwn(d)
      BY <1>d, <3>2 DEF PauseOwn, Answered, TypeOK, Driver
    <3>3. CASE \E j \in Judges : Remedy(d, j)
      <4>1. PICK j \in Judges : Remedy(d, j)
        BY <3>3
      <4>2. \E k : driver' = [driver EXCEPT ![d].oomed[j] = 0, ![d].ooms[j] = k]
        BY <4>1 DEF Remedy
      <4>3. /\ driver'[d].at = driver[d].at /\ driver'[d].cap = driver[d].cap
            /\ driver'[d].width = driver[d].width
            /\ driver'[d].batch = driver[d].batch /\ driver'[d].retry = driver[d].retry
        BY <1>d, <4>2 DEF TypeOK, Driver
      <4> QED
        BY <4>1, <4>3 DEF Remedy, ToRemedy, Answered
    <3>4. CASE \E u \in Units : AnswerOk(d, u)
      BY <1>d, <3>4 DEF AnswerOk, Answering, TypeOK, Driver
    <3>5. CASE \E u \in Units : AnswerRetry(d, u) \/ AnswerOom(d, u) \/ AnswerGone(d, u)
      <4>1. PICK u \in Units : AnswerRetry(d, u) \/ AnswerOom(d, u) \/ AnswerGone(d, u)
        BY <3>5
      <4>2. u \in driver[d].batch /\ driver[d].at = "answer"
        BY <4>1 DEF AnswerRetry, AnswerOom, AnswerGone, Answering
      <4>3. PICK rec \in {driver[d],
                          [driver[d] EXCEPT !.oomed[JudgeOf[u]] = @ + 1],
                          [driver[d] EXCEPT !.faulted = TRUE]} :
              driver' = [driver EXCEPT ![d] = [rec EXCEPT !.batch = @ \ {u},
                                                 !.retry = @ \cup {u}, !.blocked = TRUE]]
        BY <4>1 DEF AnswerRetry, AnswerOom, AnswerGone, Retry
      <4>4. /\ rec.at = "answer" /\ rec.cap = driver[d].cap /\ rec.width = driver[d].width
            /\ rec.batch = driver[d].batch /\ rec.retry = driver[d].retry
            /\ DOMAIN rec = DOMAIN driver[d]
        BY <1>d, <4>2, <4>3 DEF Driver
      <4>5. driver'[d] = [rec EXCEPT !.batch = @ \ {u}, !.retry = @ \cup {u},
                                     !.blocked = TRUE]
        BY <4>3 DEF TypeOK
      <4>6. DOMAIN driver[d] = {"at", "stage", "cap", "width", "reduced", "seen", "walking",
                                "skipped", "batch", "retry", "blocked", "faulted", "oomed",
                                "ooms"}
        BY <1>d DEF Driver
      <4>7. /\ driver'[d].at = "answer" /\ driver'[d].cap = driver[d].cap
            /\ driver'[d].width = driver[d].width
            /\ driver'[d].batch = driver[d].batch \ {u}
            /\ driver'[d].retry = driver[d].retry \cup {u}
        BY <4>4, <4>5, <4>6
      <4> QED
        BY <4>2, <4>7
    <3> QED
      BY <1>4, <3>1, <3>2, <3>3, <3>4, <3>5
  <2>3. DriverWidth(driver'[d])
    BY <1>d, <1>n, <2>2, FewerOut DEF DriverWidth
  <2> QED
    BY <1>o, <2>1, <2>3 DEF WidthInv
<1>5. CASE EndBatch(d)
  <2>1. /\ \A e \in Drivers \ {d} : driver'[e] = driver[e]
        /\ driver[d].batch = {} /\ driver[d].retry = {}
        /\ driver'[d].batch = {} /\ driver'[d].retry = {}
        /\ driver'[d].cap \in {driver[d].cap, Reduced(driver[d].cap)}
        /\ driver'[d].width \in {driver[d].width, driver'[d].cap}
    <3> DEFINE reduce == driver[d].blocked /\ ~driver[d].reduced
               rec == [driver[d] EXCEPT
                         !.cap = IF reduce THEN Reduced(@) ELSE @,
                         !.reduced = @ \/ reduce,
                         !.blocked = FALSE]
    <3>1. driver[d].batch = {} /\ driver[d].retry = {}
      BY <1>5 DEF EndBatch, ToRemedy, Answered
    <3>2. Reduced(driver[d].cap) \in Nat
      BY <1>d, ReducedType DEF Driver
    <3>3. /\ rec \in Driver
          /\ rec.batch = driver[d].batch /\ rec.retry = driver[d].retry
          /\ rec.width = driver[d].width
          /\ rec.cap \in {driver[d].cap, Reduced(driver[d].cap)}
      BY <1>d, <3>2 DEF Driver
    <3>4. PICK m \in {[rec EXCEPT !.at = "claim", !.stage = "extract"],
                      [rec EXCEPT !.at = "claim", !.stage = "score"],
                      [Fresh("idle") EXCEPT !.cap = rec.cap, !.width = rec.cap,
                                            !.ooms = rec.ooms]} :
            driver' = [driver EXCEPT ![d] = m]
      BY <1>5 DEF EndBatch
    <3>5. m.batch = {} /\ m.retry = {} /\ m.cap = rec.cap /\ m.width \in {rec.width, rec.cap}
      <4> HIDE DEF rec
      <4>1. CASE m = [Fresh("idle") EXCEPT !.cap = rec.cap, !.width = rec.cap,
                                           !.ooms = rec.ooms]
        BY <4>1 DEF Fresh
      <4>2. CASE \E s \in {"extract", "score"} : m = [rec EXCEPT !.at = "claim", !.stage = s]
        BY <3>1, <3>3, <4>2 DEF Driver
      <4> QED
        BY <3>4, <4>1, <4>2
    <3>6. driver'[d] = m /\ \A e \in Drivers \ {d} : driver'[e] = driver[e]
      BY <3>4 DEF TypeOK
    <3> HIDE DEF rec
    <3> QED
      BY <3>1, <3>3, <3>5, <3>6
  <2>2. driver'[d].cap \in 1..Width /\ driver'[d].width \in 1..Width
    BY <1>d, <1>w, <2>1, ReducedRange DEF DriverWidth
  <2>3. Cardinality({}) = 0 /\ IsFiniteSet({})
    BY FS_EmptySet
  <2>4. DriverWidth(driver'[d])
    BY <1>w, <2>1, <2>2, <2>3 DEF DriverWidth
  <2> QED
    BY <1>o, <2>1, <2>4 DEF WidthInv
<1>6. CASE (\E r \in Runs : WalkRun(d, r)) \/ (\E u \in Units : ClaimRefused(d, u))
  <2>1. /\ \A e \in Drivers \ {d} : driver'[e] = driver[e]
        /\ driver'[d].batch = driver[d].batch /\ driver'[d].retry = driver[d].retry
        /\ driver'[d].cap = driver[d].cap /\ driver'[d].width = driver[d].width
        /\ driver'[d].at = driver[d].at
    <3>1. CASE \E r \in Runs : WalkRun(d, r)
      BY <1>d, <3>1 DEF WalkRun, TypeOK, Driver
    <3>2. CASE \E u \in Units : ClaimRefused(d, u)
      BY <1>d, <3>2 DEF ClaimRefused, TypeOK, Driver
    <3> QED
      BY <1>6, <3>1, <3>2
  <2>2. DriverWidth(driver'[d])
    BY <1>d, <2>1 DEF DriverWidth
  <2> QED
    BY <1>o, <2>1, <2>2 DEF WidthInv
<1>7. CASE \E u \in Units : Claim(d, u)
  <2>1. PICK u \in Units : Claim(d, u)
    BY <1>7
  <2>2. /\ \A e \in Drivers \ {d} : driver'[e] = driver[e]
        /\ driver'[d].batch = driver[d].batch \cup {u}
        /\ driver'[d].retry = driver[d].retry
        /\ driver'[d].cap = driver[d].cap /\ driver'[d].width = driver[d].width
        /\ driver'[d].at = "claim"
    BY <2>1, <1>d DEF Claim, CanClaim, TypeOK, Driver
  <2>3. /\ driver[d].retry = {}
        /\ IsFiniteSet(driver[d].batch)
        /\ Cardinality(driver[d].batch) < driver[d].width
    <3>1. driver[d].retry = {}
      BY <1>d, <2>1 DEF Claim, CanClaim, DriverWidth
    <3>2. driver[d].batch \cup {} = driver[d].batch
      OBVIOUS
    <3> QED
      BY <1>d, <2>1, <3>1, <3>2 DEF Claim, CanClaim, DriverWidth
  <2>4. /\ IsFiniteSet(driver[d].batch \cup {u})
        /\ Cardinality(driver[d].batch \cup {u}) \in
             {Cardinality(driver[d].batch), Cardinality(driver[d].batch) + 1}
    BY <2>3, FS_AddElement
  <2>5. Cardinality(driver[d].batch) \in Nat /\ driver[d].width \in Nat
    BY <1>d, <2>3, FS_CardinalityType DEF Driver
  <2>6. Cardinality(driver[d].batch \cup {u}) <= driver[d].width
    BY <2>3, <2>4, <2>5
  <2>7. driver'[d].batch \cup driver'[d].retry = driver[d].batch \cup {u}
    BY <2>2, <2>3
  <2>8. DriverWidth(driver'[d])
    BY <1>d, <2>2, <2>3, <2>4, <2>6, <2>7 DEF DriverWidth
  <2> QED
    BY <1>o, <2>2, <2>8 DEF WidthInv
<1> QED
  BY <1>1, <1>2, <1>3, <1>4, <1>5, <1>6, <1>7 DEF Drive, Settle

(* Every step keeps every driver's width usable.                            *)
LEMMA StepWidth == TypeOK /\ WidthInv /\ [Next]_vars => WidthInv'
<1> SUFFICES ASSUME TypeOK, WidthInv, [Next]_vars PROVE WidthInv'
  OBVIOUS
<1>t. TypeOK'
  BY StepType
<1>1. CASE \E d \in Drivers : Drive(d)
  BY <1>t, <1>1, DriveWidth
<1>2. CASE \E d \in Drivers : Kill(d)
  BY <1>2, FreshWidth, OneWidth DEF Kill
<1>3. CASE UNCHANGED driver
  BY <1>3 DEF WidthInv, DriverWidth
<1> QED
  BY <1>1, <1>2, <1>3 DEF Next, Resume, vars

-----------------------------------------------------------------------------
(* The invariant is inductive.                                              *)
LEMMA InvStep == DispatchInv /\ [Next]_vars => DispatchInv'
BY StepType, StepSpend, StepPanel, StepWidth DEF DispatchInv

(* Every reachable state satisfies the invariant.                           *)
LEMMA InvHolds == Spec => []DispatchInv
BY InvInit, InvStep, PTL DEF Spec

-----------------------------------------------------------------------------
(* Every variable of the dispatch keeps its type (dispatch.py's memory of a *)
(* pass, the ledger, the runs' status, spend and panel).                    *)
THEOREM DispatchTypes == Spec => []TypeOK
<1>1. DispatchInv => TypeOK
  BY DEF DispatchInv
<1> QED
  BY InvHolds, <1>1, PTL

(* No run's spend passes its cost ceiling, however many drivers claim its   *)
(* units and however often (leasing.py, _claim_pass).                       *)
THEOREM CeilingHolds == Spec => []SpendWithinCeiling
<1>1. DispatchInv => SpendWithinCeiling
  BY DEF DispatchInv
<1> QED
  BY InvHolds, <1>1, PTL

(* Every pass asks for at least one unit and has no more out than the width *)
(* it began with, through every reduction (dispatch.py, _run_model_batch).  *)
THEOREM WidthHolds == Spec => []WidthUsable
<1>1. DispatchInv => WidthUsable
  BY DEF DispatchInv, WidthInv, DriverWidth, WidthUsable
<1> QED
  BY InvHolds, <1>1, PTL

(* The out-of-memory remedy never takes a run's last judge, even from a     *)
(* stale panel (dispatch.py, _oom_remedy).                                  *)
THEOREM PanelSurvives == Spec => []PanelKeepsAJudge
<1>1. DispatchInv => PanelKeepsAJudge
  BY DEF DispatchInv
<1> QED
  BY InvHolds, <1>1, PTL

-----------------------------------------------------------------------------
(* What a claim paid for.  SpendCoversClaims needs to know who holds what:  *)
(* a unit a driver has out is leased and in nobody else's hands, so that it *)
(* ends or goes back to pending by that driver's doing only.                *)
Hold(m) == m.batch \cup m.retry

HeldInv ==
  /\ \A d \in Drivers : driver[d].batch \cap driver[d].retry = {}
  /\ \A d \in Drivers : \A u \in Hold(driver[d]) : ledger[u] = "leased"
  /\ \A d, e \in Drivers : d # e => Hold(driver[d]) \cap Hold(driver[e]) = {}

BillInv == \A r \in Runs : IsFiniteSet(Bill(Out(r))) /\ Cardinality(Bill(Out(r))) <= spend[r]

(* A smaller set of units has a smaller bill.                               *)
LEMMA SmallerBill ==
  ASSUME NEW S, NEW T \in SUBSET S, IsFiniteSet(Bill(S)), NEW n \in Nat,
         Cardinality(Bill(S)) <= n
  PROVE  IsFiniteSet(Bill(T)) /\ Cardinality(Bill(T)) <= n
<1>1. Bill(T) \subseteq Bill(S)
  BY DEF Bill
<1>2. IsFiniteSet(Bill(T)) /\ Cardinality(Bill(T)) <= Cardinality(Bill(S))
  BY <1>1, FS_Subset
<1>3. Cardinality(Bill(T)) \in Nat /\ Cardinality(Bill(S)) \in Nat
  BY <1>2, FS_CardinalityType
<1> QED
  BY <1>2, <1>3

(* One more unit adds its cost, at most.                                    *)
LEMMA LargerBill ==
  ASSUME NEW S, IsFiniteSet(Bill(S)), NEW n \in Nat, Cardinality(Bill(S)) <= n, NEW u \in Units
  PROVE  /\ IsFiniteSet(Bill(S \cup {u}))
         /\ Cardinality(Bill(S \cup {u})) <= n + Cost[u]
<1> DEFINE own == {u} \X (1..Cost[u])
<1>1. Cost[u] \in Nat
  BY DispatchAssumption
<1>2. Bill(S \cup {u}) = Bill(S) \cup own
  BY DEF Bill
<1>3. IsFiniteSet(1..Cost[u]) /\ Cardinality(1..Cost[u]) = Cost[u]
  <2>1. 1 \in Int /\ Cost[u] \in Int
    BY <1>1
  <2>2. IsFiniteSet(1..Cost[u])
        /\ Cardinality(1..Cost[u]) = IF 1 > Cost[u] THEN 0 ELSE Cost[u] - 1 + 1
    BY <2>1, FS_Interval
  <2> QED
    BY <1>1, <2>2
<1>4. IsFiniteSet({u}) /\ Cardinality({u}) = 1
  BY FS_Singleton
<1>5. IsFiniteSet(own) /\ Cardinality(own) = 1 * Cost[u]
  BY ZenonT(60), <1>3, <1>4, FS_Product
<1> HIDE DEF own
<1>6. /\ IsFiniteSet(Bill(S) \cup own)
      /\ Cardinality(Bill(S) \cup own) =
           Cardinality(Bill(S)) + Cardinality(own) - Cardinality(Bill(S) \cap own)
  BY <1>5, FS_Union
<1>7. Cardinality(Bill(S) \cap own) \in Nat /\ Cardinality(Bill(S)) \in Nat
  BY FS_Intersection, FS_CardinalityType
<1>8. Cardinality(own) = Cost[u]
  BY <1>1, <1>5
<1>9. \A b, i, o, m \in Nat : b <= m => b + o - i <= m + o
  OBVIOUS
<1>10. Cardinality(Bill(S) \cup own) <= n + Cost[u]
  BY <1>1, <1>6, <1>7, <1>8, <1>9
<1> QED
  BY <1>2, <1>6, <1>10

(* The steps of a driver, by what they do to what it holds.                 *)
KeepsUnits(m, n) ==
  /\ n.batch \subseteq m.batch
  /\ Hold(n) \subseteq Hold(m)
  /\ m.batch \cap m.retry = {} => n.batch \cap n.retry = {}

Others(d) == \A e \in Drivers \ {d} : driver'[e] = driver[e]

HoldsOn(d) == KeepsUnits(driver[d], driver'[d]) /\ ledger' = ledger /\ spend' = spend

TakesUnit(d, u) ==
  /\ ledger[u] = "pending"
  /\ ledger' = [ledger EXCEPT ![u] = "leased"]
  /\ spend' = [spend EXCEPT ![RunOf[u]] = @ + Cost[u]]
  /\ driver'[d].batch = driver[d].batch \cup {u}
  /\ driver'[d].retry = driver[d].retry

EndsUnit(d, u) ==
  /\ u \in driver[d].batch
  /\ ledger' = [ledger EXCEPT ![u] = "done"]
  /\ spend' = spend
  /\ driver'[d].batch = driver[d].batch \ {u}
  /\ driver'[d].retry = driver[d].retry

FreesUnits(d) ==
  /\ Hold(driver'[d]) = {}
  /\ spend' = spend
  /\ ledger' \in [Units -> {"pending", "leased", "done"}]
  /\ \A u \in Units : ledger'[u] # ledger[u] => ledger'[u] = "pending"
  /\ \A e \in Drivers \ {d} :
       Hold(driver[d]) \cap Hold(driver[e]) = {} =>
         \A u \in Hold(driver[e]) : ledger'[u] = ledger[u]

UnitsMove(d) ==
  /\ Others(d)
  /\ \/ HoldsOn(d) \/ FreesUnits(d)
     \/ \E u \in Units : TakesUnit(d, u) \/ EndsUnit(d, u)

(* A driver that starts over holds nothing.                                 *)
LEMMA StartsOver ==
  ASSUME TypeOK, NEW d \in Drivers, NEW step, driver' = [driver EXCEPT ![d] = Fresh(step)]
  PROVE  Others(d) /\ KeepsUnits(driver[d], driver'[d]) /\ Hold(driver'[d]) = {}
BY DEF TypeOK, Others, KeepsUnits, Hold, Fresh

(* Every step of a driver is one of these.                                  *)
LEMMA DriveMoves ==
  ASSUME TypeOK, TypeOK', NEW d \in Drivers, Drive(d)
  PROVE  UnitsMove(d)
<1> USE DEF IsAt, Own
<1>d. driver[d] \in Driver /\ driver'[d] \in Driver
  BY DEF TypeOK
<1>1. CASE BeginPass(d)
  <2>1. PICK w : driver' = [driver EXCEPT ![d].at = "claim", ![d].width = w,
                                   ![d].stage = "extract", ![d].seen = panel[Own(d)]]
    BY <1>1 DEF BeginPass
  <2>2. driver'[d].batch = driver[d].batch /\ driver'[d].retry = driver[d].retry /\ Others(d)
    BY <1>d, <2>1 DEF TypeOK, Driver, Others
  <2> QED
    BY <1>1, <2>2 DEF BeginPass, UnitsMove, HoldsOn, KeepsUnits, Hold
<1>2. CASE EndWalk(d)
  <2>1. /\ Others(d)
        /\ \/ driver'[d] = Fresh("off")
           \/ driver'[d].batch = driver[d].batch /\ driver'[d].retry = driver[d].retry
    BY <1>2, <1>d DEF EndWalk, TypeOK, Driver, Others
  <2>2. KeepsUnits(driver[d], driver'[d])
    BY <2>1 DEF Fresh, KeepsUnits, Hold
  <2> QED
    BY <1>2, <2>1, <2>2 DEF EndWalk, UnitsMove, HoldsOn
<1>3. CASE EndLoop(d) \/ \E u \in Units : Abort(d, u)
  <2>1. \E step : driver' = [driver EXCEPT ![d] = Fresh(step)]
    BY <1>3 DEF EndLoop, Abort
  <2>2. Others(d) /\ KeepsUnits(driver[d], driver'[d])
    BY <2>1, StartsOver
  <2> QED
    BY <1>3, <2>2 DEF EndLoop, Abort, UnitsMove, HoldsOn
<1>4. CASE Restart(d)
  <2>1. Others(d) /\ Hold(driver'[d]) = {}
    BY <1>4, StartsOver DEF Restart
  <2>2. ledger' = [u \in Units |-> IF Swept(u) THEN "pending" ELSE ledger[u]] /\ spend' = spend
    BY <1>4 DEF Restart
  <2>3. \A u \in Units : ledger'[u] # ledger[u] => ledger'[u] = "pending"
    BY <2>2
  <2>4. ASSUME NEW e \in Drivers \ {d}, NEW u \in Hold(driver[e]) PROVE ledger'[u] = ledger[u]
    <3>1. u \in Held
      BY <2>4 DEF Held, Hold
    <3>2. u \in Units
      BY <2>4 DEF Hold, TypeOK, Driver
    <3> QED
      BY <2>2, <3>1, <3>2 DEF Swept
  <2>5. ledger' \in [Units -> {"pending", "leased", "done"}]
    BY DEF TypeOK
  <2>6. FreesUnits(d)
    BY <2>1, <2>2, <2>3, <2>4, <2>5 DEF FreesUnits
  <2> QED
    BY <2>1, <2>6 DEF UnitsMove
<1>5. CASE Requeue(d)
  <2>1. Others(d) /\ driver'[d].retry = {} /\ driver'[d].batch = driver[d].batch
    BY <1>5, <1>d DEF Requeue, TypeOK, Driver, Others
  <2>2. driver[d].batch = {}
    BY <1>5 DEF Requeue, Answered
  <2>3. Hold(driver'[d]) = {}
    BY <2>1, <2>2 DEF Hold
  <2>4. ledger' = [u \in Units |-> IF Requeued(u, d) THEN "pending" ELSE ledger[u]]
        /\ spend' = spend
    BY <1>5 DEF Requeue
  <2>5. \A u \in Units : ledger'[u] # ledger[u] => ledger'[u] = "pending"
    BY <2>4
  <2>6. ASSUME NEW e \in Drivers \ {d}, NEW u \in Hold(driver[e]),
               Hold(driver[d]) \cap Hold(driver[e]) = {}
        PROVE  ledger'[u] = ledger[u]
    <3>1. u \notin driver[d].retry
      BY <2>6 DEF Hold
    <3>2. u \in Units
      BY <2>6 DEF Hold, TypeOK, Driver
    <3> QED
      BY <2>4, <3>1, <3>2 DEF Requeued
  <2>7. ledger' \in [Units -> {"pending", "leased", "done"}]
    BY DEF TypeOK
  <2>8. FreesUnits(d)
    BY <2>3, <2>4, <2>5, <2>6, <2>7 DEF FreesUnits
  <2> QED
    BY <2>1, <2>8 DEF UnitsMove
<1>6. CASE PauseOwn(d)
  <2>1. driver'[d].batch = driver[d].batch /\ driver'[d].retry = driver[d].retry /\ Others(d)
    BY <1>d, <1>6 DEF PauseOwn, TypeOK, Driver, Others
  <2> QED
    BY <1>6, <2>1 DEF PauseOwn, UnitsMove, HoldsOn, KeepsUnits, Hold
<1>7. CASE \E j \in Judges : Remedy(d, j)
  <2>1. PICK j \in Judges : Remedy(d, j)
    BY <1>7
  <2>2. \E k : driver' = [driver EXCEPT ![d].oomed[j] = 0, ![d].ooms[j] = k]
    BY <2>1 DEF Remedy
  <2>3. driver'[d].batch = driver[d].batch /\ driver'[d].retry = driver[d].retry /\ Others(d)
    BY <1>d, <2>2 DEF TypeOK, Driver, Others
  <2> QED
    BY <2>1, <2>3 DEF Remedy, UnitsMove, HoldsOn, KeepsUnits, Hold
<1>8. ASSUME NEW u \in Units, AnswerOk(d, u) PROVE UnitsMove(d)
  <2>1. driver'[d].batch = driver[d].batch \ {u} /\ driver'[d].retry = driver[d].retry /\ Others(d)
    BY <1>d, <1>8 DEF AnswerOk, TypeOK, Driver, Others
  <2>2. EndsUnit(d, u)
    BY <1>8, <2>1 DEF AnswerOk, Answering, EndsUnit
  <2> QED
    BY <2>1, <2>2 DEF UnitsMove
<1>9. ASSUME NEW u \in Units, AnswerRetry(d, u) \/ AnswerOom(d, u) \/ AnswerGone(d, u)
      PROVE  UnitsMove(d)
  <2>1. u \in driver[d].batch /\ ledger' = ledger /\ spend' = spend
    BY <1>9 DEF AnswerRetry, AnswerOom, AnswerGone, Answering
  <2>2. PICK rec \in {driver[d],
                      [driver[d] EXCEPT !.oomed[JudgeOf[u]] = @ + 1],
                      [driver[d] EXCEPT !.faulted = TRUE]} :
          driver' = [driver EXCEPT ![d] = [rec EXCEPT !.batch = @ \ {u},
                                             !.retry = @ \cup {u}, !.blocked = TRUE]]
    BY <1>9 DEF AnswerRetry, AnswerOom, AnswerGone, Retry
  <2>3. rec.batch = driver[d].batch /\ rec.retry = driver[d].retry /\ DOMAIN rec = DOMAIN driver[d]
    BY <1>d, <2>2 DEF Driver
  <2>4. driver'[d] = [rec EXCEPT !.batch = @ \ {u}, !.retry = @ \cup {u}, !.blocked = TRUE]
        /\ Others(d)
    BY <2>2 DEF TypeOK, Others
  <2>5. DOMAIN driver[d] = {"at", "stage", "cap", "width", "reduced", "seen", "walking",
                            "skipped", "batch", "retry", "blocked", "faulted", "oomed", "ooms"}
    BY <1>d DEF Driver
  <2>6. /\ driver'[d].batch = driver[d].batch \ {u}
        /\ driver'[d].retry = driver[d].retry \cup {u}
    BY <2>3, <2>4, <2>5
  <2>7. KeepsUnits(driver[d], driver'[d])
    BY <2>1, <2>6 DEF KeepsUnits, Hold
  <2> QED
    BY <2>1, <2>4, <2>7 DEF UnitsMove, HoldsOn
<1>10. CASE EndBatch(d)
  <2> DEFINE reduce == driver[d].blocked /\ ~driver[d].reduced
             rec == [driver[d] EXCEPT
                       !.cap = IF reduce THEN Reduced(@) ELSE @,
                       !.reduced = @ \/ reduce,
                       !.blocked = FALSE]
  <2>1. rec.batch = driver[d].batch /\ rec.retry = driver[d].retry
        /\ DOMAIN rec = DOMAIN driver[d]
    BY <1>d DEF Driver
  <2>2. PICK m \in {[rec EXCEPT !.at = "claim", !.stage = "extract"],
                    [rec EXCEPT !.at = "claim", !.stage = "score"],
                    [Fresh("idle") EXCEPT !.cap = rec.cap, !.width = rec.cap, !.ooms = rec.ooms]} :
          driver' = [driver EXCEPT ![d] = m]
    BY <1>10 DEF EndBatch
  <2>3. DOMAIN driver[d] = {"at", "stage", "cap", "width", "reduced", "seen", "walking",
                            "skipped", "batch", "retry", "blocked", "faulted", "oomed", "ooms"}
    BY <1>d DEF Driver
  <2>4. driver'[d] = m /\ Others(d)
    BY <2>2 DEF TypeOK, Others
  <2> HIDE DEF rec
  <2>5. CASE m = [Fresh("idle") EXCEPT !.cap = rec.cap, !.width = rec.cap, !.ooms = rec.ooms]
    <3>1. m.batch = {} /\ m.retry = {}
      BY <2>5 DEF Fresh
    <3> QED
      BY <1>10, <2>4, <3>1 DEF EndBatch, UnitsMove, HoldsOn, KeepsUnits, Hold
  <2>6. CASE \E s \in {"extract", "score"} : m = [rec EXCEPT !.at = "claim", !.stage = s]
    <3>1. m.batch = driver[d].batch /\ m.retry = driver[d].retry
      BY <2>1, <2>3, <2>6
    <3> QED
      BY <1>10, <2>4, <3>1 DEF EndBatch, UnitsMove, HoldsOn, KeepsUnits, Hold
  <2> QED
    BY <2>2, <2>5, <2>6
<1>11. CASE (\E r \in Runs : WalkRun(d, r)) \/ (\E u \in Units : ClaimRefused(d, u))
  <2>1. driver'[d].batch = driver[d].batch /\ driver'[d].retry = driver[d].retry /\ Others(d)
    <3>1. CASE \E r \in Runs : WalkRun(d, r)
      BY <1>d, <3>1 DEF WalkRun, TypeOK, Driver, Others
    <3>2. CASE \E u \in Units : ClaimRefused(d, u)
      BY <1>d, <3>2 DEF ClaimRefused, TypeOK, Driver, Others
    <3> QED
      BY <1>11, <3>1, <3>2
  <2> QED
    BY <1>11, <2>1 DEF WalkRun, ClaimRefused, UnitsMove, HoldsOn, KeepsUnits, Hold
<1>12. ASSUME NEW u \in Units, Claim(d, u) PROVE UnitsMove(d)
  <2>1. /\ Others(d) /\ driver'[d].batch = driver[d].batch \cup {u}
        /\ driver'[d].retry = driver[d].retry
    BY <1>12, <1>d DEF Claim, TypeOK, Driver, Others
  <2>2. TakesUnit(d, u)
    BY <1>12, <2>1 DEF Claim, CanClaim, Accrue, TakesUnit
  <2> QED
    BY <2>1, <2>2 DEF UnitsMove
<1> QED
  BY <1>1, <1>2, <1>3, <1>4, <1>5, <1>6, <1>7, <1>8, <1>9, <1>10, <1>11, <1>12 DEF Drive, Settle

(* So is every step, unless it leaves the drivers, the ledger and the spend.*)
LEMMA StepMoves ==
  ASSUME TypeOK, TypeOK', [Next]_vars
  PROVE  UNCHANGED <<driver, ledger, spend>> \/ \E d \in Drivers : UnitsMove(d)
<1>1. ASSUME NEW d \in Drivers, Drive(d) PROVE UnitsMove(d)
  BY <1>1, DriveMoves
<1>2. ASSUME NEW d \in Drivers, Kill(d) PROVE UnitsMove(d)
  <2>1. Others(d) /\ KeepsUnits(driver[d], driver'[d])
    BY <1>2, StartsOver DEF Kill
  <2> QED
    BY <1>2, <2>1 DEF Kill, UnitsMove, HoldsOn
<1>3. CASE (\E r \in Runs : Resume(r)) \/ UNCHANGED vars
  BY <1>3 DEF Resume, vars
<1> QED
  BY <1>1, <1>2, <1>3 DEF Next

(* What is out with a driver stays leased and in its hands.                 *)
LEMMA HeldIsKept ==
  ASSUME TypeOK, TypeOK', HeldInv, NEW d \in Drivers, UnitsMove(d)
  PROVE  HeldInv'
<1>1. \A e \in Drivers \ {d} : driver'[e] = driver[e]
  BY DEF UnitsMove, Others
<1>2. SUFFICES /\ driver'[d].batch \cap driver'[d].retry = {}
               /\ \A e \in Drivers : \A u \in Hold(driver'[e]) : ledger'[u] = "leased"
               /\ \A e \in Drivers \ {d} : Hold(driver'[d]) \cap Hold(driver[e]) = {}
  BY <1>1, <1>2 DEF HeldInv
<1>3. /\ driver[d].batch \cap driver[d].retry = {}
      /\ \A e \in Drivers : \A u \in Hold(driver[e]) : ledger[u] = "leased"
      /\ \A e \in Drivers \ {d} : Hold(driver[d]) \cap Hold(driver[e]) = {}
  BY DEF HeldInv
<1>4. CASE HoldsOn(d)
  BY <1>1, <1>3, <1>4 DEF HoldsOn, KeepsUnits
<1>5. CASE FreesUnits(d)
  <2>1. Hold(driver'[d]) = {} /\ driver'[d].batch \cap driver'[d].retry = {}
    BY <1>5 DEF FreesUnits, Hold
  <2>2. ASSUME NEW e \in Drivers \ {d}, NEW u \in Hold(driver[e]) PROVE ledger'[u] = "leased"
    BY <1>3, <1>5, <2>2 DEF FreesUnits
  <2> QED
    BY <1>1, <2>1, <2>2
<1>6. ASSUME NEW u \in Units, TakesUnit(d, u)
      PROVE  /\ driver'[d].batch \cap driver'[d].retry = {}
             /\ \A e \in Drivers : \A v \in Hold(driver'[e]) : ledger'[v] = "leased"
             /\ \A e \in Drivers \ {d} : Hold(driver'[d]) \cap Hold(driver[e]) = {}
  <2>1. \A e \in Drivers : u \notin Hold(driver[e])
    BY <1>3, <1>6 DEF TakesUnit
  <2>2. Hold(driver'[d]) = Hold(driver[d]) \cup {u} /\ u \notin driver[d].retry
        /\ driver'[d].batch \cap driver'[d].retry = {}
    BY <1>3, <1>6, <2>1 DEF TakesUnit, Hold
  <2>3. ledger'[u] = "leased" /\ \A v \in Units \ {u} : ledger'[v] = ledger[v]
    BY <1>6 DEF TakesUnit, TypeOK
  <2>4. \A e \in Drivers : Hold(driver[e]) \subseteq Units
    BY DEF TypeOK, Driver, Hold
  <2> QED
    BY <1>1, <1>3, <2>1, <2>2, <2>3, <2>4
<1>7. ASSUME NEW u \in Units, EndsUnit(d, u)
      PROVE  /\ driver'[d].batch \cap driver'[d].retry = {}
             /\ \A e \in Drivers : \A v \in Hold(driver'[e]) : ledger'[v] = "leased"
             /\ \A e \in Drivers \ {d} : Hold(driver'[d]) \cap Hold(driver[e]) = {}
  <2>1. u \in driver[d].batch /\ u \notin driver[d].retry
    BY <1>3, <1>7 DEF EndsUnit
  <2>2. Hold(driver'[d]) = Hold(driver[d]) \ {u} /\ driver'[d].batch \cap driver'[d].retry = {}
    BY <1>3, <1>7, <2>1 DEF EndsUnit, Hold
  <2>3. \A v \in Units \ {u} : ledger'[v] = ledger[v]
    BY <1>7 DEF EndsUnit, TypeOK
  <2>4. \A e \in Drivers : Hold(driver[e]) \subseteq Units
    BY DEF TypeOK, Driver, Hold
  <2>5. \A e \in Drivers \ {d} : u \notin Hold(driver[e])
    BY <1>3, <2>1 DEF Hold
  <2> QED
    BY <1>1, <1>3, <2>2, <2>3, <2>4, <2>5
<1> QED
  BY <1>4, <1>5, <1>6, <1>7 DEF UnitsMove

(* The bill of a run grows with its claims only, and its spend as much.     *)
LEMMA BillIsKept ==
  ASSUME TypeOK, TypeOK', HeldInv, BillInv, NEW d \in Drivers, UnitsMove(d)
  PROVE  BillInv'
<1> SUFFICES ASSUME NEW r \in Runs
             PROVE  IsFiniteSet(Bill(Out(r))') /\ Cardinality(Bill(Out(r))') <= spend'[r]
  BY DEF BillInv
<1>1. /\ IsFiniteSet(Bill(Out(r))) /\ Cardinality(Bill(Out(r))) <= spend[r]
      /\ spend[r] \in Nat /\ spend'[r] \in Nat
  BY DEF BillInv, TypeOK
<1>b. Bill(Out(r))' = Bill(Out(r)')
  BY DEF Bill
<1>2. ASSUME spend'[r] = spend[r], \A u \in Units : ledger[u] = "pending" => ledger'[u] = "pending"
      PROVE  IsFiniteSet(Bill(Out(r))') /\ Cardinality(Bill(Out(r))') <= spend'[r]
  <2>1. Out(r)' \in SUBSET Out(r)
    BY <1>2 DEF Out
  <2> QED
    BY <1>1, <1>2, <1>b, <2>1, SmallerBill
<1>3. CASE HoldsOn(d) \/ FreesUnits(d)
  BY <1>2, <1>3 DEF HoldsOn, FreesUnits
<1>4. ASSUME NEW u \in Units, EndsUnit(d, u)
      PROVE  IsFiniteSet(Bill(Out(r))') /\ Cardinality(Bill(Out(r))') <= spend'[r]
  <2>1. ledger[u] = "leased"
    BY <1>4 DEF EndsUnit, HeldInv, Hold
  <2>2. \A v \in Units : ledger[v] = "pending" => ledger'[v] = "pending"
    BY <1>4, <2>1 DEF EndsUnit, TypeOK
  <2> QED
    BY <1>2, <1>4, <2>2 DEF EndsUnit
<1>5. ASSUME NEW u \in Units, TakesUnit(d, u)
      PROVE  IsFiniteSet(Bill(Out(r))') /\ Cardinality(Bill(Out(r))') <= spend'[r]
  <2>1. ledger' = [ledger EXCEPT ![u] = "leased"]
        /\ spend' = [spend EXCEPT ![RunOf[u]] = spend[RunOf[u]] + Cost[u]]
    BY <1>5 DEF TakesUnit
  <2>2. RunOf[u] \in Runs
    BY DispatchAssumption
  <2>3. CASE RunOf[u] # r
    <3>1. spend'[r] = spend[r] /\ Out(r)' = Out(r)
      BY <2>1, <2>2, <2>3 DEF TypeOK, Out
    <3> QED
      BY <1>1, <1>b, <3>1
  <2>4. CASE RunOf[u] = r
    <3>1. spend'[r] = spend[r] + Cost[u] /\ Out(r)' = Out(r) \cup {u}
      BY <2>1, <2>2, <2>4 DEF TypeOK, Out
    <3> QED
      BY <1>1, <1>b, <3>1, LargerBill
  <2> QED
    BY <2>3, <2>4
<1> QED
  BY <1>3, <1>4, <1>5 DEF UnitsMove

(* The two invariants hold throughout.                                      *)
LEMMA ClaimsInvariant == Spec => [](TypeOK /\ HeldInv /\ BillInv)
<1>1. Init => HeldInv
  BY DEF Init, HeldInv, Hold, Fresh
<1>2. Init => BillInv
  <2> SUFFICES ASSUME Init, NEW r \in Runs
               PROVE  IsFiniteSet(Bill(Out(r))) /\ Cardinality(Bill(Out(r))) <= spend[r]
    BY DEF BillInv
  <2>1. Out(r) = {} /\ spend[r] = 0
    BY DEF Init, Out
  <2>2. Bill(Out(r)) = {}
    BY <2>1 DEF Bill
  <2> QED
    BY <2>1, <2>2, FS_EmptySet
<1>3. HeldInv /\ BillInv /\ UNCHANGED <<driver, ledger, spend>> => HeldInv' /\ BillInv'
  BY DEF HeldInv, Hold, BillInv, Bill, Out
<1>4. TypeOK /\ TypeOK' /\ HeldInv /\ BillInv /\ [Next]_vars => HeldInv' /\ BillInv'
  BY <1>3, StepMoves, HeldIsKept, BillIsKept
<1> QED
  BY <1>1, <1>2, <1>4, DispatchTypes, PTL DEF Spec

(* No unit is out or done that its run's spend does not cover, whatever     *)
(* crashes, requeues and sweeps came between (leasing.py, _claim_pass).     *)
THEOREM SpendCovers == Spec => []SpendCoversClaims
<1>1. BillInv => SpendCoversClaims
  BY DEF BillInv, SpendCoversClaims
<1> QED
  BY <1>1, ClaimsInvariant, PTL

==============================================================================
