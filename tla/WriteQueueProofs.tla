--------------------------- MODULE WriteQueueProofs ---------------------------
(***************************************************************************)
(* What the writer of a tier keeps for any number of callers, any depth    *)
(* and batch size, and any calls, faults and kills: the promise of         *)
(* CommitLog, durability behind a depth of zero, a flush behind close().   *)
(*                                                                         *)
(* The invariant has one part for each thing the code keeps in step: the   *)
(* lock with the open transaction, the depth with the rows, the numbers of *)
(* transactions with the tier, rows accepted with where they went, the     *)
(* states of closing, failures with the faults they answer.                *)
(***************************************************************************)
EXTENDS WriteQueue, SequenceTheorems, TLAPS

-----------------------------------------------------------------------------
(* Sequences *)

(* A concatenation can be taken apart where it was put together.            *)
LEMMA Split ==
  ASSUME NEW S, NEW s \in Seq(S), NEW t \in Seq(S)
  PROVE  /\ SubSeq(s \o t, 1, Len(s)) = s
         /\ SubSeq(s \o t, Len(s) + 1, Len(s \o t)) = t
<1> DEFINE w == s \o t
<1>1. /\ w \in Seq(S) /\ Len(w) = Len(s) + Len(t)
      /\ \A i \in 1..Len(s) + Len(t) : w[i] = IF i <= Len(s) THEN s[i] ELSE t[i - Len(s)]
  BY ConcatProperties
<1>2. Len(s) \in Nat /\ Len(t) \in Nat
  BY LenProperties
<1>3. \A i \in 1..Len(w) : w[i] \in S
  BY <1>1, ElementOfSeq
<1> HIDE DEF w
<1>4. SubSeq(w, 1, Len(s)) = s
  <2>1. 1 \in Int /\ Len(s) \in Int /\ \A i \in 1..Len(s) : w[i] \in S
    BY <1>1, <1>2, <1>3
  <2>2. /\ SubSeq(w, 1, Len(s)) \in Seq(S)
        /\ Len(SubSeq(w, 1, Len(s))) = IF 1 <= Len(s) THEN Len(s) - 1 + 1 ELSE 0
        /\ \A i \in 1..Len(s) - 1 + 1 : SubSeq(w, 1, Len(s))[i] = w[1 + i - 1]
    BY <2>1, SubSeqProperties
  <2>3. Len(SubSeq(w, 1, Len(s))) = Len(s)
    BY <2>2, <1>2
  <2>4. \A i \in 1..Len(s) : SubSeq(w, 1, Len(s))[i] = s[i]
    BY <2>2, <1>1, <1>2
  <2> QED
    BY <2>2, <2>3, <2>4, SeqEqual
<1>5. SubSeq(w, Len(s) + 1, Len(w)) = t
  <2>1. /\ Len(s) + 1 \in Int /\ Len(w) \in Int
        /\ \A i \in (Len(s) + 1)..Len(w) : w[i] \in S
    BY <1>1, <1>2, <1>3
  <2>2. /\ SubSeq(w, Len(s) + 1, Len(w)) \in Seq(S)
        /\ Len(SubSeq(w, Len(s) + 1, Len(w)))
              = IF Len(s) + 1 <= Len(w) THEN Len(w) - (Len(s) + 1) + 1 ELSE 0
        /\ \A i \in 1..Len(w) - (Len(s) + 1) + 1 :
              SubSeq(w, Len(s) + 1, Len(w))[i] = w[Len(s) + 1 + i - 1]
    BY <2>1, SubSeqProperties
  <2>3. Len(SubSeq(w, Len(s) + 1, Len(w))) = Len(t)
    BY <2>2, <1>1, <1>2
  <2>4. ASSUME NEW i \in 1..Len(t) PROVE SubSeq(w, Len(s) + 1, Len(w))[i] = t[i]
    <3>1. /\ i \in 1..Len(w) - (Len(s) + 1) + 1
          /\ Len(s) + 1 + i - 1 = Len(s) + i
          /\ Len(s) + i \in 1..Len(s) + Len(t)
          /\ ~(Len(s) + i <= Len(s)) /\ Len(s) + i - Len(s) = i
      BY <1>1, <1>2
    <3>2. SubSeq(w, Len(s) + 1, Len(w))[i] = w[Len(s) + i]
      BY <2>2, <3>1
    <3>3. w[Len(s) + i] = t[i]
      BY <1>1, <3>1
    <3> QED
      BY <3>2, <3>3
  <2> QED
    BY <2>2, <2>3, <2>4, SeqEqual
<1> QED
  BY <1>4, <1>5 DEF w

(* The front of a sequence and what is behind it are the sequence.          *)
LEMMA Cut ==
  ASSUME NEW S, NEW s \in Seq(S), NEW n \in 1..Len(s)
  PROVE  /\ SubSeq(s, 1, n) \in Seq(S) /\ Len(SubSeq(s, 1, n)) = n
         /\ SubSeq(s, n + 1, Len(s)) \in Seq(S)
         /\ Len(SubSeq(s, n + 1, Len(s))) = Len(s) - n
         /\ SubSeq(s, 1, n) \o SubSeq(s, n + 1, Len(s)) = s
<1>1. Len(s) \in Nat /\ \A i \in 1..Len(s) : s[i] \in S
  BY LenProperties, ElementOfSeq
<1>2. /\ SubSeq(s, 1, n) \in Seq(S)
      /\ Len(SubSeq(s, 1, n)) = IF 1 <= n THEN n - 1 + 1 ELSE 0
  <2>1. \A i \in 1..n : s[i] \in S
    BY <1>1
  <2> QED
    BY <2>1, <1>1, SubSeqProperties
<1>3. /\ SubSeq(s, n + 1, Len(s)) \in Seq(S)
      /\ Len(SubSeq(s, n + 1, Len(s))) = IF n + 1 <= Len(s) THEN Len(s) - (n + 1) + 1 ELSE 0
  <2>1. \A i \in (n + 1)..Len(s) : s[i] \in S
    BY <1>1
  <2>2. n + 1 \in Int /\ Len(s) \in Int
    BY <1>1
  <2> QED
    BY <2>1, <2>2, SubSeqProperties
<1>4. SubSeq(s, 1, n) \o SubSeq(s, n + 1, Len(s)) = SubSeq(s, 1, Len(s))
  <2>1. 1 \in 1..Len(s) + 1 /\ n \in (1 - 1)..Len(s) /\ Len(s) \in n..Len(s)
    BY <1>1
  <2> QED
    BY <2>1, ConcatAdjacentSubSeq
<1>5. SubSeq(s, 1, Len(s)) = s
  BY SubSeqFull
<1>6. Len(SubSeq(s, 1, n)) = n
  BY <1>1, <1>2
<1>7. Len(SubSeq(s, n + 1, Len(s))) = Len(s) - n
  BY <1>1, <1>3
<1> QED
  BY <1>2, <1>3, <1>4, <1>5, <1>6, <1>7

(* Appending commutes with what stands in front.                            *)
LEMMA AppendBehind ==
  ASSUME NEW S, NEW s \in Seq(S), NEW t \in Seq(S), NEW x \in S
  PROVE  s \o Append(t, x) = Append(s \o t, x)
<1>1. Append(t, x) = t \o <<x>> /\ <<x>> \in Seq(S)
  BY AppendIsConcat
<1>2. s \o t \in Seq(S)
  BY ConcatProperties
<1>3. Append(s \o t, x) = (s \o t) \o <<x>>
  BY <1>2, AppendIsConcat
<1> QED
  BY <1>1, <1>3, ConcatAssociative

(* The elements of a sequence put together.                                 *)
LEMMA Elements ==
  ASSUME NEW S, NEW s \in Seq(S), NEW t \in Seq(S)
  PROVE  ToSet(s \o t) = ToSet(s) \cup ToSet(t)
<1>1. Range(s \o t) = Range(s) \cup Range(t)
  BY RangeConcatenation
<1> QED
  BY <1>1 DEF Range, ToSet

(* The elements of a sequence with one appended.                           *)
LEMMA LastElement ==
  ASSUME NEW S, NEW s \in Seq(S), NEW x \in S
  PROVE  ToSet(Append(s, x)) = ToSet(s) \cup {x}
<1>1. Append(s, x) = s \o <<x>> /\ <<x>> \in Seq(S)
  BY AppendIsConcat
<1>2. ToSet(<<x>>) = {x}
  BY DEF ToSet
<1>3. ToSet(s \o <<x>>) = ToSet(s) \cup ToSet(<<x>>)
  BY ZenonT(60), <1>1, Elements
<1> QED
  BY <1>1, <1>2, <1>3

-----------------------------------------------------------------------------
(* The invariant, part by part *)

Pos == Nat \ {0}
Steps == {"none", "top", "next", "begin", "insert", "commit", "halt", "settle", "ended"}
Calls == {"idle", "ensure", "room", "lock", "body", "halt"}
InFlight == {"begin", "insert", "commit", "halt", "settle"}

QueueTypes ==
  /\ rows \in Nat /\ pending \in Int /\ failures \in Nat /\ faults \in Nat
  /\ txs \in 0..MaxTxs
  /\ queue \in Seq(Pos) /\ log \in Seq(Int)
  /\ writer \in [pc : Steps, batch : Seq(Pos)]
  /\ session \in [open : BOOLEAN, rows : Seq(Int)]
  /\ caller \in [Callers -> [pc : Calls, tx : Nat]]

Holding ==
  /\ session.open => lock # Free \/ cut
  /\ \A c \in Callers : caller[c].pc \in {"body", "halt"} => lock = c
  /\ \A c \in Callers : caller[c].pc = "halt" => ~session.open \/ cut
  /\ writer.pc \in {"insert", "commit"} => lock = "writer"

Content ==
  /\ \A c \in Callers : caller[c].pc = "body" =>
       Len(session.rows) \in 0..2 /\ \A i \in 1..Len(session.rows) : session.rows[i] = -caller[c].tx
  /\ writer.pc \in {"insert", "commit"} /\ ~shut =>
       session.rows = IF writer.pc = "insert" THEN <<>> ELSE writer.batch

Counting ==
  /\ pending = Len(queue) + IF writer.pc \in InFlight THEN Len(writer.batch) ELSE 0
  /\ writer.pc \in InFlight => Len(writer.batch) \in 1..Batch

Numbered ==
  /\ \A x \in ToSet(log) : x >= -txs
  /\ \A c \in Callers : caller[c].pc \in {"lock", "body"} =>
       /\ caller[c].tx \in 1..txs
       /\ -caller[c].tx \notin ToSet(log)
       /\ \A d \in Callers \ {c} : caller[d].pc \in {"lock", "body"} => caller[d].tx # caller[c].tx

Accounted == 1..rows \subseteq ToSet(log) \cup failed \cup lost \cup ToSet(Waiting)

Closing ==
  /\ broken => failures > 0
  /\ failed # {} => failures > 0
  /\ closer # "open" => stopping
  /\ writer.pc = "none" => queue = <<>>
  /\ writer.pc = "ended" => broken \/ (queue = <<>> /\ stopping)
  /\ \A c \in Callers : caller[c].pc = "room" => stopping \/ writer.pc # "none"
  /\ closer = "closed" => queue = <<>> /\ writer.pc \in {"none", "ended"} /\ failed = {}

Charged ==
  \/ cut
  \/ failures + (IF shut /\ writer.pc \in {"insert", "commit"} THEN 1 ELSE 0) <= faults

-----------------------------------------------------------------------------
(* Types *)

(* The first state has the types.                                           *)
LEMMA TypesInit == Init => QueueTypes
<1> SUFFICES ASSUME Init PROVE QueueTypes
  OBVIOUS
<1>1. <<>> \in Seq(Pos) /\ <<>> \in Seq(Int)
  BY EmptySeq
<1>2. NoThread \in [pc : Steps, batch : Seq(Pos)] /\ NoSession \in [open : BOOLEAN, rows : Seq(Int)]
  BY <1>1 DEF NoThread, NoSession, Steps
<1>3. caller \in [Callers -> [pc : Calls, tx : Nat]]
  BY DEF Init, Idle, Calls
<1> QED
  BY <1>1, <1>2, <1>3, QueueAssumption DEF Init, QueueTypes

(* The process that died has the types.                                     *)
LEMMA DieTypes ==
  ASSUME QueueTypes, Die, UNCHANGED <<txs, faults>> PROVE QueueTypes'
<1>1. <<>> \in Seq(Pos) /\ <<>> \in Seq(Int)
  BY EmptySeq
<1>2. NoThread \in [pc : Steps, batch : Seq(Pos)] /\ NoSession \in [open : BOOLEAN, rows : Seq(Int)]
  BY <1>1 DEF NoThread, NoSession, Steps
<1>3. caller' \in [Callers -> [pc : Calls, tx : Nat]]
  BY DEF Die, Idle, Calls
<1> QED
  BY <1>1, <1>2, <1>3 DEF Die, QueueTypes

(* A transaction that was opened has its type.                              *)
LEMMA OpensTyped ==
  ASSUME NEW who, Opens(who) PROVE session' \in [open : BOOLEAN, rows : Seq(Int)]
<1>1. [open |-> TRUE, rows |-> <<>>] \in [open : BOOLEAN, rows : Seq(Int)]
  BY EmptySeq, Zenon
<1> QED
  BY <1>1 DEF Opens

(* A batch takes the rows that wait, but no more than it may hold.          *)
LEMMA Smaller ==
  ASSUME NEW S, NEW s \in Seq(S), s # <<>>
  PROVE  Min({Len(s), Batch}) \in 1..Len(s) /\ Min({Len(s), Batch}) <= Batch
<1>1. Len(s) \in Nat /\ Len(s) # 0
  BY EmptySeq, LenProperties
<1>2. Batch \in Nat /\ Batch # 0
  BY QueueAssumption
<1>3. PICK m \in {Len(s), Batch} : \A y \in {Len(s), Batch} : m <= y
  BY <1>1, <1>2
<1>4. /\ Min({Len(s), Batch}) \in {Len(s), Batch}
      /\ \A y \in {Len(s), Batch} : Min({Len(s), Batch}) <= y
  BY <1>3, Zenon DEF Min
<1> QED
  BY <1>1, <1>2, <1>4

(* A step of the writer keeps the types.                                    *)
LEMMA WriterTypes ==
  ASSUME QueueTypes, Writer PROVE QueueTypes'
<1> USE DEF door, disk, history, bounds, Steps
<1>a. <<>> \in Seq(Pos) /\ <<>> \in Seq(Int) /\ NoSession \in [open : BOOLEAN, rows : Seq(Int)]
  BY EmptySeq DEF NoSession
<1>b. writer.batch \in Seq(Pos) /\ writer.batch \in Seq(Int)
  <2>1. writer.batch \in Seq(Pos)
    BY DEF QueueTypes
  <2> QED
    BY <2>1, SeqDef DEF Pos
<1>c. Len(writer.batch) \in Int
  BY <1>b, LenProperties
<1>d. log \o session.rows \in Seq(Int) /\ session.rows \o writer.batch \in Seq(Int)
  BY <1>b, ConcatProperties DEF QueueTypes
<1>1. CASE WriterTop
  BY <1>1 DEF WriterTop, QueueTypes
<1>2. CASE Take
  <2> DEFINE n == Min({Len(queue), Batch})
  <2>1. queue \in Seq(Pos) /\ queue # <<>>
    BY <1>2 DEF Take, QueueTypes
  <2>2. n \in 1..Len(queue)
    BY <2>1, Smaller
  <2> HIDE DEF n
  <2>3. SubSeq(queue, 1, n) \in Seq(Pos) /\ SubSeq(queue, n + 1, Len(queue)) \in Seq(Pos)
    BY <2>1, <2>2, Cut
  <2>4. writer' = [pc |-> "begin", batch |-> SubSeq(queue, 1, n)]
        /\ queue' = SubSeq(queue, n + 1, Len(queue))
    BY <1>2 DEF Take, n
  <2>5. UNCHANGED <<rows, pending, failures, faults, txs, log, session, caller>>
    BY <1>2 DEF Take
  <2> QED
    BY <2>3, <2>4, <2>5 DEF QueueTypes
<1>3. CASE WriterStop
  BY <1>3 DEF WriterStop, QueueTypes
<1>4. CASE WriterHalt
  <2>1. CASE Die
    BY <1>4, <2>1, DieTypes DEF WriterHalt
  <2>2. CASE ~Die
    BY <1>4, <2>2 DEF WriterHalt, QueueTypes
  <2> QED
    BY <2>1, <2>2
<1>5. CASE WriterSettle
  <2>1. writer' \in [pc : Steps, batch : Seq(Pos)]
    BY <1>5, <1>a DEF WriterSettle, NoThread
  <2>2. pending' \in Int
    BY <1>5, <1>c DEF WriterSettle, QueueTypes
  <2>3. UNCHANGED <<rows, queue, failures, faults, txs, log, session, caller>>
    BY <1>5 DEF WriterSettle
  <2> QED
    BY <2>1, <2>2, <2>3 DEF QueueTypes
<1>6. ASSUME NEW o \in Outcome, WriterBegin(o) PROVE QueueTypes'
  <2>1. writer' \in [pc : Steps, batch : Seq(Pos)]
    BY <1>6 DEF WriterBegin, BatchFails, QueueTypes
  <2>2. session' \in [open : BOOLEAN, rows : Seq(Int)]
    <3>1. session' = session \/ Opens("writer")
      BY <1>6 DEF WriterBegin
    <3> QED
      BY <3>1, OpensTyped DEF QueueTypes
  <2>3. failures' \in Nat
    BY <1>6 DEF WriterBegin, BatchFails, QueueTypes
  <2>4. faults' \in Nat
    BY <1>6 DEF WriterBegin, Charge, QueueTypes
  <2>5. UNCHANGED <<rows, queue, pending, txs, log, caller>>
    BY <1>6 DEF WriterBegin
  <2> QED
    BY <2>1, <2>2, <2>3, <2>4, <2>5 DEF QueueTypes
<1>7. ASSUME NEW o \in Outcome, WriterInsert(o) PROVE QueueTypes'
  <2>1. writer' \in [pc : Steps, batch : Seq(Pos)]
    BY <1>7 DEF WriterInsert, BatchFails, QueueTypes
  <2>2. session' \in [open : BOOLEAN, rows : Seq(Int)]
    BY <1>7, <1>a, <1>d DEF WriterInsert, RolledBack, Execute, QueueTypes
  <2>3. failures' \in Nat
    BY <1>7 DEF WriterInsert, BatchFails, QueueTypes
  <2>4. faults' \in Nat
    BY <1>7 DEF WriterInsert, Charge, QueueTypes
  <2>5. UNCHANGED <<rows, queue, pending, txs, log, caller>>
    BY <1>7 DEF WriterInsert, Execute
  <2> QED
    BY <2>1, <2>2, <2>3, <2>4, <2>5 DEF QueueTypes
<1>8. ASSUME NEW o \in Outcome, WriterCommit(o) PROVE QueueTypes'
  <2>1. writer' \in [pc : Steps, batch : Seq(Pos)]
    BY <1>8 DEF WriterCommit, BatchFails, QueueTypes
  <2>2. session' \in [open : BOOLEAN, rows : Seq(Int)]
    BY <1>8, <1>a DEF WriterCommit, RolledBack
  <2>3. failures' \in Nat
    BY <1>8 DEF WriterCommit, BatchFails, QueueTypes
  <2>4. faults' \in Nat
    BY <1>8 DEF WriterCommit, Charge, QueueTypes
  <2>5. log' \in Seq(Int)
    BY <1>8, <1>d DEF WriterCommit, QueueTypes
  <2>6. UNCHANGED <<rows, queue, pending, txs, caller>>
    BY <1>8 DEF WriterCommit
  <2> QED
    BY <2>1, <2>2, <2>3, <2>4, <2>5, <2>6 DEF QueueTypes
<1> QED
  BY <1>1, <1>2, <1>3, <1>4, <1>5, <1>6, <1>7, <1>8 DEF Writer

(* A step of a caller keeps the types.                                      *)
LEMMA CallerTypes ==
  ASSUME QueueTypes, NEW c \in Callers, Enqueue(c) \/ BeginTransaction(c) \/ Call(c)
  PROVE  QueueTypes'
<1> USE DEF door, disk, history, bounds, Calls
<1>a. <<>> \in Seq(Int) /\ NoSession \in [open : BOOLEAN, rows : Seq(Int)]
  BY EmptySeq DEF NoSession
<1>b. /\ \A pc \in Calls : Goto(c, pc) => caller' \in [Callers -> [pc : Calls, tx : Nat]]
      /\ Return(c) => caller' \in [Callers -> [pc : Calls, tx : Nat]]
  <2>1. ASSUME NEW pc \in Calls, Goto(c, pc)
        PROVE  caller' \in [Callers -> [pc : Calls, tx : Nat]]
    <3>1. [caller[c] EXCEPT !.pc = pc] \in [pc : Calls, tx : Nat]
      BY DEF QueueTypes
    <3> QED
      BY <2>1, <3>1 DEF Goto, QueueTypes
  <2>2. Return(c) => caller' \in [Callers -> [pc : Calls, tx : Nat]]
    BY DEF Return, Idle, QueueTypes
  <2> QED
    BY <2>1, <2>2
<1>1. CASE Enqueue(c)
  <2>1. caller' \in [Callers -> [pc : Calls, tx : Nat]]
    BY <1>1, <1>b DEF Enqueue
  <2>2. session' \in [open : BOOLEAN, rows : Seq(Int)]
    BY <1>1, <1>a DEF Enqueue, RolledBack, QueueTypes
  <2>3. UNCHANGED <<log, rows, pending, queue, failures, faults, txs, writer>>
    BY <1>1 DEF Enqueue
  <2> QED
    BY <2>1, <2>2, <2>3 DEF QueueTypes
<1>2. CASE BeginTransaction(c)
  <2>1. txs + 1 \in Nat /\ txs' \in 0..MaxTxs
    BY <1>2, QueueAssumption DEF BeginTransaction, QueueTypes
  <2>2. caller' \in [Callers -> [pc : Calls, tx : Nat]]
    BY <1>2, <2>1 DEF BeginTransaction, QueueTypes
  <2>3. UNCHANGED <<log, rows, pending, queue, failures, faults, session, writer>>
    BY <1>2 DEF BeginTransaction
  <2> QED
    BY <2>1, <2>2, <2>3 DEF QueueTypes
<1>3. CASE EnsureWriter(c)
  <2>1. writer' \in [pc : Steps, batch : Seq(Pos)]
    <3>1. <<>> \in Seq(Pos)
      BY EmptySeq
    <3>2. writer' = writer \/ writer' = [NoThread EXCEPT !.pc = "top"]
      BY <1>3 DEF EnsureWriter
    <3>3. [NoThread EXCEPT !.pc = "top"] = [pc |-> "top", batch |-> <<>>]
      BY DEF NoThread
    <3> QED
      BY <3>1, <3>2, <3>3 DEF QueueTypes, Steps
  <2>2. caller' \in [Callers -> [pc : Calls, tx : Nat]]
    BY <1>3, <1>b DEF EnsureWriter
  <2>3. UNCHANGED <<log, rows, pending, queue, failures, faults, txs, session>>
    BY <1>3 DEF EnsureWriter
  <2> QED
    BY <2>1, <2>2, <2>3 DEF QueueTypes
<1>4. CASE Admit(c)
  <2>1. caller' \in [Callers -> [pc : Calls, tx : Nat]]
    BY <1>4, <1>b DEF Admit
  <2>2. \/ UNCHANGED <<queue, pending, rows>>
        \/ queue' = Append(queue, rows + 1) /\ pending' = pending + 1 /\ rows' = rows + 1
    BY <1>4 DEF Admit
  <2>3. rows + 1 \in Pos /\ pending + 1 \in Int
    BY DEF QueueTypes, Pos
  <2>4. Append(queue, rows + 1) \in Seq(Pos)
    BY <2>3, AppendProperties DEF QueueTypes
  <2>5. queue' \in Seq(Pos) /\ pending' \in Int /\ rows' \in Nat
    BY <2>2, <2>3, <2>4 DEF QueueTypes, Pos
  <2>6. UNCHANGED <<log, failures, faults, txs, session, writer>>
    BY <1>4 DEF Admit
  <2> QED
    BY <2>1, <2>5, <2>6 DEF QueueTypes
<1>5. CASE TxRaise(c)
  <2>1. caller' \in [Callers -> [pc : Calls, tx : Nat]]
    BY <1>5, <1>b DEF TxRaise
  <2>2. session' \in [open : BOOLEAN, rows : Seq(Int)]
    BY <1>5, <1>a DEF TxRaise, RolledBack
  <2>3. UNCHANGED <<log, rows, pending, queue, failures, faults, txs, writer>>
    BY <1>5 DEF TxRaise
  <2> QED
    BY <2>1, <2>2, <2>3 DEF QueueTypes
<1>10. CASE TxCutShort(c)
  <2>1. caller' \in [Callers -> [pc : Calls, tx : Nat]]
    BY <1>10, <1>b DEF TxCutShort
  <2>2. faults' \in Nat
    BY <1>10 DEF TxCutShort, Charge, QueueTypes
  <2>3. UNCHANGED <<log, rows, pending, queue, failures, txs, session, writer>>
    BY <1>10 DEF TxCutShort
  <2> QED
    BY <2>1, <2>2, <2>3 DEF QueueTypes
<1>6. CASE TxHalt(c)
  <2>1. CASE Die
    BY <1>6, <2>1, DieTypes DEF TxHalt
  <2>2. CASE ~Die
    <3>1. caller' \in [Callers -> [pc : Calls, tx : Nat]]
      BY <1>6, <2>2, <1>b DEF TxHalt
    <3>2. UNCHANGED <<log, rows, pending, queue, failures, faults, txs, session, writer>>
      BY <1>6, <2>2 DEF TxHalt
    <3> QED
      BY <3>1, <3>2 DEF QueueTypes
  <2> QED
    BY <2>1, <2>2
<1>c. ASSUME NEW o \in Outcome, TxFails(c, o)
      PROVE  failures' \in Nat /\ caller' \in [Callers -> [pc : Calls, tx : Nat]]
  BY <1>c, <1>b DEF TxFails, QueueTypes
<1>7. ASSUME NEW o \in Outcome, TxBegin(c, o) PROVE QueueTypes'
  <2>1. failures' \in Nat /\ caller' \in [Callers -> [pc : Calls, tx : Nat]]
    BY <1>7, <1>b, <1>c DEF TxBegin, QueueTypes
  <2>2. session' = session \/ Opens(c)
    BY <1>7 DEF TxBegin
  <2>3. session' \in [open : BOOLEAN, rows : Seq(Int)]
    BY <2>2, OpensTyped DEF QueueTypes
  <2>4. faults' \in Nat
    BY <1>7 DEF TxBegin, Charge, QueueTypes
  <2>5. UNCHANGED <<log, rows, pending, queue, txs, writer>>
    BY <1>7 DEF TxBegin
  <2> QED
    BY <2>1, <2>3, <2>4, <2>5 DEF QueueTypes
<1>8. ASSUME NEW o \in Outcome, TxWrite(c, o) PROVE QueueTypes'
  <2>1. failures' \in Nat /\ caller' \in [Callers -> [pc : Calls, tx : Nat]]
    BY <1>8, <1>c DEF TxWrite, QueueTypes
  <2>2. session' = NoSession \/ session' = [session EXCEPT !.rows = @ \o <<-caller[c].tx>>]
    BY <1>8 DEF TxWrite, RolledBack, Execute
  <2>3. <<-caller[c].tx>> \in Seq(Int) /\ session.rows \in Seq(Int)
    BY DEF QueueTypes
  <2>4. session.rows \o <<-caller[c].tx>> \in Seq(Int)
    BY <2>3, ConcatProperties
  <2>5. session' \in [open : BOOLEAN, rows : Seq(Int)]
    BY <2>2, <2>4, <1>a DEF QueueTypes
  <2>6. faults' \in Nat
    BY <1>8 DEF TxWrite, Charge, QueueTypes
  <2>7. UNCHANGED <<log, rows, pending, queue, txs, writer>>
    BY <1>8 DEF TxWrite, Execute
  <2> QED
    BY <2>1, <2>5, <2>6, <2>7 DEF QueueTypes
<1>9. ASSUME NEW o \in Outcome, TxCommit(c, o) PROVE QueueTypes'
  <2>1. failures' \in Nat /\ caller' \in [Callers -> [pc : Calls, tx : Nat]]
    BY <1>9, <1>b, <1>c DEF TxCommit, QueueTypes
  <2>2. session' \in [open : BOOLEAN, rows : Seq(Int)]
    BY <1>9, <1>a DEF TxCommit, RolledBack
  <2>3. log \o session.rows \in Seq(Int)
    BY ConcatProperties DEF QueueTypes
  <2>4. log' \in Seq(Int)
    BY <1>9, <2>3 DEF TxCommit, QueueTypes
  <2>5. faults' \in Nat
    BY <1>9 DEF TxCommit, Charge, QueueTypes
  <2>6. UNCHANGED <<rows, pending, queue, txs, writer>>
    BY <1>9 DEF TxCommit
  <2> QED
    BY <2>1, <2>2, <2>4, <2>5, <2>6 DEF QueueTypes
<1> QED
  BY <1>1, <1>2, <1>3, <1>4, <1>5, <1>6, <1>7, <1>8, <1>9, <1>10 DEF Call

(* Every step keeps the types.                                              *)
LEMMA TypesStep == QueueTypes /\ [Next]_vars => QueueTypes'
<1> SUFFICES ASSUME QueueTypes, [Next]_vars PROVE QueueTypes'
  OBVIOUS
<1> USE DEF door, disk, history, bounds
<1>1. CASE CloseBegin
  BY <1>1 DEF CloseBegin, QueueTypes
<1>2. ASSUME CloseEnd \/ CloseExpires PROVE QueueTypes'
  <2>1. session' \in [open : BOOLEAN, rows : Seq(Int)]
    <3>1. session' = NoSession
      BY <1>2 DEF CloseEnd, CloseExpires, CloseWith
    <3> QED
      BY <3>1, EmptySeq DEF NoSession
  <2>2. faults' \in Nat
    BY <1>2 DEF CloseEnd, CloseExpires, Charge, QueueTypes
  <2>3. UNCHANGED <<log, rows, pending, queue, failures, txs, caller, writer>>
    BY <1>2 DEF CloseEnd, CloseExpires, CloseWith
  <2> QED
    BY <2>1, <2>2, <2>3 DEF QueueTypes
<1>3. CASE Kill
  BY <1>3, DieTypes DEF Kill
<1>4. CASE UNCHANGED vars
  BY <1>4 DEF vars, QueueTypes
<1> QED
  BY <1>1, <1>2, <1>3, <1>4, WriterTypes, CallerTypes DEF Next

-----------------------------------------------------------------------------
(* What the moves of a caller and the end of a process leave *)

(* No thread that writes has the name of the lock's other states.           *)
LEMMA Names == \A c \in Callers : c # Free /\ c # "writer"
BY QueueAssumption DEF Free

(* A caller that goes on changes its own place and nothing else.            *)
LEMMA GotoGives ==
  ASSUME QueueTypes, NEW c \in Callers, NEW pc, Goto(c, pc)
  PROVE  /\ caller'[c].pc = pc /\ caller'[c].tx = caller[c].tx
         /\ \A d \in Callers \ {c} : caller'[d] = caller[d]
<1>1. caller' = [caller EXCEPT ![c] = [caller[c] EXCEPT !.pc = pc]]
  BY DEF Goto
<1>2. caller[c] \in [pc : Calls, tx : Nat]
  BY DEF QueueTypes
<1>3. caller'[c] = [caller[c] EXCEPT !.pc = pc]
  BY <1>1 DEF QueueTypes
<1> QED
  BY <1>1, <1>2, <1>3 DEF QueueTypes

(* A caller that returns is idle.                                           *)
LEMMA ReturnGives ==
  ASSUME QueueTypes, NEW c \in Callers, Return(c)
  PROVE  /\ caller'[c].pc = "idle"
         /\ \A d \in Callers \ {c} : caller'[d] = caller[d]
BY DEF Return, Idle, QueueTypes

(* In a process that died nobody is anywhere.                               *)
LEMMA DieGives ==
  ASSUME Die
  PROVE  /\ \A c \in Callers : caller'[c].pc = "idle"
         /\ writer'.pc = "none" /\ writer'.batch = <<>>
         /\ ~session'.open /\ session'.rows = <<>>
         /\ queue' = <<>> /\ pending' = 0 /\ failures' = 0
         /\ failed' = {} /\ lost' = lost \cup failed \cup ToSet(Waiting)
         /\ UNCHANGED <<rows, log>>
         /\ ~broken' /\ ~stopping' /\ closer' = "open" /\ shut'
BY DEF Die, Idle, NoThread, NoSession

(* No session: nothing is open, and no row is held.                         *)
LEMMA NoSessionGives == ~NoSession.open /\ NoSession.rows = <<>>
BY DEF NoSession

-----------------------------------------------------------------------------
(* The lock and the open transaction *)

(* Every step keeps the lock with the transaction that is open.             *)
LEMMA HoldingStep ==
  ASSUME QueueTypes, Holding, [Next]_vars PROVE Holding'
<1> USE DEF door, disk, history, bounds
<1>1. ASSUME Die PROVE Holding'
  BY <1>1, DieGives DEF Holding
<1>2. ASSUME UNCHANGED <<session, lock, caller, cut>>, writer'.pc \notin {"insert", "commit"}
      PROVE  Holding'
  BY <1>2 DEF Holding
<1>3. CASE WriterTop \/ Take \/ WriterStop \/ WriterSettle
  <2>1. UNCHANGED <<session, lock, caller, cut>>
    BY <1>3 DEF WriterTop, Take, WriterStop, WriterSettle
  <2>2. writer'.pc \notin {"insert", "commit"}
    BY <1>3 DEF WriterTop, Take, WriterStop, WriterSettle, NoThread, QueueTypes
  <2> QED
    BY <1>2, <2>1, <2>2
<1>4. CASE WriterHalt
  <2>1. ASSUME ~Die PROVE Holding'
    <3>1. UNCHANGED <<session, lock, caller, cut>>
      BY <1>4, <2>1 DEF WriterHalt
    <3>2. writer'.pc = "settle"
      BY <1>4, <2>1 DEF WriterHalt, QueueTypes
    <3> QED
      BY <1>2, <3>1, <3>2
  <2> QED
    BY <1>1, <2>1
<1>5. ASSUME NEW o \in Outcome, WriterBegin(o) PROVE Holding'
  <2>1. lock = Free /\ UNCHANGED <<caller, cut>>
    BY <1>5 DEF WriterBegin
  <2>2. \/ lock' = "writer" /\ writer'.pc \in {"insert"}
        \/ lock' = Free /\ UNCHANGED session /\ writer'.pc \in {"halt", "settle"}
    BY <1>5 DEF WriterBegin, Opens, BatchFails, QueueTypes
  <2>3. \A c \in Callers : caller[c].pc \notin {"body", "halt"}
    BY <2>1, Names DEF Holding
  <2> QED
    BY <2>1, <2>2, <2>3 DEF Holding, Free
<1>6. ASSUME NEW o \in Outcome, WriterInsert(o) \/ WriterCommit(o) PROVE Holding'
  <2>1. lock = "writer" /\ UNCHANGED <<caller, cut>>
    BY <1>6 DEF WriterInsert, WriterCommit, Holding
  <2>2. \/ lock' = "writer"
        \/ lock' = Free /\ session' = NoSession /\ writer'.pc \in {"halt", "settle"}
    BY <1>6, <2>1 DEF WriterInsert, WriterCommit, BatchFails, RolledBack, QueueTypes
  <2>3. \A c \in Callers : caller[c].pc \notin {"body", "halt"}
    BY <2>1, Names DEF Holding
  <2> QED
    BY <2>1, <2>2, <2>3, NoSessionGives DEF Holding, Free
<1>7. ASSUME NEW c \in Callers, Enqueue(c) \/ TxRaise(c) PROVE Holding'
  <2>1. \/ session' = NoSession /\ lock' = Free /\ Return(c) /\ caller[c].pc = "body"
        \/ UNCHANGED <<session, lock>> /\ Goto(c, "ensure")
    BY <1>7 DEF Enqueue, InTransaction, TxRaise, RolledBack
  <2>2. UNCHANGED <<writer, cut>>
    BY <1>7 DEF Enqueue, TxRaise
  <2>3. CASE session' = NoSession /\ lock' = Free /\ Return(c) /\ caller[c].pc = "body"
    <3>1. lock = c
      BY <2>3 DEF Holding
    <3> QED
      BY <2>2, <2>3, <3>1, Names, ReturnGives, NoSessionGives DEF Holding
  <2>4. CASE UNCHANGED <<session, lock>> /\ Goto(c, "ensure")
    BY <2>2, <2>4, GotoGives DEF Holding
  <2> QED
    BY <2>1, <2>3, <2>4
<1>8. ASSUME NEW c \in Callers, EnsureWriter(c) PROVE Holding'
  <2>1. UNCHANGED <<session, lock, cut>> /\ Goto(c, "room")
    BY <1>8 DEF EnsureWriter
  <2>2. UNCHANGED writer \/ writer' = [NoThread EXCEPT !.pc = "top"]
    BY <1>8 DEF EnsureWriter
  <2>3. UNCHANGED writer \/ writer'.pc = "top"
    BY <2>2 DEF NoThread
  <2> QED
    BY <2>1, <2>3, GotoGives DEF Holding
<1>9. ASSUME NEW c \in Callers, Admit(c) PROVE Holding'
  <2>1. UNCHANGED <<session, lock, writer, cut>> /\ Return(c)
    BY <1>9 DEF Admit
  <2> QED
    BY <2>1, ReturnGives DEF Holding
<1>10. ASSUME NEW c \in Callers, BeginTransaction(c) PROVE Holding'
  <2>1. UNCHANGED <<session, lock, writer, cut>>
    BY <1>10 DEF BeginTransaction
  <2>2. caller'[c].pc = "lock" /\ \A d \in Callers \ {c} : caller'[d] = caller[d]
    BY <1>10 DEF BeginTransaction, QueueTypes
  <2> QED
    BY <2>1, <2>2 DEF Holding
<1>11. ASSUME NEW c \in Callers, NEW o \in Outcome, TxBegin(c, o) PROVE Holding'
  <2>1. lock = Free /\ UNCHANGED <<writer, cut>>
    BY <1>11 DEF TxBegin
  <2>2. \/ lock' = c /\ Goto(c, "body")
        \/ UNCHANGED session /\ lock' = c /\ Goto(c, "halt")
        \/ UNCHANGED session /\ lock' = Free /\ Return(c)
    BY <1>11 DEF TxBegin, Opens, TxFails
  <2>3. (session.open => cut) /\ \A d \in Callers : caller[d].pc \notin {"body", "halt"}
    BY <2>1, Names DEF Holding
  <2>4. writer.pc \notin {"insert", "commit"}
    BY <2>1 DEF Holding, Free
  <2>5. CASE lock' = c /\ Goto(c, "body")
    BY <2>1, <2>3, <2>4, <2>5, GotoGives, Names DEF Holding
  <2>6. CASE UNCHANGED session /\ lock' = c /\ Goto(c, "halt")
    BY <2>1, <2>3, <2>4, <2>6, GotoGives, Names DEF Holding
  <2>7. CASE UNCHANGED session /\ lock' = Free /\ Return(c)
    BY <2>1, <2>3, <2>4, <2>7, ReturnGives, Names DEF Holding
  <2> QED
    BY <2>2, <2>5, <2>6, <2>7
<1>12. ASSUME NEW c \in Callers, NEW o \in Outcome, TxWrite(c, o) \/ TxCommit(c, o)
       PROVE  Holding'
  <2>1. lock = c /\ UNCHANGED <<writer, cut>>
    BY <1>12 DEF TxWrite, TxCommit, Holding
  <2>2. \/ UNCHANGED <<lock, caller>>
        \/ session' = NoSession /\ lock' = c /\ Goto(c, "halt")
        \/ session' = NoSession /\ lock' = Free /\ Return(c)
    BY <1>12 DEF TxWrite, TxCommit, TxFails, RolledBack
  <2>3. writer.pc \notin {"insert", "commit"} /\ \A d \in Callers \ {c} : caller[d].pc \notin {"body", "halt"}
    BY <2>1, Names DEF Holding
  <2>4. CASE UNCHANGED <<lock, caller>>
    <3>1. caller[c].pc = "body"
      BY <1>12 DEF TxWrite, TxCommit
    <3> QED
      BY <2>1, <2>3, <2>4, <3>1, Names DEF Holding
  <2>5. CASE session' = NoSession /\ lock' = c /\ Goto(c, "halt")
    BY <2>1, <2>3, <2>5, GotoGives, Names, NoSessionGives DEF Holding
  <2>6. CASE session' = NoSession /\ lock' = Free /\ Return(c)
    BY <2>1, <2>3, <2>6, ReturnGives, Names, NoSessionGives DEF Holding
  <2> QED
    BY <2>2, <2>4, <2>5, <2>6
<1>13. ASSUME NEW c \in Callers, TxHalt(c) PROVE Holding'
  <2>1. lock = c /\ (session.open => cut)
    BY <1>13 DEF TxHalt, Holding
  <2>2. ASSUME ~Die PROVE Holding'
    <3>1. lock' = Free /\ Return(c) /\ UNCHANGED <<session, writer, cut>>
      BY <1>13, <2>2 DEF TxHalt
    <3> QED
      BY <2>1, <3>1, ReturnGives, Names DEF Holding
  <2> QED
    BY <1>1, <2>2
<1>14. CASE CloseBegin \/ UNCHANGED vars
  BY <1>14 DEF CloseBegin, vars, Holding
<1>15. CASE CloseEnd \/ CloseExpires
  <2>1. session' = NoSession /\ UNCHANGED <<lock, caller, writer>>
    BY <1>15 DEF CloseEnd, CloseExpires, CloseWith
  <2> QED
    BY <2>1, NoSessionGives DEF Holding
<1>17. ASSUME NEW c \in Callers, TxCutShort(c) PROVE Holding'
  <2>1. lock = c /\ cut' /\ lock' = Free /\ Return(c) /\ UNCHANGED writer
    BY <1>17 DEF TxCutShort, Holding
  <2> QED
    BY <2>1, ReturnGives, Names DEF Holding
<1>16. CASE Kill
  BY <1>1, <1>16 DEF Kill
<1> QED
  BY <1>3, <1>4, <1>5, <1>6, <1>7, <1>8, <1>9, <1>10, <1>11, <1>12, <1>13, <1>14, <1>15, <1>16,
     <1>17
     DEF Next, Writer, Call

-----------------------------------------------------------------------------
(* The depth and the rows *)

(* A batch in flight keeps its rows until it is settled.                    *)
LEMMA InFlightMoves ==
  ASSUME QueueTypes, NEW o \in Outcome, WriterBegin(o) \/ WriterInsert(o) \/ WriterCommit(o)
  PROVE  /\ writer.pc \in {"begin", "insert", "commit"}
         /\ writer'.pc \in {"insert", "commit", "halt", "settle"}
         /\ writer'.batch = writer.batch
         /\ UNCHANGED <<queue, pending, rows, caller, closer, stopping, txs, lost>>
<1> USE DEF door, bounds
<1>1. CASE WriterBegin(o)
  BY <1>1 DEF WriterBegin, BatchFails, QueueTypes
<1>2. CASE WriterInsert(o)
  BY <1>2 DEF WriterInsert, BatchFails, QueueTypes
<1>3. CASE WriterCommit(o)
  BY <1>3 DEF WriterCommit, BatchFails, QueueTypes
<1> QED
  BY <1>1, <1>2, <1>3

(* Where the writer's thread goes when it has no batch in flight.           *)
LEMMA IdleMoves ==
  ASSUME QueueTypes, WriterTop \/ WriterStop
  PROVE  /\ writer.pc \in {"top", "next"} /\ writer'.pc \in {"next", "ended"}
         /\ UNCHANGED <<log, queue, pending, rows, failed, lost, session, shut, caller, txs,
                        failures, faults>>
BY DEF WriterTop, WriterStop, QueueTypes, door, disk, history, bounds

(* What a batch that is taken leaves.                                       *)
LEMMA TakeGives ==
  ASSUME QueueTypes, Take
  PROVE  \E n \in 1..Len(queue) :
           /\ n <= Batch
           /\ writer.pc = "next" /\ writer'.pc = "begin"
           /\ writer'.batch = SubSeq(queue, 1, n)
           /\ queue' = SubSeq(queue, n + 1, Len(queue))
           /\ UNCHANGED <<log, pending, rows, failed, lost, session, shut, caller, txs,
                          failures, faults>>
<1>1. queue \in Seq(Pos) /\ queue # <<>>
  BY DEF Take, QueueTypes
<1> DEFINE n == Min({Len(queue), Batch})
<1>2. n \in 1..Len(queue) /\ n <= Batch
  BY <1>1, Smaller
<1> HIDE DEF n
<1>3. /\ writer.pc = "next" /\ writer' = [pc |-> "begin", batch |-> SubSeq(queue, 1, n)]
      /\ queue' = SubSeq(queue, n + 1, Len(queue))
  BY DEF Take, n
<1>4. UNCHANGED <<log, pending, rows, failed, lost, session, shut, caller, txs, failures, faults>>
  BY DEF Take, disk, history, bounds
<1> QED
  BY <1>2, <1>3, <1>4

(* The thread is started at most, never moved, by a caller.                 *)
LEMMA EnsureGives ==
  ASSUME QueueTypes, NEW c \in Callers, EnsureWriter(c)
  PROVE  /\ \/ UNCHANGED writer /\ (writer.pc # "none" \/ stopping)
            \/ /\ writer.pc = "none" /\ ~stopping
               /\ writer'.pc = "top" /\ writer'.batch = <<>>
         /\ Goto(c, "room")
         /\ UNCHANGED <<log, queue, pending, rows, failed, lost, session, shut, txs, lock,
                        failures, faults, stopping, broken, closer>>
<1>1. \/ UNCHANGED writer /\ (writer.pc # "none" \/ stopping)
      \/ writer.pc = "none" /\ ~stopping /\ writer' = [NoThread EXCEPT !.pc = "top"]
  BY DEF EnsureWriter
<1>2. [NoThread EXCEPT !.pc = "top"].pc = "top" /\ [NoThread EXCEPT !.pc = "top"].batch = <<>>
  BY DEF NoThread
<1>3. /\ Goto(c, "room")
      /\ UNCHANGED <<log, queue, pending, rows, failed, lost, session, shut, txs, lock,
                     failures, faults, stopping, broken, closer>>
  BY DEF EnsureWriter, door, disk, history, bounds
<1> QED
  BY <1>1, <1>2, <1>3

(* What every other step leaves of the rows.                                *)
LEMMA CallerLeaves ==
  ASSUME NEW c \in Callers,
         \/ Enqueue(c) \/ BeginTransaction(c) \/ TxRaise(c) \/ TxCutShort(c) \/ (TxHalt(c) /\ ~Die)
         \/ \E o \in Outcome : TxBegin(c, o) \/ TxWrite(c, o) \/ TxCommit(c, o)
  PROVE  UNCHANGED <<queue, pending, rows, writer, failed, lost, stopping, closer>>
<1> USE DEF door, history
<1>1. CASE Enqueue(c)
  BY <1>1 DEF Enqueue
<1>2. CASE BeginTransaction(c)
  BY <1>2 DEF BeginTransaction
<1>3. CASE TxRaise(c)
  BY <1>3 DEF TxRaise
<1>4. CASE TxHalt(c) /\ ~Die
  BY <1>4 DEF TxHalt
<1>6. CASE TxCutShort(c)
  BY <1>6 DEF TxCutShort
<1>5. ASSUME NEW o \in Outcome, TxBegin(c, o) \/ TxWrite(c, o) \/ TxCommit(c, o)
      PROVE  UNCHANGED <<queue, pending, rows, writer, failed, lost, stopping, closer>>
  BY <1>5 DEF TxBegin, TxWrite, TxCommit
<1> QED
  BY <1>1, <1>2, <1>3, <1>4, <1>5, <1>6

(* Every step keeps the depth with the rows it counts.                      *)
LEMMA CountingStep ==
  ASSUME QueueTypes, Counting, [Next]_vars PROVE Counting'
<1> USE DEF InFlight
<1>a. Len(queue) \in Nat /\ Len(writer.batch) \in Nat /\ pending \in Int
  BY LenProperties DEF QueueTypes
<1>1. ASSUME Die PROVE Counting'
  <2>1. Len(<<>>) = 0
    BY EmptySeq
  <2> QED
    BY <1>1, <2>1, DieGives DEF Counting
<1>2. CASE WriterTop \/ WriterStop
  BY <1>2, IdleMoves DEF Counting
<1>3. CASE Take
  <2>1. PICK n \in 1..Len(queue) :
           /\ n <= Batch
           /\ writer.pc = "next" /\ writer'.pc = "begin"
           /\ writer'.batch = SubSeq(queue, 1, n)
           /\ queue' = SubSeq(queue, n + 1, Len(queue))
           /\ UNCHANGED pending
    BY <1>3, TakeGives
  <2>2. Len(writer'.batch) = n /\ Len(queue') = Len(queue) - n
    BY <2>1, Cut DEF QueueTypes
  <2>3. pending = Len(queue)
    BY <2>1, <1>a DEF Counting
  <2>4. pending' = Len(queue') + Len(writer'.batch)
    BY <2>1, <2>2, <2>3, <1>a
  <2>5. Len(writer'.batch) \in 1..Batch
    BY <2>1, <2>2, <1>a, QueueAssumption
  <2> QED
    BY <2>1, <2>4, <2>5 DEF Counting
<1>4. ASSUME NEW o \in Outcome, WriterBegin(o) \/ WriterInsert(o) \/ WriterCommit(o)
      PROVE  Counting'
  BY <1>4, InFlightMoves DEF Counting
<1>5. CASE WriterHalt
  <2>1. ASSUME ~Die PROVE Counting'
    <3>1. writer.pc = "halt" /\ writer' = [writer EXCEPT !.pc = "settle"]
      BY <1>5, <2>1 DEF WriterHalt
    <3>2. writer'.pc = "settle" /\ writer'.batch = writer.batch
      BY <3>1 DEF QueueTypes
    <3>3. UNCHANGED <<queue, pending>>
      BY <1>5, <2>1 DEF WriterHalt, door
    <3> QED
      BY <3>1, <3>2, <3>3 DEF Counting
  <2> QED
    BY <1>1, <2>1
<1>6. CASE WriterSettle
  <2>1. writer.pc = "settle" /\ pending' = pending - Len(writer.batch) /\ UNCHANGED queue
    BY <1>6 DEF WriterSettle
  <2>2. writer'.pc = "top"
    BY <1>6 DEF WriterSettle, NoThread
  <2> QED
    BY <2>1, <2>2, <1>a DEF Counting
<1>7. ASSUME NEW c \in Callers, EnsureWriter(c) PROVE Counting'
  BY <1>7, EnsureGives DEF Counting
<1>8. ASSUME NEW c \in Callers, Admit(c) PROVE Counting'
  <2>1. \/ UNCHANGED <<queue, pending, writer>>
        \/ /\ queue' = Append(queue, rows + 1)
           /\ pending' = pending + 1
           /\ UNCHANGED writer
    BY <1>8 DEF Admit, door
  <2>2. CASE queue' = Append(queue, rows + 1) /\ pending' = pending + 1 /\ UNCHANGED writer
    <3>1. rows + 1 \in Pos
      BY DEF QueueTypes, Pos
    <3>2. Len(queue') = Len(queue) + 1
      BY <2>2, <3>1, AppendProperties DEF QueueTypes
    <3>3. CASE writer.pc \in InFlight
      <4>1. pending = Len(queue) + Len(writer.batch) /\ Len(writer.batch) \in 1..Batch
        BY <3>3 DEF Counting
      <4>2. pending' = Len(queue') + Len(writer.batch)
        <5> DEFINE k == Len(queue)
                   b == Len(writer.batch)
        <5>1. pending' = pending + 1 /\ pending = k + b /\ Len(queue') = k + 1
          BY <2>2, <3>2, <4>1
        <5>2. k \in Nat /\ b \in Nat
          BY <1>a
        <5> HIDE DEF k, b
        <5>3. (k + b) + 1 = (k + 1) + b
          BY <5>2
        <5>4. pending' = Len(queue') + b
          BY <5>1, <5>3
        <5> QED
          BY <5>4 DEF b
      <4> QED
        BY <2>2, <3>3, <4>1, <4>2 DEF Counting
    <3>4. CASE writer.pc \notin InFlight
      <4>1. pending = Len(queue)
        BY <3>4, <1>a DEF Counting
      <4>2. pending' = Len(queue') + 0
        <5>1. pending' = pending + 1
          BY <2>2
        <5> QED
          BY <3>2, <4>1, <5>1, <1>a
      <4> QED
        BY <2>2, <3>4, <4>2 DEF Counting
    <3> QED
      BY <3>3, <3>4
  <2> QED
    BY <2>1, <2>2 DEF Counting
<1>9. ASSUME NEW c \in Callers, UNCHANGED <<queue, pending, writer>> PROVE Counting'
  BY <1>9 DEF Counting
<1>10. ASSUME NEW c \in Callers, Enqueue(c) \/ BeginTransaction(c) \/ Call(c) PROVE Counting'
  BY <1>1, <1>7, <1>8, <1>9, <1>10, CallerLeaves DEF Call, TxHalt
<1>11. CASE CloseBegin \/ CloseEnd \/ CloseExpires \/ UNCHANGED vars
  BY <1>11 DEF CloseBegin, CloseEnd, CloseExpires, CloseWith, vars, door, Counting
<1>12. CASE Kill
  BY <1>1, <1>12 DEF Kill
<1> QED
  BY <1>2, <1>3, <1>4, <1>5, <1>6, <1>10, <1>11, <1>12 DEF Next, Writer

-----------------------------------------------------------------------------
(* The rows of the open transaction *)

(* Every step keeps the open transaction to the rows of its owner.          *)
LEMMA ContentStep ==
  ASSUME QueueTypes, Holding, Content, [Next]_vars PROVE Content'
<1> USE DEF door, disk, history, bounds
<1> DEFINE Inserting == {"insert", "commit"}
<1>a. Len(<<>>) = 0
  BY EmptySeq
<1>1. ASSUME Die PROVE Content'
  BY <1>1, DieGives DEF Content
<1>2. ASSUME UNCHANGED session,
             \A c \in Callers : caller'[c].pc = "body" => caller'[c] = caller[c],
             writer'.pc \notin Inserting \/ UNCHANGED <<writer, shut>>
      PROVE  Content'
  BY <1>2 DEF Content
<1>3. ASSUME session'.rows = <<>>,
             writer'.pc \in Inserting => shut' \/ writer'.pc = "insert"
      PROVE  Content'
  <2>1. Len(session'.rows) = 0
    BY <1>3, <1>a
  <2> QED
    BY <1>3, <2>1 DEF Content
<1>4. CASE WriterTop \/ WriterStop
  BY <1>2, <1>4, IdleMoves
<1>5. CASE Take
  BY <1>2, <1>5, TakeGives
<1>6. CASE WriterHalt
  <2>1. ASSUME ~Die PROVE Content'
    <3>1. UNCHANGED <<session, caller>>
      BY <1>6, <2>1 DEF WriterHalt
    <3>2. writer'.pc = "settle"
      BY <1>6, <2>1 DEF WriterHalt, QueueTypes
    <3> QED
      BY <1>2, <3>1, <3>2
  <2> QED
    BY <1>1, <2>1
<1>7. CASE WriterSettle
  <2>1. UNCHANGED <<session, caller>>
    BY <1>7 DEF WriterSettle
  <2>2. writer'.pc = "top"
    BY <1>7 DEF WriterSettle, NoThread
  <2> QED
    BY <1>2, <2>1, <2>2
<1>8. ASSUME NEW o \in Outcome, WriterBegin(o) PROVE Content'
  <2>1. \/ Opens("writer") /\ writer'.pc = "insert"
        \/ UNCHANGED session /\ writer'.pc \in {"halt", "settle"}
    BY <1>8 DEF WriterBegin, BatchFails, QueueTypes
  <2>2. CASE Opens("writer") /\ writer'.pc = "insert"
    <3>1. session'.rows = <<>>
      BY <2>2 DEF Opens
    <3> QED
      BY <1>3, <2>2, <3>1
  <2>3. CASE UNCHANGED session /\ writer'.pc \in {"halt", "settle"}
    BY <1>2, <2>3, <1>8, InFlightMoves
  <2> QED
    BY <2>1, <2>2, <2>3
<1>9. ASSUME NEW o \in Outcome, WriterInsert(o) PROVE Content'
  <2>1. \A c \in Callers : caller'[c].pc # "body"
    BY <1>9, InFlightMoves, Names DEF WriterInsert, Holding
  <2>2. \/ ~shut /\ Execute(writer.batch) /\ writer'.pc = "commit"
        \/ writer'.pc \in {"halt", "settle"}
    BY <1>9 DEF WriterInsert, BatchFails, QueueTypes
  <2>3. CASE ~shut /\ Execute(writer.batch) /\ writer'.pc = "commit"
    <3>1. session.rows = <<>> /\ writer.batch \in Seq(Pos)
      BY <1>9, <2>3 DEF WriterInsert, Content, QueueTypes
    <3>2. session'.rows = session.rows \o writer.batch
      BY <2>3 DEF Execute, QueueTypes
    <3>3. session'.rows = writer.batch
      BY <3>1, <3>2, ConcatEmptySeq
    <3> QED
      BY <2>1, <2>3, <3>3, <1>9, InFlightMoves DEF Content
  <2> QED
    BY <2>1, <2>2, <2>3 DEF Content
<1>10. ASSUME NEW o \in Outcome, WriterCommit(o) PROVE Content'
  <2>1. \A c \in Callers : caller'[c].pc # "body"
    BY <1>10, InFlightMoves, Names DEF WriterCommit, Holding
  <2>2. writer'.pc \in {"halt", "settle"}
    BY <1>10 DEF WriterCommit, BatchFails, QueueTypes
  <2> QED
    BY <2>1, <2>2 DEF Content
<1>11. ASSUME NEW c \in Callers, Enqueue(c) \/ TxRaise(c) PROVE Content'
  <2>1. \/ session' = NoSession /\ caller[c].pc = "body"
        \/ UNCHANGED session /\ Goto(c, "ensure")
    BY <1>11 DEF Enqueue, InTransaction, TxRaise, RolledBack
  <2>2. UNCHANGED <<writer, shut>>
    BY <1>11 DEF Enqueue, TxRaise
  <2>3. CASE session' = NoSession /\ caller[c].pc = "body"
    <3>1. writer.pc \notin Inserting
      BY <2>3, Names DEF Holding
    <3> QED
      BY <1>3, <2>2, <2>3, <3>1, NoSessionGives
  <2>4. CASE UNCHANGED session /\ Goto(c, "ensure")
    BY <1>2, <2>2, <2>4, GotoGives
  <2> QED
    BY <2>1, <2>3, <2>4
<1>12. ASSUME NEW c \in Callers, EnsureWriter(c) PROVE Content'
  <2>1. Goto(c, "room") /\ UNCHANGED <<session, shut>> /\ (UNCHANGED writer \/ writer'.pc = "top")
    BY <1>12, EnsureGives
  <2> QED
    BY <1>2, <2>1, GotoGives
<1>13. ASSUME NEW c \in Callers, Admit(c) PROVE Content'
  <2>1. UNCHANGED <<session, shut, writer>> /\ Return(c)
    BY <1>13 DEF Admit
  <2> QED
    BY <1>2, <2>1, ReturnGives
<1>14. ASSUME NEW c \in Callers, BeginTransaction(c) PROVE Content'
  <2>1. UNCHANGED <<session, shut, writer>>
    BY <1>14 DEF BeginTransaction
  <2>2. caller'[c].pc = "lock" /\ \A d \in Callers \ {c} : caller'[d] = caller[d]
    BY <1>14 DEF BeginTransaction, QueueTypes
  <2> QED
    BY <1>2, <2>1, <2>2
<1>15. ASSUME NEW c \in Callers, NEW o \in Outcome, TxBegin(c, o) PROVE Content'
  <2>1. UNCHANGED writer /\ writer.pc \notin Inserting
    BY <1>15 DEF TxBegin, Holding, Free
  <2>2. \/ Opens(c)
        \/ UNCHANGED session /\ Goto(c, "halt")
        \/ UNCHANGED session /\ Return(c)
    BY <1>15 DEF TxBegin, TxFails
  <2>3. CASE Opens(c)
    <3>1. session'.rows = <<>>
      BY <2>3 DEF Opens
    <3> QED
      BY <1>3, <2>1, <3>1
  <2>4. CASE UNCHANGED session /\ Goto(c, "halt")
    BY <1>2, <2>1, <2>4, GotoGives
  <2>5. CASE UNCHANGED session /\ Return(c)
    BY <1>2, <2>1, <2>5, ReturnGives
  <2> QED
    BY <2>2, <2>3, <2>4, <2>5
<1>16. ASSUME NEW c \in Callers, NEW o \in Outcome, TxWrite(c, o) PROVE Content'
  <2>1. UNCHANGED writer /\ writer.pc \notin Inserting /\ lock = c /\ caller[c].pc = "body"
    BY <1>16, Names DEF TxWrite, Holding
  <2>2. \/ Execute(<<-caller[c].tx>>) /\ UNCHANGED caller
        \/ session' = NoSession
    BY <1>16 DEF TxWrite, RolledBack
  <2>3. CASE Execute(<<-caller[c].tx>>) /\ UNCHANGED caller
    <3> DEFINE x == -caller[c].tx
    <3>1. x \in Int /\ session.rows \in Seq(Int) /\ <<x>> \in Seq(Int) /\ Len(<<x>>) = 1 /\ <<x>>[1] = x
      BY DEF QueueTypes
    <3>2. session'.rows = session.rows \o <<x>>
      BY <2>3 DEF Execute, QueueTypes
    <3> HIDE DEF x
    <3>3. /\ Len(session.rows) \in {0, 1}
          /\ \A i \in 1..Len(session.rows) : session.rows[i] = x
      BY <1>16, <2>1 DEF TxWrite, Content, x
    <3>4. /\ Len(session'.rows) = Len(session.rows) + 1
          /\ \A i \in 1..Len(session.rows) + 1 :
               session'.rows[i] = IF i <= Len(session.rows) THEN session.rows[i]
                                  ELSE <<x>>[i - Len(session.rows)]
      BY <3>1, <3>2, ConcatProperties
    <3>5. Len(session'.rows) \in 0..2
      BY <3>3, <3>4
    <3>6. \A i \in 1..Len(session'.rows) : session'.rows[i] = x
      BY SMTT(30), <3>1, <3>3, <3>4
    <3>7. \A d \in Callers : caller'[d].pc = "body" => d = c
      BY <2>1, <2>3 DEF Holding
    <3> QED
      BY <2>1, <2>3, <3>5, <3>6, <3>7 DEF Content, x
  <2> QED
    BY <1>3, <2>1, <2>2, <2>3, NoSessionGives
<1>17. ASSUME NEW c \in Callers, NEW o \in Outcome, TxCommit(c, o) PROVE Content'
  <2>1. UNCHANGED writer /\ writer.pc \notin Inserting
    BY <1>17, Names DEF TxCommit, Holding
  <2>2. session' = NoSession
    BY <1>17 DEF TxCommit, RolledBack
  <2> QED
    BY <1>3, <2>1, <2>2, NoSessionGives
<1>18. ASSUME NEW c \in Callers, TxHalt(c) PROVE Content'
  <2>1. ASSUME ~Die PROVE Content'
    <3>1. Return(c) /\ UNCHANGED <<session, shut, writer>>
      BY <1>18, <2>1 DEF TxHalt
    <3> QED
      BY <1>2, <3>1, ReturnGives
  <2> QED
    BY <1>1, <2>1
<1>22. ASSUME NEW c \in Callers, TxCutShort(c) PROVE Content'
  <2>1. Return(c) /\ UNCHANGED <<session, shut, writer>>
    BY <1>22 DEF TxCutShort
  <2> QED
    BY <1>2, <2>1, ReturnGives
<1>19. CASE CloseBegin \/ UNCHANGED vars
  BY <1>19 DEF CloseBegin, vars, Content
<1>20. CASE CloseEnd \/ CloseExpires
  <2>1. session' = NoSession /\ shut'
    BY <1>20 DEF CloseEnd, CloseExpires, CloseWith
  <2> QED
    BY <1>3, <2>1, NoSessionGives
<1>21. CASE Kill
  BY <1>1, <1>21 DEF Kill
<1> QED
  BY <1>4, <1>5, <1>6, <1>7, <1>8, <1>9, <1>10, <1>11, <1>12, <1>13, <1>14, <1>15, <1>16, <1>17,
     <1>18, <1>19, <1>20, <1>21, <1>22 DEF Next, Writer, Call

-----------------------------------------------------------------------------
(* The numbers of transactions *)

(* What a sequence over a set holds is of that set.                         *)
LEMMA ElementsIn ==
  ASSUME NEW S, NEW s \in Seq(S) PROVE ToSet(s) \subseteq S
<1>1. ToSet(s) = {s[i] : i \in 1..Len(s)}
  BY LenProperties DEF ToSet
<1> QED
  BY <1>1, ElementOfSeq

(* What a transaction's rows, once both are written, add to the tier.       *)
LEMMA BothRows ==
  ASSUME QueueTypes, Content, NEW c \in Callers, caller[c].pc = "body", Len(session.rows) = 2
  PROVE  session.rows = <<-caller[c].tx, -caller[c].tx>>
<1>1. \A i \in 1..2 : session.rows[i] = -caller[c].tx
  BY DEF Content
<1> DEFINE x == -caller[c].tx
<1>2. x \in Int /\ session.rows \in Seq(Int)
  BY DEF QueueTypes
<1> HIDE DEF x
<1>3. <<x, x>> \in Seq(Int) /\ Len(<<x, x>>) = 2 /\ <<x, x>>[1] = x /\ <<x, x>>[2] = x
  BY <1>2
<1>4. \A i \in 1..Len(session.rows) : session.rows[i] = <<x, x>>[i]
  BY <1>1, <1>3 DEF x
<1>5. session.rows = <<x, x>>
  BY <1>2, <1>3, <1>4, SeqEqual
<1> QED
  BY <1>5 DEF x

(* What a step adds to the tier, and who adds it.                           *)
LEMMA LogGrows ==
  ASSUME QueueTypes, Holding, Content, [Next]_vars
  PROVE  \/ UNCHANGED log
         \/ \E o \in Outcome : /\ WriterCommit(o) /\ log' = log \o writer.batch
                               /\ writer'.pc = "settle" /\ UNCHANGED <<failed, txs, caller>>
         \/ \E c \in Callers, o \in Outcome :
              /\ TxCommit(c, o) /\ Return(c) /\ UNCHANGED txs
              /\ log' = log \o <<-caller[c].tx, -caller[c].tx>>
<1> USE DEF door, disk, history, bounds
<1>1. ASSUME NEW o \in Outcome, WriterCommit(o), log' # log
      PROVE  /\ log' = log \o writer.batch /\ writer'.pc = "settle"
             /\ UNCHANGED <<failed, txs, caller>>
  <2>1. /\ writer.pc = "commit" /\ ~shut /\ log' = log \o session.rows /\ UNCHANGED failed
        /\ writer' = [writer EXCEPT !.pc = "settle"] /\ UNCHANGED <<txs, caller>>
    BY <1>1 DEF WriterCommit
  <2>2. session.rows = writer.batch
    BY <2>1 DEF Content
  <2> QED
    BY <2>1, <2>2 DEF QueueTypes
<1>2. ASSUME NEW c \in Callers, NEW o \in Outcome, TxCommit(c, o), log' # log
      PROVE  Return(c) /\ UNCHANGED txs /\ log' = log \o <<-caller[c].tx, -caller[c].tx>>
  <2>1. /\ caller[c].pc = "body" /\ Len(session.rows) = 2
        /\ log' = log \o session.rows /\ Return(c) /\ UNCHANGED txs
    BY <1>2 DEF TxCommit
  <2> QED
    BY <2>1, BothRows
<1>3. ASSUME Die PROVE UNCHANGED log
  BY <1>3, DieGives
<1>4. CASE WriterTop \/ Take \/ WriterStop \/ WriterHalt \/ WriterSettle
  BY <1>3, <1>4 DEF WriterTop, Take, WriterStop, WriterHalt, WriterSettle
<1>5. ASSUME NEW o \in Outcome, WriterBegin(o) \/ WriterInsert(o) PROVE UNCHANGED log
  BY <1>5 DEF WriterBegin, WriterInsert, Execute
<1>6. ASSUME NEW c \in Callers,
             \/ Enqueue(c) \/ BeginTransaction(c) \/ EnsureWriter(c) \/ Admit(c)
             \/ TxRaise(c) \/ TxCutShort(c) \/ TxHalt(c)
      PROVE  UNCHANGED log
  BY <1>3, <1>6 DEF Enqueue, BeginTransaction, EnsureWriter, Admit, TxRaise, TxCutShort,
                     TxHalt
<1>7. ASSUME NEW c \in Callers, NEW o \in Outcome, TxBegin(c, o) \/ TxWrite(c, o)
      PROVE  UNCHANGED log
  BY <1>7 DEF TxBegin, TxWrite, Execute
<1>8. CASE CloseBegin \/ CloseEnd \/ CloseExpires \/ Kill \/ UNCHANGED vars
  BY <1>3, <1>8 DEF CloseBegin, CloseEnd, CloseExpires, CloseWith, Kill, vars
<1> QED
  BY <1>1, <1>2, <1>4, <1>5, <1>6, <1>7, <1>8 DEF Next, Writer, Call

(* How the calls with a number, and the numbers given out, go on.           *)
LEMMA TxsGrow ==
  ASSUME QueueTypes, [Next]_vars
  PROVE  \/ \E c \in Callers : /\ caller'[c].pc = "lock" /\ caller'[c].tx = txs + 1
                               /\ txs' = txs + 1 /\ UNCHANGED log
                               /\ \A d \in Callers \ {c} : caller'[d] = caller[d]
         \/ /\ txs' = txs
            /\ \A c \in Callers : caller'[c].pc \in {"lock", "body"} =>
                 caller[c].pc \in {"lock", "body"} /\ caller'[c].tx = caller[c].tx
<1> USE DEF door, disk, history, bounds
<1> DEFINE Kept == /\ txs' = txs
                   /\ \A c \in Callers : caller'[c].pc \in {"lock", "body"} =>
                        caller[c].pc \in {"lock", "body"} /\ caller'[c].tx = caller[c].tx
<1>1. ASSUME Die, UNCHANGED txs PROVE Kept
  BY <1>1, DieGives
<1>2. ASSUME UNCHANGED <<caller, txs>> PROVE Kept
  BY <1>2
<1>3. ASSUME NEW c \in Callers, UNCHANGED txs, Return(c) PROVE Kept
  BY <1>3, ReturnGives
<1>4. ASSUME NEW c \in Callers, UNCHANGED txs, NEW pc, Goto(c, pc),
             pc \in {"lock", "body"} => caller[c].pc \in {"lock", "body"}
      PROVE  Kept
  BY <1>4, GotoGives
<1>5. CASE Writer
  <2>1. Die \/ UNCHANGED caller
    BY <1>5 DEF Writer, WriterTop, Take, WriterStop, WriterHalt, WriterSettle, WriterBegin,
                WriterInsert, WriterCommit
  <2>2. UNCHANGED txs
    BY <1>5 DEF Writer, WriterTop, Take, WriterStop, WriterHalt, WriterSettle, WriterBegin,
                WriterInsert, WriterCommit
  <2> QED
    BY <1>1, <1>2, <2>1, <2>2
<1>6. ASSUME NEW c \in Callers, Enqueue(c) PROVE Kept
  <2>1. UNCHANGED txs /\ (Return(c) \/ Goto(c, "ensure"))
    BY <1>6 DEF Enqueue
  <2> QED
    BY <1>3, <1>4, <2>1
<1>7. ASSUME NEW c \in Callers, BeginTransaction(c)
      PROVE  /\ caller'[c].pc = "lock" /\ caller'[c].tx = txs + 1
             /\ txs' = txs + 1 /\ UNCHANGED log
             /\ \A d \in Callers \ {c} : caller'[d] = caller[d]
  BY <1>7 DEF BeginTransaction, QueueTypes
<1>8. ASSUME NEW c \in Callers, EnsureWriter(c) PROVE Kept
  BY <1>4, <1>8, EnsureGives
<1>9. ASSUME NEW c \in Callers, Admit(c) \/ TxRaise(c) \/ TxCutShort(c) PROVE Kept
  <2>1. UNCHANGED txs /\ Return(c)
    BY <1>9 DEF Admit, TxRaise, TxCutShort
  <2> QED
    BY <1>3, <2>1
<1>10. ASSUME NEW c \in Callers, TxHalt(c) PROVE Kept
  <2>1. UNCHANGED txs /\ (Die \/ Return(c))
    BY <1>10 DEF TxHalt
  <2> QED
    BY <1>1, <1>3, <2>1
<1>11. ASSUME NEW c \in Callers, NEW o \in Outcome, TxBegin(c, o) PROVE Kept
  <2>1. /\ caller[c].pc = "lock" /\ UNCHANGED txs
        /\ Goto(c, "body") \/ Goto(c, "halt") \/ Return(c)
    BY <1>11 DEF TxBegin, TxFails
  <2> QED
    BY <1>3, <1>4, <2>1
<1>12. ASSUME NEW c \in Callers, NEW o \in Outcome, TxWrite(c, o) \/ TxCommit(c, o) PROVE Kept
  <2>1. UNCHANGED txs /\ (UNCHANGED caller \/ Goto(c, "halt") \/ Return(c))
    BY <1>12 DEF TxWrite, TxCommit, TxFails
  <2> QED
    BY <1>2, <1>3, <1>4, <2>1
<1>13. CASE CloseBegin \/ CloseEnd \/ CloseExpires \/ UNCHANGED vars
  BY <1>2, <1>13 DEF CloseBegin, CloseEnd, CloseExpires, CloseWith, vars
<1>14. CASE Kill
  BY <1>1, <1>14 DEF Kill
<1> QED
  BY <1>5, <1>6, <1>7, <1>8, <1>9, <1>10, <1>11, <1>12, <1>13, <1>14 DEF Next, Call

(* Every step keeps the numbers apart from each other and from the tier.    *)
LEMMA NumberedStep ==
  ASSUME QueueTypes, Holding, Content, Numbered, [Next]_vars PROVE Numbered'
<1>a. txs \in Nat /\ \A c \in Callers : caller[c].tx \in Nat
  BY QueueAssumption DEF QueueTypes
<1>1. CASE UNCHANGED log
  <2>1. CASE \E c \in Callers : /\ caller'[c].pc = "lock" /\ caller'[c].tx = txs + 1
                                /\ txs' = txs + 1 /\ UNCHANGED log
                                /\ \A d \in Callers \ {c} : caller'[d] = caller[d]
    <3>1. PICK c \in Callers : /\ caller'[c].pc = "lock" /\ caller'[c].tx = txs + 1
                               /\ txs' = txs + 1
                               /\ \A d \in Callers \ {c} : caller'[d] = caller[d]
      BY <2>1
    <3>2. \A x \in ToSet(log) : x >= -txs
      BY DEF Numbered
    <3>3. ToSet(log) \subseteq Int
      BY ElementsIn DEF QueueTypes
    <3>4. -(txs + 1) \notin ToSet(log) /\ \A x \in ToSet(log) : x >= -(txs + 1)
      BY <3>2, <3>3, <1>a
    <3>5. \A d \in Callers \ {c} : caller[d].pc \in {"lock", "body"} =>
            caller[d].tx # txs + 1 /\ caller[d].tx \in 1..txs + 1
      BY <1>a DEF Numbered
    <3>6. txs + 1 \in 1..txs + 1
      BY <1>a
    <3> QED
      BY <1>1, <3>1, <3>4, <3>5, <3>6 DEF Numbered
  <2>2. CASE /\ txs' = txs
             /\ \A c \in Callers : caller'[c].pc \in {"lock", "body"} =>
                  caller[c].pc \in {"lock", "body"} /\ caller'[c].tx = caller[c].tx
    BY <1>1, <2>2 DEF Numbered
  <2> QED
    BY <2>1, <2>2, TxsGrow
<1>2. ASSUME NEW o \in Outcome, WriterCommit(o), log' = log \o writer.batch,
             UNCHANGED <<txs, caller>>
      PROVE  Numbered'
  <2>1. writer.batch \in Seq(Int) /\ ToSet(writer.batch) \subseteq Pos
    BY ElementsIn, SeqDef DEF QueueTypes, Pos
  <2>2. ToSet(log') = ToSet(log) \cup ToSet(writer.batch)
    BY <1>2, <2>1, Elements DEF QueueTypes
  <2>3. \A x \in Pos : x >= -txs /\ \A c \in Callers : x # -caller[c].tx
    BY <1>a DEF Pos
  <2> QED
    BY <1>2, <2>1, <2>2, <2>3 DEF Numbered
<1>3. ASSUME NEW c \in Callers, NEW o \in Outcome, TxCommit(c, o), Return(c), UNCHANGED txs,
             log' = log \o <<-caller[c].tx, -caller[c].tx>>
      PROVE  Numbered'
  <2> DEFINE x == -caller[c].tx
  <2>1. x \in Int /\ <<x, x>> \in Seq(Int)
    BY <1>a
  <2>2. ToSet(<<x, x>>) = {x}
    BY DEF ToSet
  <2>3. ToSet(log') = ToSet(log) \cup {x}
    <3>1. log' = log \o <<x, x>>
      BY <1>3
    <3>2. log \in Seq(Int)
      BY DEF QueueTypes
    <3> HIDE DEF x
    <3>3. ToSet(log \o <<x, x>>) = ToSet(log) \cup ToSet(<<x, x>>)
      BY ZenonT(60), <2>1, <3>2, Elements
    <3> QED
      BY <2>2, <3>1, <3>3
  <2>4. caller[c].pc = "body"
    BY <1>3 DEF TxCommit
  <2>5. x >= -txs
    BY <2>4, <1>a DEF Numbered
  <2>6. \A d \in Callers \ {c} : caller[d].pc \in {"lock", "body"} => -caller[d].tx # x
    BY <2>4, <1>a DEF Numbered
  <2>7. caller'[c].pc = "idle" /\ \A d \in Callers \ {c} : caller'[d] = caller[d]
    BY <1>3, ReturnGives
  <2> HIDE DEF x
  <2> QED
    BY <1>3, <2>3, <2>5, <2>6, <2>7 DEF Numbered
<1> QED
  BY <1>1, <1>2, <1>3, LogGrows

-----------------------------------------------------------------------------
(* Failures and faults, and closing *)

(* A batch that fails leaves its rows with the failures.                    *)
LEMMA FailGives ==
  ASSUME QueueTypes, NEW o, BatchFails(o)
  PROVE  /\ failures' = failures + 1 /\ failures' > 0
         /\ failed' = failed \cup ToSet(writer.batch)
         /\ writer'.pc \in {"halt", "settle"}
<1>1. failures' = failures + 1 /\ failed' = failed \cup ToSet(writer.batch)
  BY DEF BatchFails
<1>2. failures \in Nat
  BY DEF QueueTypes
<1>3. writer'.pc \in {"halt", "settle"}
  BY DEF BatchFails, QueueTypes
<1> QED
  BY <1>1, <1>2, <1>3

(* A statement of the writer's ends well, or takes its batch to the         *)
(* failures and is answered by a fault, by a connection that is gone, or by  *)
(* a transaction that a call cut short left open.                           *)
LEMMA WriterEnds ==
  ASSUME QueueTypes, Holding, NEW o \in Outcome,
         WriterBegin(o) \/ WriterInsert(o) \/ WriterCommit(o)
  PROVE  \/ /\ UNCHANGED <<failures, failed, broken, lost>>
            /\ faults' = faults /\ ~shut' /\ o = "ok"
         \/ /\ BatchFails(o) /\ UNCHANGED <<log, lost>> /\ shut' = shut
            /\ \/ faults' = faults + 1
               \/ faults' = faults /\ (cut \/ (shut /\ writer.pc \in {"insert", "commit"}))
<1> USE DEF disk, history, bounds
<1>0. faults' = faults + 1 \/ (faults' = faults /\ o = "ok")
  BY DEF WriterBegin, WriterInsert, WriterCommit, Charge
<1>1. CASE WriterBegin(o)
  <2>1. lock = Free /\ (session.open => cut)
    BY <1>1 DEF WriterBegin, Holding
  <2>2. UNCHANGED <<log, lost>>
    BY <1>1 DEF WriterBegin
  <2>3. CASE o = "ok" /\ ~session.open
    <3>1. Opens("writer") /\ UNCHANGED <<broken, failures, failed>>
      BY <1>1, <2>1, <2>3 DEF WriterBegin
    <3>2. ~shut'
      BY <3>1 DEF Opens
    <3>3. faults' = faults
      BY <1>1, <2>3 DEF WriterBegin, Charge
    <3> QED
      BY <2>2, <2>3, <3>1, <3>2, <3>3
  <2>4. CASE o # "ok" \/ session.open
    <3>1. BatchFails(o) /\ UNCHANGED shut
      BY <1>1, <2>4 DEF WriterBegin
    <3> QED
      BY <1>0, <2>1, <2>2, <2>4, <3>1
  <2> QED
    BY <2>3, <2>4
<1>2. CASE WriterInsert(o) \/ WriterCommit(o)
  <2>1. UNCHANGED <<shut, lost>> /\ writer.pc \in {"insert", "commit"}
    BY <1>2 DEF WriterInsert, WriterCommit
  <2>2. CASE o = "ok" /\ ~shut
    <3>1. UNCHANGED <<broken, failures, failed>>
      BY <1>2, <2>2 DEF WriterInsert, WriterCommit
    <3>2. faults' = faults
      BY <1>2, <2>2 DEF WriterInsert, WriterCommit, Charge
    <3> QED
      BY <2>1, <2>2, <3>1, <3>2
  <2>3. CASE o # "ok" \/ shut
    <3>1. BatchFails(o) /\ UNCHANGED log
      BY <1>2, <2>3 DEF WriterInsert, WriterCommit
    <3> QED
      BY <1>0, <2>1, <2>3, <3>1
  <2> QED
    BY <2>2, <2>3
<1> QED
  BY <1>1, <1>2

(* What a transaction costs: an error recorded only for a full disk, which  *)
(* is a fault of its own.                                                   *)
LEMMA TxCosts ==
  ASSUME QueueTypes, NEW c \in Callers, NEW o \in Outcome,
         TxBegin(c, o) \/ TxWrite(c, o) \/ TxCommit(c, o)
  PROVE  /\ \/ failures' = failures /\ (broken' <=> broken) /\ faults' \in {faults, faults + 1}
            \/ failures' = failures + 1 /\ faults' = faults + 1
         /\ shut' = shut \/ ~shut'
         /\ Goto(c, "body") \/ Goto(c, "halt") \/ Return(c) \/ UNCHANGED caller
<1>1. faults' = faults + 1 \/ (faults' = faults /\ o = "ok")
  BY DEF TxBegin, TxWrite, TxCommit, Charge
<1>2. (UNCHANGED failures /\ UNCHANGED broken) \/ TxFails(c, o)
  BY DEF TxBegin, TxWrite, TxCommit
<1>3. ASSUME TxFails(c, o)
      PROVE  \/ failures' = failures /\ (broken' <=> broken) /\ o # "full"
             \/ failures' = failures + 1 /\ o = "full"
  <2>1. CASE o = "full"
    BY <1>3, <2>1 DEF TxFails
  <2>2. CASE o # "full"
    <3>1. failures' = failures + 0
      BY <1>3, <2>2 DEF TxFails
    <3>2. failures' = failures
      BY <3>1 DEF QueueTypes
    <3>3. broken' <=> broken
      BY <1>3, <2>2, Zenon DEF TxFails
    <3> QED
      BY <2>2, <3>2, <3>3
  <2> QED
    BY <2>1, <2>2
<1>4. UNCHANGED shut \/ Opens(c)
  BY DEF TxBegin, TxWrite, TxCommit
<1>5. Opens(c) => ~shut'
  BY DEF Opens
<1>6. Goto(c, "body") \/ Goto(c, "halt") \/ Return(c) \/ UNCHANGED caller
  BY DEF TxBegin, TxWrite, TxCommit, TxFails
<1> QED
  BY <1>1, <1>2, <1>3, <1>4, <1>5, <1>6

(* Only a process that dies forgets that a call was cut short.              *)
LEMMA CutStays ==
  ASSUME [Next]_vars, cut, ~cut' PROVE Die /\ UNCHANGED faults
<1> USE DEF history, bounds
<1>1. CASE Writer
  BY <1>1 DEF Writer, WriterTop, Take, WriterStop, WriterHalt, WriterSettle, WriterBegin,
              WriterInsert, WriterCommit
<1>2. ASSUME NEW c \in Callers, Enqueue(c) \/ BeginTransaction(c) \/ EnsureWriter(c) \/ Admit(c)
      PROVE  FALSE
  BY <1>2 DEF Enqueue, BeginTransaction, EnsureWriter, Admit
<1>3. ASSUME NEW c \in Callers, TxRaise(c) \/ TxCutShort(c) \/ TxHalt(c)
      PROVE  Die /\ UNCHANGED faults
  BY <1>3 DEF TxRaise, TxCutShort, TxHalt
<1>4. ASSUME NEW c \in Callers, NEW o \in Outcome, TxBegin(c, o) \/ TxWrite(c, o) \/ TxCommit(c, o)
      PROVE  FALSE
  BY <1>4 DEF TxBegin, TxWrite, TxCommit
<1>5. CASE CloseBegin \/ CloseEnd \/ CloseExpires \/ UNCHANGED vars
  BY <1>5 DEF CloseBegin, CloseEnd, CloseExpires, CloseWith, vars
<1>6. CASE Kill
  BY <1>6 DEF Kill
<1> QED
  BY <1>1, <1>2, <1>3, <1>4, <1>5, <1>6 DEF Next, Call

(* A step of a process in which no call was cut short keeps a fault behind  *)
(* every failure.                                                           *)
LEMMA ChargedApart ==
  ASSUME QueueTypes, Holding, Charged, [Next]_vars, ~cut, ~cut' PROVE Charged'
<1> USE DEF door, disk, history, bounds
<1>a. failures \in Nat /\ faults \in Nat /\ failures <= faults
  BY DEF QueueTypes, Charged
<1>1. ASSUME Die, UNCHANGED faults PROVE Charged'
  <2>1. failures' = 0 /\ writer'.pc = "none"
    BY <1>1, DieGives
  <2> QED
    BY <1>1, <1>a, <2>1 DEF Charged
<1>2. ASSUME failures' = failures, faults' = faults \/ faults' = faults + 1,
             \/ writer'.pc \notin {"insert", "commit"} \/ ~shut'
             \/ UNCHANGED writer /\ shut' = shut
      PROVE  Charged'
  BY <1>2, <1>a DEF Charged
<1>3. CASE WriterTop \/ WriterStop
  BY <1>2, <1>3, IdleMoves
<1>4. CASE Take
  BY <1>2, <1>4, TakeGives
<1>5. CASE WriterHalt
  <2>1. ASSUME ~Die PROVE Charged'
    <3>1. UNCHANGED <<failures, faults>>
      BY <1>5, <2>1 DEF WriterHalt
    <3>2. writer'.pc = "settle"
      BY <1>5, <2>1 DEF WriterHalt, QueueTypes
    <3> QED
      BY <1>2, <3>1, <3>2
  <2>2. UNCHANGED faults
    BY <1>5 DEF WriterHalt
  <2> QED
    BY <1>1, <2>1, <2>2
<1>6. CASE WriterSettle
  <2>1. UNCHANGED <<failures, faults>>
    BY <1>6 DEF WriterSettle
  <2>2. writer'.pc = "top"
    BY <1>6 DEF WriterSettle, NoThread
  <2> QED
    BY <1>2, <2>1, <2>2
<1>7. ASSUME NEW o \in Outcome, WriterBegin(o) \/ WriterInsert(o) \/ WriterCommit(o)
      PROVE  Charged'
  <2>1. CASE UNCHANGED failures /\ faults' = faults /\ ~shut'
    BY <1>2, <2>1
  <2>2. CASE BatchFails(o) /\ faults' = faults + 1
    BY <1>a, <2>2, FailGives DEF Charged
  <2>3. CASE BatchFails(o) /\ faults' = faults /\ shut /\ writer.pc \in {"insert", "commit"}
    BY <1>a, <2>3, FailGives DEF Charged
  <2> QED
    BY <1>7, <2>1, <2>2, <2>3, WriterEnds
<1>8. ASSUME NEW c \in Callers, Enqueue(c) \/ BeginTransaction(c) \/ Admit(c) \/ TxRaise(c)
      PROVE  Charged'
  <2>1. UNCHANGED <<failures, faults, shut, writer>>
    BY <1>8 DEF Enqueue, BeginTransaction, Admit, TxRaise
  <2> QED
    BY <1>2, <2>1
<1>9. ASSUME NEW c \in Callers, EnsureWriter(c) PROVE Charged'
  BY <1>2, <1>9, EnsureGives
<1>10. ASSUME NEW c \in Callers, TxHalt(c) PROVE Charged'
  <2>1. ASSUME ~Die PROVE Charged'
    <3>1. UNCHANGED <<failures, faults, shut, writer>>
      BY <1>10, <2>1 DEF TxHalt
    <3> QED
      BY <1>2, <3>1
  <2>2. UNCHANGED faults
    BY <1>10 DEF TxHalt
  <2> QED
    BY <1>1, <2>1, <2>2
<1>11. ASSUME NEW c \in Callers, NEW o \in Outcome, TxBegin(c, o) \/ TxWrite(c, o) \/ TxCommit(c, o)
       PROVE  Charged'
  <2>1. UNCHANGED writer
    BY <1>11, CallerLeaves
  <2>2. CASE failures' = failures /\ faults' \in {faults, faults + 1}
    BY <1>2, <1>11, <2>1, <2>2, TxCosts
  <2>3. CASE failures' = failures + 1 /\ faults' = faults + 1
    <3>1. shut' = shut \/ ~shut'
      BY <1>11, TxCosts
    <3> QED
      BY <1>a, <2>1, <2>3, <3>1 DEF Charged
  <2> QED
    BY <1>11, <2>2, <2>3, TxCosts
<1>12. CASE CloseBegin \/ UNCHANGED vars
  BY <1>12 DEF CloseBegin, vars, Charged
<1>13. CASE CloseEnd
  <2>1. UNCHANGED <<failures, faults, writer>> /\ writer.pc \in {"none", "ended"}
    BY <1>13 DEF CloseEnd, CloseWith
  <2> QED
    BY <1>2, <2>1
<1>14. CASE CloseExpires
  <2>1. failures' = failures /\ faults' = faults + 1
    BY <1>14 DEF CloseExpires, CloseWith, Charge
  <2> QED
    BY <1>a, <2>1 DEF Charged
<1>16. ASSUME NEW c \in Callers, TxCutShort(c) PROVE FALSE
  BY <1>16 DEF TxCutShort
<1>15. CASE Kill
  BY <1>1, <1>15 DEF Kill
<1> QED
  BY <1>3, <1>4, <1>5, <1>6, <1>7, <1>8, <1>9, <1>10, <1>11, <1>12, <1>13, <1>14, <1>15,
     <1>16
     DEF Next, Writer, Call

(* Every step keeps a fault behind every failure, unless a call was cut     *)
(* short.                                                                   *)
LEMMA ChargedStep ==
  ASSUME QueueTypes, Holding, Charged, [Next]_vars PROVE Charged'
<1>1. CASE cut'
  BY <1>1 DEF Charged
<1>2. CASE cut /\ ~cut'
  <2>1. Die /\ UNCHANGED faults
    BY <1>2, CutStays
  <2>2. failures' = 0 /\ writer'.pc = "none" /\ faults' \in Nat
    BY <2>1, DieGives DEF QueueTypes
  <2> QED
    BY <2>2 DEF Charged
<1>3. CASE ~cut /\ ~cut'
  BY <1>3, ChargedApart
<1> QED
  BY <1>1, <1>2, <1>3

(* Every step keeps the states of closing apart.                            *)
LEMMA ClosingStep ==
  ASSUME QueueTypes, Holding, Closing, [Next]_vars PROVE Closing'
<1> USE DEF door, disk, history, bounds
<1>a. failures \in Nat
  BY DEF QueueTypes
<1>1. ASSUME Die PROVE Closing'
  BY <1>1, DieGives DEF Closing
<1>2. ASSUME UNCHANGED <<queue, writer, failed, stopping, closer, broken, failures>>,
             \A c \in Callers : caller'[c].pc = "room" => caller[c].pc = "room"
      PROVE  Closing'
  BY <1>2 DEF Closing
<1>3. CASE WriterTop
  <2>1. UNCHANGED <<queue, failed, stopping, closer, broken, failures, caller>>
    BY <1>3 DEF WriterTop
  <2>2. writer.pc = "top" /\ (writer'.pc = "next" \/ (writer'.pc = "ended" /\ broken))
    BY <1>3 DEF WriterTop, QueueTypes
  <2> QED
    BY <2>1, <2>2 DEF Closing
<1>4. CASE Take
  <2>1. UNCHANGED <<failed, stopping, closer, broken, failures, caller>> /\ writer.pc = "next"
    BY <1>4 DEF Take
  <2>2. writer'.pc = "begin"
    BY <1>4, TakeGives
  <2> QED
    BY <2>1, <2>2 DEF Closing
<1>5. CASE WriterStop
  <2>1. /\ UNCHANGED <<queue, failed, stopping, closer, broken, failures, caller>>
        /\ writer.pc = "next" /\ queue = <<>> /\ stopping
    BY <1>5 DEF WriterStop
  <2>2. writer'.pc = "ended"
    BY <1>5 DEF WriterStop, QueueTypes
  <2> QED
    BY <2>1, <2>2 DEF Closing
<1>6. CASE WriterHalt
  <2>1. ASSUME ~Die PROVE Closing'
    <3>1. UNCHANGED <<queue, failed, stopping, closer, broken, failures, caller>>
          /\ writer.pc = "halt"
      BY <1>6, <2>1 DEF WriterHalt
    <3>2. writer'.pc = "settle"
      BY <1>6, <2>1 DEF WriterHalt, QueueTypes
    <3> QED
      BY <3>1, <3>2 DEF Closing
  <2> QED
    BY <1>1, <2>1
<1>7. CASE WriterSettle
  <2>1. UNCHANGED <<queue, failed, stopping, closer, broken, failures, caller>>
        /\ writer.pc = "settle"
    BY <1>7 DEF WriterSettle
  <2>2. writer'.pc = "top"
    BY <1>7 DEF WriterSettle, NoThread
  <2> QED
    BY <2>1, <2>2 DEF Closing
<1>8. ASSUME NEW o \in Outcome, WriterBegin(o) \/ WriterInsert(o) \/ WriterCommit(o)
      PROVE  Closing'
  <2>1. /\ writer.pc \in {"begin", "insert", "commit"}
        /\ writer'.pc \in {"insert", "commit", "halt", "settle"}
        /\ UNCHANGED <<queue, caller, closer, stopping>>
    BY <1>8, InFlightMoves
  <2>2. \/ UNCHANGED <<failures, failed, broken>>
        \/ BatchFails(o)
    BY <1>8, WriterEnds
  <2>3. UNCHANGED <<failures, failed, broken>> \/ failures' > 0
    BY <2>2, FailGives
  <2> QED
    BY <2>1, <2>3 DEF Closing
<1>9. ASSUME NEW c \in Callers, Enqueue(c) PROVE Closing'
  <2>1. UNCHANGED <<queue, writer, failed, stopping, closer, broken, failures>>
    BY <1>9 DEF Enqueue
  <2>2. Return(c) \/ Goto(c, "ensure")
    BY <1>9 DEF Enqueue
  <2> QED
    BY <1>2, <2>1, <2>2, ReturnGives, GotoGives
<1>10. ASSUME NEW c \in Callers, BeginTransaction(c) PROVE Closing'
  <2>1. UNCHANGED <<queue, writer, failed, stopping, closer, broken, failures>>
    BY <1>10 DEF BeginTransaction
  <2>2. caller'[c].pc = "lock" /\ \A d \in Callers \ {c} : caller'[d] = caller[d]
    BY <1>10 DEF BeginTransaction, QueueTypes
  <2> QED
    BY <1>2, <2>1, <2>2
<1>11. ASSUME NEW c \in Callers, EnsureWriter(c) PROVE Closing'
  <2>1. /\ \/ UNCHANGED writer /\ (writer.pc # "none" \/ stopping)
           \/ writer.pc = "none" /\ ~stopping /\ writer'.pc = "top"
        /\ UNCHANGED <<queue, failed, stopping, closer, broken, failures>>
    BY <1>11, EnsureGives
  <2>2. \A d \in Callers : caller'[d].pc = "room" => d = c \/ caller[d].pc = "room"
    BY <1>11, EnsureGives, GotoGives
  <2>3. CASE UNCHANGED writer /\ (writer.pc # "none" \/ stopping)
    BY <2>1, <2>2, <2>3 DEF Closing
  <2>4. CASE writer.pc = "none" /\ ~stopping /\ writer'.pc = "top"
    <3>1. closer = "open" /\ queue = <<>>
      BY <2>4 DEF Closing
    <3> QED
      BY <2>1, <2>2, <2>4, <3>1 DEF Closing
  <2> QED
    BY <2>1, <2>3, <2>4
<1>12. ASSUME NEW c \in Callers, Admit(c) PROVE Closing'
  <2>1. /\ UNCHANGED <<writer, failed, stopping, closer, broken, failures>>
        /\ caller[c].pc = "room" /\ Return(c)
    BY <1>12 DEF Admit
  <2>2. UNCHANGED queue \/ (~stopping /\ ~broken)
    BY <1>12 DEF Admit
  <2>3. \A d \in Callers : caller'[d].pc = "room" => caller[d].pc = "room"
    BY <2>1, ReturnGives
  <2>4. CASE ~stopping /\ ~broken
    BY <2>1, <2>3, <2>4 DEF Closing
  <2> QED
    BY <1>2, <2>1, <2>2, <2>3, <2>4
<1>13. ASSUME NEW c \in Callers, TxRaise(c) \/ TxCutShort(c) PROVE Closing'
  <2>1. UNCHANGED <<queue, writer, failed, stopping, closer, broken, failures>> /\ Return(c)
    BY <1>13 DEF TxRaise, TxCutShort
  <2> QED
    BY <1>2, <2>1, ReturnGives
<1>14. ASSUME NEW c \in Callers, TxHalt(c) PROVE Closing'
  <2>1. ASSUME ~Die PROVE Closing'
    <3>1. UNCHANGED <<queue, writer, failed, stopping, closer, broken, failures>> /\ Return(c)
      BY <1>14, <2>1 DEF TxHalt
    <3> QED
      BY <1>2, <3>1, ReturnGives
  <2> QED
    BY <1>1, <2>1
<1>15. ASSUME NEW c \in Callers, NEW o \in Outcome, TxBegin(c, o) \/ TxWrite(c, o) \/ TxCommit(c, o)
       PROVE  Closing'
  <2>1. UNCHANGED <<queue, writer, failed, stopping, closer>>
    BY <1>15, CallerLeaves
  <2>2. \A d \in Callers : caller'[d].pc = "room" => caller[d].pc = "room"
    BY <1>15, TxCosts, GotoGives, ReturnGives
  <2>3. CASE failures' = failures /\ (broken' <=> broken)
    BY <2>1, <2>2, <2>3 DEF Closing
  <2>4. CASE failures' = failures + 1
    <3>1. failures' > 0
      BY <1>a, <2>4
    <3>2. broken => broken'
      BY <1>15 DEF TxBegin, TxWrite, TxCommit, TxFails
    <3> QED
      BY <2>1, <2>2, <3>1, <3>2 DEF Closing
  <2> QED
    BY <1>15, <2>3, <2>4, TxCosts
<1>16. CASE CloseBegin
  <2>1. UNCHANGED <<queue, writer, failed, broken, failures, caller>> /\ stopping' /\ closer' = "joining"
    BY <1>16 DEF CloseBegin
  <2> QED
    BY <2>1 DEF Closing
<1>17. ASSUME CloseEnd \/ CloseExpires PROVE Closing'
  <2>1. UNCHANGED <<queue, writer, failed, stopping, broken, failures, caller>> /\ closer = "joining"
    BY <1>17 DEF CloseEnd, CloseExpires, CloseWith
  <2>2. closer' = "closed" => failures = 0 /\ writer.pc \in {"none", "ended"}
    BY <1>17, <1>a DEF CloseEnd, CloseExpires, CloseWith
  <2>3. failures = 0 => ~broken /\ failed = {}
    BY DEF Closing
  <2> QED
    BY <2>1, <2>2, <2>3 DEF Closing
<1>18. CASE UNCHANGED vars
  BY <1>2, <1>18 DEF vars
<1>19. CASE Kill
  BY <1>1, <1>19 DEF Kill
<1> QED
  BY <1>3, <1>4, <1>5, <1>6, <1>7, <1>8, <1>9, <1>10, <1>11, <1>12, <1>13, <1>14, <1>15, <1>16,
     <1>17, <1>18, <1>19 DEF Next, Writer, Call

-----------------------------------------------------------------------------
(* The promise, step by step *)

InHand == IF writer.pc \in {"begin", "insert", "commit"} THEN writer.batch ELSE <<>>

(* What waits is the batch in hand before the queue.                        *)
LEMMA WaitingIs ==
  ASSUME QueueTypes
  PROVE  /\ Waiting = InHand \o queue
         /\ InHand \in Seq(Pos) /\ Waiting \in Seq(Pos)
         /\ InHand = <<>> => Waiting = queue
<1>1. InHand \in Seq(Pos) /\ queue \in Seq(Pos)
  BY EmptySeq DEF InHand, QueueTypes
<1>2. Waiting = InHand \o queue
  BY DEF Waiting, InHand
<1>3. <<>> \o queue = queue
  BY <1>1, ConcatEmptySeq
<1> QED
  BY <1>1, <1>2, <1>3, ConcatProperties

promisedVars == <<rows, Waiting, log, failed, lost>>

(* A step that leaves the rows where they are stutters.                     *)
LEMMA Stutters ==
  ASSUME UNCHANGED <<queue, rows, log, failed, lost>>,
         \/ UNCHANGED writer
         \/ writer.pc \notin {"begin", "insert", "commit"} /\ writer'.pc \notin {"begin", "insert", "commit"}
         \/ /\ writer.pc \in {"begin", "insert", "commit"} /\ writer'.pc \in {"begin", "insert", "commit"}
            /\ writer'.batch = writer.batch
  PROVE  UNCHANGED promisedVars
<1>1. Waiting' = Waiting
  BY DEF Waiting
<1> QED
  BY <1>1 DEF promisedVars

(* A batch that leaves the writer's hand leaves the front of what waits.    *)
LEMMA BatchLeaves ==
  ASSUME QueueTypes, QueueTypes', Counting, UNCHANGED queue,
         writer.pc \in {"begin", "insert", "commit"},
         writer'.pc \notin {"begin", "insert", "commit"}
  PROVE  /\ Len(writer.batch) \in 1..Batch
         /\ Promise!Leave(Len(writer.batch))
         /\ SubSeq(Waiting, 1, Len(writer.batch)) = writer.batch
<1> DEFINE b == writer.batch
<1>1. b \in Seq(Pos) /\ queue \in Seq(Pos)
  BY DEF QueueTypes
<1>2. Waiting = b \o queue
  BY WaitingIs DEF InHand
<1>3. Waiting' = queue
  <2>1. InHand' = <<>> /\ Waiting' = InHand' \o queue'
    BY DEF InHand, Waiting
  <2> QED
    BY <1>1, <2>1, ConcatEmptySeq
<1>4. Len(b) \in 1..Batch
  BY DEF Counting, InFlight
<1>5. Len(Waiting) = Len(b) + Len(queue) /\ Len(queue) \in Nat /\ Len(b) \in Nat
  BY <1>1, <1>2, ConcatProperties, LenProperties
<1>6. Len(b) <= Len(Waiting)
  BY <1>5
<1>7. SubSeq(Waiting, 1, Len(b)) = b /\ SubSeq(Waiting, Len(b) + 1, Len(Waiting)) = queue
  BY <1>1, <1>2, Split
<1> QED
  BY <1>3, <1>4, <1>6, <1>7 DEF Promise!Leave

(* The elements of the front of a sequence.                                 *)
LEMMA FrontElements ==
  ASSUME NEW S, NEW s \in Seq(S), NEW n \in 1..Len(s)
  PROVE  ToSet(SubSeq(s, 1, n)) = {s[i] : i \in 1..n}
<1>1. Len(s) \in Nat /\ \A i \in 1..n : s[i] \in S
  BY LenProperties, ElementOfSeq
<1>2. /\ SubSeq(s, 1, n) \in Seq(S) /\ Len(SubSeq(s, 1, n)) = n
      /\ \A i \in 1..n - 1 + 1 : SubSeq(s, 1, n)[i] = s[1 + i - 1]
  BY <1>1, SubSeqProperties
<1>3. \A i \in 1..n : SubSeq(s, 1, n)[i] = s[i]
  BY <1>1, <1>2
<1>4. DOMAIN SubSeq(s, 1, n) = 1..n
  BY <1>2, LenProperties
<1> QED
  BY <1>3, <1>4 DEF ToSet

(* Every step takes a step of the promise or none.                          *)
LEMMA PromiseStep ==
  ASSUME QueueTypes, QueueTypes', Holding, Content, Counting, Numbered, [Next]_vars
  PROVE  Promise!Next \/ UNCHANGED promisedVars
<1> USE DEF door, disk, history, bounds
<1>1. ASSUME Die PROVE Promise!Kill
  <2>1. writer'.pc = "none" /\ queue' = <<>>
    BY <1>1, DieGives
  <2>2. Waiting' = <<>> \o <<>>
    BY <2>1 DEF Waiting
  <2>3. Waiting' = <<>>
    BY <2>2, EmptySeq, ConcatEmptySeq
  <2>4. /\ lost' = lost \cup failed \cup ToSet(Waiting) /\ failed' = {}
        /\ UNCHANGED <<rows, log>>
    BY <1>1, DieGives
  <2>5. Promise!ToSet(Waiting) = ToSet(Waiting)
    BY DEF Promise!ToSet, ToSet
  <2> QED
    BY <2>3, <2>4, <2>5 DEF Promise!Kill
<1>2. CASE WriterTop \/ WriterStop
  BY <1>2, IdleMoves, Stutters
<1>3. CASE Take
  <2>1. PICK n \in 1..Len(queue) :
           /\ writer.pc = "next" /\ writer'.pc = "begin"
           /\ writer'.batch = SubSeq(queue, 1, n)
           /\ queue' = SubSeq(queue, n + 1, Len(queue))
           /\ UNCHANGED <<log, rows, failed, lost>>
    BY <1>3, TakeGives
  <2>2. Waiting = queue
    BY <2>1, WaitingIs DEF InHand
  <2>3. Waiting' = SubSeq(queue, 1, n) \o SubSeq(queue, n + 1, Len(queue))
    BY <2>1 DEF Waiting
  <2>4. Waiting' = queue
    BY <2>3, Cut DEF QueueTypes
  <2> QED
    BY <2>1, <2>2, <2>4 DEF promisedVars
<1>4. CASE WriterHalt
  <2>1. ASSUME ~Die PROVE UNCHANGED promisedVars
    <3>1. UNCHANGED <<queue, rows, log, failed, lost>> /\ writer.pc = "halt"
      BY <1>4, <2>1 DEF WriterHalt
    <3>2. writer'.pc = "settle"
      BY <1>4, <2>1 DEF WriterHalt, QueueTypes
    <3> QED
      BY <3>1, <3>2, Stutters
  <2> QED
    BY <1>1, <2>1 DEF Promise!Next
<1>5. CASE WriterSettle
  <2>1. UNCHANGED <<queue, rows, log, failed, lost>> /\ writer.pc = "settle"
    BY <1>5 DEF WriterSettle
  <2>2. writer'.pc = "top"
    BY <1>5 DEF WriterSettle, NoThread
  <2> QED
    BY <2>1, <2>2, Stutters
<1>6. ASSUME NEW o \in Outcome, WriterBegin(o) \/ WriterInsert(o) \/ WriterCommit(o), BatchFails(o)
      PROVE  Promise!Fail
  <2> DEFINE n == Len(writer.batch)
  <2>1. writer.pc \in {"begin", "insert", "commit"} /\ UNCHANGED <<queue, rows, lost>>
    BY <1>6, InFlightMoves
  <2>2. failed' = failed \cup ToSet(writer.batch) /\ writer'.pc \in {"halt", "settle"}
    BY <1>6, FailGives
  <2>3. n \in 1..Batch /\ Promise!Leave(n) /\ SubSeq(Waiting, 1, n) = writer.batch
    BY <2>1, <2>2, BatchLeaves
  <2>4. n \in 1..Len(Waiting)
    BY <2>3 DEF Promise!Leave
  <2>5. ToSet(writer.batch) = {Waiting[i] : i \in 1..n}
    BY <2>3, <2>4, WaitingIs, FrontElements
  <2>6. UNCHANGED log
    <3>1. failures' # failures
      BY <1>6, FailGives DEF QueueTypes
    <3> QED
      BY <1>6, <3>1 DEF WriterBegin, WriterInsert, WriterCommit, Execute
  <2> HIDE DEF n
  <2> QED
    BY <2>1, <2>2, <2>3, <2>5, <2>6 DEF Promise!Fail
<1>7. ASSUME NEW o \in Outcome, WriterCommit(o), log' = log \o writer.batch, writer'.pc = "settle",
             UNCHANGED failed
      PROVE  Promise!Land
  <2> DEFINE n == Len(writer.batch)
  <2>1. writer.pc \in {"begin", "insert", "commit"} /\ UNCHANGED <<queue, rows, lost>>
    BY <1>7, InFlightMoves
  <2>2. n \in 1..Batch /\ Promise!Leave(n) /\ SubSeq(Waiting, 1, n) = writer.batch
    BY <1>7, <2>1, BatchLeaves
  <2> HIDE DEF n
  <2> QED
    BY <1>7, <2>1, <2>2 DEF Promise!Land
<1>8. ASSUME NEW o \in Outcome, WriterBegin(o) \/ WriterInsert(o) \/ WriterCommit(o), UNCHANGED log,
             UNCHANGED <<failures, failed, broken, lost>>
      PROVE  UNCHANGED promisedVars
  <2>1. failures \in Nat /\ ~BatchFails(o)
    BY SMTT(30), <1>8 DEF BatchFails, QueueTypes
  <2>2. ~WriterCommit(o)
    <3>1. ASSUME WriterCommit(o) PROVE FALSE
      <4>1. log' = log \o session.rows /\ session.rows = writer.batch /\ writer.pc = "commit"
        BY <2>1, <3>1 DEF WriterCommit, Content
      <4>2. Len(writer.batch) \in 1..Batch /\ writer.batch \in Seq(Int) /\ log \in Seq(Int)
        BY <4>1, SeqDef DEF Counting, InFlight, QueueTypes, Pos
      <4>3. Len(log') = Len(log) + Len(writer.batch) /\ Len(log) \in Nat
        BY <4>1, <4>2, ConcatProperties, LenProperties
      <4> QED
        BY <1>8, <4>2, <4>3
    <3> QED
      BY <3>1
  <2>3. writer'.pc \in {"insert", "commit"}
    BY <1>8, <2>1, <2>2 DEF WriterBegin, WriterInsert, QueueTypes
  <2> QED
    BY <1>8, <2>3, InFlightMoves, Stutters
<1>9. ASSUME NEW o \in Outcome, WriterBegin(o) \/ WriterInsert(o) \/ WriterCommit(o)
      PROVE  Promise!Next \/ UNCHANGED promisedVars
  <2>1. CASE BatchFails(o)
    BY <1>6, <1>9, <2>1 DEF Promise!Next
  <2>2. CASE UNCHANGED <<failures, failed, broken, lost>> /\ log' = log
    BY <1>8, <1>9, <2>2
  <2>3. CASE WriterCommit(o) /\ UNCHANGED failures /\ log' # log
    <3>1. /\ writer.pc = "commit" /\ ~shut /\ log' = log \o session.rows /\ UNCHANGED failed
          /\ writer' = [writer EXCEPT !.pc = "settle"]
      BY <2>3 DEF WriterCommit
    <3>2. session.rows = writer.batch
      BY <3>1 DEF Content
    <3>3. writer'.pc = "settle"
      BY <3>1 DEF QueueTypes
    <3> QED
      BY <1>7, <2>3, <3>1, <3>2, <3>3 DEF Promise!Next
  <2>4. WriterBegin(o) \/ WriterInsert(o) => log' = log
    BY DEF WriterBegin, WriterInsert, Execute
  <2> QED
    BY <1>9, <2>1, <2>2, <2>3, <2>4, WriterEnds

<1>10. ASSUME NEW c \in Callers, EnsureWriter(c) PROVE UNCHANGED promisedVars
  <2>1. UNCHANGED writer \/ (writer.pc = "none" /\ writer'.pc = "top")
    BY <1>10, EnsureGives
  <2>2. UNCHANGED <<queue, rows, log, failed, lost>>
    BY <1>10, EnsureGives
  <2> QED
    BY <2>1, <2>2, Stutters
<1>11. ASSUME NEW c \in Callers, Admit(c) PROVE Promise!Next \/ UNCHANGED promisedVars
  <2>0. UNCHANGED <<writer, log, failed, lost>>
    BY <1>11 DEF Admit
  <2>1. \/ UNCHANGED <<queue, rows>>
        \/ pending < Depth /\ queue' = Append(queue, rows + 1) /\ rows' = rows + 1
    BY <1>11 DEF Admit
  <2>2. CASE pending < Depth /\ queue' = Append(queue, rows + 1) /\ rows' = rows + 1
    <3>1. InHand \in Seq(Pos) /\ queue \in Seq(Pos) /\ rows + 1 \in Pos
      BY SMTT(30), WaitingIs DEF QueueTypes, Pos
    <3>2. InHand' = InHand /\ Waiting' = InHand' \o queue'
      BY <2>0 DEF InHand, Waiting
    <3>3. Waiting' = InHand \o Append(queue, rows + 1)
      BY <2>2, <3>2
    <3>4. Waiting' = Append(Waiting, rows + 1)
      <4>1. InHand \o Append(queue, rows + 1) = Append(InHand \o queue, rows + 1)
        BY <3>1, AppendBehind
      <4> QED
        BY <3>3, <4>1, WaitingIs
    <3>5. Len(Waiting) = Len(InHand) + Len(queue) /\ Len(queue) \in Nat
      BY <3>1, WaitingIs, ConcatProperties, LenProperties
    <3>6. Len(Waiting) = pending \/ (writer.pc \in {"halt", "settle"} /\ Len(Waiting) = Len(queue))
      <4>1. CASE writer.pc \in {"begin", "insert", "commit"}
        BY <3>5, <4>1 DEF InHand, Counting, InFlight, QueueTypes
      <4>2. CASE writer.pc \notin {"begin", "insert", "commit"}
        <5>1. Len(Waiting) = Len(queue)
          BY <4>2, WaitingIs DEF InHand
        <5> QED
          BY <3>5, <4>2, <5>1 DEF Counting, InFlight
      <4> QED
        BY <4>1, <4>2
    <3>7. writer.pc \in {"halt", "settle"} => pending >= Len(queue)
      <4>1. ASSUME writer.pc \in {"halt", "settle"} PROVE pending >= Len(queue)
        <5>1. pending = Len(queue) + Len(writer.batch) /\ Len(writer.batch) \in 1..Batch
          BY <4>1 DEF Counting, InFlight
        <5>2. Len(queue) \in Nat /\ Len(writer.batch) \in Nat
          BY <3>5, LenProperties DEF QueueTypes
        <5> QED
          BY <5>1, <5>2
      <4> QED
        BY <4>1
    <3>8. pending < Depth /\ pending \in Int /\ Depth \in Nat
      BY <2>2, QueueAssumption DEF QueueTypes
    <3>9. Len(Waiting) < Depth
      BY <3>5, <3>6, <3>7, <3>8
    <3>10. Promise!Accept
      BY <2>0, <2>2, <3>4, <3>9 DEF Promise!Accept
    <3> QED
      BY <3>10 DEF Promise!Next
  <2>3. CASE UNCHANGED <<queue, rows>>
    BY <2>0, <2>3, Stutters
  <2> QED
    BY <2>1, <2>2, <2>3
<1>12. ASSUME NEW c \in Callers, NEW o \in Outcome, TxCommit(c, o), UNCHANGED <<queue, rows, writer, failed, lost>>,
              log' = log \o <<-caller[c].tx, -caller[c].tx>>
       PROVE  Promise!Next
  <2> DEFINE t == caller[c].tx
  <2>1. caller[c].pc = "body"
    BY <1>12 DEF TxCommit
  <2>2. t \in 1..txs /\ -t \notin ToSet(log) /\ txs \in 0..MaxTxs /\ MaxTxs \in Nat
    BY <2>1, QueueAssumption DEF Numbered, QueueTypes
  <2>3. t \in 1..MaxTxs
    BY <2>2
  <2>4. Waiting' = Waiting
    BY <1>12 DEF Waiting
  <2>5. log' = log \o <<-t, -t>> /\ UNCHANGED <<rows, failed, lost>>
    BY <1>12
  <2> HIDE DEF t
  <2>6. Promise!ToSet(log) = ToSet(log)
    BY DEF Promise!ToSet, ToSet
  <2>7. Promise!Transact(t)
    BY <2>2, <2>4, <2>5, <2>6 DEF Promise!Transact
  <2> QED
    BY <2>3, <2>7 DEF Promise!Next
<1>13. ASSUME NEW c \in Callers,
              \/ Enqueue(c) \/ BeginTransaction(c) \/ TxRaise(c) \/ TxCutShort(c)
              \/ (TxHalt(c) /\ ~Die)
              \/ \E o \in Outcome : TxBegin(c, o) \/ TxWrite(c, o) \/ TxCommit(c, o)
       PROVE  Promise!Next \/ UNCHANGED promisedVars
  <2>1. UNCHANGED <<queue, rows, writer, failed, lost>>
    BY <1>13, CallerLeaves
  <2>2. ASSUME NEW o \in Outcome, TxCommit(c, o), log' # log
        PROVE  log' = log \o <<-caller[c].tx, -caller[c].tx>>
    <3>1. caller[c].pc = "body" /\ Len(session.rows) = 2 /\ log' = log \o session.rows
      BY <2>2 DEF TxCommit
    <3> QED
      BY <3>1, BothRows
  <2>3. CASE log' = log
    BY <2>1, <2>3, Stutters
  <2>4. CASE \E o \in Outcome : TxCommit(c, o) /\ log' # log
    BY <1>12, <2>1, <2>2, <2>4
  <2>5. CASE TxHalt(c) /\ ~Die
    BY <2>3, <2>5 DEF TxHalt
  <2>6. CASE Enqueue(c) \/ BeginTransaction(c) \/ TxRaise(c) \/ TxCutShort(c)
    BY <2>3, <2>6 DEF Enqueue, BeginTransaction, TxRaise, TxCutShort
  <2>7. ASSUME NEW o \in Outcome, TxBegin(c, o) \/ TxWrite(c, o) PROVE log' = log
    BY <2>7 DEF TxBegin, TxWrite, Execute
  <2> QED
    BY <1>13, <2>3, <2>4, <2>5, <2>6, <2>7
<1>14. CASE CloseBegin \/ CloseEnd \/ CloseExpires
  <2>1. UNCHANGED <<queue, rows, writer, log, failed, lost>>
    BY <1>14 DEF CloseBegin, CloseEnd, CloseExpires, CloseWith
  <2> QED
    BY <2>1, Stutters
<1>15. CASE Kill
  BY <1>1, <1>15 DEF Kill, Promise!Next
<1>16. CASE UNCHANGED vars
  <2>1. UNCHANGED <<queue, rows, writer, log, failed, lost>>
    BY <1>16 DEF vars
  <2> QED
    BY <2>1, Stutters
<1>17. ASSUME NEW c \in Callers, Enqueue(c) \/ BeginTransaction(c) \/ Call(c)
       PROVE  Promise!Next \/ UNCHANGED promisedVars
  <2>1. CASE TxHalt(c) /\ Die
    BY <1>1, <2>1 DEF Promise!Next
  <2> QED
    BY <1>10, <1>11, <1>13, <1>17, <2>1 DEF Call
<1> QED
  BY <1>2, <1>3, <1>4, <1>5, <1>9, <1>14, <1>15, <1>16, <1>17 DEF Next, Writer

-----------------------------------------------------------------------------
(* No row is forgotten: what the promise alone guarantees *)

(* Every step of the promise leaves each accepted row landed, failed, lost  *)
(* or waiting.                                                              *)
LEMMA AccountedStep ==
  ASSUME QueueTypes, QueueTypes', Accounted, Promise!Next \/ UNCHANGED promisedVars
  PROVE  Accounted'
<1>a. Waiting \in Seq(Int) /\ log \in Seq(Int) /\ rows \in Nat
  <2>1. Waiting \in Seq(Pos)
    BY WaitingIs
  <2>2. Waiting \in Seq(Int)
    BY <2>1, SeqDef DEF Pos
  <2> QED
    BY <2>2 DEF QueueTypes
<1>1. CASE UNCHANGED promisedVars
  BY <1>1 DEF promisedVars, Accounted
<1>2. CASE Promise!Accept
  <2>1. rows' = rows + 1 /\ Waiting' = Append(Waiting, rows + 1) /\ UNCHANGED <<log, failed, lost>>
    BY <1>2 DEF Promise!Accept
  <2>2. rows + 1 \in Int
    BY <1>a
  <2>3. ToSet(Waiting') = ToSet(Waiting) \cup {rows + 1}
    BY <2>1, <2>2, <1>a, LastElement
  <2>4. 1..rows' \subseteq 1..rows \cup {rows + 1}
    BY <2>1, <1>a
  <2> QED
    BY <2>1, <2>3, <2>4 DEF Accounted
<1>3. ASSUME NEW n \in 1..Batch, Promise!Leave(n)
      PROVE  /\ ToSet(Waiting) = ToSet(SubSeq(Waiting, 1, n)) \cup ToSet(Waiting')
             /\ SubSeq(Waiting, 1, n) \in Seq(Int) /\ n \in 1..Len(Waiting)
  <2>1. n \in 1..Len(Waiting) /\ Waiting' = SubSeq(Waiting, n + 1, Len(Waiting))
    BY <1>3 DEF Promise!Leave
  <2>2. /\ SubSeq(Waiting, 1, n) \in Seq(Int) /\ SubSeq(Waiting, n + 1, Len(Waiting)) \in Seq(Int)
        /\ SubSeq(Waiting, 1, n) \o SubSeq(Waiting, n + 1, Len(Waiting)) = Waiting
    BY <1>a, <2>1, Cut
  <2>3. ToSet(SubSeq(Waiting, 1, n) \o SubSeq(Waiting, n + 1, Len(Waiting)))
          = ToSet(SubSeq(Waiting, 1, n)) \cup ToSet(SubSeq(Waiting, n + 1, Len(Waiting)))
    <3> DEFINE front == SubSeq(Waiting, 1, n)
               rest == SubSeq(Waiting, n + 1, Len(Waiting))
    <3>1. front \in Seq(Int) /\ rest \in Seq(Int)
      BY <2>2
    <3> HIDE DEF front, rest
    <3>2. ToSet(front \o rest) = ToSet(front) \cup ToSet(rest)
      BY <3>1, Elements
    <3> QED
      BY <3>2 DEF front, rest
  <2> QED
    BY <2>1, <2>2, <2>3
<1>4. CASE Promise!Land
  <2>1. PICK n \in 1..Batch : /\ Promise!Leave(n)
                              /\ log' = log \o SubSeq(Waiting, 1, n)
                              /\ UNCHANGED <<rows, failed, lost>>
    BY <1>4 DEF Promise!Land
  <2>2. ToSet(log \o SubSeq(Waiting, 1, n)) = ToSet(log) \cup ToSet(SubSeq(Waiting, 1, n))
    <3> DEFINE front == SubSeq(Waiting, 1, n)
    <3>1. front \in Seq(Int)
      BY <1>3, <2>1
    <3> HIDE DEF front
    <3>2. ToSet(log \o front) = ToSet(log) \cup ToSet(front)
      BY <1>a, <3>1, Elements
    <3> QED
      BY <3>2 DEF front
  <2>3. ToSet(Waiting) = ToSet(SubSeq(Waiting, 1, n)) \cup ToSet(Waiting')
    BY <1>3, <2>1
  <2> QED
    BY <2>1, <2>2, <2>3 DEF Accounted
<1>5. CASE Promise!Fail
  <2>1. PICK n \in 1..Batch : /\ Promise!Leave(n)
                              /\ failed' = failed \cup {Waiting[i] : i \in 1..n}
                              /\ UNCHANGED <<rows, log, lost>>
    BY <1>5 DEF Promise!Fail
  <2>2. ToSet(SubSeq(Waiting, 1, n)) = {Waiting[i] : i \in 1..n}
    BY <1>3, <1>a, <2>1, FrontElements
  <2>3. ToSet(Waiting) = ToSet(SubSeq(Waiting, 1, n)) \cup ToSet(Waiting')
    BY <1>3, <2>1
  <2> QED
    BY <2>1, <2>2, <2>3 DEF Accounted
<1>6. CASE Promise!Kill
  <2>1. Promise!ToSet(Waiting) = ToSet(Waiting)
    BY DEF Promise!ToSet, ToSet
  <2>2. lost' = lost \cup failed \cup ToSet(Waiting) /\ UNCHANGED <<rows, log>>
    BY <1>6, <2>1 DEF Promise!Kill
  <2> QED
    BY <2>2 DEF Accounted
<1>7. ASSUME NEW t \in 1..MaxTxs, Promise!Transact(t) PROVE Accounted'
  <2>1. log' = log \o <<-t, -t>> /\ UNCHANGED <<rows, Waiting, failed, lost>>
    BY <1>7 DEF Promise!Transact
  <2> DEFINE added == <<-t, -t>>
  <2>2. added \in Seq(Int)
    OBVIOUS
  <2> HIDE DEF added
  <2>3. ToSet(log \o added) = ToSet(log) \cup ToSet(added)
    BY <1>a, <2>2, Elements
  <2>4. ToSet(log) \subseteq ToSet(log')
    BY <2>1, <2>3 DEF added
  <2> QED
    BY <2>1, <2>4 DEF Accounted
<1> QED
  BY <1>1, <1>2, <1>4, <1>5, <1>6, <1>7 DEF Promise!Next

-----------------------------------------------------------------------------
(* The invariant *)

QueueInv ==
  /\ QueueTypes
  /\ Holding
  /\ Content
  /\ Counting
  /\ Numbered
  /\ Closing
  /\ Charged

(* Every part of the invariant holds in every state.                        *)
THEOREM QueueInvariant == Spec => [](QueueInv /\ Accounted)
<1>1. Init => QueueInv /\ Accounted
  <2> SUFFICES ASSUME Init PROVE QueueInv /\ Accounted
    OBVIOUS
  <2>1. /\ writer.pc = "none" /\ writer.batch = <<>> /\ ~session.open
        /\ \A c \in Callers : caller[c].pc = "idle"
    BY DEF Init, NoThread, NoSession, Idle
  <2>2. Len(<<>>) = 0 /\ ToSet(<<>>) = {}
    BY EmptySeq DEF ToSet
  <2>3. queue = <<>> /\ pending = 0 /\ rows = 0 /\ log = <<>> /\ failures = 0 /\ faults = 0
        /\ failed = {} /\ ~broken /\ closer = "open"
    BY DEF Init
  <2>4. Holding /\ Content
    BY <2>1 DEF Holding, Content
  <2>5. Counting
    BY <2>1, <2>2, <2>3 DEF Counting, InFlight
  <2>6. Numbered
    BY <2>1, <2>2, <2>3 DEF Numbered
  <2>7. Closing
    BY <2>1, <2>3 DEF Closing
  <2>8. Charged
    BY <2>1, <2>3 DEF Charged
  <2>9. Accounted
    <3>1. 1..rows = {}
      BY <2>3
    <3> QED
      BY <3>1 DEF Accounted
  <2> QED
    BY <2>4, <2>5, <2>6, <2>7, <2>8, <2>9, TypesInit DEF QueueInv
<1>2. QueueInv /\ Accounted /\ [Next]_vars => (QueueInv /\ Accounted)'
  <2> SUFFICES ASSUME QueueInv, Accounted, [Next]_vars PROVE (QueueInv /\ Accounted)'
    OBVIOUS
  <2>1. QueueTypes'
    BY TypesStep DEF QueueInv
  <2>2. Holding' /\ Content' /\ Counting' /\ Numbered'
    BY HoldingStep, ContentStep, CountingStep, NumberedStep DEF QueueInv
  <2>3. Closing' /\ Charged'
    BY ClosingStep, ChargedStep DEF QueueInv
  <2>4. Accounted'
    BY <2>1, PromiseStep, AccountedStep DEF QueueInv
  <2> QED
    BY <2>1, <2>2, <2>3, <2>4 DEF QueueInv
<1> QED
  BY <1>1, <1>2, PTL DEF Spec

-----------------------------------------------------------------------------
(* What a reader is promised *)

(* A depth of zero means that every row accepted has landed or is known to  *)
(* have failed, or died with a process: _pending counts a batch in flight   *)
(* until it is settled, so nothing waits when it is zero.                   *)
THEOREM DepthDurable == Spec => []DepthMeansDurable
<1>1. QueueInv /\ Accounted => DepthMeansDurable
  <2> SUFFICES ASSUME QueueInv, Accounted, pending = 0
               PROVE  1..rows \subseteq ToSet(log) \cup failed \cup lost
    BY DEF DepthMeansDurable
  <2>1. QueueTypes /\ Counting
    BY DEF QueueInv
  <2>2. Len(queue) \in Nat /\ Len(writer.batch) \in Nat
    BY <2>1, LenProperties DEF QueueTypes
  <2>3. Len(queue) = 0 /\ writer.pc \notin InFlight
    <3>1. CASE writer.pc \in InFlight
      <4>1. Len(queue) + Len(writer.batch) = 0 /\ Len(writer.batch) \in 1..Batch
        BY <2>1, <3>1 DEF Counting
      <4> QED
        BY <2>2, <4>1
    <3>2. CASE writer.pc \notin InFlight
      <4>1. Len(queue) + 0 = 0
        BY <2>1, <3>2 DEF Counting
      <4> QED
        BY <2>2, <3>2, <4>1
    <3> QED
      BY <3>1, <3>2
  <2>4. queue = <<>>
    BY <2>1, <2>3, EmptySeq DEF QueueTypes
  <2>5. Waiting = <<>>
    BY <2>1, <2>3, <2>4, WaitingIs DEF InHand, InFlight
  <2>6. ToSet(Waiting) = {}
    BY <2>5 DEF ToSet
  <2> QED
    BY <2>6 DEF Accounted
<1> QED
  BY <1>1, QueueInvariant, PTL

(* A failure that is recorded answers a fault of its own: the writer rolls  *)
(* its batch back whatever failed, a body its own.  Only a process in which *)
(* a call was cut short with its transaction open, which neither handler of *)
(* transaction() then rolls back, may record failures that met no fault.    *)
THEOREM OwnFailures == Spec => []FailuresAreOwn
<1>1. QueueInv => FailuresAreOwn
  BY DEF QueueInv, QueueTypes, Charged, FailuresAreOwn
<1> QED
  BY <1>1, QueueInvariant, PTL

(* close() that returned, its thread ended and no failure to raise, left    *)
(* nothing waiting: every row accepted in this process is in the tier.      *)
THEOREM CloseHasFlushed == Spec => []CloseFlushes
<1>1. QueueInv /\ Accounted => CloseFlushes
  <2> SUFFICES ASSUME QueueInv, Accounted, closer = "closed"
               PROVE  1..rows \subseteq ToSet(log) \cup lost
    BY DEF CloseFlushes
  <2>1. queue = <<>> /\ writer.pc \in {"none", "ended"} /\ failed = {}
    BY DEF QueueInv, Closing
  <2>2. Waiting = <<>>
    BY <2>1, WaitingIs DEF QueueInv, InHand
  <2>3. ToSet(Waiting) = {}
    BY <2>2 DEF ToSet
  <2> QED
    BY <2>1, <2>3 DEF Accounted
<1> QED
  BY <1>1, QueueInvariant, PTL

(* The lock is held by whoever has the transaction open, until a call is    *)
(* cut short and leaves its own open with the lock released; and nobody who *)
(* comes after gets into it: whoever is inside a transaction holds the lock *)
(* and finds rows of its own alone.                                         *)
THEOREM SessionIsOne == Spec => []OneSession
<1>1. QueueInv => OneSession
  <2> SUFFICES ASSUME QueueInv PROVE OneSession
    OBVIOUS
  <2>1. \A i \in DOMAIN session.rows : i \in 1..Len(session.rows)
    BY LenProperties DEF QueueInv, QueueTypes
  <2>2. \A c \in Callers : caller[c].pc = "body" =>
          lock = c /\ \A i \in DOMAIN session.rows : session.rows[i] = -caller[c].tx
    BY <2>1 DEF QueueInv, Holding, Content
  <2> QED
    BY <2>2 DEF QueueInv, Holding, Content, OneSession
<1> QED
  BY <1>1, QueueInvariant, PTL

(* A queue that was found broken accepts no row, whoever asks: the wait for *)
(* room looks at the queue again when it ends.                              *)
THEOREM BrokenRefuses == Spec => RefusedOnceBroken
<1>1. [Next]_vars => [broken /\ broken' => rows' = rows]_vars
  <2> SUFFICES ASSUME Next, broken, broken' PROVE rows' = rows
    BY DEF vars, door
  <2> USE DEF door, history, bounds
  <2>1. CASE Writer
    BY <2>1 DEF Writer, WriterTop, Take, WriterStop, WriterHalt, WriterSettle, WriterBegin,
                WriterInsert, WriterCommit, Die
  <2>2. ASSUME NEW c \in Callers, Enqueue(c) \/ BeginTransaction(c) \/ TxRaise(c) \/ TxCutShort(c)
                                   \/ TxHalt(c)
        PROVE  rows' = rows
    BY <2>2 DEF Enqueue, BeginTransaction, TxRaise, TxCutShort, TxHalt, Die
  <2>3. ASSUME NEW c \in Callers, EnsureWriter(c) \/ Admit(c) PROVE rows' = rows
    BY <2>3 DEF EnsureWriter, Admit
  <2>4. ASSUME NEW c \in Callers, NEW o \in Outcome, TxBegin(c, o) \/ TxWrite(c, o) \/ TxCommit(c, o)
        PROVE  rows' = rows
    BY <2>4 DEF TxBegin, TxWrite, TxCommit
  <2>5. CASE CloseBegin \/ CloseEnd \/ CloseExpires \/ Kill
    BY <2>5 DEF CloseBegin, CloseEnd, CloseExpires, CloseWith, Kill, Die
  <2> QED
    BY <2>1, <2>2, <2>3, <2>4, <2>5 DEF Next, Call
<1> QED
  BY <1>1, PTL DEF Spec, RefusedOnceBroken

(* The writer, with its threads, its lock and its failures, is an           *)
(* implementation of the log of commits a caller is promised.               *)
THEOREM PromiseKept == Spec => KeepsPromise
<1>1. Init => Promise!Init
  <2> SUFFICES ASSUME Init PROVE Promise!Init
    OBVIOUS
  <2>1. writer.pc = "none" /\ queue = <<>>
    BY DEF Init, NoThread
  <2>2. Waiting = <<>> \o <<>>
    BY <2>1 DEF Waiting
  <2>3. Waiting = <<>>
    BY <2>2, EmptySeq, ConcatEmptySeq
  <2> QED
    BY <2>3 DEF Init, Promise!Init
<1>2. QueueInv /\ QueueInv' /\ [Next]_vars => [Promise!Next]_(Promise!promised)
  BY PromiseStep DEF QueueInv, promisedVars, Promise!promised
<1> QED
  BY <1>1, <1>2, QueueInvariant, PTL DEF Spec, KeepsPromise, Promise!Spec

=================================================================================
