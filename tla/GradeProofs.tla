----------------------------- MODULE GradeProofs -----------------------------
(***************************************************************************)
(* What the grade ledger keeps for any submissions, criteria, points and   *)
(* number of passes, and any reviews, corrections, amendments and kills.   *)
(*                                                                         *)
(* The argument: a pass and an amendment hold a revision they have read;   *)
(* no step changes its frozen part, and a row is inserted only behind it.  *)
(***************************************************************************)
EXTENDS GradeLedger, SequenceTheorems, FiniteSetTheorems, TLAPS

-----------------------------------------------------------------------------
(* Types *)

(* The totals a computation can give: what a fold returns is not typed.     *)
Totals == {0} \cup {Computed(row, edits).total : row \in [Crits -> Score], edits \in Edits}

Rows == [total : Totals, missing : SUBSET Crits, reviewed : Nat, amended : Edits,
         state : {"provisional", "final", "incomplete"}, lapsed : BOOLEAN]
Reads == [slot : Nat, row : Rows]
Plans == [what : {"unread", "keep", "settle", "insert"}, row : Rows]
PassRows == [at : {"off", "begin", "read"}, complete : BOOLEAN,
             seen : [Subs -> Reads], plan : [Subs -> Plans]]
Edition == [at : {"off", "asked", "planned", "audit"}, sub : Subs,
            want : Edits, edits : Edits, seen : Reads, row : Rows,
            minted : BOOLEAN]

Typed ==
  /\ scores \in [Subs -> [Crits -> Score]]
  /\ grades \in [Subs -> Seq(Rows)]
  /\ pass \in [Passes -> PassRows]
  /\ editor.at # "off" => editor \in Edition
  /\ \A a \in audited : a.sub \in Subs

-----------------------------------------------------------------------------
(* Revisions *)

(* A ledger that grew by a step: the last row settled, or one row added that *)
(* differs in content from the one it supersedes.                           *)
SameRows(q, r) ==
  /\ Len(r) = Len(q)
  /\ \A n \in 1..Len(q) : /\ Frozen(r[n]) = Frozen(q[n])
                          /\ n < Len(q) => r[n] = q[n]
OneMore(q, r) ==
  \E row \in Rows :
    /\ r = Append(q, row)
    /\ Len(q) > 0 => ContentOf(row) # ContentOf(q[Len(q)])
Grown(q, r) == SameRows(q, r) \/ OneMore(q, r)

(* A new revision is written behind the last one, or not at all.            *)
LEMMA InsertIsAppend ==
  ASSUME NEW s \in Subs, Typed, NEW seen \in Reads, NEW row \in Rows,
         seen.slot <= Len(grades[s]), ~Taken(s, Slot(s, seen))
  PROVE  /\ Slot(s, seen) = Len(grades[s]) + 1
         /\ seen.slot = Len(grades[s])
         /\ Insert(s, seen, row) = Append(grades[s], row)
<1> DEFINE q == grades[s]
<1>1. q \in Seq(Rows) /\ Len(q) \in Nat /\ DOMAIN q = 1..Len(q)
  BY LenProperties DEF Typed
<1>2. seen.slot \in Nat
  BY DEF Reads
<1>3. Slot(s, seen) = Len(q) + 1 /\ seen.slot = Len(q)
  BY <1>1, <1>2 DEF Slot, Taken
<1>4. Insert(s, seen, row) = [n \in DOMAIN q \cup {Len(q) + 1} |-> IF n = Len(q) + 1 THEN row ELSE q[n]]
  BY <1>1, <1>3 DEF Insert
<1> HIDE DEF q
<1>5. [n \in DOMAIN q \cup {Len(q) + 1} |-> IF n = Len(q) + 1 THEN row ELSE q[n]] = Append(q, row)
  <2> DEFINE a == [n \in DOMAIN q \cup {Len(q) + 1} |-> IF n = Len(q) + 1 THEN row ELSE q[n]]
  <2>1. DOMAIN q \cup {Len(q) + 1} = 1..Len(q) + 1
    BY <1>1
  <2>2. \A i \in 1..Len(q) + 1 : a[i] = IF i = Len(q) + 1 THEN row ELSE q[i]
    BY <2>1
  <2>3. a \in [1..Len(q) + 1 -> Rows]
    <3>1. \A i \in 1..Len(q) : q[i] \in Rows
      BY <1>1, ElementOfSeq
    <3> QED
      BY <2>1, <1>1, <3>1
  <2> HIDE DEF a
  <2>4. a \in Seq(Rows) /\ Len(a) = Len(q) + 1
    BY <2>3, <1>1
  <2>5. Append(q, row) \in Seq(Rows) /\ Len(Append(q, row)) = Len(q) + 1
    BY <1>1
  <2>6. \A i \in 1..Len(q) + 1 : Append(q, row)[i] = IF i = Len(q) + 1 THEN row ELSE q[i]
    BY <1>1
  <2>7. Len(a) = Len(Append(q, row)) /\ \A i \in 1..Len(a) : a[i] = Append(q, row)[i]
    BY <2>2, <2>4, <2>5, <2>6
  <2>8. a = Append(q, row)
    BY <2>4, <2>5, <2>7, SeqEqual
  <2> QED
    BY <2>8 DEF a
<1> QED
  BY <1>3, <1>4, <1>5 DEF q

-----------------------------------------------------------------------------
(* The invariant *)

(* What was read is still there: only its state and its window may differ.  *)
Holds(q, seen) ==
  /\ seen.slot <= Len(q)
  /\ seen.slot > 0 => Frozen(q[seen.slot]) = Frozen(seen.row)

ReadsHold ==
  \A p \in Passes : pass[p].at = "read" =>
    \A s \in Subs : Holds(grades[s], pass[p].seen[s])

PlansHold ==
  \A p \in Passes : pass[p].at = "read" =>
    \A s \in Subs : LET seen == pass[p].seen[s] plan == pass[p].plan[s] IN
      /\ plan.what = "insert" =>
           ~Unchanged(seen, plan.row) /\ plan.row.amended = seen.row.amended
      /\ plan.what = "settle" => seen.slot > 0

AmendmentHolds ==
  /\ editor.at = "planned" =>
       /\ Holds(grades[editor.sub], editor.seen)
       /\ editor.minted <=> ~Unchanged(editor.seen, editor.row)
       /\ editor.row.amended = editor.edits
  /\ editor.at = "audit" /\ editor.minted =>
       /\ Slot(editor.sub, editor.seen) \in 1..Len(grades[editor.sub])
       /\ grades[editor.sub][Slot(editor.sub, editor.seen)].amended = editor.edits

LedgerInv ==
  /\ Typed
  /\ ReadsHold
  /\ PlansHold
  /\ AmendmentHolds
  /\ RevisionsDiffer
  /\ AuditMatchesRevision

-----------------------------------------------------------------------------
(* What the operators give *)

(* A computed grade is a row.                                               *)
LEMMA ComputedIsRow ==
  ASSUME NEW row \in [Crits -> Score], NEW edits \in Edits, NEW amended \in Edits,
         NEW state \in {"provisional", "final", "incomplete"}
  PROVE  /\ NewRow(Computed(row, edits), amended, state) \in Rows
         /\ NewRow(Computed(row, edits), amended, state).amended = amended
<1> DEFINE content == Computed(row, edits)
<1>1. content.total \in Totals
  BY DEF Totals
<1>2. content.missing \in SUBSET Crits
  BY DEF Computed, Missing
<1>3. content.reviewed \in Nat
  <2> DEFINE r == WithAmendments(row, edits)
             done == {c \in Counted(r) : r[c].routing = "reviewed"}
  <2>1. IsFiniteSet(Crits)
    BY GradeAssumption
  <2>2. done \subseteq Crits
    BY DEF Counted
  <2> HIDE DEF done
  <2>3. Cardinality(done) \in Nat
    BY <2>1, <2>2, FS_Subset, FS_CardinalityType
  <2>4. content.reviewed = Cardinality(done)
    BY DEF done, Computed
  <2> QED
    BY <2>3, <2>4
<1> HIDE DEF content
<1>4. NewRow(content, amended, state) \in Rows
  BY <1>1, <1>2, <1>3 DEF NewRow, Rows
<1>5. NewRow(content, amended, state).amended = amended
  BY DEF NewRow
<1> QED
  BY <1>4, <1>5 DEF content

(* No grade is a row.                                                       *)
LEMMA NoRowIsRow == NoRow \in Rows /\ NoRow.amended \in Edits
BY DEF NoRow, Rows, Totals, NoEdits, Edits

(* Reading the current revision gives one that is there.                    *)
LEMMA ReadIsThere ==
  ASSUME Typed, NEW s \in Subs
  PROVE  /\ ReadCurrent(s) \in Reads
         /\ Holds(grades[s], ReadCurrent(s))
<1>1. grades[s] \in Seq(Rows) /\ Len(grades[s]) \in Nat
  BY LenProperties DEF Typed
<1>2. CASE Graded(s)
  <2>1. Len(grades[s]) \in 1..Len(grades[s]) /\ Len(grades[s]) > 0
    BY <1>1, <1>2, EmptySeq DEF Graded
  <2>2. Current(s) = grades[s][Len(grades[s])] /\ Current(s) \in Rows
    BY <1>1, <2>1, ElementOfSeq DEF Current, Last
  <2>3. ReadCurrent(s).slot = Len(grades[s]) /\ ReadCurrent(s).row = Current(s)
    BY <1>2 DEF ReadCurrent
  <2>4. ReadCurrent(s) \in Reads
    BY <1>1, <1>2, <2>2 DEF ReadCurrent, Reads
  <2> QED
    BY <1>1, <2>2, <2>3, <2>4 DEF Holds
<1>3. CASE ~Graded(s)
  <2>1. ReadCurrent(s) \in Reads /\ ReadCurrent(s).slot = 0
    BY <1>3, NoRowIsRow DEF ReadCurrent, Nothing, Reads
  <2> QED
    BY <1>1, <2>1 DEF Holds
<1> QED
  BY <1>2, <1>3

(* Settling the last revision keeps what is frozen.                         *)
LEMMA SettleKeeps ==
  ASSUME Typed, NEW s \in Subs, Graded(s), NEW q,
         \/ q = Settle(s)
         \/ q = [grades[s] EXCEPT ![Len(grades[s])].lapsed = TRUE]
  PROVE  q \in Seq(Rows) /\ SameRows(grades[s], q)
<1> DEFINE n == Len(grades[s])
           old == grades[s][n]
           new == q[n]
<1>1. grades[s] \in Seq(Rows) /\ n \in Nat /\ n \in 1..n
  BY LenProperties, EmptySeq DEF Typed, Graded
<1>2. old \in Rows
  BY <1>1, ElementOfSeq
<1>3. PICK row \in Rows : /\ q = [grades[s] EXCEPT ![n] = row]
                          /\ Frozen(row) = Frozen(old)
  <2>1. CASE q = Settle(s)
    <3> DEFINE row == [old EXCEPT !.state = "final"]
    <3>1. row \in Rows /\ Frozen(row) = Frozen(old)
      BY <1>2 DEF Rows, Frozen, ContentOf
    <3>2. q = [grades[s] EXCEPT ![n] = row]
      BY <2>1 DEF Settle
    <3> QED
      BY <3>1, <3>2
  <2>2. CASE q = [grades[s] EXCEPT ![Len(grades[s])].lapsed = TRUE]
    <3> DEFINE row == [old EXCEPT !.lapsed = TRUE]
    <3>1. row \in Rows /\ Frozen(row) = Frozen(old)
      BY <1>2 DEF Rows, Frozen, ContentOf
    <3>2. q = [grades[s] EXCEPT ![n] = row]
      BY <2>2
    <3> QED
      BY <3>1, <3>2
  <2> QED
    BY <2>1, <2>2
<1>4. /\ q \in Seq(Rows) /\ Len(q) = n
      /\ \A j \in 1..n : q[j] = IF j = n THEN row ELSE grades[s][j]
  BY <1>1, <1>3, ExceptSeq
<1>5. \A j \in 1..n : Frozen(q[j]) = Frozen(grades[s][j]) /\ (j < n => q[j] = grades[s][j])
  BY <1>1, <1>3, <1>4
<1> QED
  BY <1>4, <1>5 DEF SameRows

(* An unread grade stays.                                                   *)
LEMMA SameIsSame ==
  ASSUME NEW q PROVE SameRows(q, q)
BY DEF SameRows

(* Adding a row that is not what was read adds one that differs.            *)
LEMMA AppendGrows ==
  ASSUME Typed, NEW s \in Subs, NEW seen \in Reads, NEW row \in Rows,
         Holds(grades[s], seen), ~Taken(s, Slot(s, seen)), ~Unchanged(seen, row)
  PROVE  /\ Insert(s, seen, row) \in Seq(Rows)
         /\ Insert(s, seen, row) = Append(grades[s], row)
         /\ Slot(s, seen) = Len(grades[s]) + 1
         /\ OneMore(grades[s], Insert(s, seen, row))
<1>1. grades[s] \in Seq(Rows) /\ Len(grades[s]) \in Nat /\ seen.slot \in Nat
  BY LenProperties DEF Typed, Reads
<1>2. /\ Slot(s, seen) = Len(grades[s]) + 1 /\ seen.slot = Len(grades[s])
      /\ Insert(s, seen, row) = Append(grades[s], row)
  BY InsertIsAppend DEF Holds
<1>3. Len(grades[s]) > 0 => ContentOf(row) # ContentOf(grades[s][Len(grades[s])])
  BY <1>2 DEF Holds, Unchanged, Frozen
<1>4. Append(grades[s], row) \in Seq(Rows)
  BY <1>1
<1> QED
  BY <1>2, <1>3, <1>4 DEF OneMore

(* What growing keeps, row by row.                                          *)
LEMMA GrownKeeps ==
  ASSUME NEW q \in Seq(Rows), NEW r \in Seq(Rows), Grown(q, r)
  PROVE  /\ Len(q) <= Len(r)
         /\ \A n \in 1..Len(q) : /\ Frozen(r[n]) = Frozen(q[n])
                                 /\ n < Len(q) => r[n] = q[n]
<1>1. Len(q) \in Nat
  BY LenProperties
<1>2. CASE SameRows(q, r)
  BY <1>1, <1>2 DEF SameRows
<1>3. CASE OneMore(q, r)
  <2>1. PICK row \in Rows : r = Append(q, row)
    BY <1>3 DEF OneMore
  <2>2. /\ Len(r) = Len(q) + 1
        /\ \A n \in 1..Len(q) : r[n] = q[n]
    BY <2>1, <1>1
  <2> QED
    BY <2>2, <1>1
<1> QED
  BY <1>2, <1>3 DEF Grown

(* What was read is still there when the ledger has grown.                  *)
LEMMA GrownHolds ==
  ASSUME NEW q \in Seq(Rows), NEW r \in Seq(Rows), Grown(q, r),
         NEW seen \in Reads, Holds(q, seen)
  PROVE  Holds(r, seen)
<1>1. Len(q) \in Nat /\ Len(r) \in Nat /\ seen.slot \in Nat
  BY LenProperties DEF Reads
<1>2. /\ Len(q) <= Len(r)
      /\ \A n \in 1..Len(q) : Frozen(r[n]) = Frozen(q[n])
  BY GrownKeeps
<1>3. seen.slot > 0 => seen.slot \in 1..Len(q)
  BY <1>1 DEF Holds
<1> QED
  BY <1>1, <1>2, <1>3 DEF Holds

(* Rows that follow one another still differ when the ledger has grown.     *)
LEMMA GrownDiffers ==
  ASSUME NEW q \in Seq(Rows), NEW r \in Seq(Rows), Grown(q, r),
         \A n \in 1..Len(q) - 1 : ContentOf(q[n]) # ContentOf(q[n + 1])
  PROVE  \A n \in 1..Len(r) - 1 : ContentOf(r[n]) # ContentOf(r[n + 1])
<1>1. Len(q) \in Nat /\ Len(r) \in Nat
  BY LenProperties
<1>2. \A n \in 1..Len(q) : ContentOf(r[n]) = ContentOf(q[n])
  BY GrownKeeps DEF Frozen
<1>3. \A n \in 1..Len(q) - 1 : ContentOf(r[n]) # ContentOf(r[n + 1])
  <2> TAKE n \in 1..Len(q) - 1
  <2>1. n \in 1..Len(q) /\ n + 1 \in 1..Len(q)
    BY <1>1
  <2> QED
    BY <2>1, <1>2
<1>4. CASE SameRows(q, r)
  BY <1>3, <1>4 DEF SameRows
<1>5. CASE OneMore(q, r)
  <2>1. PICK row \in Rows : /\ r = Append(q, row)
                            /\ Len(q) > 0 => ContentOf(row) # ContentOf(q[Len(q)])
    BY <1>5 DEF OneMore
  <2>2. Len(r) = Len(q) + 1 /\ r[Len(q) + 1] = row
    BY <2>1, <1>1
  <2>3. Len(q) > 0 => ContentOf(r[Len(q)]) # ContentOf(r[Len(q) + 1])
    <3>1. Len(q) > 0 => Len(q) \in 1..Len(q)
      BY <1>1
    <3> QED
      BY <3>1, <2>1, <2>2, <1>2
  <2> TAKE n \in 1..Len(r) - 1
  <2>4. n \in 1..Len(q) - 1 \/ (n = Len(q) /\ Len(q) > 0)
    BY <1>1, <2>2
  <2> QED
    BY <2>3, <2>4, <1>3
<1> QED
  BY <1>4, <1>5 DEF Grown

-----------------------------------------------------------------------------
(* The steps *)

(* The actions that write grades.                                           *)
LEMMA WhoWritesGrades ==
  ASSUME [Next]_vars
  PROVE  \/ UNCHANGED grades
         \/ \E p \in Passes : CommitPass(p)
         \/ Finalize
         \/ \E s \in Subs : Lapse(s)
         \/ MintAmendment
         \/ KeepAmendment
BY Zenon DEF Next, PassStep, EditorStep, vars, WriteScore, Review, CorrectKey, Complete,
   Recover, BeginPass, ReadScores, AbortPass, KillPass, Ask, PlanAmendment,
   RefuseAmendment, WriteAudit, KillConsole

(* Every step leaves a submission's grades, settles the last one, or adds   *)
(* one that differs from it.                                                *)
LEMMA StepGrows ==
  ASSUME LedgerInv, [Next]_vars
  PROVE  /\ grades' \in [Subs -> Seq(Rows)]
         /\ \A s \in Subs : Grown(grades[s], grades'[s])
<1> USE DEF Grown
<1>1. Typed /\ \A s \in Subs : grades[s] \in Seq(Rows)
  BY DEF LedgerInv, Typed
<1>2. grades = [s \in Subs |-> grades[s]]
  BY DEF LedgerInv, Typed
<1>3. CASE UNCHANGED grades
  BY <1>1, <1>2, <1>3, SameIsSame
<1>4. ASSUME NEW p \in Passes, CommitPass(p)
      PROVE  /\ grades' \in [Subs -> Seq(Rows)]
             /\ \A s \in Subs : Grown(grades[s], grades'[s])
  <2> DEFINE plan(s) == pass[p].plan[s]
             seen(s) == pass[p].seen[s]
  <2>1. pass[p].at = "read" /\ ~Collides(p)
    BY <1>4 DEF CommitPass, AllRead
  <2>2. grades' = [s \in Subs |->
          CASE plan(s).what = "insert" -> Insert(s, seen(s), plan(s).row)
            [] plan(s).what = "settle" -> Settle(s)
            [] OTHER -> grades[s]]
    BY <1>4 DEF CommitPass
  <2>3. ASSUME NEW s \in Subs
        PROVE  grades'[s] \in Seq(Rows) /\ Grown(grades[s], grades'[s])
    <3>1. /\ seen(s) \in Reads /\ plan(s).row \in Rows
          /\ seen(s).slot \in Nat
      BY DEF LedgerInv, Typed, PassRows, Plans, Reads
    <3>2. /\ Holds(grades[s], seen(s))
          /\ plan(s).what = "insert" => ~Unchanged(seen(s), plan(s).row)
          /\ plan(s).what = "settle" => seen(s).slot > 0
      BY <2>1 DEF LedgerInv, ReadsHold, PlansHold
    <3>3. CASE plan(s).what = "insert"
      <4>1. ~Taken(s, Slot(s, seen(s)))
        BY <2>1, <3>3 DEF Collides, Inserts
      <4>2. grades'[s] = Insert(s, seen(s), plan(s).row)
        BY <2>2, <3>3
      <4> HIDE DEF plan, seen
      <4> QED
        BY <1>1, <3>1, <3>2, <3>3, <4>1, <4>2, AppendGrows
    <3>4. CASE plan(s).what = "settle"
      <4>1. grades'[s] = Settle(s)
        BY <2>2, <3>4
      <4>2. Graded(s)
        <5>1. Len(grades[s]) > 0 /\ Len(<<>>) = 0
          BY <1>1, <3>1, <3>2, <3>4, LenProperties DEF Holds
        <5> QED
          BY <5>1 DEF Graded
      <4> QED
        BY <1>1, <4>1, <4>2, SettleKeeps
    <3>5. CASE plan(s).what # "settle" /\ plan(s).what # "insert"
      <4>1. grades'[s] = grades[s]
        BY <2>2, <3>5
      <4> QED
        BY <1>1, <4>1, SameIsSame
    <3> QED
      BY <3>3, <3>4, <3>5
  <2>4. grades' = [s \in Subs |-> grades'[s]]
    BY <2>2
  <2> QED
    BY <2>3, <2>4
<1>5. CASE Finalize
  <2>1. grades' = [s \in Subs |-> IF Graded(s) /\ Current(s).state = "provisional"
                                  THEN Settle(s) ELSE grades[s]]
    BY <1>5 DEF Finalize
  <2>2. ASSUME NEW s \in Subs
        PROVE  grades'[s] \in Seq(Rows) /\ Grown(grades[s], grades'[s])
    <3>1. \/ Graded(s) /\ grades'[s] = Settle(s)
          \/ grades'[s] = grades[s]
      BY <2>1
    <3> QED
      BY <1>1, <3>1, SettleKeeps, SameIsSame
  <2> QED
    BY <2>1, <2>2
<1>6. ASSUME NEW u \in Subs, Lapse(u)
      PROVE  /\ grades' \in [Subs -> Seq(Rows)]
             /\ \A s \in Subs : Grown(grades[s], grades'[s])
  <2>1. /\ Graded(u)
        /\ grades' = [grades EXCEPT ![u][Len(grades[u])].lapsed = TRUE]
    BY <1>6 DEF Lapse
  <2>2. /\ grades'[u] = [grades[u] EXCEPT ![Len(grades[u])].lapsed = TRUE]
        /\ \A s \in Subs : s # u => grades'[s] = grades[s]
        /\ grades' = [s \in Subs |-> grades'[s]]
    BY <2>1, <1>2
  <2>3. ASSUME NEW s \in Subs
        PROVE  grades'[s] \in Seq(Rows) /\ Grown(grades[s], grades'[s])
    BY <1>1, <2>1, <2>2, SettleKeeps, SameIsSame
  <2> QED
    BY <2>2, <2>3
<1>7. CASE MintAmendment
  <2> DEFINE u == editor.sub
  <2>1. /\ editor.at = "planned" /\ editor.minted
        /\ ~Taken(u, Slot(u, editor.seen))
        /\ grades' = [grades EXCEPT ![u] = Insert(u, editor.seen, editor.row)]
    BY <1>7 DEF MintAmendment
  <2>2. u \in Subs /\ editor.seen \in Reads /\ editor.row \in Rows
    BY <2>1 DEF LedgerInv, Typed, Edition
  <2>3. Holds(grades[u], editor.seen) /\ ~Unchanged(editor.seen, editor.row)
    BY <2>1 DEF LedgerInv, AmendmentHolds
  <2>4. /\ grades'[u] = Insert(u, editor.seen, editor.row)
        /\ \A s \in Subs : s # u => grades'[s] = grades[s]
        /\ grades' = [s \in Subs |-> grades'[s]]
    BY <2>1, <2>2, <1>2
  <2>5. grades'[u] \in Seq(Rows) /\ OneMore(grades[u], grades'[u])
    BY <1>1, <2>1, <2>2, <2>3, <2>4, AppendGrows
  <2>6. ASSUME NEW s \in Subs
        PROVE  grades'[s] \in Seq(Rows) /\ Grown(grades[s], grades'[s])
    BY <1>1, <2>4, <2>5, SameIsSame
  <2> QED
    BY <2>4, <2>6
<1>8. CASE KeepAmendment
  <2> DEFINE u == editor.sub
  <2>1. /\ editor.at = "planned" /\ ~editor.minted
        /\ grades' = [grades EXCEPT ![u] =
             IF editor.row.missing = {} /\ editor.seen.row.state = "provisional"
             THEN Settle(u) ELSE @]
    BY <1>8 DEF KeepAmendment
  <2>2. u \in Subs /\ editor.seen \in Reads
    BY <2>1 DEF LedgerInv, Typed, Edition
  <2>3. Holds(grades[u], editor.seen) /\ Unchanged(editor.seen, editor.row)
    BY <2>1 DEF LedgerInv, AmendmentHolds
  <2>4. Graded(u)
    <3>1. Len(grades[u]) > 0 /\ Len(<<>>) = 0
      BY <1>1, <2>2, <2>3, LenProperties DEF Holds, Unchanged, Reads
    <3> QED
      BY <3>1 DEF Graded
  <2>5. /\ grades'[u] = Settle(u) \/ grades'[u] = grades[u]
        /\ \A s \in Subs : s # u => grades'[s] = grades[s]
        /\ grades' = [s \in Subs |-> grades'[s]]
    BY <2>1, <2>2, <1>2
  <2>6. ASSUME NEW s \in Subs
        PROVE  grades'[s] \in Seq(Rows) /\ Grown(grades[s], grades'[s])
    BY <1>1, <2>4, <2>5, SettleKeeps, SameIsSame
  <2> QED
    BY <2>5, <2>6
<1> QED
  BY <1>3, <1>4, <1>5, <1>6, <1>7, <1>8, WhoWritesGrades

(* The plan for a submission is an insertion of something else than what    *)
(* was read, with the same overrides, or a settlement of what was read.     *)
LEMMA PlanIsPlan ==
  ASSUME Typed, NEW p \in Passes, NEW s \in Subs
  PROVE  /\ PlanFor(p, s) \in Plans
         /\ PlanFor(p, s).what = "insert" =>
              /\ ~Unchanged(pass[p].seen[s], PlanFor(p, s).row)
              /\ PlanFor(p, s).row.amended = pass[p].seen[s].row.amended
         /\ PlanFor(p, s).what = "settle" => pass[p].seen[s].slot > 0
<1> DEFINE seen == pass[p].seen[s]
           content == Computed(scores[s], seen.row.amended)
           state == SettlementState(content.missing, pass[p].complete, window /\ FALSE)
           fresh == NewRow(content, seen.row.amended, state)
           lapsed == SettlementState(content.missing, pass[p].complete,
                                     window /\ seen.row.lapsed)
           settles == seen.row.state = "provisional" /\ lapsed = "final"
<1>1. state \in {"provisional", "final", "incomplete"}
  <2> HIDE DEF content
  <2> QED
    BY DEF SettlementState
<1>2. seen \in Reads /\ seen.row.amended \in Edits /\ scores[s] \in [Crits -> Score]
  BY DEF Typed, PassRows, Reads, Rows
<1>3. fresh \in Rows /\ fresh.amended = seen.row.amended
  <2> HIDE DEF state, seen
  <2> QED
    BY <1>1, <1>2, ComputedIsRow
<1>4. PlanFor(p, s) = [what |-> IF ~Unchanged(seen, fresh) THEN "insert"
                                ELSE IF settles THEN "settle" ELSE "keep",
                       row |-> fresh]
  BY DEF PlanFor, Carried
<1> HIDE DEF fresh, settles, seen
<1>5. Unchanged(seen, fresh) => seen.slot > 0
  BY DEF Unchanged
<1>6. /\ PlanFor(p, s).row = fresh
      /\ PlanFor(p, s).what \in {"insert", "settle", "keep"}
      /\ PlanFor(p, s).what = "insert" => ~Unchanged(seen, fresh)
      /\ PlanFor(p, s).what = "settle" => Unchanged(seen, fresh)
  BY <1>4
<1>7. PlanFor(p, s) \in Plans
  BY <1>3, <1>4 DEF Plans
<1> QED
  BY <1>3, <1>5, <1>6, <1>7 DEF seen

(* A pass that starts or ends has nothing read and nothing planned.         *)
LEMMA NoPassIsPass ==
  ASSUME NEW step \in {"off", "begin", "read"}
  PROVE  /\ NoPass(step) \in PassRows /\ NoPass(step).at = step
         /\ \A s \in Subs : NoPass(step).plan[s].what = "unread"
<1>1. Nothing \in Reads /\ Unread \in Plans /\ Unread.what = "unread"
  BY NoRowIsRow DEF Nothing, Reads, Unread, Plans
<1> QED
  BY <1>1 DEF NoPass, PassRows

(* What a step can do to a pass.                                            *)
LEMMA WhoWritesPasses ==
  ASSUME [Next]_vars
  PROVE  \/ UNCHANGED pass
         \/ \E p \in Passes : pass' = [pass EXCEPT ![p] = NoPass("off")]
         \/ \E p \in Passes : pass' = [pass EXCEPT ![p] = NoPass("begin")]
         \/ \E p \in Passes : BeginPass(p)
         \/ \E p \in Passes, s \in Subs : ReadScores(p, s)
BY Zenon DEF Next, PassStep, EditorStep, vars, WriteScore, Review, CorrectKey, Complete,
   Recover, CommitPass, AbortPass, KillPass, Ask, PlanAmendment, MintAmendment,
   KeepAmendment, RefuseAmendment, WriteAudit, KillConsole, Lapse, Finalize

(* What a pass holds, as a predicate of its row and the ledger.             *)
PassHolds(row, ledger) ==
  row.at = "read" =>
    \A s \in Subs :
      /\ Holds(ledger[s], row.seen[s])
      /\ row.plan[s].what = "insert" =>
           /\ ~Unchanged(row.seen[s], row.plan[s].row)
           /\ row.plan[s].row.amended = row.seen[s].row.amended
      /\ row.plan[s].what = "settle" => row.seen[s].slot > 0

(* It says of every pass what the two invariants of passes say.             *)
LEMMA PassesHold == ReadsHold /\ PlansHold <=> \A p \in Passes : PassHolds(pass[p], grades)
BY DEF ReadsHold, PlansHold, PassHolds

(* A pass keeps what it read while the ledger grows under it.               *)
LEMMA PassHoldsGrown ==
  ASSUME NEW row \in PassRows, NEW before \in [Subs -> Seq(Rows)],
         NEW after \in [Subs -> Seq(Rows)], \A s \in Subs : Grown(before[s], after[s]),
         PassHolds(row, before)
  PROVE  PassHolds(row, after)
<1>1. ASSUME row.at = "read", NEW s \in Subs PROVE Holds(after[s], row.seen[s])
  <2>1. Holds(before[s], row.seen[s]) /\ row.seen[s] \in Reads
    BY <1>1 DEF PassHolds, PassRows
  <2>2. before[s] \in Seq(Rows) /\ after[s] \in Seq(Rows) /\ Grown(before[s], after[s])
    OBVIOUS
  <2> QED
    BY <2>1, <2>2, GrownHolds
<1> QED
  BY <1>1 DEF PassHolds

(* Every step keeps the passes typed and true to what they read.            *)
LEMMA StepPasses ==
  ASSUME LedgerInv, [Next]_vars
  PROVE  /\ pass' \in [Passes -> PassRows]
         /\ \A p \in Passes : PassHolds(pass'[p], grades')
<1>1. /\ Typed /\ pass \in [Passes -> PassRows]
      /\ grades \in [Subs -> Seq(Rows)] /\ grades' \in [Subs -> Seq(Rows)]
      /\ \A s \in Subs : Grown(grades[s], grades'[s])
  BY StepGrows DEF LedgerInv, Typed
<1>2. \A p \in Passes : PassHolds(pass[p], grades')
  <2>1. \A p \in Passes : PassHolds(pass[p], grades) /\ pass[p] \in PassRows
    BY <1>1, PassesHold DEF LedgerInv
  <2> QED
    BY <1>1, <2>1, PassHoldsGrown
<1>3. SUFFICES ASSUME NEW q \in Passes, NEW row,
                      pass' = [pass EXCEPT ![q] = row], row \in PassRows,
                      PassHolds(row, grades')
               PROVE  /\ pass' \in [Passes -> PassRows]
                      /\ \A p \in Passes : PassHolds(pass'[p], grades')
  <2>1. CASE UNCHANGED pass
    BY <1>1, <1>2, <2>1
  <2>2. ASSUME NEW q \in Passes, NEW step \in {"off", "begin"},
               pass' = [pass EXCEPT ![q] = NoPass(step)]
        PROVE  \E p \in Passes : \E row \in PassRows :
                 pass' = [pass EXCEPT ![p] = row] /\ PassHolds(row, grades')
    BY <2>2, NoPassIsPass DEF PassHolds
  <2>3. ASSUME NEW q \in Passes, BeginPass(q)
        PROVE  \E p \in Passes : \E row \in PassRows :
                 pass' = [pass EXCEPT ![p] = row] /\ PassHolds(row, grades')
    <3> DEFINE row == [NoPass("read") EXCEPT !.complete = (run = "complete"),
                                             !.seen = [s \in Subs |-> ReadCurrent(s)]]
    <3>1. pass' = [pass EXCEPT ![q] = row] /\ grades' = grades
      BY <2>3 DEF BeginPass
    <3>2. NoPass("read") \in PassRows /\ \A s \in Subs : NoPass("read").plan[s].what = "unread"
      BY NoPassIsPass
    <3>3. \A s \in Subs : ReadCurrent(s) \in Reads /\ Holds(grades[s], ReadCurrent(s))
      BY <1>1, ReadIsThere
    <3>4. /\ row \in PassRows
          /\ row.seen = [s \in Subs |-> ReadCurrent(s)]
          /\ row.plan = NoPass("read").plan
      BY <3>2, <3>3 DEF PassRows
    <3> HIDE DEF row
    <3>5. PassHolds(row, grades')
      BY <3>1, <3>2, <3>3, <3>4 DEF PassHolds
    <3> QED
      BY <3>1, <3>4, <3>5
  <2>4. ASSUME NEW q \in Passes, NEW s \in Subs, ReadScores(q, s)
        PROVE  \E p \in Passes : \E row \in PassRows :
                 pass' = [pass EXCEPT ![p] = row] /\ PassHolds(row, grades')
    <3> DEFINE row == [pass[q] EXCEPT !.plan[s] = PlanFor(q, s)]
    <3>1. pass' = [pass EXCEPT ![q] = row] /\ grades' = grades /\ pass[q].at = "read"
      BY <2>4 DEF ReadScores
    <3>2. pass[q] \in PassRows /\ PassHolds(pass[q], grades)
      BY <1>1, PassesHold DEF LedgerInv
    <3>3. /\ PlanFor(q, s) \in Plans
          /\ PlanFor(q, s).what = "insert" =>
               /\ ~Unchanged(pass[q].seen[s], PlanFor(q, s).row)
               /\ PlanFor(q, s).row.amended = pass[q].seen[s].row.amended
          /\ PlanFor(q, s).what = "settle" => pass[q].seen[s].slot > 0
      BY <1>1, PlanIsPlan
    <3>4. /\ row \in PassRows
          /\ row.seen = pass[q].seen /\ row.at = "read"
          /\ row.plan[s] = PlanFor(q, s)
          /\ \A r \in Subs : r # s => row.plan[r] = pass[q].plan[r]
      BY <3>1, <3>2, <3>3 DEF PassRows
    <3> HIDE DEF row
    <3>5. PassHolds(row, grades')
      BY <3>1, <3>2, <3>3, <3>4 DEF PassHolds
    <3> QED
      BY <3>1, <3>4, <3>5
  <2> QED
    BY <2>1, <2>2, <2>3, <2>4, WhoWritesPasses
<1> QED
  BY <1>1, <1>2, <1>3

(* Every step keeps the scores typed.                                       *)
LEMMA StepScores ==
  ASSUME Typed, [Next]_vars
  PROVE  scores' \in [Subs -> [Crits -> Score]]
<1>1. scores \in [Subs -> [Crits -> Score]]
  BY DEF Typed
<1>2. ASSUME NEW s \in Subs, NEW c \in Crits, WriteScore(s, c) \/ Review(s, c)
      PROVE  scores' \in [Subs -> [Crits -> Score]]
  <2>1. PICK n \in Points \cup {NoPts}, routing \in {"auto", "reviewed"} :
          scores' = [scores EXCEPT ![s][c] = [routing |-> routing, points |-> n]]
    BY <1>2 DEF WriteScore, Review
  <2> QED
    BY <1>1, <2>1 DEF Score
<1>3. ASSUME NEW p \in Passes, NEW c \in Keyed, CorrectKey(p, c)
      PROVE  scores' \in [Subs -> [Crits -> Score]]
  <2>1. PICK n \in [Subs -> Points] :
          scores' = [s \in Subs |->
                      [scores[s] EXCEPT ![c] = [routing |-> "auto", points |-> n[s]]]]
    BY <1>3 DEF CorrectKey
  <2> QED
    BY <1>1, <2>1 DEF Score
<1>4. \/ UNCHANGED scores
      \/ \E s \in Subs, c \in Crits : WriteScore(s, c) \/ Review(s, c)
      \/ \E p \in Passes, c \in Keyed : CorrectKey(p, c)
  BY Zenon DEF Next, PassStep, EditorStep, vars, Complete, Recover, BeginPass,
     ReadScores, CommitPass, AbortPass, KillPass, Ask, PlanAmendment, MintAmendment,
     KeepAmendment, RefuseAmendment, WriteAudit, KillConsole, Lapse, Finalize
<1> QED
  BY <1>1, <1>2, <1>3, <1>4

(* What the amendment in progress holds, as a predicate of it and the ledger. *)
EditorHolds(e, ledger) ==
  /\ e.at = "planned" =>
       /\ Holds(ledger[e.sub], e.seen)
       /\ e.minted <=> ~Unchanged(e.seen, e.row)
       /\ e.row.amended = e.edits
  /\ e.at = "audit" /\ e.minted =>
       /\ Slot(e.sub, e.seen) \in 1..Len(ledger[e.sub])
       /\ ledger[e.sub][Slot(e.sub, e.seen)].amended = e.edits

(* What the console's steps do.                                             *)
LEMMA WhoWritesEditor ==
  ASSUME [Next]_vars
  PROVE  \/ UNCHANGED editor
         \/ editor' = NoEditor
         \/ \E s \in Subs, want \in Wants : Ask(s, want)
         \/ PlanAmendment
         \/ MintAmendment
         \/ KeepAmendment
BY Zenon DEF Next, PassStep, EditorStep, vars, WriteScore, Review, CorrectKey, Complete,
   Recover, BeginPass, ReadScores, CommitPass, AbortPass, KillPass, RefuseAmendment,
   WriteAudit, KillConsole, Lapse, Finalize

(* Every step keeps the amendment in progress typed and true to what it read *)
(* and wrote.                                                               *)
LEMMA StepEditor ==
  ASSUME LedgerInv, [Next]_vars
  PROVE  /\ editor'.at # "off" => editor' \in Edition
         /\ EditorHolds(editor', grades')
<1>1. /\ Typed /\ grades \in [Subs -> Seq(Rows)] /\ grades' \in [Subs -> Seq(Rows)]
      /\ \A s \in Subs : Grown(grades[s], grades'[s])
      /\ editor.at # "off" => editor \in Edition
      /\ EditorHolds(editor, grades)
  BY StepGrows DEF LedgerInv, Typed, AmendmentHolds, EditorHolds
<1>2. CASE UNCHANGED editor
  <2>1. editor.at = "planned" => Holds(grades'[editor.sub], editor.seen)
    <3> HAVE editor.at = "planned"
    <3>1. editor.sub \in Subs /\ editor.seen \in Reads
      BY <1>1 DEF Edition
    <3>2. /\ grades[editor.sub] \in Seq(Rows) /\ grades'[editor.sub] \in Seq(Rows)
          /\ Grown(grades[editor.sub], grades'[editor.sub])
          /\ Holds(grades[editor.sub], editor.seen)
      BY <1>1, <3>1 DEF EditorHolds
    <3> QED
      BY <3>1, <3>2, GrownHolds
  <2>2. ASSUME editor.at = "audit", editor.minted
        PROVE  /\ Slot(editor.sub, editor.seen) \in 1..Len(grades'[editor.sub])
               /\ grades'[editor.sub][Slot(editor.sub, editor.seen)].amended = editor.edits
    <3> DEFINE q == grades[editor.sub]
               r == grades'[editor.sub]
               n == Slot(editor.sub, editor.seen)
    <3>1. q \in Seq(Rows) /\ r \in Seq(Rows) /\ Grown(q, r)
      BY <1>1, <2>2 DEF Edition
    <3>2. n \in 1..Len(q) /\ q[n].amended = editor.edits
      BY <1>1, <2>2 DEF EditorHolds
    <3> HIDE DEF q, r, n
    <3>3. Len(q) <= Len(r) /\ Frozen(r[n]) = Frozen(q[n])
      BY <3>1, <3>2, GrownKeeps
    <3>4. Len(q) \in Nat /\ Len(r) \in Nat
      BY <3>1, LenProperties
    <3>5. n \in 1..Len(r) /\ r[n].amended = editor.edits
      BY <3>2, <3>3, <3>4 DEF Frozen
    <3> QED
      BY <3>5 DEF q, r, n
  <2> QED
    BY <1>1, <1>2, <2>1, <2>2 DEF EditorHolds
<1>3. CASE editor' = NoEditor
  BY <1>3 DEF NoEditor, EditorHolds
<1>4. ASSUME NEW s \in Subs, NEW want \in Wants, Ask(s, want)
      PROVE  /\ editor'.at # "off" => editor' \in Edition
             /\ EditorHolds(editor', grades')
  <2> DEFINE edits == [c \in Crits |-> IF want[c] = Effective(s, c) THEN NoPts ELSE want[c]]
  <2>1. want \in Edits /\ edits \in Edits
    BY GradeAssumption DEF Edits
  <2>2. editor' = [NoEditor EXCEPT !.at = "asked", !.sub = s, !.want = want, !.edits = edits]
    BY <1>4 DEF Ask
  <2> HIDE DEF edits
  <2>3. Nothing \in Reads /\ NoRow \in Rows
    BY NoRowIsRow DEF Nothing, Reads
  <2>4. editor' \in Edition /\ editor'.at = "asked"
    BY <2>1, <2>2, <2>3 DEF NoEditor, Edition
  <2> QED
    BY <2>4 DEF EditorHolds
<1>5. CASE PlanAmendment
  <2> DEFINE s == editor.sub
             content == Computed(scores[s], editor.edits)
             row == NewRow(content, editor.edits,
                           IF content.missing # {} THEN "incomplete" ELSE "final")
             seen == ReadCurrent(s)
  <2>1. /\ editor.at = "asked" /\ grades' = grades
        /\ editor' = [editor EXCEPT !.at = "planned", !.seen = seen, !.row = row,
                                    !.minted = ~Unchanged(seen, row)]
    BY <1>5 DEF PlanAmendment
  <2>2. /\ editor \in Edition /\ s \in Subs /\ editor.edits \in Edits
        /\ scores[s] \in [Crits -> Score]
    BY <1>1, <2>1 DEF Edition, Typed
  <2>3. row \in Rows /\ row.amended = editor.edits
    <3>1. (IF content.missing # {} THEN "incomplete" ELSE "final")
             \in {"provisional", "final", "incomplete"}
      OBVIOUS
    <3> QED
      BY <2>2, <3>1, ComputedIsRow
  <2>4. seen \in Reads /\ Holds(grades[s], seen)
    BY <1>1, <2>2, ReadIsThere
  <2> HIDE DEF row, seen
  <2>5. /\ editor' \in Edition
        /\ editor'.at = "planned" /\ editor'.sub = s /\ editor'.edits = editor.edits
        /\ editor'.seen = seen /\ editor'.row = row
    BY <2>1, <2>2, <2>3, <2>4 DEF Edition
  <2>6. editor'.minted = ~Unchanged(seen, row)
    BY <2>1, <2>2 DEF Edition
  <2> QED
    BY <2>1, <2>3, <2>4, <2>5, <2>6 DEF EditorHolds
<1>6. CASE MintAmendment
  <2> DEFINE s == editor.sub
  <2>1. /\ editor.at = "planned" /\ editor.minted
        /\ ~Taken(s, Slot(s, editor.seen))
        /\ grades' = [grades EXCEPT ![s] = Insert(s, editor.seen, editor.row)]
        /\ editor' = [editor EXCEPT !.at = "audit"]
    BY <1>6 DEF MintAmendment
  <2>2. /\ editor \in Edition /\ s \in Subs /\ editor.seen \in Reads
        /\ editor.row \in Rows
    BY <1>1, <2>1 DEF Edition
  <2>3. /\ Holds(grades[s], editor.seen) /\ ~Unchanged(editor.seen, editor.row)
        /\ editor.row.amended = editor.edits
    BY <1>1, <2>1 DEF EditorHolds
  <2>4. /\ grades'[s] = Append(grades[s], editor.row)
        /\ Slot(s, editor.seen) = Len(grades[s]) + 1
    BY <1>1, <2>1, <2>2, <2>3, AppendGrows
  <2>5. grades[s] \in Seq(Rows) /\ Len(grades[s]) \in Nat
    BY <1>1, <2>2, LenProperties
  <2>6. /\ Slot(s, editor.seen) \in 1..Len(grades'[s])
        /\ grades'[s][Slot(s, editor.seen)] = editor.row
    BY <2>2, <2>4, <2>5
  <2>7. /\ editor' \in Edition /\ editor'.at = "audit" /\ editor'.sub = s
        /\ editor'.seen = editor.seen /\ editor'.edits = editor.edits
    BY <2>1, <2>2 DEF Edition
  <2>8. Slot(editor'.sub, editor'.seen) = Slot(s, editor.seen)
    BY <2>7 DEF Slot
  <2> QED
    BY <2>3, <2>6, <2>7, <2>8 DEF EditorHolds
<1>7. CASE KeepAmendment
  <2>1. /\ editor.at = "planned" /\ ~editor.minted
        /\ editor' = [editor EXCEPT !.at = "audit"]
    BY <1>7 DEF KeepAmendment
  <2>2. editor \in Edition
    BY <1>1, <2>1
  <2>3. editor' \in Edition /\ editor'.at = "audit"
    BY <2>1, <2>2 DEF Edition
  <2>4. editor'.minted = editor.minted
    BY <2>1, <2>2 DEF Edition
  <2> QED
    BY <2>1, <2>3, <2>4 DEF EditorHolds
<1> QED
  BY <1>2, <1>3, <1>4, <1>5, <1>6, <1>7, WhoWritesEditor

(* An audit record is written of the revision the amendment wrote.          *)
LEMMA StepAudit ==
  ASSUME LedgerInv, [Next]_vars
  PROVE  /\ \A a \in audited' : a.sub \in Subs
         /\ AuditMatchesRevision'
<1>1. /\ Typed /\ grades \in [Subs -> Seq(Rows)] /\ grades' \in [Subs -> Seq(Rows)]
      /\ \A s \in Subs : Grown(grades[s], grades'[s])
      /\ \A a \in audited : a.sub \in Subs
  BY StepGrows DEF LedgerInv, Typed
<1>2. ASSUME NEW a \in audited, a.minted
      PROVE  /\ a.revision \in DOMAIN grades'[a.sub]
             /\ grades'[a.sub][a.revision].amended = a.edits
  <2> DEFINE q == grades[a.sub]
             r == grades'[a.sub]
             n == a.revision
  <2>1. q \in Seq(Rows) /\ r \in Seq(Rows) /\ Grown(q, r)
    BY <1>1
  <2>2. n \in DOMAIN q /\ q[n].amended = a.edits
    BY <1>2 DEF LedgerInv, AuditMatchesRevision
  <2> HIDE DEF q, r, n
  <2>3. /\ Len(q) \in Nat /\ Len(r) \in Nat
        /\ DOMAIN q = 1..Len(q) /\ DOMAIN r = 1..Len(r)
    BY <2>1, LenProperties
  <2>4. Len(q) <= Len(r) /\ Frozen(r[n]) = Frozen(q[n])
    BY <2>1, <2>2, <2>3, GrownKeeps
  <2>5. n \in DOMAIN r /\ r[n].amended = a.edits
    BY <2>2, <2>3, <2>4 DEF Frozen
  <2> QED
    BY <2>5 DEF q, r, n
<1>3. CASE UNCHANGED audited
  BY <1>1, <1>2, <1>3 DEF AuditMatchesRevision
<1>4. CASE WriteAudit
  <2> DEFINE new == [sub |-> editor.sub, edits |-> editor.edits, minted |-> editor.minted,
                     revision |-> IF editor.minted THEN Slot(editor.sub, editor.seen)
                                  ELSE editor.seen.slot]
  <2>1. editor.at = "audit" /\ audited' = audited \cup {new} /\ grades' = grades
    BY <1>4 DEF WriteAudit
  <2>2. editor.sub \in Subs
    BY <2>1 DEF LedgerInv, Typed, Edition
  <2>3. new.sub \in Subs
    BY <2>2
  <2>4. ASSUME new.minted
        PROVE  /\ new.revision \in DOMAIN grades'[new.sub]
               /\ grades'[new.sub][new.revision].amended = new.edits
    <3>1. /\ new.sub = editor.sub /\ new.edits = editor.edits
          /\ new.revision = Slot(editor.sub, editor.seen)
          /\ editor.minted
      BY <2>4
    <3> HIDE DEF new
    <3>2. /\ Slot(editor.sub, editor.seen) \in 1..Len(grades[editor.sub])
          /\ grades[editor.sub][Slot(editor.sub, editor.seen)].amended = editor.edits
      BY <2>1, <3>1 DEF LedgerInv, AmendmentHolds
    <3>3. DOMAIN grades[editor.sub] = 1..Len(grades[editor.sub])
      BY <1>1, <2>2, LenProperties
    <3> QED
      BY <2>1, <3>1, <3>2, <3>3
  <2> HIDE DEF new
  <2> QED
    BY <1>1, <1>2, <2>1, <2>3, <2>4 DEF AuditMatchesRevision
<1>5. UNCHANGED audited \/ WriteAudit
  BY Zenon DEF Next, PassStep, EditorStep, vars, WriteScore, Review, CorrectKey, Complete,
     Recover, BeginPass, ReadScores, CommitPass, AbortPass, KillPass, Ask, PlanAmendment,
     MintAmendment, KeepAmendment, RefuseAmendment, KillConsole, Lapse, Finalize
<1> QED
  BY <1>3, <1>4, <1>5

(* Two revisions that follow one another still differ after a step.         *)
LEMMA StepDiffers ==
  ASSUME LedgerInv, [Next]_vars
  PROVE  RevisionsDiffer'
<1>1. /\ grades \in [Subs -> Seq(Rows)] /\ grades' \in [Subs -> Seq(Rows)]
      /\ \A s \in Subs : Grown(grades[s], grades'[s])
  BY StepGrows DEF LedgerInv, Typed
<1>2. ASSUME NEW s \in Subs
      PROVE  \A n \in 1 .. Len(grades'[s]) - 1 :
               ContentOf(grades'[s][n]) # ContentOf(grades'[s][n + 1])
  <2>1. \A n \in 1 .. Len(grades[s]) - 1 : ContentOf(grades[s][n]) # ContentOf(grades[s][n + 1])
    BY DEF LedgerInv, RevisionsDiffer
  <2>2. grades[s] \in Seq(Rows) /\ grades'[s] \in Seq(Rows) /\ Grown(grades[s], grades'[s])
    BY <1>1
  <2> QED
    BY <2>1, <2>2, GrownDiffers
<1> QED
  BY <1>2 DEF RevisionsDiffer

-----------------------------------------------------------------------------
(* The theorems *)

(* What passes and amendments have read is still there, what they plan to   *)
(* insert differs from it, and the ledger and its audit are in order.       *)
THEOREM LedgerInvariant == Spec => []LedgerInv
<1>1. Init => LedgerInv
  <2> SUFFICES ASSUME Init PROVE LedgerInv
    OBVIOUS
  <2>1. \A p \in Passes : pass[p] \in PassRows /\ pass[p].at = "off"
    BY NoPassIsPass DEF Init
  <2>2. /\ \A s \in Subs : grades[s] = <<>>
        /\ grades \in [Subs -> Seq(Rows)]
    BY EmptySeq DEF Init
  <2>3. scores \in [Subs -> [Crits -> Score]]
    BY DEF Init, Score
  <2>4. editor.at = "off" /\ audited = {} /\ pass \in [Passes -> PassRows]
    BY <2>1 DEF Init, NoEditor
  <2>5. Typed /\ ReadsHold /\ PlansHold /\ AmendmentHolds /\ AuditMatchesRevision
    BY <2>1, <2>2, <2>3, <2>4
       DEF Typed, ReadsHold, PlansHold, AmendmentHolds, AuditMatchesRevision
  <2>6. RevisionsDiffer
    BY <2>2, EmptySeq DEF RevisionsDiffer
  <2> QED
    BY <2>5, <2>6 DEF LedgerInv
<1>2. LedgerInv /\ [Next]_vars => LedgerInv'
  <2> SUFFICES ASSUME LedgerInv, [Next]_vars PROVE LedgerInv'
    OBVIOUS
  <2>1. Typed'
    BY StepScores, StepGrows, StepPasses, StepEditor, StepAudit DEF LedgerInv, Typed
  <2>2. ReadsHold' /\ PlansHold'
    BY StepPasses DEF PassHolds, ReadsHold, PlansHold
  <2>3. AmendmentHolds'
    BY StepEditor DEF EditorHolds, AmendmentHolds
  <2> QED
    BY <2>1, <2>2, <2>3, StepAudit, StepDiffers DEF LedgerInv
<1> QED
  BY <1>1, <1>2, PTL DEF Spec

(* However passes and amendments overlap, a revision is written only for a  *)
(* change of content.                                                       *)
THEOREM AlwaysDiffer == Spec => []RevisionsDiffer
<1>1. LedgerInv => RevisionsDiffer
  BY DEF LedgerInv
<1> QED
  BY <1>1, LedgerInvariant, PTL

(* An audit record of a minted revision always names one that landed, with  *)
(* the edits of the call.                                                   *)
THEOREM AuditAlwaysMatches == Spec => []AuditMatchesRevision
<1>1. LedgerInv => AuditMatchesRevision
  BY DEF LedgerInv
<1> QED
  BY <1>1, LedgerInvariant, PTL

(* No step drops a revision, changes its content or its overrides, or       *)
(* touches one that has been superseded.                                    *)
THEOREM LedgerIsAppendOnly == Spec => RevisionsAppendOnly
<1>1. LedgerInv /\ [Next]_vars
        => [\A s \in Subs : \A n \in DOMAIN grades[s] :
              /\ n \in DOMAIN grades'[s]
              /\ Frozen(grades'[s][n]) = Frozen(grades[s][n])
              /\ n < Len(grades[s]) => grades'[s][n] = grades[s][n]]_vars
  <2> SUFFICES ASSUME LedgerInv, [Next]_vars, NEW s \in Subs, NEW n \in DOMAIN grades[s]
               PROVE  /\ n \in DOMAIN grades'[s]
                      /\ Frozen(grades'[s][n]) = Frozen(grades[s][n])
                      /\ n < Len(grades[s]) => grades'[s][n] = grades[s][n]
    OBVIOUS
  <2>1. grades[s] \in Seq(Rows) /\ grades'[s] \in Seq(Rows) /\ Grown(grades[s], grades'[s])
    BY StepGrows DEF LedgerInv, Typed
  <2>2. /\ DOMAIN grades[s] = 1..Len(grades[s]) /\ Len(grades[s]) \in Nat
        /\ DOMAIN grades'[s] = 1..Len(grades'[s]) /\ Len(grades'[s]) \in Nat
    BY <2>1, LenProperties
  <2>3. /\ Len(grades[s]) <= Len(grades'[s])
        /\ \A m \in 1..Len(grades[s]) :
             /\ Frozen(grades'[s][m]) = Frozen(grades[s][m])
             /\ m < Len(grades[s]) => grades'[s][m] = grades[s][m]
    BY <2>1, GrownKeeps
  <2> QED
    BY <2>2, <2>3
<1> QED
  BY <1>1, LedgerInvariant, PTL DEF Spec, RevisionsAppendOnly

(* The revision a pass writes carries the overrides of the one before it.   *)
THEOREM AmendmentsAreKept == Spec => RecomputeKeepsAmendments
<1>1. LedgerInv /\ [Next]_vars
        => [\A s \in Subs :
              Graded(s) /\ pass' # pass /\ Len(grades'[s]) > Len(grades[s])
                => Last(grades'[s]).amended = Current(s).amended]_vars
  <2> SUFFICES ASSUME LedgerInv, [Next]_vars, NEW s \in Subs,
                      Graded(s), pass' # pass, Len(grades'[s]) > Len(grades[s])
               PROVE  Last(grades'[s]).amended = Current(s).amended
    OBVIOUS
  <2>1. /\ grades[s] \in Seq(Rows) /\ Len(grades[s]) \in Nat /\ Len(grades[s]) > 0
    BY LenProperties, EmptySeq DEF LedgerInv, Typed, Graded
  <2>2. grades' # grades
    BY <2>1
  <2>3. PICK p \in Passes : CommitPass(p)
    BY <2>2, WhoWritesGrades DEF Finalize, Lapse, MintAmendment, KeepAmendment
  <2> DEFINE plan == pass[p].plan[s]
             seen == pass[p].seen[s]
  <2>4. pass[p].at = "read" /\ ~Collides(p)
    BY <2>3 DEF CommitPass, AllRead
  <2>5. grades'[s] = CASE plan.what = "insert" -> Insert(s, seen, plan.row)
                       [] plan.what = "settle" -> Settle(s)
                       [] OTHER -> grades[s]
    BY <2>3 DEF CommitPass
  <2>6. plan.what = "insert"
    <3>1. CASE plan.what = "settle"
      <4>1. grades'[s] = Settle(s)
        BY <2>5, <3>1
      <4>2. SameRows(grades[s], grades'[s])
        BY <4>1, SettleKeeps DEF LedgerInv
      <4> QED
        BY <2>1, <4>2 DEF SameRows
    <3>2. CASE plan.what # "settle" /\ plan.what # "insert"
      BY <2>1, <2>5, <3>2
    <3> QED
      BY <3>1, <3>2
  <2>7. /\ seen \in Reads /\ plan.row \in Rows
        /\ Holds(grades[s], seen)
        /\ ~Unchanged(seen, plan.row) /\ plan.row.amended = seen.row.amended
    BY <2>4, <2>6 DEF LedgerInv, Typed, PassRows, Plans, ReadsHold, PlansHold
  <2>8. ~Taken(s, Slot(s, seen))
    BY <2>4, <2>6 DEF Collides, Inserts
  <2>9. grades'[s] = Insert(s, seen, plan.row)
    BY <2>5, <2>6
  <2> HIDE DEF plan, seen
  <2>10. /\ grades'[s] = Append(grades[s], plan.row) /\ seen.slot = Len(grades[s])
    <3>1. Typed /\ seen.slot <= Len(grades[s])
      BY <2>7 DEF LedgerInv, Holds
    <3> QED
      BY <2>7, <2>8, <2>9, <3>1, InsertIsAppend
  <2>11. Last(grades'[s]) = plan.row
    BY <2>1, <2>7, <2>10 DEF Last
  <2>12. Current(s).amended = seen.row.amended
    BY <2>1, <2>7, <2>10 DEF Current, Last, Holds, Frozen
  <2> QED
    BY <2>7, <2>11, <2>12
<1> QED
  BY <1>1, LedgerInvariant, PTL DEF Spec, RecomputeKeepsAmendments

==============================================================================
