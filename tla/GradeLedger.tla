----------------------------- MODULE GradeLedger -----------------------------
(***************************************************************************)
(* The grade ledger of one run: the revisions of every submission's grade, *)
(* written by grading passes (compute_all), by a teacher's amendments and  *)
(* by settlements in place, over criterion scores that aggregation, review *)
(* and key corrections write.                                              *)
(*                                                                         *)
(* A pass reads the run and the current grades, then each submission's     *)
(* scores, and writes everything in one transaction at the end; an         *)
(* amendment reads and writes likewise.  Revisions are numbered from what  *)
(* was read, and (run, submission, revision) is the table's primary key.   *)
(*                                                                         *)
(* The policy is the plain sum and the grade a function of the total.  The *)
(* boundary figures are left out, and so are provisional routings, rows of *)
(* review_queue other than a pass's own, and a run's other cohort members. *)
(***************************************************************************)
EXTENDS Integers, FiniteSets, FiniteSetsExt, Sequences, SequencesExt, TLC

CONSTANTS
  Subs,    \* the run's submissions
  Crits,   \* the criteria of the package
  Keyed,   \* the multiple-choice ones
  Points,  \* the points a criterion can score
  NoPts,   \* NULL: no points, no override
  Passes,  \* threads that can run a grading pass
  Wants,   \* the changes of points a teacher asks for
  Budget   \* reviews, key corrections, amendments and kills in a behaviour

ASSUME GradeAssumption ==
  /\ Keyed \subseteq Crits
  /\ Points \subseteq Nat
  /\ NoPts \notin Points
  /\ Wants \subseteq [Crits -> Points \cup {NoPts}]
  /\ Budget \in Nat
  /\ IsFiniteSet(Crits)

VARIABLES
  run,      \* run.status
  window,   \* does the policy have a review window?
  scores,   \* criterion_score
  grades,   \* submission_grade: the revisions, the last one current
  queue,    \* review_queue: the rescan rows of passes
  audited,  \* audit_record: one row per amendment call
  pass,     \* what each pass has read and planned
  editor,   \* the console's amendment in progress
  budget

vars == <<run, window, scores, grades, queue, audited, pass, editor, budget>>

-----------------------------------------------------------------------------
(* lapsed: the review window since computed_at is over.                     *)
Row == [total : Nat, missing : SUBSET Crits, reviewed : Nat,
        amended : [Crits -> Points \cup {NoPts}],
        state : {"provisional", "final", "incomplete"}, lapsed : BOOLEAN]

Score == [routing : {"none", "auto", "reviewed"},
          points : Points \cup {NoPts}]

NoEdits == [c \in Crits |-> NoPts]
Edits == [Crits -> Points \cup {NoPts}]

NoRow == [total |-> 0, missing |-> {}, reviewed |-> 0, amended |-> NoEdits,
          state |-> "provisional", lapsed |-> FALSE]

(* slot is the number of the revision that was read, 0 if there was none.   *)
Seen == [slot : Nat, row : Row]
Nothing == [slot |-> 0, row |-> NoRow]

Plan == [what : {"unread", "keep", "settle", "insert"}, row : Row]
Unread == [what |-> "unread", row |-> NoRow]

Pass == [at : {"off", "begin", "read"}, complete : BOOLEAN,
         seen : [Subs -> Seen], plan : [Subs -> Plan]]

NoPass(step) == [at |-> step, complete |-> FALSE,
                 seen |-> [s \in Subs |-> Nothing],
                 plan |-> [s \in Subs |-> Unread]]

Editor == [at : {"off", "asked", "planned", "audit"}, sub : Subs,
           want : Edits, edits : Edits, seen : Seen, row : Row,
           minted : BOOLEAN]

NoEditor == [at |-> "off", sub |-> CHOOSE s \in Subs : TRUE, want |-> NoEdits,
             edits |-> NoEdits, seen |-> Nothing, row |-> NoRow, minted |-> FALSE]

TypeOK ==
  /\ run \in {"running", "complete"}
  /\ window \in BOOLEAN
  /\ scores \in [Subs -> [Crits -> Score]]
  /\ \A s \in Subs :
       /\ DOMAIN grades[s] = 1 .. Cardinality(DOMAIN grades[s])
       /\ \A n \in DOMAIN grades[s] : grades[s][n] \in Row
  /\ queue \in [Subs -> SUBSET Crits]
  /\ \A a \in audited : a \in [sub : Subs, revision : Nat, edits : Edits,
                               minted : BOOLEAN]
  /\ pass \in [Passes -> Pass]
  /\ editor \in Editor
  /\ budget \in 0..Budget

Init ==
  /\ run = "running"
  /\ window \in BOOLEAN
  /\ scores = [s \in Subs |-> [c \in Crits |-> [routing |-> "none", points |-> NoPts]]]
  /\ grades = [s \in Subs |-> <<>>]
  /\ queue = [s \in Subs |-> {}]
  /\ audited = {}
  /\ pass = [p \in Passes |-> NoPass("off")]
  /\ editor = NoEditor
  /\ budget = Budget

Spend == budget > 0 /\ budget' = budget - 1

-----------------------------------------------------------------------------
(* The computation.                                                        *)

Graded(s) == grades[s] # <<>>
Current(s) == Last(grades[s])
ReadCurrent(s) ==
  IF Graded(s) THEN [slot |-> Len(grades[s]), row |-> Current(s)] ELSE Nothing

(* An override applies only where the stored row has points.                *)
WithAmendments(row, overrides) ==
  [c \in Crits |-> IF row[c].points # NoPts /\ overrides[c] # NoPts
                   THEN [row[c] EXCEPT !.points = overrides[c]] ELSE row[c]]

Counted(row) == {c \in Crits : row[c].points # NoPts}
Missing(row) == Crits \ Counted(row)
Sum(row) == MapThenSumSet(LAMBDA c : row[c].points, Counted(row))

Computed(row, overrides) ==
  LET r == WithAmendments(row, overrides)
  IN  [total |-> Sum(r),
       missing |-> Missing(r),
       reviewed |-> Cardinality({c \in Counted(r) : r[c].routing = "reviewed"})]

ContentOf(row) ==
  [total |-> row.total, missing |-> row.missing, reviewed |-> row.reviewed]

UnchangedInState(seen, row) ==
  seen.slot > 0 /\ ContentOf(seen.row) = ContentOf(row) /\ seen.row.state = row.state
Unchanged(seen, row) == seen.slot > 0 /\ ContentOf(seen.row) = ContentOf(row)

NewRow(content, amended, state) ==
  [total |-> content.total, missing |-> content.missing,
   reviewed |-> content.reviewed, amended |-> amended,
   state |-> state, lapsed |-> FALSE]

(* The table's primary key, and the number a new revision is written under. *)
ReplaceTaken(s, n) == FALSE
Taken(s, n) == n <= Len(grades[s])
SlotAtWrite(s, seen) == Len(grades[s]) + 1
Slot(s, seen) == seen.slot + 1

Insert(s, seen, row) ==
  [n \in DOMAIN grades[s] \cup {Slot(s, seen)} |->
     IF n = Slot(s, seen) THEN row ELSE grades[s][n]]

(* settle_current: whichever revision is current when it is written.        *)
Settle(s) == [grades[s] EXCEPT ![Len(grades[s])].state = "final"]

-----------------------------------------------------------------------------
(* The scores.                                                             *)

(* Aggregation and the deterministic pass score a criterion; a cell that    *)
(* was quarantined has no row, one in triage is taken to have no points.    *)
WriteScore(s, c) ==
  /\ run = "running"
  /\ scores[s][c].routing = "none"
  /\ \E n \in Points \cup {NoPts} :
       scores' = [scores EXCEPT ![s][c] = [routing |-> "auto", points |-> n]]
  /\ UNCHANGED <<run, window, grades, queue, audited, pass, editor, budget>>

(* A review settles the row on a band: its points, or NULL when the package *)
(* cannot be read.                                                          *)
Review(s, c) ==
  /\ scores[s][c].routing # "none"
  /\ \E n \in Points \cup {NoPts} :
       scores' = [scores EXCEPT ![s][c] = [routing |-> "reviewed", points |-> n]]
  /\ Spend
  /\ UNCHANGED <<run, window, grades, queue, audited, pass, editor>>

(* A key correction re-derives a criterion of every submission, then runs a *)
(* pass.                                                                    *)
CorrectKey(p, c) ==
  /\ pass[p].at = "off"
  /\ \E n \in [Subs -> Points] :
       scores' = [s \in Subs |->
                   [scores[s] EXCEPT ![c] = [routing |-> "auto", points |-> n[s]]]]
  /\ pass' = [pass EXCEPT ![p] = NoPass("begin")]
  /\ Spend
  /\ UNCHANGED <<run, window, grades, queue, audited, editor>>

(* The driver that completes the run goes on to grade it.                   *)
Complete(p) ==
  /\ run = "running"
  /\ pass[p].at = "off"
  /\ run' = "complete"
  /\ pass' = [pass EXCEPT ![p] = NoPass("begin")]
  /\ UNCHANGED <<window, scores, grades, queue, audited, editor, budget>>

-----------------------------------------------------------------------------
(* A grading pass.                                                         *)

HasRows(s) == \E c \in Crits : scores[s][c].routing # "none"

(* _grades_all_final over coverage: a submission with no grade counts, as   *)
(* incomplete, only if an input is missing.                                 *)
AllFinal ==
  \A s \in Subs : IF Graded(s) THEN Current(s).state = "final"
                  ELSE Missing(scores[s]) = {}

NoneUngraded == FALSE
HasUngradedScores == \E s \in Subs : ~Graded(s) /\ HasRows(s)

(* recover() grades a complete run that is not settled.                     *)
Recover(p) ==
  /\ pass[p].at = "off"
  /\ run = "complete"
  /\ \E s \in Subs : HasRows(s)
  /\ ~AllFinal \/ HasUngradedScores
  /\ pass' = [pass EXCEPT ![p] = NoPass("begin")]
  /\ UNCHANGED <<run, window, scores, grades, queue, audited, editor, budget>>

(* The run row, the current grades and the clock.                           *)
BeginPass(p) ==
  /\ pass[p].at = "begin"
  /\ pass' = [pass EXCEPT ![p] =
                [NoPass("read") EXCEPT !.complete = (run = "complete"),
                                       !.seen = [s \in Subs |-> ReadCurrent(s)]]]
  /\ UNCHANGED <<run, window, scores, grades, queue, audited, editor, budget>>

(* A new revision has a fresh window; an unchanged grade has its own.       *)
SettlementState(missing, complete, lapsed) ==
  CASE missing # {} -> "incomplete"
    [] missing = {} /\ (complete \/ lapsed) -> "final"
    [] OTHER -> "provisional"

(* The overrides a pass records in the revision it writes.                  *)
NotCarried(seen) == NoEdits
Carried(seen) == seen.row.amended

(* One submission's scores are read and its grade is computed, with the     *)
(* recorded overrides replayed and carried forward.                         *)
PlanFor(p, s) ==
  LET seen == pass[p].seen[s]
      content == Computed(scores[s], seen.row.amended)
      state(lapsed) ==
        SettlementState(content.missing, pass[p].complete, window /\ lapsed)
      fresh == NewRow(content, Carried(seen), state(FALSE))
      settles == seen.row.state = "provisional" /\ state(seen.row.lapsed) = "final"
  IN  [what |-> IF ~Unchanged(seen, fresh) THEN "insert"
                ELSE IF settles THEN "settle" ELSE "keep",
       row |-> fresh]

ReadScores(p, s) ==
  /\ pass[p].at = "read"
  /\ pass[p].plan[s].what = "unread"
  /\ pass' = [pass EXCEPT ![p].plan[s] = PlanFor(p, s)]
  /\ UNCHANGED <<run, window, scores, grades, queue, audited, editor, budget>>

AllRead(p) ==
  pass[p].at = "read" /\ \A s \in Subs : pass[p].plan[s].what # "unread"

Inserts(p) == {s \in Subs : pass[p].plan[s].what = "insert"}
Collides(p) == \E s \in Inserts(p) : Taken(s, Slot(s, pass[p].seen[s]))

(* A rescan row for every missing input, whether or not the grade changed;  *)
(* a submission that misses none loses its rows.                            *)
RoutedOnInsert(p, s) ==
  LET plan == pass[p].plan[s]
  IN  IF plan.what # "insert" THEN queue[s]
      ELSE IF plan.row.missing = {} THEN {} ELSE queue[s] \cup plan.row.missing
Routed(p, s) ==
  LET missing == pass[p].plan[s].row.missing
  IN  IF missing = {} THEN {} ELSE queue[s] \cup missing

CommitPass(p) ==
  /\ AllRead(p)
  /\ ~Collides(p)
  /\ grades' = [s \in Subs |->
       CASE pass[p].plan[s].what = "insert" ->
              Insert(s, pass[p].seen[s], pass[p].plan[s].row)
         [] pass[p].plan[s].what = "settle" -> Settle(s)
         [] OTHER -> grades[s]]
  /\ queue' = [s \in Subs |-> Routed(p, s)]
  /\ pass' = [pass EXCEPT ![p] = NoPass("off")]
  /\ UNCHANGED <<run, window, scores, audited, editor, budget>>

(* One number that is taken rolls the whole batch back.                     *)
AbortPass(p) ==
  /\ AllRead(p)
  /\ Collides(p)
  /\ pass' = [pass EXCEPT ![p] = NoPass("off")]
  /\ UNCHANGED <<run, window, scores, grades, queue, audited, editor, budget>>

KillPass(p) ==
  /\ pass[p].at # "off"
  /\ pass' = [pass EXCEPT ![p] = NoPass("off")]
  /\ Spend
  /\ UNCHANGED <<run, window, scores, grades, queue, audited, editor>>

-----------------------------------------------------------------------------
(* Settlement without a pass.                                              *)

(* The console finalizes a batch only where the policy has no window.       *)
Finalize ==
  /\ ~window
  /\ \E s \in Subs : Graded(s) /\ Current(s).state = "provisional"
  /\ grades' = [s \in Subs |-> IF Graded(s) /\ Current(s).state = "provisional"
                               THEN Settle(s) ELSE grades[s]]
  /\ UNCHANGED <<run, window, scores, queue, audited, pass, editor, budget>>

(* The clock runs past a provisional grade's window.                        *)
Lapse(s) ==
  /\ window
  /\ Graded(s)
  /\ Current(s).state = "provisional"
  /\ ~Current(s).lapsed
  /\ grades' = [grades EXCEPT ![s][Len(grades[s])].lapsed = TRUE]
  /\ UNCHANGED <<run, window, scores, queue, audited, pass, editor, budget>>

-----------------------------------------------------------------------------
(* An amendment: the console asks, M-GRADE reads, commits, then audits.    *)

Effective(s, c) ==
  IF Current(s).amended[c] # NoPts THEN Current(s).amended[c] ELSE scores[s][c].points

(* What the current grade already carries takes no place in the edits.      *)
Ask(s, want) ==
  LET edits == [c \in Crits |-> IF want[c] = Effective(s, c) THEN NoPts ELSE want[c]]
  IN  /\ editor.at = "off"
      /\ Graded(s) /\ Current(s).state = "final"
      /\ edits # NoEdits
      /\ editor' = [NoEditor EXCEPT !.at = "asked", !.sub = s, !.want = want,
                                    !.edits = edits]
      /\ Spend
      /\ UNCHANGED <<run, window, scores, grades, queue, audited, pass>>

Inapplicable(s) ==
  {c \in Crits : editor.edits[c] # NoPts /\ scores[s][c].points = NoPts}

(* An amendment computes with its own edits alone, and records only them.   *)
PlanAmendment ==
  LET s == editor.sub
      content == Computed(scores[s], editor.edits)
      row == NewRow(content, editor.edits,
                    IF content.missing # {} THEN "incomplete" ELSE "final")
  IN  /\ editor.at = "asked"
      /\ Inapplicable(s) = {}
      /\ editor' = [editor EXCEPT !.at = "planned", !.seen = ReadCurrent(s), !.row = row,
                                  !.minted = ~Unchanged(ReadCurrent(s), row)]
      /\ UNCHANGED <<run, window, scores, grades, queue, audited, pass, budget>>

MintAmendment ==
  LET s == editor.sub IN
  /\ editor.at = "planned"
  /\ editor.minted
  /\ ~Taken(s, Slot(s, editor.seen))
  /\ grades' = [grades EXCEPT ![s] = Insert(s, editor.seen, editor.row)]
  /\ editor' = [editor EXCEPT !.at = "audit"]
  /\ UNCHANGED <<run, window, scores, queue, audited, pass, budget>>

(* The no-op rule: the content is what the current revision holds already.  *)
KeepAmendment ==
  LET s == editor.sub IN
  /\ editor.at = "planned"
  /\ ~editor.minted
  /\ grades' = [grades EXCEPT ![s] =
       IF editor.row.missing = {} /\ editor.seen.row.state = "provisional"
       THEN Settle(s) ELSE @]
  /\ editor' = [editor EXCEPT !.at = "audit"]
  /\ UNCHANGED <<run, window, scores, queue, audited, pass, budget>>

(* An edit of a criterion without points is refused; so is a revision that  *)
(* is taken.                                                                *)
RefuseAmendment ==
  /\ \/ editor.at = "asked" /\ Inapplicable(editor.sub) # {}
     \/ /\ editor.at = "planned" /\ editor.minted
        /\ Taken(editor.sub, Slot(editor.sub, editor.seen))
  /\ editor' = NoEditor
  /\ UNCHANGED <<run, window, scores, grades, queue, audited, pass, budget>>

WriteAudit ==
  /\ editor.at = "audit"
  /\ audited' = audited \cup
       {[sub |-> editor.sub, edits |-> editor.edits, minted |-> editor.minted,
         revision |-> IF editor.minted THEN Slot(editor.sub, editor.seen)
                      ELSE editor.seen.slot]}
  /\ editor' = NoEditor
  /\ UNCHANGED <<run, window, scores, grades, queue, pass, budget>>

KillConsole ==
  /\ editor.at # "off"
  /\ editor' = NoEditor
  /\ Spend
  /\ UNCHANGED <<run, window, scores, grades, queue, audited, pass>>

-----------------------------------------------------------------------------
PassStep(p) ==
  BeginPass(p) \/ (\E s \in Subs : ReadScores(p, s)) \/ CommitPass(p) \/ AbortPass(p)

EditorStep ==
  PlanAmendment \/ MintAmendment \/ KeepAmendment \/ RefuseAmendment \/ WriteAudit

Next ==
  \/ \E p \in Passes : PassStep(p) \/ Recover(p) \/ Complete(p) \/ KillPass(p)
  \/ \E p \in Passes, c \in Keyed : CorrectKey(p, c)
  \/ \E s \in Subs, c \in Crits : WriteScore(s, c) \/ Review(s, c)
  \/ \E s \in Subs : Lapse(s)
  \/ \E s \in Subs, want \in Wants : Ask(s, want)
  \/ Finalize
  \/ EditorStep
  \/ KillConsole

(* While a pass can go on, or a run that is left unsettled be recovered,    *)
(* some pass does.                                                          *)
Fairness == WF_vars(\E p \in Passes : PassStep(p) \/ Recover(p))

Spec == Init /\ [][Next]_vars /\ Fairness

-----------------------------------------------------------------------------
(* A delivered revision is never changed or dropped: apart from settlement  *)
(* and the passing of its window, a revision stays what it was when it was  *)
(* written (FR-GRADE-12), whoever races it.                                 *)
Frozen(row) == <<ContentOf(row), row.amended>>

RevisionsAppendOnly ==
  [][\A s \in Subs : \A n \in DOMAIN grades[s] :
       /\ n \in DOMAIN grades'[s]
       /\ Frozen(grades'[s][n]) = Frozen(grades[s][n])
       /\ n < Len(grades[s]) => grades'[s][n] = grades[s][n]]_vars

(* A recomputation never loses an amendment: the revision a pass writes     *)
(* carries the overrides of the revision it supersedes, even one written    *)
(* while the pass was computing.                                            *)
RecomputeKeepsAmendments ==
  [][\A s \in Subs :
       Graded(s) /\ pass' # pass /\ Len(grades'[s]) > Len(grades[s])
         => Last(grades'[s]).amended = Current(s).amended]_vars

(* A revision is written only for a change: two consecutive ones differ in  *)
(* content, however many passes and edits overlapped (NFR-GRADE-05).        *)
RevisionsDiffer ==
  \A s \in Subs : \A n \in 1 .. Len(grades[s]) - 1 :
    ContentOf(grades[s][n]) # ContentOf(grades[s][n + 1])

(* An audit record of a minted revision names a revision that landed and    *)
(* holds exactly the edits of the call (TC-GRADE-13).                       *)
AuditMatchesRevision ==
  \A a \in audited : a.minted =>
    /\ a.revision \in DOMAIN grades[a.sub]
    /\ grades[a.sub][a.revision].amended = a.edits

(* A scored submission of a complete run gets a grade that is settled or    *)
(* waits for an operator, although the run's grading was killed or aborted. *)
GradesSettle ==
  \A s \in Subs :
    run = "complete" /\ HasRows(s) ~> Graded(s) /\ Current(s).state # "provisional"

(* A criterion that keeps a complete run's grade incomplete is routed to an *)
(* operator for a rescan, whoever wrote the revision.                       *)
IncompleteIsRouted ==
  \A s \in Subs, c \in Crits :
    /\ run = "complete" /\ Graded(s)
    /\ Current(s).state = "incomplete" /\ c \in Current(s).missing
    ~> Graded(s) /\ (c \in queue[s] \/ c \notin Current(s).missing
                                    \/ Current(s).state # "incomplete")

(* An amendment the console reports as made is what the grade then counts,  *)
(* for every criterion the teacher asked to change.                         *)
AmendmentLands ==
  [][editor.at = "planned" /\ editor'.at = "audit"
       => \A c \in Crits : editor.want[c] # NoPts
            => Effective(editor.sub, c)' = editor.want[c]]_vars

=============================================================================
