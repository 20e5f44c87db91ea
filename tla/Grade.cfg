SPECIFICATION Spec
CONSTANTS
  s1 = s1
  c1 = c1
  c2 = c2
  p1 = p1
  p2 = p2
  NoPts = NoPts
  Subs = {s1}
  Crits = {c1, c2}
  Keyed = {c2}
  Points = {0, 1}
  Wants <- MCWants
  Passes = {p1, p2}
  Budget = 2
INVARIANTS RevisionsDiffer AuditMatchesRevision
PROPERTIES RevisionsAppendOnly RecomputeKeepsAmendments GradesSettle IncompleteIsRouted
CHECK_DEADLOCK FALSE
