SPECIFICATION Spec
CONSTANTS
  Owners = {p1, p2}
  NoOwner = NoOwner
  MaxAttempts = 2
  Units = {u1, u2}
  LeaseTTL = 1
  Margin = 1
  MaxTicks = 3
SYMMETRY Interchange
INVARIANTS
  TypeOK
  LeaseColumnsAgree
  QuarantineAtCeiling
  MarkCoversLeases
PROPERTIES
  OpenExpiresEveryLease
  EndedStaysEnded
  KeepsPromise
