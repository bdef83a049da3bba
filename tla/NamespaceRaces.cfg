\* Two writers of codes and of prefixes on the same values, in one org: three
\* values and rows, so that an org can exceed the cap by more than the bound allows.
CONSTANTS
  Orgs = {o1}
  Names = {a, b, c}
  PrefixIds = {p1, p2, p3}
  Links = {l1}
  Requests = {r1, r2}
  Visitors = {}
  Cap = 1
  MaxAttempts = 2
  AutoApprove = FALSE
  None = None
SPECIFICATION Spec
SYMMETRY Symmetry
INVARIANTS
  TypeOK
  HeldWithinCapAndRaces
  CollisionOnlyByRace
