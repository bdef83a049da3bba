\* A visitor between the statements of handlers and of the operator, prefixes
\* approved on request.  No symmetry: a liveness property is checked.
CONSTANTS
  Orgs = {o1, o2}
  Names = {a, b}
  PrefixIds = {p1, p2}
  Links = {l1, l2}
  Requests = {r1}
  Visitors = {v1}
  Cap = 1
  MaxAttempts = 2
  AutoApprove = TRUE
  None = None
SPECIFICATION FairSpec
INVARIANTS
  ServedInScope
PROPERTIES
  HandlersFinish
