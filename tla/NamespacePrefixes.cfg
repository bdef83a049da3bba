\* Two orgs and the operator on the same prefixes: three rows let a value be
\* revoked, released and claimed by the other org while requests are under way.
CONSTANTS
  Orgs = {o1, o2}
  Names = {a, b}
  PrefixIds = {p1, p2, p3}
  Links = {}
  Requests = {r1, r2}
  Visitors = {}
  Cap = 3
  MaxAttempts = 1
  AutoApprove = FALSE
  None = None
SPECIFICATION Spec
SYMMETRY Symmetry
INVARIANTS
  PrimariesAreSound
PROPERTIES
  PrimaryIsKept
  RevokedUntilReleased
  ImplementsRegistry
