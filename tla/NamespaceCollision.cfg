\* Two requests are enough for a code to equal a held prefix.
CONSTANTS
  Orgs = {o1}
  Names = {a}
  PrefixIds = {p1}
  Links = {l1}
  Requests = {r1, r2}
  Visitors = {}
  Cap = 1
  MaxAttempts = 1
  AutoApprove = FALSE
  None = None
SPECIFICATION Spec
INVARIANT NoCodeEqualsHeldPrefix
