\* Two users and two orgs, either of which may admit by domain: a session may join
\* one org while its claim names the other.
CONSTANTS
  Users = {a, b}
  Orgs = {1, 2}
  Invites = {1}
  Requests = {r1, r2}
  MemberCap = 2
  None = None
SPECIFICATION Spec
SYMMETRY Symmetry
INVARIANTS
  TypeOK
  SessionScopeWasMember
PROPERTIES
  OwnersStay
