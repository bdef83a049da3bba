\* Four users, so that an org can exceed the policy's cap by more than the bound
\* allows, and the policy denies an invited user.
CONSTANTS
  Users = {a, b, c, d}
  Orgs = {1}
  Invites = {1}
  Requests = {r1, r2}
  MemberCap = 2
  None = None
SPECIFICATION Spec
SYMMETRY Symmetry
INVARIANTS
  AcceptedMeansJoined
  MembersWithinCapAndRaces
  RemovalSticks
