\* Two requests are enough to revoke an invite that a session is accepting.
CONSTANTS
  Users = {a, b}
  Orgs = {1}
  Invites = {1}
  Requests = {r1, r2}
  MemberCap = 2
  None = None
SPECIFICATION Spec
PROPERTY InvitesSettleOnce
