\* Two rows, hostnames, orgs and request slots, so that a domain is deleted, disabled,
\* registered anew or overtaken by a SHORT_DOMAIN change under a verification, a swap
\* or a visit.
CONSTANTS
  DomainIds = {1, 2}
  Hosts = {h1, h2}
  Owners = {o1, o2}
  Handlers = {r1, r2}
  Nobody = Nobody
SPECIFICATION DomainsSpec
SYMMETRY Symmetry
INVARIANTS
  DomainsTypeOK
  VerifiedWasProved
  ServedByProver
PROPERTIES
  PrimaryShownIsKept
  VerificationIsCurrent
