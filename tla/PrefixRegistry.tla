---------------------------- MODULE PrefixRegistry ----------------------------
(***************************************************************************)
(* What the brand-prefix feature promises about the values of the shared   *)
(* short domain, without rows, requests or transactions: at any time a     *)
(* value is free, or one organization keeps it in one standing.  A value   *)
(* passes from one organization to another only by becoming free first,    *)
(* and a revoked value never comes back to life.                           *)
(*                                                                         *)
(* Namespace implements this registry (see NamespaceProofs).               *)
(***************************************************************************)
CONSTANTS
  Orgs,         \* organizations
  Names,        \* values of the shared namespace, up to letter case
  AutoApprove,  \* BRAND_PREFIX_AUTO_APPROVE: requests skip operator review
  None          \* no organization

VARIABLES
  standing,     \* standing[n]: how value n is kept
  keeper        \* keeper[n]: the organization that keeps it, None when free

vars == <<standing, keeper>>

Standings == {"FREE", "PENDING", "APPROVED", "REVOKED"}

Init ==
  /\ standing = [n \in Names |-> "FREE"]
  /\ keeper = [n \in Names |-> None]

Move(n, to, org) ==
  /\ standing' = [standing EXCEPT ![n] = to]
  /\ keeper' = [keeper EXCEPT ![n] = org]

\* An organization asks for a free value.
Claim(n, org) ==
  /\ standing[n] = "FREE"
  /\ Move(n, IF AutoApprove THEN "APPROVED" ELSE "PENDING", org)

\* The operator's decisions.
Approve(n) == standing[n] = "PENDING" /\ Move(n, "APPROVED", keeper[n])
Reject(n)  == standing[n] = "PENDING" /\ Move(n, "FREE", None)
Revoke(n)  == standing[n] = "APPROVED" /\ Move(n, "REVOKED", keeper[n])
Release(n) == standing[n] = "REVOKED" /\ Move(n, "FREE", None)

\* The keeper gives up a value that is not revoked.
Withdraw(n) == standing[n] \in {"PENDING", "APPROVED"} /\ Move(n, "FREE", None)

Next ==
  \E n \in Names :
    \/ \E org \in Orgs : Claim(n, org)
    \/ Approve(n) \/ Reject(n) \/ Revoke(n) \/ Release(n) \/ Withdraw(n)

Spec == Init /\ [][Next]_vars
=============================================================================
