---------------------------- MODULE MCMembership ----------------------------
(***************************************************************************)
(* Instances of Membership for TLC.                                        *)
(***************************************************************************)
EXTENDS Membership, TLC

\* Users and request slots are interchangeable.  Orgs and invites are not: the
\* code takes the least of them first.
Symmetry == Permutations(Users) \cup Permutations(Requests)
=============================================================================
