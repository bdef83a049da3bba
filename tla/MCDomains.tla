------------------------------ MODULE MCDomains -------------------------------
(***************************************************************************)
(* Instances of Domains for TLC.                                           *)
(***************************************************************************)
EXTENDS Domains, TLC

\* Hostnames, orgs and request slots are interchangeable; the invariants and action
\* properties treat them alike.
Symmetry == Permutations(Hosts) \cup Permutations(Owners) \cup Permutations(Handlers)
=============================================================================
