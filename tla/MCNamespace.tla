----------------------------- MODULE MCNamespace -----------------------------
(***************************************************************************)
(* Instances of Namespace for TLC.                                         *)
(***************************************************************************)
EXTENDS Namespace, TLC

\* Rows, links, request slots, orgs and values are interchangeable; sound for
\* the invariants and action properties, which treat them alike.
Symmetry ==
  Permutations(PrefixIds) \cup Permutations(Links) \cup Permutations(Requests)
    \cup Permutations(Names) \cup Permutations(Orgs) \cup Permutations(Visitors)
=============================================================================
