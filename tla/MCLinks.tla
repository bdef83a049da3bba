------------------------------- MODULE MCLinks --------------------------------
(***************************************************************************)
(* Links for TLC: requests and pages are interchangeable.                 *)
(***************************************************************************)
EXTENDS Links, TLC

Symmetry == Permutations(Requests) \cup Permutations(Pages)

=============================================================================
