------------------------------- MODULE MCHttp -------------------------------
(* Http on a small instance, symmetric in all its sets.                     *)
EXTENDS Http, TLC

Symmetry == Permutations(Requests) \cup Permutations(Cookies) \cup Permutations(Values)
=============================================================================
