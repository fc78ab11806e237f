------------------------------- MODULE MCSql -------------------------------
(* Sql on a small instance.  The members of each of the three sets are      *)
(* interchangeable: no action or property names one of them.                *)
EXTENDS Sql, TLC

Symmetry ==
  Permutations(Queries) \cup Permutations(Columns) \cup Permutations(Stmts)
=============================================================================
