-------------------------- MODULE MCPayrollReview --------------------------
(***************************************************************************)
(* PayrollReview for TLC: requests are alike, so one order of them stands for  *)
(* all of them.                                                                *)
(***************************************************************************)
EXTENDS PayrollReview, TLC

Symmetry == Permutations(Editors)

=============================================================================
