---------------------------- MODULE MCBudgetLease ----------------------------
(* Instances of BudgetLease for TLC.                                        *)
EXTENDS BudgetLease, TLC

HolderSymmetry == Permutations(Holder)
=============================================================================
