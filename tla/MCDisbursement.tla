----------------------------- MODULE MCDisbursement -----------------------------
(***************************************************************************)
(* Small values for Disbursement: an ordinary payout, one of nothing and a *)
(* negative one.  Requests, agreements and conditions are told apart by    *)
(* nothing but their names.                                                *)
(***************************************************************************)
EXTENDS Disbursement, TLC

MCAmounts == {-1, 0, 2}

Symmetry == Permutations(Requests) \cup Permutations(Agreements)
             \cup Permutations(Conditions)

===============================================================================
