----------------------------- MODULE MCLoanServicing -----------------------------
(* An instance of LoanServicing for TLC.  The approved tenure is whole in  *)
(* months, quarters and years, the override is not.  At most one term is   *)
(* sent at a time; overrides add up, since an omitted term keeps its own.  *)
(* A payout, and one of a negative amount that takes it back.              *)
EXTENDS LoanServicing

MCApproved == [principal |-> 9, tenure |-> 12]

MCTranches == {2, -2}

MCOverrides ==
    {[tenure |-> 7], [principal |-> 2], [principal |-> NULL],
     [frequency |-> "YEARLY"]}

MCQuarterly == {[tenure |-> 7], [frequency |-> "QUARTERLY"]}

===============================================================================
