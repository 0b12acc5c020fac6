------------------------- MODULE MCApplicationTracker -------------------------
(* An instance of ApplicationTracker for TLC: one user per role.           *)
EXTENDS ApplicationTracker

CONSTANTS ini, sup, chk, apr

MCRoleOf == [u \in Staff |-> CASE u = ini -> "INITIATOR"
                               [] u = sup -> "SUPPORTER"
                               [] u = chk -> "CHECKER"
                               [] u = apr -> "APPROVER"]

(* A PATCH of another step of the wizard, and one that clears the          *)
(* Supporter's date.                                                       *)
NoColumns == [c \in {} |-> NULL]
MCApprovals ==
    {[date |-> d, status |-> NoColumns] :
        d \in {NoColumns, [c \in {"supporter"} |-> FALSE]}}

(* A payout and one of a negative amount.                                  *)
MCAmounts == {-1, 1}

===============================================================================
