------------------------------ MODULE LoanGrant ------------------------------
(***************************************************************************)
(* What the approval workflow promises the rest of the bank: an            *)
(* application is granted a loan at most once, by one approver, at the     *)
(* instant it becomes APPROVED.  It may leave APPROVED afterwards (a       *)
(* reject or a send-back), but the grant and its approver stay, and it     *)
(* never becomes APPROVED a second time.                                   *)
(***************************************************************************)
CONSTANTS Staff, NULL

VARIABLES approved,     \* the application is at stage APPROVED
          grantedBy     \* who granted the loan, NULL while nobody has

vars == <<approved, grantedBy>>

Init == approved = FALSE /\ grantedBy = NULL

Grant(u) ==
    /\ grantedBy = NULL
    /\ approved' = TRUE
    /\ grantedBy' = u

Withdraw ==
    /\ approved
    /\ approved' = FALSE
    /\ UNCHANGED grantedBy

Next == Withdraw \/ \E u \in Staff : Grant(u)

Spec == Init /\ [][Next]_vars
==============================================================================
