------------------------------ MODULE MCApproval ------------------------------
(* Instances of Approval for TLC: one user per role, three PATCH payloads. *)
EXTENDS Approval, TLC

CONSTANTS ini, sup, chk, cm, apr

MCRoleOf == [u \in Staff |-> CASE u = ini -> "INITIATOR"
                               [] u = sup -> "SUPPORTER"
                               [] u = chk -> "CHECKER"
                               [] u = cm  -> "CREDIT_MANAGER"
                               [] u = apr -> "APPROVER"]

NoColumns == [c \in {} |-> NULL]
On(c, v)  == [x \in {c} |-> v]

(* A PATCH of another step of the wizard, one that clears the Approver's   *)
(* entry, and one that back-dates the Checker's.                           *)
MCApprovals == {[date |-> NoColumns, status |-> NoColumns],
                [date |-> On("approver", FALSE),
                 status |-> On("approver", "PENDING")],
                [date |-> On("checker", TRUE), status |-> NoColumns]}

(* The requests are interchangeable, and no run of this module checks      *)
(* liveness.                                                               *)
RequestSymmetry == Permutations(Requests)
===============================================================================
