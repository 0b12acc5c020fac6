-------------------------- MODULE BankAccountOpening --------------------------
(***************************************************************************)
(* The gate between an application's verification and the Initiator's      *)
(* queue: the parent's and the college's form submissions                  *)
(* (parent-public/parent-public.service.ts, college/college.service.ts),   *)
(* the bank-account requirement they create, whichever comes second, and   *)
(* its completion by the student (bank-account-opening.service.ts).        *)
(*                                                                         *)
(* A submission is one request that writes its form, marks its invitation, *)
(* reads both forms, creates the requirement and notifies: each write is a *)
(* statement of its own, another request may run in between, and any of    *)
(* them may fail, which ends the request and undoes nothing.  Which links  *)
(* let a recipient submit is the subject of Invitation.                    *)
(***************************************************************************)
EXTENDS Naturals

CONSTANT Requests       \* the HTTP requests that may be in flight at once

Side == {"PARENT", "COLLEGE"}
Pc   == {"idle", "submitted", "marked", "creating", "created",
         "completing", "completed"}

VARIABLES
    parentSubmitted,    \* parentVerification.submittedAt is not null
    collegeVerified,    \* collegeVerification.isApplicationVerified
    invitationVerified, \* per side: its ApplicationLink is VERIFIED
    opening,            \* BankAccountOpening: NONE, or its status
    notified,           \* notifications of the requirement sent
    completionAudits,   \* BANK_ACCOUNT_OPENING_COMPLETED audit entries
    req,                \* where each request is, and for whom
    dropped,            \* a submission failed and none was started since
    bothSeen,           \* history: both forms were verified at one instant
    overlapped          \* history: two requests have been in flight at once

forms == <<parentSubmitted, collegeVerified, dropped, bothSeen>>
rows  == <<forms, invitationVerified, opening, notified, completionAudits, req>>
vars  == <<rows, overlapped>>

Idle == [pc |-> "idle", side |-> "PARENT"]

Init ==
    /\ parentSubmitted = FALSE
    /\ collegeVerified = FALSE
    /\ invitationVerified = [s \in Side |-> FALSE]
    /\ opening = "NONE"
    /\ notified = 0
    /\ completionAudits = 0
    /\ req = [r \in Requests |-> Idle]
    /\ dropped = FALSE
    /\ bothSeen = FALSE
    /\ overlapped = FALSE

Goto(r, from, to) ==
    /\ req[r].pc = from
    /\ req' = [req EXCEPT ![r].pc = to]

Return(r) == req' = [req EXCEPT ![r] = Idle]

-------------------------------------------------------------------------------
(* submitParentProfile() and submitCollegeForm().                          *)

Submit(r, side) ==
    /\ req[r] = Idle
    /\ req' = [req EXCEPT ![r] = [pc |-> "submitted", side |-> side]]
    /\ dropped' = FALSE
    /\ bothSeen' = (bothSeen \/ (parentSubmitted' /\ collegeVerified'))
    /\ UNCHANGED <<invitationVerified, opening, notified, completionAudits>>

SubmitParentProfile(r) ==
    /\ parentSubmitted' = TRUE
    /\ UNCHANGED collegeVerified
    /\ Submit(r, "PARENT")

(* The college answers yes or no, and may answer again.                    *)
SubmitCollegeForm(r) ==
    /\ collegeVerified' \in BOOLEAN
    /\ UNCHANGED parentSubmitted
    /\ Submit(r, "COLLEGE")

MarkVerified(r) ==
    /\ Goto(r, "submitted", "marked")
    /\ invitationVerified' = [invitationVerified EXCEPT ![req[r].side] = TRUE]
    /\ UNCHANGED <<forms, opening, notified, completionAudits>>

-------------------------------------------------------------------------------
(* ensureRequirementIfBothVerified(): read, create, notify.                *)

BothVerified == parentSubmitted /\ collegeVerified

(* Mutant: only the college's form calls it, as the workflow lists it last.*)
EnsureAfterCollege(r) ==
    /\ IF opening = "NONE" /\ BothVerified /\ req[r].side = "COLLEGE"
         THEN Goto(r, "marked", "creating")
         ELSE req[r].pc = "marked" /\ Return(r)
    /\ UNCHANGED <<forms, invitationVerified, opening, notified,
                   completionAudits>>

EnsureRequirement(r) ==
    /\ IF opening = "NONE" /\ BothVerified
         THEN Goto(r, "marked", "creating")
         ELSE req[r].pc = "marked" /\ Return(r)
    /\ UNCHANGED <<forms, invitationVerified, opening, notified,
                   completionAudits>>

(* Mutant: the create without its unique applicationId.                    *)
CreateAnother(r) ==
    /\ Goto(r, "creating", "created")
    /\ opening' = "PENDING"
    /\ UNCHANGED <<forms, invitationVerified, notified, completionAudits>>

CreateRequirement(r) ==
    /\ opening = "NONE"
    /\ Goto(r, "creating", "created")
    /\ opening' = "PENDING"
    /\ UNCHANGED <<forms, invitationVerified, notified, completionAudits>>

(* bank_account_openings.applicationId is unique: the request fails.       *)
CreateConflict(r) ==
    /\ req[r].pc = "creating"
    /\ opening # "NONE"
    /\ Return(r)
    /\ UNCHANGED <<forms, invitationVerified, opening, notified,
                   completionAudits>>

NotifyRequired(r) ==
    /\ req[r].pc = "created"
    /\ notified' = notified + 1
    /\ Return(r)
    /\ UNCHANGED <<forms, invitationVerified, opening, completionAudits>>

-------------------------------------------------------------------------------
(* completeForApplication(): a click on a completed requirement returns it.*)

ReadCompletion(r) ==
    /\ opening = "PENDING"
    /\ Goto(r, "idle", "completing")
    /\ UNCHANGED <<forms, invitationVerified, opening, notified,
                   completionAudits>>

(* Mutant: a status the enum does not have.                                *)
CompleteAsClicked(r) ==
    /\ Goto(r, "completing", "completed")
    /\ opening' = "CLICKED"
    /\ UNCHANGED <<forms, invitationVerified, notified, completionAudits>>

Complete(r) ==
    /\ Goto(r, "completing", "completed")
    /\ opening' = "COMPLETED"
    /\ UNCHANGED <<forms, invitationVerified, notified, completionAudits>>

AuditCompletion(r) ==
    /\ req[r].pc = "completed"
    /\ completionAudits' = completionAudits + 1
    /\ Return(r)
    /\ UNCHANGED <<forms, invitationVerified, opening, notified>>

(* A statement fails, or the process dies: the request ends where it is.   *)
Fail(r) ==
    /\ req[r].pc # "idle"
    /\ dropped' = (dropped \/ req[r].pc \in {"submitted", "marked", "creating"})
    /\ Return(r)
    /\ UNCHANGED <<parentSubmitted, collegeVerified, bothSeen,
                   invitationVerified, opening, notified, completionAudits>>

-------------------------------------------------------------------------------
Start(r) == SubmitParentProfile(r) \/ SubmitCollegeForm(r) \/ ReadCompletion(r)

Proceed(r) ==
    \/ MarkVerified(r)   \/ EnsureRequirement(r) \/ CreateRequirement(r)
    \/ CreateConflict(r) \/ NotifyRequired(r)    \/ Complete(r)
    \/ AuditCompletion(r)

Step == \E r \in Requests : Start(r) \/ Proceed(r) \/ Fail(r)

Overlap == \E q, r \in Requests : q # r /\ req[q] # Idle /\ req[r] # Idle

Next == Step /\ overlapped' = (overlapped \/ Overlap')

Spec == Init /\ [][Next]_vars

(* The event loop resumes every handler whose await has answered.  Nobody  *)
(* is obliged to submit a form or to click.                                *)
FairSpec == Spec /\ \A r \in Requests : WF_rows(Proceed(r) \/ Fail(r))

-------------------------------------------------------------------------------
(* Properties.                                                             *)

TypeOK ==
    /\ parentSubmitted \in BOOLEAN
    /\ collegeVerified \in BOOLEAN
    /\ invitationVerified \in [Side -> BOOLEAN]
    /\ opening \in {"NONE", "PENDING", "COMPLETED"}
    /\ notified \in Nat
    /\ completionAudits \in Nat
    /\ req \in [Requests -> [pc : Pc, side : Side]]
    /\ dropped \in BOOLEAN
    /\ bothSeen \in BOOLEAN
    /\ overlapped \in BOOLEAN

(* Whichever side submits second, and however the two requests overlap,    *)
(* the requirement is not missed: while both forms are verified and it     *)
(* does not exist, some submission is still on its way to creating it,     *)
(* unless one failed and nobody has submitted again since                  *)
(* (ensureRequirementIfBothVerified runs after the form is written).       *)
NoMissedRequirement ==
    (parentSubmitted /\ collegeVerified /\ opening = "NONE") =>
        \/ dropped
        \/ \E r \in Requests : req[r].pc \in {"submitted", "marked", "creating"}

(* The same as progress: two verified forms lead to a requirement, unless  *)
(* a submission fails or the college takes its answer back.                *)
RequirementFollows ==
    (parentSubmitted /\ collegeVerified)
        ~> (opening # "NONE" \/ dropped \/ ~collegeVerified)

(* The requirement exists only for an application whose forms were both    *)
(* verified at one instant, and the student hears of it at most once, even *)
(* when both submissions try to create it.                                 *)
RequirementNeedsBoth == opening # "NONE" => bothSeen

NotifiedAtMostOnce == notified <= 1

(* As long as no requests overlap, the completion is audited at most once, *)
(* however often the student clicks and whichever clicks fail              *)
(* (completeForApplication returns a requirement already completed).       *)
CompletionAuditedOnce == ~overlapped => completionAudits <= 1

(* What the requirement promises (the three above).                        *)
RequirementSound ==
    RequirementNeedsBoth /\ NotifiedAtMostOnce /\ CompletionAuditedOnce

===============================================================================
