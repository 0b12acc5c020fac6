-------------------------- MODULE ApplicationTracker --------------------------
(***************************************************************************)
(* The journey of one application through all its components, and what the *)
(* tracker (applications/application-tracker.service.ts) says of it.  The  *)
(* tracker keeps nothing: it resolves ten stages from the rows of the      *)
(* others, in an order of its own.                                         *)
(*                                                                         *)
(* The approval workflow is Approval's, step by step.  The other           *)
(* components are here by the one column of theirs the tracker reads, and  *)
(* by the guard that decides when it may be written; their own protocols   *)
(* are the subject of their modules.  Labels, names, dates and reasons     *)
(* are left out.                                                           *)
(***************************************************************************)
EXTENDS Approval, Integers, Sequences, FiniteSets, SequencesExt

CONSTANTS
    Amounts,        \* the amounts a payout may have: any numbers
    Totals          \* bound: the totals the model follows

ASSUME AmountsAssumption == Amounts \cup Totals \subseteq Int

VARIABLES
    submitted,      \* submittedAt
    parent,         \* parentVerification.submittedAt
    college,        \* collegeVerification: NONE, or the college's answer
    opening,        \* bankAccountOpening: NONE, PENDING or COMPLETED
    initiated,      \* an audit entry of the Initiator's section exists
    disbursed,      \* disbursement.totalDisbursedAmount ?? 0
    configured,     \* loanAccount.configuredAt
    rewritten       \* history: a PATCH has changed a sign-off date

others  == <<submitted, parent, college, opening, disbursed, configured>>
journey == <<vars, others, initiated, rewritten>>

JourneyInit ==
    /\ Init
    /\ submitted = FALSE
    /\ parent = FALSE
    /\ college = "NONE"
    /\ opening = "NONE"
    /\ initiated = FALSE
    /\ disbursed = 0
    /\ configured = FALSE
    /\ rewritten = FALSE

-------------------------------------------------------------------------------
(* A reviewer's request, or the Initiator's: the PATCH leaves an audit     *)
(* entry behind.                                                           *)
Review ==
    /\ Next
    /\ LET updated == \E r \in Requests : req[r].op = "update" /\ req'[r] = Idle
       IN /\ initiated' = (initiated \/ updated)
          /\ rewritten' = (rewritten \/ (updated /\ dated' # dated))
    /\ UNCHANGED others

(* The Initiator's POST, at any stage: it leaves the same audit entry, and *)
(* submits an application the bank entered itself.                         *)
CreateInitiatorApplication ==
    /\ initiated' = TRUE
    /\ submitted' \in {submitted, TRUE}
    /\ UNCHANGED <<vars, parent, college, opening, disbursed, configured,
                   rewritten>>

Submit ==
    /\ ~submitted
    /\ submitted' = TRUE
    /\ UNCHANGED <<parent, college, opening, disbursed, configured>>

(* Whichever form completes the pair creates the bank account requirement. *)
Verified(p, c) ==
    /\ parent' = p
    /\ college' = c
    /\ opening' = IF opening = "NONE" /\ p /\ c = "YES" THEN "PENDING"
                  ELSE opening
    /\ UNCHANGED <<submitted, disbursed, configured>>

SubmitParentProfile == Verified(TRUE, college)
SubmitCollegeForm   == \E answer \in {"YES", "NO"} : Verified(parent, answer)

CompleteForApplication ==
    /\ opening = "PENDING"
    /\ opening' = "COMPLETED"
    /\ UNCHANGED <<submitted, parent, college, disbursed, configured>>

(* confirm() asks for the parent's bank account, a signed agreement and    *)
(* met conditions, and for no stage of the approval; it raises the total   *)
(* by the amount it is given, be it zero or negative.                      *)
ConfirmDisbursement ==
    /\ parent
    /\ \E amount \in Amounts :
         /\ disbursed + amount \in Totals
         /\ disbursed' = disbursed + amount
    /\ UNCHANGED <<submitted, parent, college, opening, configured>>

ConfigureServicing ==
    /\ loanAccount
    /\ disbursed > 0
    /\ configured' = TRUE
    /\ UNCHANGED <<submitted, parent, college, opening, disbursed>>

JourneyNext ==
    \/ Review \/ CreateInitiatorApplication
    \/ /\ \/ Submit \/ SubmitParentProfile \/ SubmitCollegeForm
          \/ CompleteForApplication \/ ConfirmDisbursement \/ ConfigureServicing
       /\ UNCHANGED <<vars, initiated, rewritten>>

JourneySpec == JourneyInit /\ [][JourneyNext]_journey

-------------------------------------------------------------------------------
(* buildTracker(): a pure function of the rows.                            *)

STAGE_DEFINITIONS ==
    <<"STUDENT", "PARENT", "COLLEGE", "BANK_ACCOUNT", "INITIATOR", "SUPPORTER",
      "CREDIT_MANAGER_REVIEW", "APPROVER", "CREDIT_MANAGER_SETUP",
      "DISBURSEMENT">>

TrackerStageKey == Range(STAGE_DEFINITIONS)

ASSUME KeysAssumption == NULL \notin TrackerStageKey

Position == [key \in TrackerStageKey |->
                CHOOSE i \in DOMAIN STAGE_DEFINITIONS :
                    STAGE_DEFINITIONS[i] = key]

SUB_PIPELINE_KEYS == {"SUPPORTER", "CREDIT_MANAGER_REVIEW", "APPROVER"}

(* Mutant: the opening counts once it is asked for.                        *)
ResolveWithPending(key) ==
    CASE key = "STUDENT"               -> submitted
      [] key = "PARENT"                -> parent
      [] key = "COLLEGE"               -> college # "NONE"
      [] key = "BANK_ACCOUNT"          -> opening = "PENDING"
      [] key = "INITIATOR"             -> initiated
      [] key = "SUPPORTER"             -> dated["supporter"]
      [] key = "CREDIT_MANAGER_REVIEW" -> dated["checker"]
      [] key = "APPROVER"              -> dated["approver"]
      [] key = "CREDIT_MANAGER_SETUP"  -> configured
      [] key = "DISBURSEMENT"          -> disbursed > 0

(* What each stage's resolve() reads; the college's stage counts its       *)
(* answer, yes or no.                                                      *)
Resolve(key) ==
    CASE key = "STUDENT"               -> submitted
      [] key = "PARENT"                -> parent
      [] key = "COLLEGE"               -> college # "NONE"
      [] key = "BANK_ACCOUNT"          -> opening = "COMPLETED"
      [] key = "INITIATOR"             -> initiated
      [] key = "SUPPORTER"             -> dated["supporter"]
      [] key = "CREDIT_MANAGER_REVIEW" -> dated["checker"]
      [] key = "APPROVER"              -> dated["approver"]
      [] key = "CREDIT_MANAGER_SETUP"  -> configured
      [] key = "DISBURSEMENT"          -> disbursed > 0

(* Mutant: the successor of the successor acts next.                       *)
ReEntryOneLate(toStage) ==
    CASE toStage = "INITIATED" -> "CREDIT_MANAGER_REVIEW"
      [] toStage = "SUPPORTED" -> "APPROVER"
      [] OTHER                 -> "SUPPORTER"

(* "Sent back to X" means that X's successor acts next; anything else, and *)
(* no stage at all, re-enters at the Supporter.                            *)
RE_ENTRY_STAGE_FOR_TO_STAGE(toStage) ==
    CASE toStage = "SUPPORTED" -> "CREDIT_MANAGER_REVIEW"
      [] toStage = "CHECKING"  -> "APPROVER"
      [] OTHER                 -> "SUPPORTER"

ReEntry == RE_ENTRY_STAGE_FOR_TO_STAGE(sentBackToStage)

(* While an application is sent back, the sign-off dates of the last round *)
(* count for nothing: the reviews before the re-entry are done, no others. *)
Completed ==
    {key \in TrackerStageKey :
        IF stage = "SENT_BACK" /\ key \in SUB_PIPELINE_KEYS
          THEN Position[key] < Position[ReEntry]
          ELSE Resolve(key)}

Incomplete == TrackerStageKey \ Completed

(* The first stage, in their order, that is not completed.                 *)
CurrentStageKey ==
    IF Incomplete = {} THEN NULL
    ELSE CHOOSE key \in Incomplete :
            \A other \in Incomplete : Position[key] <= Position[other]

Timeline ==
    LET done == Completed
        current == CurrentStageKey
    IN [key \in TrackerStageKey |->
            IF key \in done THEN "COMPLETED"
            ELSE IF key # current THEN "PENDING"
            ELSE IF stage \in {"REJECTED", "SENT_BACK"} THEN stage
            ELSE "IN_PROGRESS"]

CurrentStatus ==
    IF stage \in {"REJECTED", "SENT_BACK"} THEN stage
    ELSE IF CurrentStageKey = NULL THEN "COMPLETED"
    ELSE IF ~submitted THEN "DRAFT"
    ELSE "IN_PROGRESS"

-------------------------------------------------------------------------------
(* Properties.                                                             *)

(* The forms, the account and the Initiator's section are complete.        *)
ReadyForReview ==
    {"STUDENT", "PARENT", "COLLEGE", "BANK_ACCOUNT", "INITIATOR"}
        \subseteq Completed

(* The handler of a reviewing stage takes the application as it is.        *)
Accepts(key) ==
    CASE key = "SUPPORTER"             -> stage \in AllowedFromStage.support
      [] key = "CREDIT_MANAGER_REVIEW" -> stage \in AllowedFromStage.check
      [] key = "APPROVER"              -> stage \in AllowedFromStage.approve
      [] OTHER                         -> FALSE

(* The student of an application sent back is shown the reviewer who can   *)
(* take it up again: the stage the tracker marks is one whose handler      *)
(* accepts it, for a send-back to INITIATED (the default) or to SUPPORTED  *)
(* (the tracker's re-entry table against ALLOWED_FROM_STAGE).              *)
SentBackPointsAtReviewer ==
    (/\ ReadyForReview
     /\ stage = "SENT_BACK"
     /\ sentBackToStage \in {"INITIATED", "SUPPORTED"}) =>
        /\ Timeline[ReEntry] = "SENT_BACK"
        /\ Accepts(ReEntry)

(* On an application never sent back, whose dates no PATCH rewrote and     *)
(* whose handlers never overlapped, the tracker and the workflow agree on  *)
(* who acts next: the reviewer it shows is the one whose handler accepts   *)
(* the stage, and after the approval no reviewer is left.  (The stale      *)
(* dates of an earlier round break this once the application is            *)
(* resubmitted, and so does a support() that commits after a check().)     *)
FollowsPipeline ==
    (/\ ReadyForReview
     /\ ~overlapped
     /\ sentBackToStage = NULL
     /\ ~rewritten
     /\ stage # "REJECTED") =>
        IF stage = "APPROVED"
          THEN SUB_PIPELINE_KEYS \subseteq Completed
          ELSE Accepts(CurrentStageKey) /\ CurrentStatus = "IN_PROGRESS"

(* The reviewer a student is shown is one who can act (the two above).     *)
ShownReviewerCanAct == SentBackPointsAtReviewer /\ FollowsPipeline

(* What a student has seen completed stays so, unless a reviewer sends the *)
(* application back, the Initiator's PATCH clears a date, or a payout of a *)
(* negative amount takes the total back, which can undo the disbursement   *)
(* and nothing else.  (A send-back also shows as completed the reviews     *)
(* before its re-entry, signed or not, and answering it shows them as they *)
(* are.)                                                                   *)
ProgressIsKept ==
    [][\/ Completed \subseteq Completed'
       \/ /\ disbursed' < disbursed
          /\ Completed \ {"DISBURSEMENT"} \subseteq Completed'
       \/ stage = "SENT_BACK"
       \/ \E r \in Requests : /\ req[r].op \in {"sendBack", "update"}
                                /\ req'[r] = Idle]_journey

===============================================================================
