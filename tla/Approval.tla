------------------------------- MODULE Approval -------------------------------
(***************************************************************************)
(* The approval workflow of one loan application                           *)
(* (dashboard/approval/dashboard-approval.service.ts) together with the    *)
(* Initiator's PATCH, which writes sign-off columns of the same row        *)
(* (applicationInitiator/application-initiator.service.ts).  The rest of   *)
(* the Initiator's handlers is in InitiatorSection.                        *)
(*                                                                         *)
(* Every handler reads the row with findUnique, checks its guard on what   *)
(* it read, awaits the acting user's row, and then issues one update that  *)
(* names only the row's id.  So a handler is two actions here: ReadX takes *)
(* the snapshot the guard and the written data depend on, X is the commit. *)
(* Between them any other request may commit: nothing locks the row.       *)
(* A handler refused by its guard changes nothing and is not a step.       *)
(***************************************************************************)
EXTENDS Naturals

CONSTANTS
    Staff,      \* the users who call the handlers
    RoleOf,     \* their role, as the users table has it
    Requests,   \* the HTTP requests that may be in flight at once
    ToStages,   \* the stages a send-back names (dto.toStage ?? INITIATED)
    Approvals,  \* the "approval" sections a PATCH of the wizard carries
    NULL

Stage == {"INITIATED", "SUPPORTED", "CHECKING", "APPROVED", "REJECTED",
          "SENT_BACK"}
EntryStatus == {"PENDING", "WAITING", "UNDER_REVIEW", "FIELD_VERIFIED",
                "APPROVED", "REJECTED", "SENT_BACK"}
Role == {"INITIATOR", "SUPPORTER", "CHECKER", "CREDIT_MANAGER", "APPROVER",
         "ADMIN"}
Column == {"supporter", "checker", "approver"}
Op == {"resubmit", "support", "check", "approve", "reject", "sendBack",
       "update"}

(* An approval section sets the date of some columns (TRUE: a date, FALSE: *)
(* null) and the status of some, possibly other, columns.                  *)
ApprovalSection == [date : UNION {[C -> BOOLEAN] : C \in SUBSET Column},
                    status : UNION {[C -> EntryStatus \cup {NULL}] :
                                        C \in SUBSET Column}]

ASSUME RolesAssumption    == RoleOf \in [Staff -> Role]
ASSUME StagesAssumption   == ToStages \subseteq Stage
ASSUME SectionsAssumption == \A p \in Approvals :
    /\ DOMAIN p.date \subseteq Column
    /\ DOMAIN p.status \subseteq Column
    /\ \A c \in DOMAIN p.date : p.date[c] \in BOOLEAN
    /\ \A c \in DOMAIN p.status : p.status[c] \in EntryStatus \cup {NULL}
ASSUME NullAssumption     == NULL \notin Stage \cup EntryStatus \cup Staff

VARIABLES
    stage,               \* LoanApplication.stage
    sentBackToStage,
    sentBackByApprover,
    userId,              \* supporterUserId, checkerUserId, approverUserId
    dated,               \* supporterDate, ... is not null
    entryStatus,         \* supporterStatus, checkerStatus, approverStatus
    loanAccount,         \* a LoanAccount row exists for the application
    req,                 \* requests between their read and their write
    approverSentBack,    \* history: an Approver's send-back has committed
    overlapped           \* history: two requests have been in flight at once

signOffs == <<userId, dated, entryStatus>>
row      == <<stage, sentBackToStage, sentBackByApprover, signOffs,
              loanAccount, approverSentBack>>
vars     == <<row, req, overlapped>>

Idle == [op |-> "idle", user |-> NULL, shortcut |-> FALSE, toStage |-> NULL]

Request == [op : Op, user : Staff, shortcut : BOOLEAN,
            toStage : Stage \cup {NULL}] \cup {Idle}

(* The row as ApplicationsService creates it: no stage, nothing signed.    *)
Init ==
    /\ stage = NULL
    /\ sentBackToStage = NULL
    /\ sentBackByApprover = FALSE
    /\ userId = [c \in Column |-> NULL]
    /\ dated = [c \in Column |-> FALSE]
    /\ entryStatus = [c \in Column |-> NULL]
    /\ loanAccount = FALSE
    /\ req = [r \in Requests |-> Idle]
    /\ approverSentBack = FALSE
    /\ overlapped = FALSE

-------------------------------------------------------------------------------
(* Reads: the snapshot and the guard each handler takes from it.           *)

(* Mutant: check() would also take an application nobody has supported.    *)
AllowedWithoutSupport == [support |-> {NULL, "INITIATED", "SENT_BACK"},
                          check   |-> {NULL, "SUPPORTED", "SENT_BACK"},
                          approve |-> {"CHECKING"}]

AllowedFromStage == [support |-> {NULL, "INITIATED", "SENT_BACK"},
                     check   |-> {"SUPPORTED", "SENT_BACK"},
                     approve |-> {"CHECKING"}]

(* Who may call what (@Roles of the controller); the PATCH is open to all. *)
Callers == [resubmit |-> {"INITIATOR"},
            support  |-> {"SUPPORTER"},
            check    |-> {"CHECKER"},
            approve  |-> {"APPROVER"},
            reject   |-> {"CREDIT_MANAGER", "CHECKER", "APPROVER"},
            sendBack |-> {"SUPPORTER", "CREDIT_MANAGER", "CHECKER", "APPROVER"}]

(* Request r of user u has passed its guard and goes on to its update.     *)
Begin(r, u, op, shortcut, toStage) ==
    /\ req[r] = Idle
    /\ req' = [req EXCEPT ![r] = [op |-> op, user |-> u,
                                  shortcut |-> shortcut, toStage |-> toStage]]
    /\ overlapped' = (overlapped \/ \E q \in Requests : req[q] # Idle)
    /\ UNCHANGED row

ReadResubmit(r, u) ==
    /\ RoleOf[u] \in Callers.resubmit
    /\ stage = "SENT_BACK"
    /\ sentBackToStage = "INITIATED"
    /\ Begin(r, u, "resubmit", sentBackByApprover, NULL)

ReadSupport(r, u) ==
    /\ RoleOf[u] \in Callers.support
    /\ stage \in AllowedFromStage.support
    /\ Begin(r, u, "support", sentBackByApprover, NULL)

ReadCheck(r, u) ==
    /\ RoleOf[u] \in Callers.check
    /\ stage \in AllowedFromStage.check
    /\ Begin(r, u, "check", sentBackByApprover, NULL)

ReadApprove(r, u) ==
    /\ RoleOf[u] \in Callers.approve
    /\ stage \in AllowedFromStage.approve
    /\ Begin(r, u, "approve", FALSE, NULL)

(* reject() and sendBack() look at no field of the row.                    *)
ReadReject(r, u) ==
    /\ RoleOf[u] \in Callers.reject
    /\ Begin(r, u, "reject", FALSE, NULL)

ReadSendBack(r, u) ==
    /\ RoleOf[u] \in Callers.sendBack
    /\ \E to \in ToStages : Begin(r, u, "sendBack", FALSE, to)

(* Mutant: the PATCH without assertInitiatorCanEdit.                       *)
AlwaysWithInitiator == TRUE

StillWithInitiator ==
    \/ stage \in {NULL, "INITIATED"}
    \/ stage = "SENT_BACK" /\ sentBackToStage = "INITIATED"

ReadUpdate(r, u) ==
    /\ StillWithInitiator
    /\ Begin(r, u, "update", FALSE, NULL)

-------------------------------------------------------------------------------
(* Writes: the update each handler commits, from its snapshot.             *)

Reply(r) ==
    /\ req' = [req EXCEPT ![r] = Idle]
    /\ UNCHANGED overlapped

(* Mutant: the stage's name in the entry-status column.                    *)
SignOffWithStage(c, u) ==
    /\ userId' = [userId EXCEPT ![c] = u]
    /\ dated' = [dated EXCEPT ![c] = TRUE]
    /\ entryStatus' = [entryStatus EXCEPT ![c] = "SUPPORTED"]

(* A stage stamps who signed, when, and with which verdict.                *)
SignOff(c, u) ==
    /\ userId' = [userId EXCEPT ![c] = u]
    /\ dated' = [dated EXCEPT ![c] = TRUE]
    /\ entryStatus' = [entryStatus EXCEPT ![c] = "APPROVED"]

(* approvalStatusColumnForRole: CREDIT_MANAGER shares the checker columns. *)
ColumnFor(role) ==
    CASE role = "SUPPORTER"                   -> "supporter"
      [] role \in {"CHECKER", "CREDIT_MANAGER"} -> "checker"
      [] role = "APPROVER"                    -> "approver"

StampVerdict(u, verdict) ==
    /\ entryStatus' = [entryStatus EXCEPT ![ColumnFor(RoleOf[u])] = verdict]
    /\ UNCHANGED <<userId, dated>>

(* Mutant: the shortcut is followed and left on.                           *)
KeepShortcut(r) == UNCHANGED sentBackByApprover

(* The Approver's shortcut is spent by the handler that saw it.            *)
SpendShortcut(r) ==
    sentBackByApprover' = (sentBackByApprover /\ ~req[r].shortcut)

Resubmit(r) ==
    /\ req[r].op = "resubmit"
    /\ stage' = IF req[r].shortcut THEN "CHECKING" ELSE "SUPPORTED"
    /\ SpendShortcut(r)
    /\ Reply(r)
    /\ UNCHANGED <<sentBackToStage, signOffs, loanAccount, approverSentBack>>

Support(r) ==
    /\ req[r].op = "support"
    /\ stage' = IF req[r].shortcut THEN "CHECKING" ELSE "SUPPORTED"
    /\ SignOff("supporter", req[r].user)
    /\ SpendShortcut(r)
    /\ Reply(r)
    /\ UNCHANGED <<sentBackToStage, loanAccount, approverSentBack>>

Check(r) ==
    /\ req[r].op = "check"
    /\ stage' = "CHECKING"
    /\ SignOff("checker", req[r].user)
    /\ SpendShortcut(r)
    /\ Reply(r)
    /\ UNCHANGED <<sentBackToStage, loanAccount, approverSentBack>>

(* Mutant: the account upserted instead of created.                        *)
ApproveUpserting(r) ==
    /\ req[r].op = "approve"
    /\ stage' = "APPROVED"
    /\ SignOff("approver", req[r].user)
    /\ loanAccount' = TRUE
    /\ Reply(r)
    /\ UNCHANGED <<sentBackToStage, sentBackByApprover, approverSentBack>>

(* One $transaction: the row becomes APPROVED and the account is created.  *)
Approve(r) ==
    /\ req[r].op = "approve"
    /\ ~loanAccount
    /\ stage' = "APPROVED"
    /\ SignOff("approver", req[r].user)
    /\ loanAccount' = TRUE
    /\ Reply(r)
    /\ UNCHANGED <<sentBackToStage, sentBackByApprover, approverSentBack>>

(* loan_accounts.applicationId is unique: the transaction is rolled back.  *)
ApproveConflict(r) ==
    /\ req[r].op = "approve"
    /\ loanAccount
    /\ Reply(r)
    /\ UNCHANGED row

Reject(r) ==
    /\ req[r].op = "reject"
    /\ stage' = "REJECTED"
    /\ StampVerdict(req[r].user, "REJECTED")
    /\ Reply(r)
    /\ UNCHANGED <<sentBackToStage, sentBackByApprover, loanAccount,
                   approverSentBack>>

SendBack(r) ==
    LET byApprover == RoleOf[req[r].user] = "APPROVER"
    IN /\ req[r].op = "sendBack"
       /\ stage' = "SENT_BACK"
       /\ sentBackToStage' = req[r].toStage
       /\ sentBackByApprover' = byApprover
       /\ StampVerdict(req[r].user, "SENT_BACK")
       /\ approverSentBack' = (approverSentBack \/ byApprover)
       /\ Reply(r)
       /\ UNCHANGED loanAccount

Overlay(new, old) ==
    [c \in Column |-> IF c \in DOMAIN new THEN new[c] ELSE old[c]]

(* The Initiator's PATCH may rewrite any role's date and status, never its *)
(* user id.                                                                *)
UpdateInitiatorApplication(r) ==
    /\ req[r].op = "update"
    /\ \E p \in Approvals :
          /\ dated' = Overlay(p.date, dated)
          /\ entryStatus' = Overlay(p.status, entryStatus)
    /\ Reply(r)
    /\ UNCHANGED <<stage, sentBackToStage, sentBackByApprover, userId,
                   loanAccount, approverSentBack>>

-------------------------------------------------------------------------------
Read(r, u) ==
    \/ ReadResubmit(r, u) \/ ReadSupport(r, u) \/ ReadCheck(r, u)
    \/ ReadApprove(r, u)  \/ ReadReject(r, u)  \/ ReadSendBack(r, u)
    \/ ReadUpdate(r, u)

Write(r) ==
    \/ Resubmit(r) \/ Support(r)  \/ Check(r) \/ Approve(r)
    \/ ApproveConflict(r) \/ Reject(r) \/ SendBack(r)
    \/ UpdateInitiatorApplication(r)

Next == \E r \in Requests : Write(r) \/ \E u \in Staff : Read(r, u)

Spec == Init /\ [][Next]_vars

-------------------------------------------------------------------------------
(* Properties.                                                             *)

TypeOK ==
    /\ stage \in Stage \cup {NULL}
    /\ sentBackToStage \in Stage \cup {NULL}
    /\ sentBackByApprover \in BOOLEAN
    /\ userId \in [Column -> Staff \cup {NULL}]
    /\ dated \in [Column -> BOOLEAN]
    /\ entryStatus \in [Column -> EntryStatus \cup {NULL}]
    /\ loanAccount \in BOOLEAN
    /\ req \in [Requests -> Request]
    /\ approverSentBack \in BOOLEAN
    /\ overlapped \in BOOLEAN

(* Whoever is missing from the sign-offs was skipped through a send-back,  *)
(* never by an interleaving: the Supporter's signature is missing past     *)
(* support() only on an application that somebody sent back, the Checker's *)
(* is missing past check() only if an Approver did (support(), check(),    *)
(* resubmit(), sendBack()).                                                *)
SignOffChain ==
    /\ (stage \in {"SUPPORTED", "CHECKING", "APPROVED"}
            /\ userId["supporter"] = NULL) => sentBackToStage # NULL
    /\ (stage \in {"CHECKING", "APPROVED"} /\ userId["checker"] = NULL)
            => approverSentBack

(* What makes SignOffChain inductive: the same facts carried by the        *)
(* requests in flight.  A request that saw a send-back proves there was    *)
(* one; a check() or approve() in flight has seen a stage whose earlier    *)
(* signatures were there, or excused, and neither can be taken back.       *)
SendBackIsMarked ==
    /\ stage = "SENT_BACK" => sentBackToStage # NULL
    /\ sentBackByApprover => approverSentBack
    /\ \A r \in Requests :
          /\ req[r].shortcut => approverSentBack
          /\ req[r].op = "sendBack" => req[r].toStage # NULL
          /\ req[r].op = "resubmit" => sentBackToStage # NULL

InFlightChain ==
    \A r \in Requests :
        /\ (req[r].op \in {"check", "approve"} /\ userId["supporter"] = NULL)
               => sentBackToStage # NULL
        /\ (req[r].op = "approve" /\ userId["checker"] = NULL)
               => approverSentBack

ChainInv == TypeOK /\ SignOffChain /\ SendBackIsMarked /\ InFlightChain

(* Under every interleaving the handlers implement LoanGrant: one grant,   *)
(* by one approver, in the step that makes the application APPROVED; a     *)
(* second approve() leaves the first approver's stamp alone (approve()'s   *)
(* transaction and the unique loan_accounts.applicationId).                *)
Promise == INSTANCE LoanGrant WITH
    approved  <- stage = "APPROVED",
    grantedBy <- IF loanAccount THEN userId["approver"] ELSE NULL

ImplementsLoanGrant == Promise!Spec

(* As long as no handlers overlap, the Approver's shortcut is on only      *)
(* while the send-back that granted it waits for an answer, or was         *)
(* rejected: it is spent by the handler that routes on it, so no later     *)
(* round through the pipeline skips a reviewer.                            *)
ShortcutOnlyWhileSentBack ==
    ~overlapped /\ sentBackByApprover => stage \in {"SENT_BACK", "REJECTED"}

(* As long as no handlers overlap, a decided application carries its       *)
(* decision in the sign-off columns as well: APPROVED with a dated         *)
(* approver's approval, REJECTED with some reviewer's rejection.  The      *)
(* Initiator's PATCH, which can rewrite those columns, is refused on both. *)
DecisionIsOnRecord ==
    /\ ~overlapped /\ stage = "APPROVED" =>
          dated["approver"] /\ entryStatus["approver"] = "APPROVED"
    /\ ~overlapped /\ stage = "REJECTED" =>
          \E c \in {"checker", "approver"} : entryStatus[c] = "REJECTED"

-------------------------------------------------------------------------------
(* What the documentation says and the code does not do.                   *)

(* dashboard/README.md:220,222: approve is valid from CHECKING, send-back  *)
(* from any stage, and the pipeline can be re-entered from SENT_BACK.  An  *)
(* application sent back after its approval can never be approved again:   *)
(* approve() fails on the account it already has.                          *)
ApproveFromCheckingSucceeds ==
    [][\A r \in Requests : ApproveConflict(r) => stage # "CHECKING"]_vars

===============================================================================
