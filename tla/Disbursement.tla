----------------------------- MODULE Disbursement -----------------------------
(***************************************************************************)
(* Paying out an approved loan: the Loan Agreement and its signature       *)
(* (dashboard/documents/dashboard-documents.service.ts), the checklist of  *)
(* conditions the signature opens, and confirm(), which reads the parent's *)
(* bank account, the agreement and the checklist one after the other,      *)
(* raises the disbursed total and records the tranche                      *)
(* (dashboard/disbursement/dashboard-disbursement.service.ts).             *)
(*                                                                         *)
(* One application.  A handler is split where it awaits the database;      *)
(* handlers of a single write take the free request they arrive on.        *)
(***************************************************************************)
EXTENDS Integers, SequencesExt, HttpServer

CONSTANTS
    Agreements,         \* the Loan Agreements that may be generated
    Conditions,         \* the conditions that may be added to the checklist
    Amounts,            \* the amounts a payout may have: any numbers
    MaxTotal,           \* bound: how far the total goes in either direction
    MaxTranches         \* bound: the tranches the model follows

ASSUME AmountsAssumption ==
    /\ Amounts \subseteq Int
    /\ MaxTotal \in Nat
    /\ MaxTranches \in Nat

ASSUME RequestsAssumption == IsFiniteSet(Requests)

VARIABLES
    agreementStatus,    \* GeneratedAgreement.status, NONE before it exists
    signedAt,           \* GeneratedAgreement.signedAt is not null
    bankAccount,        \* parentVerification.bankAccountNumber is filled in
    conditions,         \* DisbursementCondition.status, NONE before it exists
    disbursement,       \* Disbursement.status, NONE before it exists
    total,              \* Disbursement.totalDisbursedAmount
    tranches,           \* the amounts of the DisbursementTranche rows
    orphaned,           \* history: raised in the total by requests that failed
    req,                \* where each request is, and what it works on
    overlapped          \* history: a request arrived while one was served

legal   == <<agreementStatus, signedAt>>
payout  == <<disbursement, total, tranches, orphaned>>
vars    == <<legal, bankAccount, conditions, payout, req, overlapped>>

At(pc, on) == [pc |-> pc, on |-> on]
Idle       == At("idle", NULL)

Init ==
    /\ agreementStatus = [a \in Agreements |-> "NONE"]
    /\ signedAt = [a \in Agreements |-> FALSE]
    /\ bankAccount = FALSE
    /\ conditions = [c \in Conditions |-> "NONE"]
    /\ disbursement = "NONE"
    /\ total = 0
    /\ tranches = <<>>
    /\ orphaned = 0
    /\ req = [r \in Requests |-> Idle]
    /\ overlapped = FALSE

(* Every request arrives at an idle slot, also those served in one write.  *)
Arrive(r, pc, on) ==
    /\ req[r] = Idle
    /\ req' = [req EXCEPT ![r] = At(pc, on)]
    /\ overlapped' = (overlapped \/ \E q \in Requests : req[q] # Idle)

Served(r) == Arrive(r, "idle", NULL)

Goto(r, from, to) ==
    /\ req[r].pc = from
    /\ req' = [req EXCEPT ![r] = At(to, NULL)]
    /\ UNCHANGED overlapped

Return(r, from) ==
    /\ req[r].pc = from
    /\ req' = [req EXCEPT ![r] = Idle]
    /\ UNCHANGED overlapped

-------------------------------------------------------------------------------
(* The Loan Agreement.  createAgreement() looks at no stage and no status. *)

CreateAgreement(r, a) ==
    /\ Served(r)
    /\ agreementStatus[a] = "NONE"
    /\ agreementStatus' = [agreementStatus EXCEPT ![a] = "DRAFT"]
    /\ UNCHANGED <<signedAt, bankAccount, conditions, payout>>

ReadSendToSign(r, a) ==
    /\ agreementStatus[a] = "DRAFT"
    /\ Arrive(r, "sending", a)
    /\ UNCHANGED <<legal, bankAccount, conditions, payout>>

SendToSign(r) ==
    /\ Return(r, "sending")
    /\ agreementStatus' = [agreementStatus EXCEPT
                             ![req[r].on] = "PENDING_SIGNATURE"]
    /\ UNCHANGED <<signedAt, bankAccount, conditions, payout>>

(* markSigned() needs a document sent out; uploadSignedDocument() only one *)
(* that is not signed yet.                                                 *)
ReadMarkSigned(r, a) ==
    /\ agreementStatus[a] = "PENDING_SIGNATURE"
    /\ Arrive(r, "marking", a)
    /\ UNCHANGED <<legal, bankAccount, conditions, payout>>

ReadUploadSigned(r, a) ==
    /\ agreementStatus[a] \in {"DRAFT", "PENDING_SIGNATURE"}
    /\ Arrive(r, "uploading", a)
    /\ UNCHANGED <<legal, bankAccount, conditions, payout>>

(* Mutant: the document goes straight to ACTIVE.                           *)
Activate(a) ==
    /\ agreementStatus' = [agreementStatus EXCEPT ![a] = "ACTIVE"]
    /\ signedAt' = [signedAt EXCEPT ![a] = TRUE]

Sign(a) ==
    /\ agreementStatus' = [agreementStatus EXCEPT ![a] = "SIGNED"]
    /\ signedAt' = [signedAt EXCEPT ![a] = TRUE]

MarkSigned(r) ==
    /\ Return(r, "marking")
    /\ Sign(req[r].on)
    /\ UNCHANGED <<bankAccount, conditions, payout>>

UploadSigned(r) ==
    /\ Return(r, "uploading")
    /\ Sign(req[r].on)
    /\ UNCHANGED <<bankAccount, conditions, payout>>

(* The parent's form may carry a number, an empty one or none.             *)
SubmitBankAccount(r) ==
    /\ Served(r)
    /\ bankAccount' \in BOOLEAN
    /\ UNCHANGED <<legal, conditions, payout>>

-------------------------------------------------------------------------------
(* assertSignedLoanAgreement() and the checklist.                          *)

(* Mutant: a document out for signature counts.                            *)
SentLoanAgreement ==
    \E a \in Agreements :
        agreementStatus[a] \in {"PENDING_SIGNATURE", "SIGNED", "ACTIVE"}

(* No handler writes ACTIVE.                                               *)
SignedLoanAgreement ==
    \E a \in Agreements : agreementStatus[a] \in {"SIGNED", "ACTIVE"}

ReadAddCondition(r) ==
    /\ SignedLoanAgreement
    /\ Arrive(r, "adding", NULL)
    /\ UNCHANGED <<legal, bankAccount, conditions, payout>>

AddCondition(r, c) ==
    /\ conditions[c] = "NONE"
    /\ conditions' = [conditions EXCEPT ![c] = "PENDING"]
    /\ Return(r, "adding")
    /\ UNCHANGED <<legal, bankAccount, payout>>

(* The condition is read first; no handler deletes one.                    *)
ReadUpdateCondition(r, c) ==
    /\ conditions[c] # "NONE"
    /\ SignedLoanAgreement
    /\ Arrive(r, "updating", c)
    /\ UNCHANGED <<legal, bankAccount, conditions, payout>>

UpdateCondition(r) ==
    /\ Return(r, "updating")
    /\ \E status \in {"PENDING", "DONE", "MISSING"} :
         conditions' = [conditions EXCEPT ![req[r].on] = status]
    /\ UNCHANGED <<legal, bankAccount, payout>>

-------------------------------------------------------------------------------
(* confirm().  A gate that does not hold answers 400, which is Fail below. *)

ReadBankAccount(r) ==
    /\ bankAccount
    /\ Arrive(r, "banked", NULL)
    /\ UNCHANGED <<legal, bankAccount, conditions, payout>>

ReadAgreement(r) ==
    /\ SignedLoanAgreement
    /\ Goto(r, "banked", "agreed")
    /\ UNCHANGED <<legal, bankAccount, conditions, payout>>

(* Mutant: only PENDING is counted as not done.                            *)
NonePending == \A c \in Conditions : conditions[c] # "PENDING"

AllDone == \A c \in Conditions : conditions[c] \in {"NONE", "DONE"}

ReadConditions(r) ==
    /\ AllDone
    /\ Goto(r, "agreed", "cleared")
    /\ UNCHANGED <<legal, bankAccount, conditions, payout>>

(* Mutant: the update branch sets the amount instead of incrementing by it.*)
UpsertOverwriting(r) ==
    /\ req[r].pc = "cleared"
    /\ Len(tranches) < MaxTranches
    /\ disbursement' = "PARTIAL"
    /\ \E amount \in Amounts :
         /\ total + amount \in -MaxTotal..MaxTotal
         /\ total' = amount
         /\ req' = [req EXCEPT ![r] = At("raised", amount)]
    /\ UNCHANGED <<legal, bankAccount, conditions, tranches, orphaned, overlapped>>

(* The upsert is one INSERT ... ON CONFLICT DO UPDATE with an increment.   *)
(* Neither the DTO (@IsNumber) nor confirm() looks at the sign or the size *)
(* of the amount: zero and negative ones are paid out like any other.      *)
UpsertDisbursement(r) ==
    /\ req[r].pc = "cleared"
    /\ Len(tranches) < MaxTranches
    /\ disbursement' = "PARTIAL"
    /\ \E amount \in Amounts :
         /\ total + amount \in -MaxTotal..MaxTotal
         /\ total' = total + amount
         /\ req' = [req EXCEPT ![r] = At("raised", amount)]
    /\ UNCHANGED <<legal, bankAccount, conditions, tranches, orphaned, overlapped>>

CreateTranche(r) ==
    /\ tranches' = Append(tranches, req[r].on)
    /\ Return(r, "raised")
    /\ UNCHANGED <<legal, bankAccount, conditions, disbursement, total, orphaned>>

(* A 400, a failed statement or the death of the process ends the request  *)
(* where it is; nothing is rolled back.                                    *)
Fail(r) ==
    /\ req[r] # Idle
    /\ req' = [req EXCEPT ![r] = Idle]
    /\ orphaned' = orphaned + (IF req[r].pc = "raised" THEN req[r].on ELSE 0)
    /\ UNCHANGED <<legal, bankAccount, conditions, disbursement, total, tranches,
                   overlapped>>

-------------------------------------------------------------------------------
LegalStep(r) ==
    \/ \E a \in Agreements :
         \/ CreateAgreement(r, a) \/ ReadSendToSign(r, a)
         \/ ReadMarkSigned(r, a)  \/ ReadUploadSigned(r, a)
    \/ SendToSign(r) \/ MarkSigned(r) \/ UploadSigned(r)

ChecklistStep(r) ==
    \/ ReadAddCondition(r)
    \/ \E c \in Conditions : AddCondition(r, c) \/ ReadUpdateCondition(r, c)
    \/ UpdateCondition(r)

ConfirmStep(r) ==
    \/ ReadBankAccount(r)    \/ ReadAgreement(r) \/ ReadConditions(r)
    \/ UpsertDisbursement(r) \/ CreateTranche(r)

Next == \E r \in Requests :
    LegalStep(r) \/ ChecklistStep(r) \/ ConfirmStep(r)
        \/ SubmitBankAccount(r) \/ Fail(r)

Spec == Init /\ [][Next]_vars

-------------------------------------------------------------------------------
(* Properties.                                                             *)

DocumentPc  == {"sending", "marking", "uploading"}
GatedPc     == {"adding", "agreed", "cleared"}

RequestType ==
    {Idle} \cup [pc : DocumentPc, on : Agreements]
           \cup [pc : {"banked"} \cup GatedPc, on : {NULL}]
           \cup [pc : {"updating"}, on : Conditions]
           \cup [pc : {"raised"}, on : Amounts]

TypeOK ==
    /\ agreementStatus \in
         [Agreements -> {"NONE", "DRAFT", "PENDING_SIGNATURE", "SIGNED"}]
    /\ signedAt \in [Agreements -> BOOLEAN]
    /\ bankAccount \in BOOLEAN
    /\ conditions \in [Conditions -> {"NONE", "PENDING", "DONE", "MISSING"}]
    /\ disbursement \in {"NONE", "PARTIAL"}
    /\ total \in Int
    /\ tranches \in Seq(Amounts)
    /\ orphaned \in Int
    /\ req \in [Requests -> RequestType]
    /\ overlapped \in BOOLEAN

(* Until somebody has signed a Loan Agreement there is no condition and no *)
(* payout, nor a request past the gate, whichever requests overlap         *)
(* (assertSignedLoanAgreement is shared by addCondition, updateCondition   *)
(* and confirm), though the gate reads a status that a racing sendToSign() *)
(* may take back.                                                          *)
NothingBeforeSigning ==
    (\A a \in Agreements : ~signedAt[a]) =>
        /\ disbursement = "NONE" /\ total = 0 /\ tranches = <<>>
        /\ \A c \in Conditions : conditions[c] = "NONE"

(* Concurrent confirms lose no increment and count none twice: the total   *)
(* is what the tranches add up to, the payouts whose tranche is still      *)
(* being recorded, and those whose request died before recording it        *)
(* (totalDisbursedAmount is raised by an atomic increment).                *)
Plus(x, y) == x + y
Raised(r)  == IF req[r].pc = "raised" THEN req[r].on ELSE 0

TotalAccounted ==
    total = FoldLeft(Plus, 0, tranches) + orphaned
                + MapThenSumSet(Raised, Requests)

(* A payout leaves, whatever its amount, only while the bank account is on *)
(* file, an agreement is signed and every condition is done (the three     *)
(* checks of confirm()).  Holds as long as no requests overlap.            *)
PaysOut(r) == req[r].pc = "cleared" /\ req'[r].pc = "raised"

PaysOnlyWhenReady ==
    [][~overlapped /\ (total' # total \/ \E r \in Requests : PaysOut(r)) =>
          /\ bankAccount
          /\ \E a \in Agreements : agreementStatus[a] = "SIGNED"
          /\ \A c \in Conditions : conditions[c] \in {"NONE", "DONE"}]_vars

===============================================================================
