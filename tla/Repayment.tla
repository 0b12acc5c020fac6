------------------------------- MODULE Repayment -------------------------------
(***************************************************************************)
(* The repayment of one loan: its EMI schedule, the payments recorded      *)
(* against it, the LoanAccount's review and clearance                      *)
(* (dashboard/repayment/dashboard-repayment.service.ts), and the daily job *)
(* that marks installments overdue and accrues penal interest              *)
(* (dashboard/jobs/dashboard-jobs.service.ts).                             *)
(*                                                                         *)
(* Amounts are abstracted to whether a payment covers its installment, and *)
(* penal interest to the number of days it was accrued for.  Days count    *)
(* from the first due date, and installment n is due on day n - 1, as with *)
(* a configured emiStartDate.  The job's reminders and its classification  *)
(* of loans, which no handler here reads, are in Collections.              *)
(***************************************************************************)
EXTENDS Naturals, FiniteSets, Functions

CONSTANTS Requests,         \* the HTTP requests that may be in flight at once
          Installments,     \* how many a schedule has
          MaxSchedules,     \* bound: schedules generated
          MaxDay            \* bound: days that pass

ASSUME BoundsAssumption == /\ Installments \in Nat \ {0}
                           /\ MaxSchedules \in Nat
                           /\ MaxDay \in Nat

(* A row is identified by the generation that inserted it and its number.  *)
EntryId == [schedule : 1 .. MaxSchedules, number : 1 .. Installments]
EmiStatus == {"UPCOMING", "PARTIAL", "PAID", "OVERDUE"}
AccountStatus == {"NONE", "ACTIVE", "NEEDS_REVIEW", "CLEARED"}
Pc == {"idle", "deleting", "creating", "paying", "counting", "autoClearing",
       "flagging", "resolving", "countingForClearance", "clearing"}
CronPc == {"idle", "markingOverdue", "marked", "accruing"}

VARIABLES
    account,        \* LoanAccount.status, NONE before approve() creates it
    entries,        \* the rows of emi_schedule_entries: id -> status, penal
    schedules,      \* schedules inserted so far
    day,            \* days since the first due date
    lastRun,        \* the day the job last started
    req,            \* per request: where it is, and the payment it records
    cron,           \* where the job is, and what it read
    reopened,       \* the account became ACTIVE with everything already paid
    failed,         \* a request died after recording a payment
    overlapped      \* history: two requests have been in flight at once

rows == <<account, entries, schedules, day, lastRun, req, cron, reopened, failed>>
vars == <<rows, overlapped>>

NoEntries == [e \in {} |-> [status |-> "UPCOMING", penal |-> 0]]
NoPayment == [schedule |-> 0, number |-> 0]
Idle == [pc |-> "idle", entry |-> NoPayment, full |-> FALSE]

Init ==
    /\ account = "NONE"
    /\ entries = NoEntries
    /\ schedules = 0
    /\ day = 0
    /\ lastRun = 0
    /\ req = [r \in Requests |-> Idle]
    /\ cron = [pc |-> "idle", seen |-> NoEntries]
    /\ reopened = FALSE
    /\ failed = FALSE
    /\ overlapped = FALSE

Unpaid  == {e \in DOMAIN entries : entries[e].status # "PAID"}
AllPaid == DOMAIN entries # {} /\ Unpaid = {}

At(r, pc) == req[r].pc = pc
Goto(r, pc) == req' = [req EXCEPT ![r].pc = pc]
Return(r) == req' = [req EXCEPT ![r] = Idle]

(* What a request that only moves on leaves alone.                         *)
RowsKept == UNCHANGED <<account, entries, schedules, day, lastRun, cron,
                        reopened, failed>>

(* approve() creates the account (Approval), schedule or no schedule.      *)
OpenAccount ==
    /\ account = "NONE"
    /\ account' = "ACTIVE"
    /\ reopened' = AllPaid
    /\ UNCHANGED <<entries, schedules, day, lastRun, req, cron, failed>>

-------------------------------------------------------------------------------
(* generateSchedule(), called alone or at the end of configureServicing(): *)
(* the terms are read, then deleteMany, then createMany.                   *)

ReadGenerate(r) ==
    /\ At(r, "idle")
    /\ Goto(r, "deleting")
    /\ RowsKept

ReadConfigureServicing(r) ==
    /\ At(r, "idle")
    /\ account \in {"ACTIVE", "NEEDS_REVIEW"}
    /\ Goto(r, "deleting")
    /\ RowsKept

DeleteSchedule(r) ==
    /\ At(r, "deleting")
    /\ entries' = NoEntries
    /\ Goto(r, "creating")
    /\ UNCHANGED <<account, schedules, day, lastRun, cron, reopened, failed>>

CreateSchedule(r) ==
    /\ At(r, "creating")
    /\ schedules < MaxSchedules
    /\ LET new == [schedule : {schedules + 1}, number : 1 .. Installments]
       IN entries' = [e \in DOMAIN entries \cup new |->
                        IF e \in new THEN [status |-> "UPCOMING", penal |-> 0]
                        ELSE entries[e]]
    /\ schedules' = schedules + 1
    /\ reopened' = FALSE
    /\ failed' = FALSE
    /\ Return(r)
    /\ UNCHANGED <<account, day, lastRun, cron>>

-------------------------------------------------------------------------------
(* markPaid(): the row is read, written, and if it is now fully paid the   *)
(* unpaid rows are counted; none left clears an ACTIVE account.            *)

ReadMarkPaid(r) ==
    /\ At(r, "idle")
    /\ \E e \in DOMAIN entries, full \in BOOLEAN :
          req' = [req EXCEPT ![r] = [pc |-> "paying", entry |-> e, full |-> full]]
    /\ RowsKept

(* Mutant: a full payment is recorded as SETTLED.                          *)
RecordSettled(r) ==
    /\ At(r, "paying")
    /\ req[r].entry \in DOMAIN entries
    /\ entries' = [entries EXCEPT ![req[r].entry].status =
                       IF req[r].full THEN "SETTLED" ELSE "PARTIAL"]
    /\ IF req[r].full THEN Goto(r, "counting") ELSE Return(r)
    /\ UNCHANGED <<account, schedules, day, lastRun, cron, reopened, failed>>

RecordPayment(r) ==
    /\ At(r, "paying")
    /\ req[r].entry \in DOMAIN entries
    /\ entries' = [entries EXCEPT ![req[r].entry].status =
                       IF req[r].full THEN "PAID" ELSE "PARTIAL"]
    /\ IF req[r].full THEN Goto(r, "counting") ELSE Return(r)
    /\ UNCHANGED <<account, schedules, day, lastRun, cron, reopened, failed>>

(* The row was deleted since: the update finds nothing and throws.         *)
PaymentOnDeletedEntry(r) ==
    /\ At(r, "paying")
    /\ req[r].entry \notin DOMAIN entries
    /\ Return(r)
    /\ RowsKept

(* Mutant: only the last installment's payment looks for the others.       *)
CountAfterLast(r) ==
    /\ At(r, "counting")
    /\ IF Unpaid = {} /\ req[r].entry.number = Installments
         THEN Goto(r, "autoClearing") ELSE Return(r)
    /\ RowsKept

CountRemaining(r) ==
    /\ At(r, "counting")
    /\ IF Unpaid = {} THEN Goto(r, "autoClearing") ELSE Return(r)
    /\ RowsKept

(* updateMany where status is ACTIVE: check and write in one statement.    *)
AutoClear(r) ==
    /\ At(r, "autoClearing")
    /\ account' = IF account = "ACTIVE" THEN "CLEARED" ELSE account
    /\ Return(r)
    /\ UNCHANGED <<entries, schedules, day, lastRun, cron, reopened, failed>>

-------------------------------------------------------------------------------
(* flagNeedsReview(), resolveReview() and completeClearance().             *)

(* Mutant: a cleared loan can be flagged.                                  *)
ReadFlagAny(r) ==
    /\ At(r, "idle")
    /\ account # "NONE"
    /\ Goto(r, "flagging")
    /\ RowsKept

ReadFlagNeedsReview(r) ==
    /\ At(r, "idle")
    /\ account \in {"ACTIVE", "NEEDS_REVIEW"}
    /\ Goto(r, "flagging")
    /\ RowsKept

FlagNeedsReview(r) ==
    /\ At(r, "flagging")
    /\ account' = "NEEDS_REVIEW"
    /\ Return(r)
    /\ UNCHANGED <<entries, schedules, day, lastRun, cron, reopened, failed>>

ReadResolveReview(r) ==
    /\ At(r, "idle")
    /\ account = "NEEDS_REVIEW"
    /\ Goto(r, "resolving")
    /\ RowsKept

ResolveReview(r) ==
    /\ At(r, "resolving")
    /\ account' = "ACTIVE"
    /\ reopened' = (reopened \/ AllPaid)
    /\ Return(r)
    /\ UNCHANGED <<entries, schedules, day, lastRun, cron, failed>>

ReadCompleteClearance(r) ==
    /\ At(r, "idle")
    /\ account \in {"ACTIVE", "NEEDS_REVIEW"}
    /\ Goto(r, "countingForClearance")
    /\ RowsKept

CountForClearance(r) ==
    /\ At(r, "countingForClearance")
    /\ IF Unpaid = {} THEN Goto(r, "clearing") ELSE Return(r)
    /\ RowsKept

CompleteClearance(r) ==
    /\ At(r, "clearing")
    /\ account' = "CLEARED"
    /\ Return(r)
    /\ UNCHANGED <<entries, schedules, day, lastRun, cron, reopened, failed>>

-------------------------------------------------------------------------------
(* runDailyEmiJob(): once a day, each step a read and a later write.       *)

NextDay ==
    /\ day < MaxDay
    /\ day' = day + 1
    /\ UNCHANGED <<account, entries, schedules, lastRun, req, cron, reopened,
                   failed>>

DueDay(e) == e.number - 1

CronGoto(pc, seen) == cron' = [pc |-> pc, seen |-> seen]

CronReadDue ==
    /\ cron.pc = "idle"
    /\ lastRun < day
    /\ lastRun' = day
    /\ CronGoto("markingOverdue",
                Restrict(entries,
                         {e \in DOMAIN entries :
                             /\ entries[e].status \in {"UPCOMING", "PARTIAL"}
                             /\ DueDay(e) < day}))
    /\ UNCHANGED <<account, entries, schedules, day, req, reopened, failed>>

(* updateMany by id: it looks at no status, and skips deleted rows.        *)
CronMarkOverdue ==
    /\ cron.pc = "markingOverdue"
    /\ entries' = [e \in DOMAIN entries |->
                      IF e \in DOMAIN cron.seen
                        THEN [entries[e] EXCEPT !.status = "OVERDUE"]
                        ELSE entries[e]]
    /\ CronGoto("marked", NoEntries)
    /\ UNCHANGED <<account, schedules, day, lastRun, req, reopened, failed>>

(* Mutant: penal interest accrues on anything unpaid.                      *)
CronReadUnpaid ==
    /\ cron.pc = "marked"
    /\ CronGoto("accruing", Restrict(entries, Unpaid))
    /\ UNCHANGED <<account, entries, schedules, day, lastRun, req, reopened,
                   failed>>

CronReadOverdue ==
    /\ cron.pc = "marked"
    /\ CronGoto("accruing",
                Restrict(entries, {e \in DOMAIN entries :
                                      entries[e].status = "OVERDUE"}))
    /\ UNCHANGED <<account, entries, schedules, day, lastRun, req, reopened,
                   failed>>

(* One $transaction of updates by id: a deleted row rolls all of it back.  *)
CronAccrue ==
    /\ cron.pc = "accruing"
    /\ entries' = IF DOMAIN cron.seen \subseteq DOMAIN entries
                    THEN [e \in DOMAIN entries |->
                            IF e \in DOMAIN cron.seen
                              THEN [entries[e] EXCEPT
                                      !.penal = cron.seen[e].penal + 1]
                              ELSE entries[e]]
                    ELSE entries
    /\ CronGoto("idle", NoEntries)
    /\ UNCHANGED <<account, schedules, day, lastRun, req, reopened, failed>>

-------------------------------------------------------------------------------
(* A statement fails, or the process dies, in a request or in the job.     *)
Fail(r) ==
    /\ ~At(r, "idle")
    /\ failed' = (failed \/ At(r, "counting") \/ At(r, "autoClearing"))
    /\ Return(r)
    /\ UNCHANGED <<account, entries, schedules, day, lastRun, cron, reopened>>

CronFail ==
    /\ cron.pc # "idle"
    /\ CronGoto("idle", NoEntries)
    /\ UNCHANGED <<account, entries, schedules, day, lastRun, req, reopened,
                   failed>>

Start(r) ==
    \/ ReadGenerate(r)        \/ ReadConfigureServicing(r) \/ ReadMarkPaid(r)
    \/ ReadFlagNeedsReview(r) \/ ReadResolveReview(r)
    \/ ReadCompleteClearance(r)

Proceed(r) ==
    \/ DeleteSchedule(r)  \/ CreateSchedule(r)    \/ RecordPayment(r)
    \/ PaymentOnDeletedEntry(r) \/ CountRemaining(r) \/ AutoClear(r)
    \/ FlagNeedsReview(r) \/ ResolveReview(r)     \/ CountForClearance(r)
    \/ CompleteClearance(r)

Job == CronReadDue \/ CronMarkOverdue \/ CronReadOverdue \/ CronAccrue

Step ==
    \/ \E r \in Requests : Start(r) \/ Proceed(r) \/ Fail(r)
    \/ OpenAccount \/ NextDay \/ Job \/ CronFail

Overlap == \E q, r \in Requests : q # r /\ req[q] # Idle /\ req[r] # Idle

Next == Step /\ overlapped' = (overlapped \/ Overlap')

Spec == Init /\ [][Next]_vars

-------------------------------------------------------------------------------
(* Properties.                                                             *)

Row == [status : EmiStatus, penal : Nat]

TypeOK ==
    /\ account \in AccountStatus
    /\ DOMAIN entries \subseteq EntryId
    /\ \A e \in DOMAIN entries : entries[e] \in Row
    /\ schedules \in 0 .. MaxSchedules
    /\ day \in 0 .. MaxDay
    /\ lastRun \in 0 .. day
    /\ req \in [Requests -> [pc : Pc, entry : EntryId \cup {NoPayment},
                             full : BOOLEAN]]
    /\ cron.pc \in CronPc
    /\ DOMAIN cron.seen \subseteq EntryId
    /\ \A e \in DOMAIN cron.seen : cron.seen[e] \in Row
    /\ reopened \in BOOLEAN
    /\ failed \in BOOLEAN
    /\ overlapped \in BOOLEAN

(* Whichever payments arrive last, and however they overlap with each      *)
(* other, with the job and with a review, an ACTIVE loan whose schedule is *)
(* fully paid is about to be cleared by one of them, unless that request   *)
(* failed, or it became ACTIVE only after the last payment (markPaid       *)
(* counts after it writes).                                                *)
NoMissedClearance ==
    (account = "ACTIVE" /\ AllPaid) =>
        \/ reopened
        \/ failed
        \/ \E r \in Requests : req[r].pc \in {"counting", "autoClearing"}

(* Penal interest is never accrued for more days than the installment is   *)
(* late, whatever payments, deletions and failures the job runs into       *)
(* (markOverdueEntries, then accruePenalInterest).                         *)
NoPenalBeforeDue ==
    \A e \in DOMAIN entries :
        entries[e].penal > 0 => entries[e].penal <= day - DueDay(e)

(* As long as no requests overlap, though the job may run between their    *)
(* statements, a cleared loan stays cleared (flagNeedsReview and the other *)
(* guards).                                                                *)
ClearedIsFinal ==
    [][account = "CLEARED" /\ ~overlapped => account' = "CLEARED"]_vars

===============================================================================
