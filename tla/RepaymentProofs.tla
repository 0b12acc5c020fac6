---------------------------- MODULE RepaymentProofs ----------------------------
(***************************************************************************)
(* Theorems about the repayment of a loan, for every number of concurrent  *)
(* requests, of installments, of schedules and of days: its state is well  *)
(* typed, the last payment clears the loan, penal interest is for days     *)
(* late, and until requests overlap a cleared loan stays cleared.          *)
(***************************************************************************)
EXTENDS Repayment, TLAPS

USE BoundsAssumption DEF At, Goto, Return, RowsKept, CronGoto

RequestType == [pc : Pc, entry : EntryId \cup {NoPayment}, full : BOOLEAN]

-------------------------------------------------------------------------------
(* Types.                                                                  *)

(* A request is in its type, and so is one that returned or moved on.      *)
LEMMA RequestMoves ==
    ASSUME TypeOK, NEW r \in Requests
    PROVE  /\ req \in [Requests -> RequestType]
           /\ Idle \in RequestType
           /\ Return(r) => req' \in [Requests -> RequestType]
           /\ \A pc \in Pc : Goto(r, pc) => req' \in [Requests -> RequestType]
<1>1. Idle \in RequestType
  BY DEF Idle, RequestType, Pc
<1>2. req \in [Requests -> RequestType]
  BY DEF TypeOK, RequestType
<1>3. ASSUME NEW pc \in Pc PROVE [req[r] EXCEPT !.pc = pc] \in RequestType
  BY <1>2, <1>3 DEF RequestType
<1>4. QED
  BY <1>1, <1>2, <1>3

(* Recording a payment changes the status of one row.                      *)
LEMMA PaymentWritesOneRow ==
    ASSUME TypeOK, NEW r \in Requests, RecordPayment(r)
    PROVE  /\ DOMAIN entries' = DOMAIN entries
           /\ \A e \in DOMAIN entries :
                 entries'[e] = IF e = req[r].entry
                               THEN [status |-> IF req[r].full THEN "PAID"
                                                ELSE "PARTIAL",
                                     penal  |-> entries[e].penal]
                               ELSE entries[e]
BY DEF RecordPayment, TypeOK, Row

(* Every reachable state of the repayment is well typed.                   *)
THEOREM TypeCorrect == Spec => []TypeOK
<1>1. Init => TypeOK
  <2> SUFFICES ASSUME Init PROVE TypeOK
    OBVIOUS
  <2>1. Idle \in RequestType
    BY DEF Idle, RequestType, Pc
  <2>2. req \in [Requests -> RequestType]
    BY <2>1 DEF Init
  <2>3. DOMAIN entries = {} /\ cron.pc \in CronPc /\ DOMAIN cron.seen = {}
    BY DEF Init, NoEntries, CronPc
  <2>4. account \in AccountStatus
    BY DEF Init, AccountStatus
  <2>5. /\ schedules \in 0 .. MaxSchedules
        /\ day \in 0 .. MaxDay
        /\ lastRun \in 0 .. day
    BY DEF Init
  <2>6. {reopened, failed, overlapped} \subseteq BOOLEAN
    BY DEF Init
  <2>7. QED
    BY <2>2, <2>3, <2>4, <2>5, <2>6 DEF TypeOK, RequestType
<1>2. TypeOK /\ [Next]_vars => TypeOK'
  <2> SUFFICES ASSUME TypeOK, [Next]_vars PROVE TypeOK'
    OBVIOUS
  <2>2. ASSUME NEW r \in Requests, Start(r), Next PROVE TypeOK'
    <3>1. req' \in [Requests -> RequestType]
      BY <2>2 DEF Start, ReadGenerate, ReadConfigureServicing, ReadMarkPaid,
         ReadFlagNeedsReview, ReadResolveReview, ReadCompleteClearance,
         TypeOK, RequestType, Pc
    <3>2. UNCHANGED <<account, entries, schedules, day, lastRun, cron,
                      reopened, failed>>
      BY <2>2 DEF Start, ReadGenerate, ReadConfigureServicing, ReadMarkPaid,
         ReadFlagNeedsReview, ReadResolveReview, ReadCompleteClearance
    <3>3. QED
      BY <2>2, <3>1, <3>2 DEF TypeOK, RequestType, Next
  <2>3. ASSUME NEW r \in Requests, Proceed(r), Next PROVE TypeOK'
    <3>1. req' \in [Requests -> RequestType]
      <4>1. \/ Return(r)
            \/ \E pc \in {"creating", "counting", "autoClearing", "clearing"} :
                  Goto(r, pc)
        BY <2>3 DEF Proceed, DeleteSchedule, CreateSchedule, RecordPayment,
           PaymentOnDeletedEntry, CountRemaining, AutoClear, FlagNeedsReview,
           ResolveReview, CountForClearance, CompleteClearance
      <4>2. QED
        BY <4>1, RequestMoves DEF Pc
    <3>2. UNCHANGED <<day, lastRun, cron>>
      BY <2>3 DEF Proceed, DeleteSchedule, CreateSchedule, RecordPayment,
         PaymentOnDeletedEntry, CountRemaining, AutoClear, FlagNeedsReview,
         ResolveReview, CountForClearance, CompleteClearance
    <3>3. CASE DeleteSchedule(r)
      BY <2>3, <3>1, <3>2, <3>3 DEF DeleteSchedule, TypeOK, NoEntries,
         RequestType, Next
    <3>4. CASE CreateSchedule(r)
      <4> DEFINE new == [schedule : {schedules + 1}, number : 1 .. Installments]
      <4>1. schedules + 1 \in 1 .. MaxSchedules /\ new \subseteq EntryId
        BY <3>4 DEF CreateSchedule, TypeOK, EntryId
      <4>2. entries' = [e \in DOMAIN entries \cup new |->
                          IF e \in new THEN [status |-> "UPCOMING", penal |-> 0]
                          ELSE entries[e]]
        BY <3>4 DEF CreateSchedule
      <4> HIDE DEF new
      <4>3. /\ DOMAIN entries' \subseteq EntryId
            /\ \A e \in DOMAIN entries' : entries'[e] \in Row
        BY <4>1, <4>2 DEF TypeOK, Row, EmiStatus
      <4>4. UNCHANGED account /\ {reopened', failed'} \subseteq BOOLEAN
        BY <3>4 DEF CreateSchedule
      <4>5. schedules' \in 0 .. MaxSchedules
        BY <3>4, <4>1 DEF CreateSchedule, TypeOK
      <4>6. QED
        BY <2>3, <3>1, <3>2, <4>3, <4>4, <4>5 DEF TypeOK, RequestType, Next
    <3>5. CASE RecordPayment(r)
      <4>1. /\ DOMAIN entries' = DOMAIN entries
            /\ \A e \in DOMAIN entries : entries'[e] \in Row
        <5>1. DOMAIN entries' = DOMAIN entries
          BY <3>5, PaymentWritesOneRow
        <5>2. ASSUME NEW e \in DOMAIN entries PROVE entries'[e] \in Row
          <6>1. entries[e] \in Row
            BY DEF TypeOK
          <6>2. CASE e = req[r].entry
            <7>1. entries'[e] = [status |-> IF req[r].full THEN "PAID"
                                            ELSE "PARTIAL",
                                 penal  |-> entries[e].penal]
              BY <3>5, <6>2, PaymentWritesOneRow
            <7>2. QED
              BY <6>1, <7>1 DEF Row, EmiStatus
          <6>3. CASE e # req[r].entry
            BY <3>5, <6>1, <6>3, PaymentWritesOneRow
          <6>4. QED
            BY <6>2, <6>3
        <5>3. QED
          BY <5>1, <5>2
      <4>2. UNCHANGED <<account, schedules, reopened, failed>>
        BY <3>5 DEF RecordPayment
      <4>3. QED
        BY <2>3, <3>1, <3>2, <4>1, <4>2 DEF TypeOK, RequestType, Next
    <3>6. CASE PaymentOnDeletedEntry(r) \/ CountRemaining(r)
               \/ CountForClearance(r)
      BY <2>3, <3>1, <3>2, <3>6 DEF PaymentOnDeletedEntry, CountRemaining,
         CountForClearance, TypeOK, RequestType, Next
    <3>7. CASE AutoClear(r) \/ FlagNeedsReview(r) \/ ResolveReview(r)
               \/ CompleteClearance(r)
      BY <2>3, <3>1, <3>2, <3>7 DEF AutoClear, FlagNeedsReview,
         ResolveReview, CompleteClearance, TypeOK, AccountStatus,
         RequestType, Next, AllPaid
    <3>8. QED
      BY <2>3, <3>3, <3>4, <3>5, <3>6, <3>7 DEF Proceed
  <2>4. ASSUME NEW r \in Requests, Fail(r), Next PROVE TypeOK'
    <3>1. req' \in [Requests -> RequestType]
      BY <2>4, RequestMoves DEF Fail
    <3>2. QED
      BY <2>4, <3>1 DEF Fail, TypeOK, Next, RequestType
  <2>5. ASSUME OpenAccount \/ NextDay, Next PROVE TypeOK'
    <3>1. CASE OpenAccount
      <4>1. account' \in AccountStatus /\ reopened' \in BOOLEAN
        BY <3>1 DEF OpenAccount, AccountStatus, AllPaid
      <4>2. QED
        BY <2>5, <3>1, <4>1 DEF OpenAccount, TypeOK, Next
    <3>2. CASE NextDay
      BY <2>5, <3>2 DEF NextDay, TypeOK, Next
    <3>3. QED
      BY <2>5, <3>1, <3>2
  <2>6. ASSUME Job \/ CronFail, Next PROVE TypeOK'
    <3>1. UNCHANGED <<account, schedules, day, req, reopened, failed>>
      BY <2>6 DEF Job, CronReadDue, CronMarkOverdue, CronReadOverdue,
         CronAccrue, CronFail
    <3>2. CASE CronReadDue
      BY <2>6, <3>1, <3>2 DEF CronReadDue, Restrict, TypeOK, Next, CronPc
    <3>3. CASE CronMarkOverdue
      <4>1. /\ DOMAIN entries' = DOMAIN entries
            /\ \A e \in DOMAIN entries : entries'[e] \in Row
        BY <3>3 DEF CronMarkOverdue, TypeOK, Row, EmiStatus
      <4>2. QED
        BY <2>6, <3>1, <3>3, <4>1 DEF CronMarkOverdue, TypeOK, Next, CronPc,
           NoEntries
    <3>4. CASE CronReadOverdue
      BY <2>6, <3>1, <3>4 DEF CronReadOverdue, Restrict, TypeOK, Next, CronPc
    <3>5. CASE CronAccrue
      <4>1. /\ DOMAIN entries' = DOMAIN entries
            /\ \A e \in DOMAIN entries : entries'[e] \in Row
        BY <3>5 DEF CronAccrue, TypeOK, Row
      <4>2. QED
        BY <2>6, <3>1, <3>5, <4>1 DEF CronAccrue, TypeOK, Next, CronPc,
           NoEntries
    <3>6. CASE CronFail
      BY <2>6, <3>1, <3>6 DEF CronFail, TypeOK, Next, CronPc, NoEntries
    <3>7. QED
      BY <2>6, <3>2, <3>3, <3>4, <3>5, <3>6 DEF Job
  <2>7. CASE UNCHANGED vars
    BY <2>7 DEF vars, rows, TypeOK
  <2>8. QED
    BY <2>2, <2>3, <2>4, <2>5, <2>6, <2>7 DEF Next, Step
<1>3. QED
  BY <1>1, <1>2, PTL DEF Spec

-------------------------------------------------------------------------------
(* NoMissedClearance is inductive beside the types: whoever counts an      *)
(* unpaid row finds one, and the payment of that row is yet to come.       *)

(* Whichever payment comes last, it clears the loan or is about to.        *)
THEOREM LastPaymentClears == Spec => []NoMissedClearance
<1>1. Init => NoMissedClearance
  BY DEF Init, NoMissedClearance
<1>2. TypeOK /\ NoMissedClearance /\ [Next]_vars => NoMissedClearance'
  <2> SUFFICES ASSUME TypeOK, NoMissedClearance, [Next]_vars,
                      account' = "ACTIVE", AllPaid'
               PROVE  \/ reopened' \/ failed'
                      \/ \E r \in Requests :
                            req'[r].pc \in {"counting", "autoClearing"}
    BY DEF NoMissedClearance
  <2> DEFINE Counting(r) == req[r].pc \in {"counting", "autoClearing"}
             Goal == reopened' \/ failed' \/ \E r \in Requests : Counting(r)'
  <2>1. req \in [Requests -> RequestType]
    BY DEF TypeOK, RequestType
  <2>2. ASSUME NEW r \in Requests, ~Counting(r),
               account = "ACTIVE", AllPaid,
               UNCHANGED <<reopened, failed>>,
               \A q \in Requests \ {r} : req'[q] = req[q]
        PROVE  Goal
    BY <2>2 DEF NoMissedClearance
  <2>3. ASSUME NEW r \in Requests, Start(r) PROVE Goal
    <3>1. ~Counting(r) /\ UNCHANGED <<account, entries, reopened, failed>>
      BY <2>3 DEF Start, ReadGenerate, ReadConfigureServicing, ReadMarkPaid,
         ReadFlagNeedsReview, ReadResolveReview, ReadCompleteClearance
    <3>2. \A q \in Requests \ {r} : req'[q] = req[q]
      BY <2>1, <2>3 DEF Start, ReadGenerate, ReadConfigureServicing,
         ReadMarkPaid, ReadFlagNeedsReview, ReadResolveReview,
         ReadCompleteClearance
    <3>3. QED
      BY <2>2, <3>1, <3>2 DEF AllPaid, Unpaid
  <2>4. ASSUME NEW r \in Requests, Proceed(r) PROVE Goal
    <3>1. \A q \in Requests \ {r} : req'[q] = req[q]
      BY <2>1, <2>4 DEF Proceed, DeleteSchedule, CreateSchedule,
         RecordPayment, PaymentOnDeletedEntry, CountRemaining, AutoClear,
         FlagNeedsReview, ResolveReview, CountForClearance, CompleteClearance
    <3>2. CASE DeleteSchedule(r)
      BY <3>2 DEF DeleteSchedule, NoEntries, AllPaid
    <3>3. CASE CreateSchedule(r)
      <4> DEFINE new == [schedule : {schedules + 1}, number : 1 .. Installments]
                 one == [schedule |-> schedules + 1, number |-> 1]
      <4>1. one \in new
        OBVIOUS
      <4>2. entries' = [e \in DOMAIN entries \cup new |->
                          IF e \in new THEN [status |-> "UPCOMING", penal |-> 0]
                          ELSE entries[e]]
        BY <3>3 DEF CreateSchedule
      <4> HIDE DEF new, one
      <4>3. one \in Unpaid'
        BY <4>1, <4>2 DEF Unpaid
      <4>4. QED
        BY <4>3 DEF AllPaid
    <3>4. CASE RecordPayment(r)
      <4>1. CASE req[r].full
        BY <2>1, <3>4, <4>1 DEF RecordPayment, RequestType
      <4>2. CASE ~req[r].full
        <5>1. req[r].entry \in Unpaid'
          BY <3>4, <4>2, PaymentWritesOneRow DEF RecordPayment, Unpaid
        <5>2. QED
          BY <5>1 DEF AllPaid
      <4>3. QED
        BY <4>1, <4>2
    <3>5. CASE CountRemaining(r)
      <4>1. UNCHANGED <<account, entries>> /\ Unpaid = {}
        BY <3>5 DEF CountRemaining, AllPaid, Unpaid
      <4>2. Counting(r)'
        BY <2>1, <3>5, <4>1 DEF CountRemaining, RequestType
      <4>3. QED
        BY <4>2
    <3>6. CASE AutoClear(r)
      BY <3>6 DEF AutoClear
    <3>7. CASE ResolveReview(r)
      BY <3>7 DEF ResolveReview, AllPaid, Unpaid
    <3>8. CASE FlagNeedsReview(r) \/ CompleteClearance(r)
      BY <3>8 DEF FlagNeedsReview, CompleteClearance
    <3>9. CASE PaymentOnDeletedEntry(r) \/ CountForClearance(r)
      <4>1. ~Counting(r) /\ UNCHANGED <<account, entries, reopened, failed>>
        BY <3>9 DEF PaymentOnDeletedEntry, CountForClearance
      <4>2. QED
        BY <2>2, <3>1, <4>1 DEF AllPaid, Unpaid
    <3>10. QED
      BY <2>4, <3>2, <3>3, <3>4, <3>5, <3>6, <3>7, <3>8, <3>9 DEF Proceed
  <2>5. ASSUME NEW r \in Requests, Fail(r) PROVE Goal
    <3>1. CASE Counting(r)
      BY <2>5, <3>1 DEF Fail
    <3>2. CASE ~Counting(r)
      <4>1. failed' = failed /\ UNCHANGED <<account, entries, reopened>>
        BY <2>5, <3>2 DEF Fail, TypeOK
      <4>2. \A q \in Requests \ {r} : req'[q] = req[q]
        BY <2>1, <2>5 DEF Fail
      <4>3. QED
        BY <2>2, <3>2, <4>1, <4>2 DEF AllPaid, Unpaid
    <3>3. QED
      BY <3>1, <3>2
  <2>6. CASE OpenAccount
    BY <2>6 DEF OpenAccount, AllPaid, Unpaid
  <2>7. CASE NextDay \/ Job \/ CronFail
    <3>1. UNCHANGED <<account, req, reopened, failed>>
      BY <2>7 DEF NextDay, Job, CronReadDue, CronMarkOverdue,
         CronReadOverdue, CronAccrue, CronFail
    <3>2. AllPaid
      <4>1. /\ DOMAIN entries' = DOMAIN entries
            /\ \A e \in DOMAIN entries :
                  entries[e].status = "PAID" \/ entries'[e].status # "PAID"
        BY <2>7 DEF NextDay, Job, CronReadDue, CronMarkOverdue,
           CronReadOverdue, CronAccrue, CronFail, TypeOK, Row
      <4>2. QED
        BY <4>1 DEF AllPaid, Unpaid
    <3>3. QED
      BY <3>1, <3>2 DEF NoMissedClearance
  <2>8. CASE UNCHANGED vars
    BY <2>8 DEF vars, rows, NoMissedClearance, AllPaid, Unpaid
  <2>9. QED
    BY <2>3, <2>4, <2>5, <2>6, <2>7, <2>8 DEF Next, Step
<1>3. QED
  BY <1>1, <1>2, TypeCorrect, PTL DEF Spec

-------------------------------------------------------------------------------
(* The strengthening of NoPenalBeforeDue, counted to the day of the job's  *)
(* last run, of which day it is never ahead.                               *)

(* What is overdue was due before that day, and penal interest grew only   *)
(* on the runs since.                                                      *)
PenalWithinRuns ==
    \A e \in DOMAIN entries :
        /\ entries[e].status = "OVERDUE" => DueDay(e) < lastRun
        /\ entries[e].penal > 0 => entries[e].penal <= lastRun - DueDay(e)

(* Until the run has accrued, there is room for its own day.               *)
RoomToAccrue ==
    cron.pc # "idle" =>
        \A e \in DOMAIN entries :
            entries[e].penal > 0 => entries[e].penal < lastRun - DueDay(e)

(* What the job has read may be written back whatever has happened since.  *)
SeenMayBeWritten ==
    \A e \in DOMAIN cron.seen :
        /\ cron.pc = "markingOverdue" => DueDay(e) < lastRun
        /\ cron.pc = "accruing" => cron.seen[e].penal + 1 <= lastRun - DueDay(e)

PenalInv == PenalWithinRuns /\ RoomToAccrue /\ SeenMayBeWritten

(* A step of a request that writes rows leaves their penal interest alone  *)
(* and makes none of them overdue.                                         *)
LEMMA RequestsKeepPenal ==
    ASSUME TypeOK, PenalInv, UNCHANGED <<lastRun, cron>>,
           \A e \in DOMAIN entries' :
              \/ entries'[e] = [status |-> "UPCOMING", penal |-> 0]
              \/ /\ e \in DOMAIN entries
                 /\ entries'[e].penal = entries[e].penal
                 /\ entries'[e].status = "OVERDUE"
                       => entries[e].status = "OVERDUE"
    PROVE  PenalInv'
BY DEF PenalInv, PenalWithinRuns, RoomToAccrue, SeenMayBeWritten, DueDay

(* Whatever payments, deletions and failures the job runs into, penal      *)
(* interest is never for more days than the installment is late.           *)
THEOREM PenalOnlyForDaysLate == Spec => []NoPenalBeforeDue
<1>1. Init => PenalInv
  BY DEF Init, PenalInv, PenalWithinRuns, RoomToAccrue, SeenMayBeWritten,
     NoEntries
<1>2. TypeOK /\ PenalInv /\ [Next]_vars => PenalInv'
  <2> SUFFICES ASSUME TypeOK, PenalInv, [Next]_vars PROVE PenalInv'
    OBVIOUS
  <2>1. ASSUME NEW r \in Requests, CreateSchedule(r) PROVE PenalInv'
    <3> DEFINE new == [schedule : {schedules + 1}, number : 1 .. Installments]
    <3>1. /\ entries' = [e \in DOMAIN entries \cup new |->
                           IF e \in new THEN [status |-> "UPCOMING", penal |-> 0]
                           ELSE entries[e]]
          /\ UNCHANGED <<lastRun, cron>>
      BY <2>1 DEF CreateSchedule
    <3> HIDE DEF new
    <3>2. QED
      BY <3>1, RequestsKeepPenal
  <2>2. ASSUME NEW r \in Requests, RecordPayment(r) PROVE PenalInv'
    <3>1. UNCHANGED <<lastRun, cron>>
      BY <2>2 DEF RecordPayment
    <3>2. DOMAIN entries' = DOMAIN entries
      BY <2>2, PaymentWritesOneRow
    <3>3. ASSUME NEW e \in DOMAIN entries
          PROVE  /\ entries'[e].penal = entries[e].penal
                 /\ entries'[e].status = "OVERDUE"
                       => entries[e].status = "OVERDUE"
      <4>1. CASE e = req[r].entry
        <5>1. entries'[e] = [status |-> IF req[r].full THEN "PAID"
                                        ELSE "PARTIAL",
                             penal  |-> entries[e].penal]
          BY <2>2, <4>1, PaymentWritesOneRow
        <5>2. QED
          BY <5>1
      <4>2. CASE e # req[r].entry
        BY <2>2, <4>2, PaymentWritesOneRow
      <4>3. QED
        BY <4>1, <4>2
    <3>4. QED
      BY <3>1, <3>2, <3>3, RequestsKeepPenal
  <2>3. ASSUME NEW r \in Requests, DeleteSchedule(r) PROVE PenalInv'
    BY <2>3, RequestsKeepPenal DEF DeleteSchedule, NoEntries
  <2>4. CASE UNCHANGED <<entries, lastRun, cron>>
    BY <2>4, RequestsKeepPenal
  <2>5. CASE CronReadDue
    BY <2>5 DEF CronReadDue, Restrict, TypeOK, Row, EntryId, PenalInv,
       PenalWithinRuns, RoomToAccrue, SeenMayBeWritten, DueDay
  <2>6. CASE CronMarkOverdue
    BY <2>6 DEF CronMarkOverdue, NoEntries, TypeOK, Row, PenalInv,
       PenalWithinRuns, RoomToAccrue, SeenMayBeWritten
  <2>7. CASE CronReadOverdue
    BY <2>7 DEF CronReadOverdue, Restrict, TypeOK, Row, EntryId, PenalInv,
       PenalWithinRuns, RoomToAccrue, SeenMayBeWritten, DueDay
  <2>8. CASE CronAccrue
    BY <2>8 DEF CronAccrue, NoEntries, TypeOK, Row, PenalInv,
       PenalWithinRuns, RoomToAccrue, SeenMayBeWritten
  <2>9. CASE CronFail
    BY <2>9 DEF CronFail, NoEntries, PenalInv, PenalWithinRuns,
       RoomToAccrue, SeenMayBeWritten
  <2>10. ASSUME NEW r \in Requests, Start(r) \/ Fail(r) PROVE PenalInv'
    BY <2>10, <2>4 DEF Start, ReadGenerate, ReadConfigureServicing,
       ReadMarkPaid, ReadFlagNeedsReview, ReadResolveReview,
       ReadCompleteClearance, Fail
  <2>11. ASSUME NEW r \in Requests, Proceed(r) PROVE PenalInv'
    BY <2>1, <2>2, <2>3, <2>4, <2>11 DEF Proceed, PaymentOnDeletedEntry,
       CountRemaining, AutoClear, FlagNeedsReview, ResolveReview,
       CountForClearance, CompleteClearance
  <2>12. CASE OpenAccount \/ NextDay \/ UNCHANGED vars
    BY <2>4, <2>12 DEF OpenAccount, NextDay, vars, rows
  <2>13. QED
    BY <2>5, <2>6, <2>7, <2>8, <2>9, <2>10, <2>11, <2>12 DEF Next, Step, Job
<1>3. TypeOK /\ PenalInv => NoPenalBeforeDue
  BY DEF TypeOK, Row, EntryId, PenalInv, PenalWithinRuns, NoPenalBeforeDue,
     DueDay
<1>4. QED
  BY <1>1, <1>2, <1>3, TypeCorrect, PTL DEF Spec

-------------------------------------------------------------------------------
(* As long as no requests overlap, who is about to flag or to reopen a     *)
(* loan has read it uncleared, and nobody else writes.                     *)
ReviewerKnowsStatus ==
    ~overlapped =>
        /\ ~Overlap
        /\ \A r \in Requests :
              req[r].pc \in {"flagging", "resolving"}
                 => account \in {"ACTIVE", "NEEDS_REVIEW"}

(* Every step keeps that so.                                               *)
LEMMA ReviewerStaysInformed ==
    ASSUME TypeOK, ReviewerKnowsStatus, [Next]_vars
    PROVE  ReviewerKnowsStatus'
<1> USE DEF ReviewerKnowsStatus
<1>1. CASE overlapped'
  BY <1>1
<1>2. CASE UNCHANGED vars
  BY <1>2 DEF vars, rows, Overlap
<1>3. CASE ~overlapped' /\ Next
  <2>1. ~overlapped /\ ~Overlap /\ ~Overlap'
    BY <1>3 DEF Next, TypeOK
  <2>2. ASSUME NEW r \in Requests, Start(r) \/ Proceed(r) \/ Fail(r)
        PROVE  ReviewerKnowsStatus'
    <3>1. \A q \in Requests \ {r} : req'[q] = req[q]
      BY <2>2 DEF Start, ReadGenerate, ReadConfigureServicing, ReadMarkPaid,
         ReadFlagNeedsReview, ReadResolveReview, ReadCompleteClearance,
         Proceed, DeleteSchedule, CreateSchedule, RecordPayment,
         PaymentOnDeletedEntry, CountRemaining, AutoClear, FlagNeedsReview,
         ResolveReview, CountForClearance, CompleteClearance, Fail, TypeOK
    <3>2. req[r] # Idle \/ req'[r] # Idle
      BY <2>2 DEF Start, ReadGenerate, ReadConfigureServicing, ReadMarkPaid,
         ReadFlagNeedsReview, ReadResolveReview, ReadCompleteClearance,
         Proceed, DeleteSchedule, CreateSchedule, RecordPayment,
         PaymentOnDeletedEntry, CountRemaining, AutoClear, FlagNeedsReview,
         ResolveReview, CountForClearance, CompleteClearance, Fail, TypeOK,
         Idle
    <3>3. ASSUME NEW q \in Requests \ {r} PROVE req'[q].pc = "idle"
      <4>1. req[q] = Idle
        BY <2>1, <3>1, <3>2 DEF Overlap
      <4>2. QED
        BY <3>1, <4>1 DEF Idle
    <3>4. req'[r].pc \in {"flagging", "resolving"}
            => account' \in {"ACTIVE", "NEEDS_REVIEW"}
      BY <2>2 DEF Start, ReadGenerate, ReadConfigureServicing, ReadMarkPaid,
         ReadFlagNeedsReview, ReadResolveReview, ReadCompleteClearance,
         Proceed, DeleteSchedule, CreateSchedule, RecordPayment,
         PaymentOnDeletedEntry, CountRemaining, AutoClear, FlagNeedsReview,
         ResolveReview, CountForClearance, CompleteClearance, Fail, TypeOK,
         Idle
    <3>5. QED
      BY <2>1, <3>3, <3>4
  <2>3. CASE OpenAccount \/ NextDay \/ Job \/ CronFail
    <3>1. UNCHANGED req /\ account' \in {account, "ACTIVE"}
      BY <2>3 DEF OpenAccount, NextDay, Job, CronReadDue, CronMarkOverdue,
         CronReadOverdue, CronAccrue, CronFail
    <3>2. QED
      BY <2>1, <3>1
  <2>4. QED
    BY <1>3, <2>2, <2>3 DEF Next, Step
<1>4. QED
  BY <1>1, <1>2, <1>3

(* As long as no requests overlap, a cleared loan stays cleared.           *)
THEOREM ClearedStaysCleared == Spec => ClearedIsFinal
<1>1. Init => ReviewerKnowsStatus
  BY DEF Init, ReviewerKnowsStatus, Overlap, Idle
<1>2. ReviewerKnowsStatus /\ TypeOK /\ [Next]_vars
        => (account = "CLEARED" /\ ~overlapped => account' = "CLEARED")
  <2> SUFFICES ASSUME ReviewerKnowsStatus, TypeOK, [Next]_vars,
                      account = "CLEARED", ~overlapped
               PROVE  account' = "CLEARED"
    OBVIOUS
  <2>1. \A r \in Requests : req[r].pc \notin {"flagging", "resolving"}
    BY DEF ReviewerKnowsStatus
  <2>2. ASSUME NEW r \in Requests, Start(r) \/ Proceed(r) \/ Fail(r)
        PROVE  account' = "CLEARED"
    BY <2>1, <2>2 DEF Start, ReadGenerate, ReadConfigureServicing,
       ReadMarkPaid, ReadFlagNeedsReview, ReadResolveReview,
       ReadCompleteClearance, Proceed, DeleteSchedule, CreateSchedule,
       RecordPayment, PaymentOnDeletedEntry, CountRemaining, AutoClear,
       FlagNeedsReview, ResolveReview, CountForClearance, CompleteClearance,
       Fail
  <2>3. CASE OpenAccount \/ NextDay \/ Job \/ CronFail
    BY <2>3 DEF OpenAccount, NextDay, Job, CronReadDue, CronMarkOverdue,
       CronReadOverdue, CronAccrue, CronFail
  <2>4. CASE UNCHANGED vars
    BY <2>4 DEF vars, rows
  <2>5. QED
    BY <2>2, <2>3, <2>4 DEF Next, Step
<1>3. QED
  BY <1>1, <1>2, ReviewerStaysInformed, TypeCorrect, PTL
     DEF Spec, ClearedIsFinal

===============================================================================
