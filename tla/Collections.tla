------------------------------- MODULE Collections -------------------------------
(***************************************************************************)
(* How old a loan's unpaid installments are, and who says so: the daily    *)
(* job that marks them overdue, reminds the borrower and classifies the    *)
(* loan, the list of overdue installments by bucket, the tiles of the      *)
(* overview and the loan's monitoring status                               *)
(* (dashboard/repayment/dashboard-repayment.service.ts,                    *)
(* dashboard/jobs/dashboard-jobs.service.ts).                              *)
(*                                                                         *)
(* Time is counted in half days, since a due date carries the time of day  *)
(* its schedule was generated at.  The job runs at midnight, or not at all *)
(* when the server is down; what interleaves with its statements is        *)
(* Repayment's subject, and here it is one step.                           *)
(***************************************************************************)
EXTENDS Integers, FiniteSets

CONSTANTS Due,          \* due time of each installment
          LastTime,     \* bound: the clock stops
          MaxMissed,    \* bound: nights the job did not run
          MaxPayments   \* bound: payments recorded

Installment == DOMAIN Due

ASSUME DueAssumption == \A i \in Installment : Due[i] \in Nat
ASSUME BoundsAssumption == {LastTime, MaxMissed, MaxPayments} \subseteq Nat

VARIABLES
    now,        \* the time
    emiStatus,  \* of each installment
    class,      \* LoanApplication.nrbClassification
    reminded,   \* history: how often each trigger fired per installment
    lastJob,    \* the time of the job's last run
    missed,     \* nights missed so far
    payments    \* payments recorded so far

collections == <<now, emiStatus, class, reminded, lastJob, missed, payments>>

Day == 2
Midnight(t) == t % Day = 0
StartOfDay(t) == t - (t % Day)
Age(i) == now - Due[i]
DaysOverdue(i) == Age(i) \div Day

CollectionsInit ==
    /\ now = 0
    /\ emiStatus = [i \in Installment |-> "UPCOMING"]
    /\ class = "PASS"
    /\ reminded = [i \in Installment |-> [o \in {} |-> 0]]
    /\ lastJob = 0
    /\ missed = 0 /\ payments = 0

-------------------------------------------------------------------------------
(* What the dashboard shows.                                               *)

Buckets == {"1-30", "31-90", "91-180", "181-365", "365+"}

(* BUCKET_RANGES: the first and last day of each bucket, 0: no last day.   *)
FirstDay(b) ==
    CASE b = "1-30" -> 1 [] b = "31-90" -> 31 [] b = "91-180" -> 91
      [] b = "181-365" -> 181 [] b = "365+" -> 366

LastDay(b) ==
    CASE b = "1-30" -> 30 [] b = "31-90" -> 90 [] b = "91-180" -> 180
      [] b = "181-365" -> 365 [] b = "365+" -> 0

(* getOverdue() of a bucket                                                *)
Listed(i, b) ==
    /\ emiStatus[i] = "OVERDUE"
    /\ Age(i) >= FirstDay(b) * Day
    /\ LastDay(b) > 0 => Age(i) <= LastDay(b) * Day

(* The overview's bounds: older than these many days, at most as old as.   *)
OlderThan(b) ==
    CASE b = "1-30" -> 0 [] b = "31-90" -> 30 [] b = "91-180" -> 90
      [] b = "181-365" -> 180 [] b = "365+" -> 365

(* Mutant: a tile includes the age at which the next one begins.           *)
TileWithBothEnds(i, b) ==
    /\ emiStatus[i] = "OVERDUE"
    /\ Age(i) >= OlderThan(b) * Day /\ Age(i) > 0
    /\ LastDay(b) > 0 => Age(i) <= LastDay(b) * Day

(* getOverview()                                                           *)
InTile(i, b) ==
    /\ emiStatus[i] = "OVERDUE"
    /\ Age(i) > OlderThan(b) * Day
    /\ LastDay(b) > 0 => Age(i) <= LastDay(b) * Day

(* getRepaymentStatus() of an active account                               *)
OnTrack == \A i \in Installment : emiStatus[i] # "OVERDUE"

-------------------------------------------------------------------------------
(* The job.                                                                *)

(* markOverdueEntries()                                                    *)
FallsOverdue(i) ==
    emiStatus[i] \in {"UPCOMING", "PARTIAL"} /\ Due[i] < StartOfDay(now)

Marked == [i \in Installment |->
              IF FallsOverdue(i) THEN "OVERDUE" ELSE emiStatus[i]]

(* EMI_NOTIFICATION_TRIGGERS: days after the due date, negative: before.   *)
Offsets == {-30, -15, -7, -4, -3, -2, -1, 1, 7}

(* getEntriesDueForReminder(): entries due on the target day               *)
DueForReminder(i, offset, marked) ==
    LET target == StartOfDay(now) - offset * Day
    IN  /\ marked[i] = (IF offset > 0 THEN "OVERDUE" ELSE "UPCOMING")
        /\ Due[i] >= target /\ Due[i] < target + Day

Fired(i, offset) ==
    IF offset \in DOMAIN reminded[i] THEN reminded[i][offset] ELSE 0

Classify(days) ==
    IF days >= 365 THEN "LOSS" ELSE IF days >= 180 THEN "DOUBTFUL"
    ELSE IF days >= 90 THEN "SUBSTANDARD" ELSE "PASS"

(* Mutant: the loan is classified before its installments are marked.      *)
BeforeMarking(marked) == {i \in Installment : emiStatus[i] = "OVERDUE"}

Overdue(marked) == {i \in Installment : marked[i] = "OVERDUE"}

(* reclassifyLoans(): by the oldest overdue installment                    *)
Reclassified(overdue) ==
    IF overdue = {} THEN "PASS"
    ELSE LET oldest == CHOOSE i \in overdue : \A j \in overdue : Due[i] <= Due[j]
         IN  Classify(DaysOverdue(oldest))

(* runDailyEmiJob()                                                        *)
RunDailyEmiJob ==
    /\ Midnight(now) /\ lastJob < now
    /\ emiStatus' = Marked
    /\ reminded' = [i \in Installment |->
          [o \in DOMAIN reminded[i] \cup
                 {o \in Offsets : DueForReminder(i, o, Marked)} |->
              Fired(i, o) + (IF DueForReminder(i, o, Marked) THEN 1 ELSE 0)]]
    /\ class' = Reclassified(Overdue(Marked))
    /\ lastJob' = now
    /\ UNCHANGED <<now, missed, payments>>

(* Time passes; at midnight the job runs first, unless it is missed.       *)
Tick ==
    /\ now < LastTime
    /\ now' = now + 1
    /\ IF Midnight(now) /\ lastJob < now
       THEN missed < MaxMissed /\ missed' = missed + 1
       ELSE UNCHANGED missed
    /\ UNCHANGED <<emiStatus, class, reminded, lastJob, payments>>

(* markPaid(): in full, or in part.                                        *)
MarkPaid(i, status) ==
    /\ status \in {"PAID", "PARTIAL"}
    /\ emiStatus[i] # status
    /\ payments < MaxPayments /\ payments' = payments + 1
    /\ emiStatus' = [emiStatus EXCEPT ![i] = status]
    /\ UNCHANGED <<now, class, reminded, lastJob, missed>>

CollectionsNext ==
    \/ RunDailyEmiJob
    \/ Tick
    \/ \E i \in Installment, s \in {"PAID", "PARTIAL"} : MarkPaid(i, s)

CollectionsSpec == CollectionsInit /\ [][CollectionsNext]_collections

-------------------------------------------------------------------------------
(* Properties.                                                             *)

CollectionsTypeOK ==
    /\ now \in 0..LastTime /\ lastJob \in 0..now /\ missed \in 0..MaxMissed
    /\ payments \in 0..MaxPayments
    /\ emiStatus \in [Installment -> {"UPCOMING", "PARTIAL", "OVERDUE", "PAID"}]
    /\ class \in {"PASS", "SUBSTANDARD", "DOUBTFUL", "LOSS"}
    /\ \A i \in Installment : DOMAIN reminded[i] \subseteq Offsets

(* Every overdue installment is counted in exactly one tile of the         *)
(* overview, whatever the time of day (getOverview).                       *)
EveryOverdueInOneTile ==
    \A i \in Installment :
        emiStatus[i] = "OVERDUE" =>
            Cardinality({b \in Buckets : InTile(i, b)}) = 1

(* An installment listed in a bucket is counted in the tile of that name   *)
(* (getOverdue, getOverview).                                              *)
ListAgreesWithTile ==
    \A i \in Installment, b \in Buckets : Listed(i, b) => InTile(i, b)

(* No reminder is sent twice for an installment, whatever nights the job   *)
(* misses (getEntriesDueForReminder).                                      *)
RemindedOnce ==
    \A i \in Installment : \A o \in DOMAIN reminded[i] : reminded[i][o] <= 1

(* An installment's age counts once, in the tiles and in the reminders     *)
(* (the three above).                                                      *)
AgeingSound == EveryOverdueInOneTile /\ ListAgreesWithTile /\ RemindedOnce

(* Once the job has run, a loan is on track only if nothing due before     *)
(* today is unpaid, and a loan with an installment 90 days late is no      *)
(* longer PASS, although a payment in part takes an installment out of     *)
(* OVERDUE (markOverdueEntries, reclassifyLoans).                          *)
JobSeesWhatIsUnpaid ==
    [][lastJob' # lastJob =>
          \A i \in Installment :
             emiStatus[i] # "PAID" /\ Due[i] < now =>
                ~OnTrack' /\ (DaysOverdue(i) >= 90 => class' # "PASS")]_collections

(* An installment that many days overdue is listed in the bucket of that   *)
(* many days (BUCKET_RANGES: "aging buckets (days overdue)").              *)
ListedByDaysOverdue ==
    \A i \in Installment, b \in Buckets :
        /\ emiStatus[i] = "OVERDUE"
        /\ DaysOverdue(i) >= FirstDay(b)
        /\ LastDay(b) > 0 => DaysOverdue(i) <= LastDay(b)
        => Listed(i, b)

===============================================================================
