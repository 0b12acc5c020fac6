--------------------------- MODULE RepaymentFrequency ---------------------------
(***************************************************************************)
(* How often a borrower pays (FREQUENCY_CONFIG and generateSchedule() in   *)
(* dashboard/repayment/dashboard-repayment.service.ts), for the modules    *)
(* that schedule a loan.                                                   *)
(***************************************************************************)
EXTENDS Integers

Frequencies == {"MONTHLY", "QUARTERLY", "YEARLY"}

(* FREQUENCY_CONFIG                                                        *)
PeriodMonths(frequency) ==
    CASE frequency = "MONTHLY"   -> 1
      [] frequency = "QUARTERLY" -> 3
      [] frequency = "YEARLY"    -> 12

(* A tenure that is no multiple of the period is rejected.                 *)
WholeTenure(tenureMonths, frequency) ==
    tenureMonths > 0 /\ tenureMonths % PeriodMonths(frequency) = 0

===============================================================================
