------------------------------ MODULE Amortization ------------------------------
(***************************************************************************)
(* The amortization loop of generateSchedule()                             *)
(* (dashboard/repayment/dashboard-repayment.service.ts) and the EMI        *)
(* formula (utils/emi-calculator.service.ts), in paisa.                    *)
(*                                                                         *)
(* A periodic rate is a fraction num/den, as toEquivalentNominalRate() and *)
(* the division by installmentsPerYear leave it; a power of it is exact,   *)
(* where the code's floating point is not.                                 *)
(***************************************************************************)
EXTENDS Integers, SequencesExt, RepaymentFrequency

CONSTANT Terms      \* effective terms: [principal, tenureMonths, frequency, rate]

ASSUME TermsAssumption ==
    \A t \in Terms :
        /\ t.principal \in Nat \ {0} /\ t.tenureMonths \in Nat
        /\ t.frequency \in Frequencies
        /\ t.rate.num \in Nat \ {0} /\ t.rate.den \in Nat \ {0}

VARIABLES
    loan,           \* the terms: [principal, installments, rate]
    outstanding,    \* what remains to be repaid after the rows so far
    rows            \* the rows so far

amortization == <<loan, outstanding, rows>>

-------------------------------------------------------------------------------
(* Arithmetic.                                                             *)

(* Math.round(): the nearest integer, a half upwards.                      *)
Round(num, den) == (2 * num + den) \div (2 * den)

(* Math.pow() with a whole exponent, which is all the formula asks of it.  *)
Power(b, n) ==
    LET power[k \in Nat] == IF k = 0 THEN 1 ELSE b * power[k - 1]
    IN  power[n]

(* EmiCalculatorService.calculate(): P * r * (1+r)^n / ((1+r)^n - 1).      *)
MonthlyEmi(l) ==
    LET after == Power(l.rate.den + l.rate.num, l.installments)
        before == Power(l.rate.den, l.installments)
    IN  Round(l.principal * l.rate.num * after, l.rate.den * (after - before))

-------------------------------------------------------------------------------
(* The loop, one row per step.                                             *)

AmortizationInit ==
    /\ \E t \in Terms :
          /\ WholeTenure(t.tenureMonths, t.frequency)
          /\ loan = [principal |-> t.principal, rate |-> t.rate,
                     installments |-> t.tenureMonths \div PeriodMonths(t.frequency)]
    /\ outstanding = loan.principal
    /\ rows = <<>>

(* Mutant: the last row is like any other.                                 *)
LikeAnyOther(i, component) == component

(* The last row takes what is left.                                        *)
PrincipalComponent(i, component) ==
    IF i = loan.installments THEN outstanding ELSE component

AddRow ==
    LET i == Len(rows) + 1
        interest == Round(outstanding * loan.rate.num, loan.rate.den)
        principal == PrincipalComponent(i, MonthlyEmi(loan) - interest)
    IN  /\ i <= loan.installments
        /\ outstanding' = outstanding - principal
        /\ rows' = Append(rows, [emiAmount |-> MonthlyEmi(loan),
                                 interest |-> interest, principal |-> principal])
        /\ UNCHANGED loan

AmortizationNext == AddRow

AmortizationSpec == AmortizationInit /\ [][AmortizationNext]_amortization

-------------------------------------------------------------------------------
(* Properties.                                                             *)

Row == [emiAmount : Nat, interest : Int, principal : Int]

AmortizationTypeOK ==
    /\ \E t \in Terms :
          loan = [principal |-> t.principal, rate |-> t.rate,
                  installments |-> loan.installments]
    /\ loan.installments \in Nat \ {0} /\ Len(rows) \in 0..loan.installments
    /\ outstanding \in Int
    /\ rows \in Seq(Row)

Repaid == FoldLeft(LAMBDA sum, row : sum + row.principal, 0, rows)

(* The principal components add up to what was repaid so far, and once the *)
(* schedule is complete to the principal, to the paisa (generateSchedule). *)
PrincipalIsRepaid ==
    /\ Repaid + outstanding = loan.principal
    /\ Len(rows) = loan.installments => outstanding = 0

(* Rounding by at most one paisa in every row, compounded until the last:  *)
(* ((1+r)^n - 1)/r paisa, as the fraction Grown/Unit.                      *)
Grown(l) == Power(l.rate.den + l.rate.num, l.installments)
            - Power(l.rate.den, l.installments)
Unit(l)  == l.rate.num * Power(l.rate.den, l.installments - 1)

(* An installment is more than the interest on the whole principal, and    *)
(* more than what rounding may come to.                                    *)
OutweighsRounding(l) ==
    /\ MonthlyEmi(l) > Round(l.principal * l.rate.num, l.rate.den)
    /\ MonthlyEmi(l) * Unit(l) > Grown(l)

(* For such a loan, rounding never makes a row repay a negative amount, or *)
(* the loan be repaid before its last row (generateSchedule; the README    *)
(* says what becomes of a loan of very little over very many rows).        *)
NoRowIsNegative ==
    OutweighsRounding(loan) =>
        /\ \A i \in DOMAIN rows : rows[i].principal > 0
        /\ Len(rows) < loan.installments => outstanding > 0

(* The last row's emiAmount, which is what the borrower pays, differs from *)
(* its principal and interest by no more than the rounding of all rows,    *)
(* compounded: |difference| <= ((1+r)^n - 1)/r (generateSchedule).         *)
LastRowCloses ==
    Len(rows) = loan.installments =>
        LET last == rows[loan.installments]
            difference == last.emiAmount - last.principal - last.interest
        IN  /\ difference * Unit(loan) <= Grown(loan)
            /\ (-difference) * Unit(loan) <= Grown(loan)

(* The rows are those of the loan, and each can be paid (the three above). *)
ScheduleAddsUp == PrincipalIsRepaid /\ NoRowIsNegative /\ LastRowCloses

===============================================================================
