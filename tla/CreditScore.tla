------------------------------ MODULE CreditScore ------------------------------
(***************************************************************************)
(* The credit score engine (creditScore/credit-score.service.ts): a        *)
(* weighted point for each of six parameters, as a percentage of the       *)
(* points that were in play, and the grade of that percentage.             *)
(*                                                                         *)
(* Numbers are in hundredths, the precision the dtos accept: a limit of    *)
(* 999 999.50 falls between two rules.  A parameter that matches no rule,  *)
(* or is not given, counts neither in the score nor in its maximum.        *)
(***************************************************************************)
EXTENDS Integers, FiniteSets, FiniteSetsExt, Functions, HttpServer

Hundredths(n) == 100 * n

(* A rule has a lower bound, an upper bound, or both: sets of at most one. *)
Rule(min, max, point) == [min |-> min, max |-> max, point |-> point]
AtMost(max, point) == Rule({}, {max}, point)
AtLeast(min, point) == Rule({min}, {}, point)
Between(min, max, point) == Rule({Hundredths(min)}, {Hundredths(max)}, point)

(* Two rules hold a comparison with a fraction.  The values of an          *)
(* enumeration are counted from one.                                       *)
CREDIT_PARAMETERS ==
    [creditLimit |->
        [weight |-> 2,
         rules  |-> <<AtMost(Hundredths(999999), 1), Between(1000000, 2500000, 2),
                      AtLeast(Hundredths(2500001), 3)>>],
     dsgir |->
        [weight |-> 3,
         rules  |-> <<AtMost(3999, 1), Between(40, 45, 2), AtLeast(4501, 3)>>],
     operationOfInstitution |->
        [weight |-> 2,
         rules  |-> <<AtLeast(Hundredths(11), 1), Between(5, 10, 2),
                      AtMost(Hundredths(4), 3)>>],
     satisfactoryPerformance |->
        [weight |-> 1,
         rules  |-> <<AtLeast(Hundredths(4), 1), Between(1, 3, 2),
                      AtMost(0, 3)>>],
     parentsBorrowingsWithBFIs |->
        [weight |-> 1,
         rules  |-> <<Between(1, 1, 1), Between(2, 2, 2), Between(3, 3, 3)>>],
     sourceOfIncome |->
        [weight |-> 1,
         rules  |-> <<Between(1, 1, 1), Between(2, 2, 2), Between(3, 3, 3)>>]]

Parameters == DOMAIN CREDIT_PARAMETERS

FallsUnder(rule, input) ==
    /\ \A bound \in rule.min : bound <= input
    /\ \A bound \in rule.max : input <= bound

Matching(parameter, input) ==
    {i \in DOMAIN CREDIT_PARAMETERS[parameter].rules :
        FallsUnder(CREDIT_PARAMETERS[parameter].rules[i], input)}

(* getScore(): the points of the first rule that matches.                  *)
Scored(request) ==
    {p \in DOMAIN request : request[p] # NULL /\ Matching(p, request[p]) # {}}

GetScore(p, input) ==
    CREDIT_PARAMETERS[p].weight
        * CREDIT_PARAMETERS[p].rules[Min(Matching(p, input))].point

MaxPoint(p) == Max({rule.point : rule \in Range(CREDIT_PARAMETERS[p].rules)})

(* buildScoreRequest().                                                    *)
TotalWeightScore(request) ==
    MapThenSumSet(LAMBDA p : GetScore(p, request[p]), Scored(request))
(* Mutant: the sum of the weights (see the comment at maxPossibleScore).   *)
TotalWeight(request) ==
    MapThenSumSet(LAMBDA p : CREDIT_PARAMETERS[p].weight, Scored(request))

MaxPossibleScore(request) ==
    MapThenSumSet(LAMBDA p : CREDIT_PARAMETERS[p].weight * MaxPoint(p),
                  Scored(request))

(* The percentage, in hundredths, rounded half up (toFixed(2)).            *)
Percentage(score, max) ==
    IF max = 0 THEN 0 ELSE (20000 * score + max) \div (2 * max)

(* resolveGrade(): a threshold belongs to the band above it.               *)
ResolveGrade(percentage) ==
    CASE percentage < Hundredths(51) -> "A1"
      [] percentage >= Hundredths(51) /\ percentage < Hundredths(61) -> "A2"
      [] percentage >= Hundredths(61) /\ percentage < Hundredths(71) -> "A3"
      [] percentage >= Hundredths(71) /\ percentage < Hundredths(80) -> "A4"
      [] OTHER -> "NA"

Grades == {"A1", "A2", "A3", "A4", "NA"}

Calculate(request) ==
    LET score == TotalWeightScore(request)
        percentage == Percentage(score, MaxPossibleScore(request))
    IN  [totalScore |-> score, totalPercentage |-> percentage,
         riskGrade |-> ResolveGrade(percentage)]

===============================================================================
