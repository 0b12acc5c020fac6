------------------------------- MODULE Appraisal -------------------------------
(***************************************************************************)
(* The credit appraisal of one application: the columns and nested rows    *)
(* the Initiator's wizard fills in step by step (applicationInitiator/),   *)
(* and the score the engine computes and stores among them (creditScore/). *)
(* The wizard's blacklist section is in InitiatorSection, its approval     *)
(* section in Approval.                                                    *)
(*                                                                         *)
(* A PATCH reads the stage and writes later what it carries, of one step.  *)
(* The engine and the POST read only that the application exists.          *)
(*                                                                         *)
(* A number is a rank among the bounds of the dtos and of the columns, and *)
(* whether it has a fraction: what a validator accepts the column may not  *)
(* hold, and the whole PATCH is lost.                                      *)
(***************************************************************************)
EXTENDS CreditScore

CONSTANTS Samples,      \* inputs of the engine, per parameter of the instance
          Value,        \* what a text column or a row of a list can be
          TYPED         \* a score, percentage and grade entered by hand

ASSUME NullValue == NULL \notin Value
ASSUME SamplesAssumption ==
    /\ DOMAIN Samples \subseteq Parameters
    /\ \A p \in DOMAIN Samples : Samples[p] \subseteq Int

-------------------------------------------------------------------------------
(* Numbers: rank n stands for the numbers up to bound n.                   *)

H100 == 1  H120 == 2  H150 == 3  H999 == 4  H9999 == 5  H99999 == 6
MAX_INT == 7  MONEY == 8  D18 == 9

Number == [rank : 1 .. 9, fraction : BOOLEAN]
UpTo(rank) == [n \in Number |-> n.rank <= rank]
WholeUpTo(rank) == [n \in Number |-> n.rank <= rank /\ ~n.fraction]

IsMoneyAmount == UpTo(MONEY)
IsPercentage == UpTo(H100)
IsRatioPercentage == UpTo(H9999)

(* What each step of the wizard accepts in its numeric columns.            *)
FamilyMember == [age |-> WholeUpTo(H120)]
ExistingFacility ==
    [sanctionedLimit |-> IsMoneyAmount, outstanding |-> IsMoneyAmount]
PersonalGuarantee ==
    [guarantorAge |-> WholeUpTo(H120), netWorth |-> IsMoneyAmount]
RepaymentCapacity ==
    [insuredAssets |-> WholeUpTo(MAX_INT), valueOfAssets |-> IsMoneyAmount,
     sumOfInsurance |-> IsMoneyAmount, insuranceCoverage |-> IsPercentage]
BasicInformation ==
    [obligorNumber |-> WholeUpTo(MAX_INT),
     existingBankSavingsAmount |-> IsMoneyAmount,
     existingBankLoanAmount |-> IsMoneyAmount]
NrbReporting == [baselRiskWeight |-> WholeUpTo(H150)]
(* dsgir is rounded before it is judged.                                   *)
CreditScoring ==
    [creditLimit |-> IsMoneyAmount, income |-> IsMoneyAmount,
     loanToValueRatio |-> IsRatioPercentage, dsgir |-> UpTo(H9999),
     performanceYears |-> WholeUpTo(H100),
     bankingRelationshipScore |-> WholeUpTo(H100),
     sourceOfIncomeScore |-> WholeUpTo(H100),
     operationOfInstitution |-> IsPercentage,
     satisfactoryPerformance |-> WholeUpTo(H100),
     totalScore |-> WholeUpTo(MAX_INT), totalPercentage |-> IsPercentage]
ApplicantBackground ==
    [limit |-> IsMoneyAmount, period |-> WholeUpTo(MAX_INT),
     interestRate |-> IsPercentage, fee |-> IsMoneyAmount]
Security ==
    [fmv |-> IsMoneyAmount, proposedLoan |-> IsMoneyAmount,
     financeAgainstFmv |-> IsPercentage, sumInsured |-> IsMoneyAmount]

Validators ==
    {FamilyMember, ExistingFacility, PersonalGuarantee, RepaymentCapacity,
     BasicInformation, NrbReporting, CreditScoring, ApplicantBackground,
     Security}
Columns == UNION {DOMAIN accepts : accepts \in Validators}

(* Mutant: the rounding the column needs is forgotten.                     *)
AsSent(column, n) == n

(* The PATCH rounds one column, which holds no fractions.                  *)
Rounded(column, n) ==
    IF column = "dsgir" THEN [n EXCEPT !.fraction = FALSE] ELSE n

(* What the columns hold: whole numbers, percentages, ratios and money.    *)
Holds(column) ==
    CASE column \in {"age", "guarantorAge", "insuredAssets", "obligorNumber",
                     "baselRiskWeight", "dsgir", "operationOfInstitution",
                     "satisfactoryPerformance", "performanceYears", "period",
                     "bankingRelationshipScore", "sourceOfIncomeScore",
                     "totalScore"}
           -> WholeUpTo(MAX_INT)
      [] column \in {"insuranceCoverage", "totalPercentage", "interestRate",
                     "financeAgainstFmv"}
           -> UpTo(H999)
      [] column = "loanToValueRatio" -> UpTo(H99999)
      [] OTHER -> UpTo(D18)

-------------------------------------------------------------------------------
VARIABLES
    inWizard,       \* the stage lets the wizard edit (see Approval)
    stamped,        \* initiatorUserId is set
    basics,         \* the basic information, which the POST shares; the
                    \* other steps' columns and one-to-one rows are alike
    family,         \* the familyMember rows; existingFacility is alike
    inputs,         \* the columns the engine scores
    outcome,        \* the score, percentage and grade stored
    patch,          \* the PATCH between its read and its write; NULL: none
    patchRaced,          \* history: something happened while a PATCH was under way
    scoredBy,       \* history: who last wrote the scoring columns
    unstorable      \* history: columns whose accepted value was refused

appraised == <<basics, family, inputs, outcome>>
written   == <<appraised, scoredBy, unstorable>>
appraisal == <<written, inWizard, stamped, patch, patchRaced>>

Scoring == DOMAIN Samples
Inputs == {i \in [Scoring -> (UNION {Samples[p] : p \in Scoring}) \cup {NULL}] :
              \A p \in Scoring : i[p] \in Samples[p] \cup {NULL}}

(* What a request to score carries.                                        *)
Sent == {[p \in P |-> i[p]] : P \in SUBSET Scoring, i \in Inputs}

(* What a PATCH carries, of one step.                                      *)
Step ==
    [step : {"basics"}, value : Value]
    \cup [step : {"family"}, rows : SUBSET Value]
    \cup [step : {"inputs"}, parameter : Scoring,
          value : (UNION {Samples[p] : p \in Scoring}) \cup {NULL}]
    \cup [step : {"outcome"}]
Valid(p) == p.step = "inputs" => p.value \in Samples[p.parameter] \cup {NULL}

AppraisalInit ==
    /\ inWizard = TRUE /\ stamped = FALSE
    /\ basics = NULL /\ family = {}
    /\ inputs = [p \in Scoring |-> NULL]
    /\ outcome = NULL
    /\ patch = NULL /\ patchRaced = FALSE
    /\ scoredBy = "nobody" /\ unstorable = {}

(* Another handler runs while a PATCH is under way.                        *)
Meanwhile == /\ patchRaced' = (patchRaced \/ patch # NULL)
             /\ UNCHANGED patch

-------------------------------------------------------------------------------
(* createInitiatorApplication() (POST): once, at any stage.                *)
FinalizeBasics ==
    /\ ~stamped
    /\ stamped' = TRUE
    /\ basics' \in Value
    /\ Meanwhile
    /\ UNCHANGED <<inWizard, family, inputs, outcome, scoredBy, unstorable>>

(* updateInitiatorApplication() (PATCH).                                   *)

(* Mutant: the edit guard looks at the stage alone.                        *)
ReadPatchAnytime ==
    /\ patch = NULL
    /\ patch' \in {p \in Step : Valid(p)}
    /\ patchRaced' = FALSE
    /\ UNCHANGED <<written, inWizard, stamped>>

ReadPatch ==
    /\ inWizard
    /\ patch = NULL
    /\ patch' \in {p \in Step : Valid(p)}
    /\ patchRaced' = FALSE
    /\ UNCHANGED <<written, inWizard, stamped>>

(* A new list replaces the old one.                                        *)
ReplaceList(old, new) == new

WritePatch ==
    /\ patch # NULL
    /\ basics' = IF patch.step = "basics" THEN patch.value ELSE basics
    /\ family' = IF patch.step = "family" THEN ReplaceList(family, patch.rows)
                                          ELSE family
    /\ inputs' = IF patch.step = "inputs"
                 THEN [inputs EXCEPT ![patch.parameter] = patch.value]
                 ELSE inputs
    /\ outcome' = IF patch.step = "outcome" THEN TYPED ELSE outcome
    /\ scoredBy' = IF patch.step \in {"inputs", "outcome"} THEN "wizard"
                                                           ELSE scoredBy
    /\ patch' = NULL
    /\ UNCHANGED <<inWizard, stamped, unstorable, patchRaced>>

(* A number the validator accepts is refused by its column, and the PATCH  *)
(* fails; one that fits changes nothing here.                              *)
LosePatch ==
    /\ inWizard
    /\ \E accepts \in Validators, n \in Number : \E c \in DOMAIN accepts :
          /\ accepts[c][n] /\ ~Holds(c)[Rounded(c, n)]
          /\ unstorable' = unstorable \cup {c}
    /\ UNCHANGED <<appraised, scoredBy, inWizard, stamped, patch,
                   patchRaced>>

-------------------------------------------------------------------------------
(* saveCreditScoreParameterByApplicationId(): the score of the parameters  *)
(* in the request is stored with them; one left out is not counted and     *)
(* keeps its column, one sent as null is not counted and clears it.        *)

(* Mutant: the engine scores what it read, before the request's inputs.    *)
ScoreAsRead(given) == Calculate(inputs)

ScoreOf(given) == Calculate(given)

SaveScore ==
    /\ \E given \in Sent :
          /\ inputs' = [p \in Scoring |-> IF p \in DOMAIN given THEN given[p]
                                                              ELSE inputs[p]]
          /\ outcome' = ScoreOf(given)
    /\ scoredBy' = "engine"
    /\ Meanwhile
    /\ UNCHANGED <<inWizard, stamped, basics, family, unstorable>>

(* The approval workflow takes the application and gives it back.          *)
HandOver ==
    /\ inWizard' = ~inWizard
    /\ Meanwhile
    /\ UNCHANGED <<written, stamped>>

AppraisalNext ==
    FinalizeBasics \/ ReadPatch \/ WritePatch \/ LosePatch \/ SaveScore \/ HandOver

AppraisalSpec == AppraisalInit /\ [][AppraisalNext]_appraisal

-------------------------------------------------------------------------------
(* Properties.                                                             *)

Outcome == [totalScore : 0 .. 30, totalPercentage : 0 .. 10000,
            riskGrade : Grades]

AppraisalTypeOK ==
    /\ {inWizard, stamped, patchRaced} \subseteq BOOLEAN
    /\ basics \in Value \cup {NULL}
    /\ family \subseteq Value
    /\ inputs \in Inputs
    /\ outcome \in Outcome \cup {NULL, TYPED}
    /\ patch \in Step \cup {NULL}
    /\ scoredBy \in {"nobody", "wizard", "engine"}
    /\ unstorable \subseteq Columns

(* What the engine stored last is the score of some of the inputs that are *)
(* stored, as long as the wizard touched none of them since, and no input  *)
(* was counted under two rules: the bands of a parameter exclude each      *)
(* other, also between two whole numbers                                   *)
(* (saveCreditScoreParameterByApplicationId, CREDIT_PARAMETERS).           *)
ScoreIsOfStoredInputs ==
    /\ scoredBy = "engine" =>
          \E P \in SUBSET Scoring :
              outcome = Calculate([p \in P |-> inputs[p]])
    /\ \A p \in Scoring :
          inputs[p] # NULL => Cardinality(Matching(p, inputs[p])) <= 1

(* While the application is with its reviewers, what they read stays as it *)
(* was: only the one POST may still complete the basics, and the engine    *)
(* write its own columns; a PATCH that was already under way is a known    *)
(* gap (assertInitiatorCanEdit).                                           *)
FrozenUnderReview ==
    [][~inWizard /\ ~patchRaced =>
          /\ basics' = basics \/ (~stamped /\ stamped')
          /\ family' = family
          /\ inputs' = inputs \/ scoredBy' = "engine"]_appraisal

(* A number that passes the wizard's validation can be stored, so that no  *)
(* step is lost to an error of the database (numeric-range.decorators.ts); *)
(* the years of operation, validated as a percentage and stored as a whole *)
(* number, are a known gap.                                                *)
OnlyYearsAreLost == unstorable \subseteq {"operationOfInstitution"}

===============================================================================
