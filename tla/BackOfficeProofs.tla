---------------------------- MODULE BackOfficeProofs --------------------------
(***************************************************************************)
(* Theorems about the components of the back office that keep their own    *)
(* tables: the Initiator's section and the appraisal of an application,    *)
(* the role tables, the accounts, the messages and the student's consent;  *)
(* and about all the parts side by side.  They hold for any number of      *)
(* users, requests and of the values these carry.                          *)
(***************************************************************************)
EXTENDS MCBackOffice, LoanProofs

-------------------------------------------------------------------------------
(* The Initiator's section (InitiatorSection).                             *)

(* Until handlers overlap, one is under way, and what a PATCH validated is *)
(* still what it will write over.                                          *)
PatchStillValid ==
    ~overlapped =>
        /\ \A q, r \in Requests : req[q] # Idle /\ req[r] # Idle => q = r
        /\ \A r \in Requests :
             req[r].op = "update" => ResolveBlacklistUpdate(req[r].payload)

SectionInv == InitiatorTypeOK /\ PatchStillValid /\ BlacklistConsistent

LEMMA NothingIsPayload == Nothing \in Payload
  BY DEF Nothing, Payload

(* A merged section has the shape of a section.                            *)
LEMMA MergeTyped ==
    ASSUME NEW p \in Payload, NEW old \in Section
    PROVE  Merge(p, old) \in Section
  BY DEF Payload, Section, Merge

(* A payload that was validated leaves a consistent section.               *)
LEMMA MergeConsistent ==
    ASSUME NEW p \in Payload, blacklist \in Section, Consistent(blacklist),
           ResolveBlacklistUpdate(p)
    PROVE  Consistent(Merge(p, blacklist))
<1>1. CASE p # Nothing
  BY <1>1 DEF ResolveBlacklistUpdate
<1>2. CASE p = Nothing
  BY <1>2 DEF Nothing, Merge, Consistent, Section
<1>3. QED
  BY <1>1, <1>2

(* A request that begins is alone, or there is an overlap.                 *)
LEMMA BeginKeepsSection ==
    ASSUME SectionInv, NEW r \in Requests, NEW op \in {"create", "update"},
           NEW u \in Users, NEW p \in Payload, Begin(r, op, u, p),
           op = "update" => ResolveBlacklistUpdate(p)
    PROVE  SectionInv'
<1>1. InitiatorTypeOK'
  BY DEF SectionInv, Begin, InitiatorTypeOK
<1>2. CASE overlapped'
  BY <1>1, <1>2 DEF SectionInv, PatchStillValid, BlacklistConsistent
<1>3. CASE ~overlapped'
  <2>1. ~overlapped /\ \A q \in Requests : req[q] = Idle
    BY <1>3 DEF Begin
  <2>2. \A q \in Requests \ {r} : req'[q] = Idle
    BY <2>1 DEF SectionInv, InitiatorTypeOK, Begin
  <2>3. req'[r].op = op /\ req'[r].payload = p
    BY DEF SectionInv, InitiatorTypeOK, Begin
  <2>4. PatchStillValid'
    BY <2>2, <2>3 DEF Begin, PatchStillValid, ResolveBlacklistUpdate, Idle
  <2>5. BlacklistConsistent'
    BY <2>1 DEF Begin, SectionInv, BlacklistConsistent
  <2>6. QED
    BY <1>1, <2>4, <2>5 DEF SectionInv
<1>4. QED
  BY <1>2, <1>3

(* A request that writes was alone since it read, or there was an overlap. *)
LEMMA WriteKeepsSection ==
    ASSUME SectionInv, NEW r \in Requests, Create(r) \/ Update(r)
    PROVE  SectionInv'
<1>0. /\ Idle \in [op : {"idle", "create", "update"},
                   user : Users \cup {NULL}, payload : Payload]
      /\ req[r].payload \in Payload /\ req[r].user \in Users \cup {NULL}
  BY NothingIsPayload DEF Idle, SectionInv, InitiatorTypeOK
<1>1. InitiatorTypeOK'
  <2>1. CASE Create(r)
    BY <1>0, <2>1 DEF Create, Reply, SectionInv, InitiatorTypeOK
  <2>2. CASE Update(r)
    BY <1>0, <2>2, MergeTyped DEF Update, Reply, SectionInv, InitiatorTypeOK
  <2>3. QED
    BY <2>1, <2>2
<1>2. CASE ~overlapped
  <2>1. req[r].op \in {"create", "update"}
    BY DEF Create, Update
  <2>2. \A q \in Requests : req'[q] = Idle
    BY <1>2, <2>1
       DEF Create, Update, Reply, SectionInv, PatchStillValid,
           InitiatorTypeOK, Idle
  <2>3. PatchStillValid'
    BY <2>2 DEF PatchStillValid, Idle
  <2>4. BlacklistConsistent'
    <3>1. CASE Create(r)
      BY <3>1 DEF Create, Reply, SectionInv, BlacklistConsistent
    <3>2. CASE Update(r)
      <4>1. Consistent(Merge(req[r].payload, blacklist))
        BY <1>0, <1>2, <3>2, MergeConsistent
           DEF Update, SectionInv, PatchStillValid, BlacklistConsistent,
               InitiatorTypeOK
      <4>2. QED
        BY <3>2, <4>1 DEF Update, BlacklistConsistent
    <3>3. QED
      BY <3>1, <3>2
  <2>5. QED
    BY <1>1, <2>3, <2>4 DEF SectionInv
<1>3. CASE overlapped
  <2>1. overlapped'
    BY <1>3 DEF Create, Update, Reply
  <2>2. QED
    BY <1>1, <2>1 DEF SectionInv, PatchStillValid, BlacklistConsistent
<1>4. QED
  BY <1>2, <1>3

LEMMA SectionInvKept ==
    SectionInv /\ [InitiatorNext]_initiatorSection => SectionInv'
<1> SUFFICES ASSUME SectionInv, [InitiatorNext]_initiatorSection
             PROVE  SectionInv'
  OBVIOUS
<1>1. ASSUME NEW r \in Requests, Create(r) \/ Update(r) PROVE SectionInv'
  BY <1>1, WriteKeepsSection
<1>2. ASSUME NEW r \in Requests, NEW u \in Users, ReadCreate(r, u)
      PROVE  SectionInv'
  BY <1>2, BeginKeepsSection, NothingIsPayload DEF ReadCreate
<1>3. ASSUME NEW r \in Requests, NEW u \in Users, ReadUpdate(r, u)
      PROVE  SectionInv'
  BY <1>3, BeginKeepsSection DEF ReadUpdate
<1>4. CASE ChangeHands
  BY <1>4 DEF ChangeHands, SectionInv, InitiatorTypeOK, PatchStillValid,
     BlacklistConsistent, ResolveBlacklistUpdate
<1>5. CASE UNCHANGED initiatorSection
  BY <1>5 DEF initiatorSection, SectionInv, InitiatorTypeOK, PatchStillValid,
     BlacklistConsistent, ResolveBlacklistUpdate
<1>6. QED
  BY <1>1, <1>2, <1>3, <1>4, <1>5 DEF InitiatorNext

(* At first nothing is filled in and nobody is at work.                    *)
LEMMA InitSection == InitiatorInit => SectionInv
<1> SUFFICES ASSUME InitiatorInit PROVE SectionInv
  OBVIOUS
<1>1. InitiatorTypeOK
  BY NothingIsPayload DEF InitiatorInit, InitiatorTypeOK, Section, Idle
<1>2. PatchStillValid
  BY DEF InitiatorInit, PatchStillValid, Idle
<1>3. BlacklistConsistent
  BY NullAssumption DEF InitiatorInit, BlacklistConsistent, Consistent,
     BlacklistStatus
<1>4. QED
  BY <1>1, <1>2, <1>3 DEF SectionInv

(* As long as no handlers overlap, whatever PATCHes carry, a blacklisted   *)
(* customer keeps every detail and one who is not has none                 *)
(* (resolveBlacklistUpdate).                                               *)
THEOREM BlacklistStaysConsistent == InitiatorSpec => []BlacklistConsistent
<1>1. InitiatorInit => SectionInv
  BY InitSection
<1>2. SectionInv => BlacklistConsistent
  BY DEF SectionInv
<1>3. QED
  BY <1>1, <1>2, SectionInvKept, PTL DEF InitiatorSpec

(* The columns of the section keep their types.                            *)
THEOREM SectionTypeCorrect == InitiatorSpec => []InitiatorTypeOK
<1>1. InitiatorInit => SectionInv
  BY InitSection
<1>2. SectionInv => InitiatorTypeOK
  BY DEF SectionInv
<1>3. QED
  BY <1>1, <1>2, SectionInvKept, PTL DEF InitiatorSpec

-------------------------------------------------------------------------------
(* The wizard and its reviewers (Appraisal).                               *)

(* A PATCH under way that nothing has overtaken is one the stage allowed.  *)
PatchAllowed == patch # NULL /\ ~patchRaced => inWizard

(* What the reviewers read changes under them only by the one POST and by  *)
(* the engine (assertInitiatorCanEdit).                                    *)
THEOREM ReviewersReadWhatStays == AppraisalSpec => FrozenUnderReview
<1>1. AppraisalInit => PatchAllowed
  BY DEF AppraisalInit, PatchAllowed
<1>2. PatchAllowed /\ [AppraisalNext]_appraisal => PatchAllowed'
  BY DEF PatchAllowed, AppraisalNext, FinalizeBasics, ReadPatch, WritePatch,
     LosePatch, SaveScore, HandOver, Meanwhile, appraisal, written, appraised
<1>3. PatchAllowed /\ [AppraisalNext]_appraisal
        => (~inWizard /\ ~patchRaced =>
              /\ basics' = basics \/ (~stamped /\ stamped')
              /\ family' = family
              /\ inputs' = inputs \/ scoredBy' = "engine")
  BY DEF PatchAllowed, AppraisalNext, FinalizeBasics, ReadPatch, WritePatch,
     LosePatch, SaveScore, HandOver, Meanwhile, appraisal, written, appraised
<1>4. QED
  BY <1>1, <1>2, <1>3, PTL DEF AppraisalSpec, FrozenUnderReview

(* Every number a step accepts fits its column, but the years.             *)
Fits(accepts) ==
    \A c \in DOMAIN accepts \ {"operationOfInstitution"}, n \in Number :
        accepts[c][n] => Holds(c)[Rounded(c, n)]

LEMMA RoundedFits ==
    ASSUME NEW c, NEW n \in Number
    PROVE  /\ Rounded(c, n) \in Number
           /\ Rounded(c, n).rank = n.rank
           /\ Rounded(c, n).fraction => n.fraction
           /\ c = "dsgir" => ~Rounded(c, n).fraction
  BY DEF Rounded, Number

LEMMA RankAndFraction ==
    ASSUME NEW n \in Number, NEW rank
    PROVE  /\ UpTo(rank)[n] <=> n.rank <= rank
           /\ WholeUpTo(rank)[n] <=> n.rank <= rank /\ ~n.fraction
           /\ n.rank \in 1 .. 9
  BY DEF UpTo, WholeUpTo, Number

LEMMA ValidatorsFit == \A accepts \in Validators : Fits(accepts)
<1> USE DEF Fits, IsMoneyAmount, IsPercentage, IsRatioPercentage, Holds, H100,
            H120, H150, H999, H9999, H99999, MAX_INT, MONEY, D18
<1> USE RoundedFits, RankAndFraction
<1>1. Fits(FamilyMember)
  BY DEF FamilyMember
<1>2. Fits(PersonalGuarantee)
  BY DEF PersonalGuarantee
<1>3. Fits(RepaymentCapacity)
  BY DEF RepaymentCapacity
<1>4. Fits(BasicInformation)
  BY DEF BasicInformation
<1>5. Fits(CreditScoring)
  BY DEF CreditScoring
<1>6. Fits(ApplicantBackground)
  BY DEF ApplicantBackground
<1>7. Fits(Security)
  BY DEF Security
<1>8. Fits(ExistingFacility)
  BY DEF ExistingFacility
<1>9. Fits(NrbReporting)
  BY DEF NrbReporting
<1>10. QED
  BY <1>1, <1>2, <1>3, <1>4, <1>5, <1>6, <1>7, <1>8, <1>9, Zenon
     DEF Validators

(* No number that passes the wizard's validation is refused by its column, *)
(* but the years of operation, for every number (numeric-range.decorators). *)
THEOREM NothingElseIsLost == AppraisalSpec => []OnlyYearsAreLost
<1>1. AppraisalInit => OnlyYearsAreLost
  BY DEF AppraisalInit, OnlyYearsAreLost
<1>2. OnlyYearsAreLost /\ [AppraisalNext]_appraisal => OnlyYearsAreLost'
  <2> SUFFICES ASSUME OnlyYearsAreLost, [AppraisalNext]_appraisal
               PROVE  OnlyYearsAreLost'
    OBVIOUS
  <2>1. CASE LosePatch
    <3>1. PICK accepts \in Validators, n \in Number :
            \E c \in DOMAIN accepts :
              /\ accepts[c][n] /\ ~Holds(c)[Rounded(c, n)]
              /\ unstorable' = unstorable \cup {c}
      BY <2>1 DEF LosePatch
    <3>2. PICK c \in DOMAIN accepts :
            /\ accepts[c][n] /\ ~Holds(c)[Rounded(c, n)]
            /\ unstorable' = unstorable \cup {c}
      BY <3>1
    <3>3. c = "operationOfInstitution"
      BY <3>2, ValidatorsFit DEF Fits
    <3>4. QED
      BY <3>2, <3>3 DEF OnlyYearsAreLost
  <2>2. CASE UNCHANGED unstorable
    BY <2>2 DEF OnlyYearsAreLost
  <2>3. QED
    BY <2>1, <2>2 DEF AppraisalNext, FinalizeBasics, ReadPatch, WritePatch,
       SaveScore, HandOver, appraisal, written
<1>3. QED
  BY <1>1, <1>2, PTL DEF AppraisalSpec

(* The bands of a parameter exclude each other.                            *)
LEMMA BandsDisjoint ==
    ASSUME NEW p \in Parameters, NEW n \in Int,
           NEW i \in Matching(p, n), NEW j \in Matching(p, n)
    PROVE  i = j
<1> USE DEF Matching, FallsUnder, CREDIT_PARAMETERS, Rule, AtMost, AtLeast,
            Between, Hundredths
<1>1. CASE p = "creditLimit"
  BY <1>1
<1>2. CASE p = "dsgir"
  BY <1>2
<1>3. CASE p = "operationOfInstitution"
  BY <1>3
<1>4. CASE p = "satisfactoryPerformance"
  BY <1>4
<1>5. CASE p \in {"parentsBorrowingsWithBFIs", "sourceOfIncome"}
  BY <1>5
<1>6. QED
  BY <1>1, <1>2, <1>3, <1>4, <1>5 DEF Parameters

(* So no input is counted under two of them.                               *)
LEMMA CountedUnderOne ==
    ASSUME NEW p \in Parameters, NEW n \in Int
    PROVE  Cardinality(Matching(p, n)) <= 1
<1>1. CASE Matching(p, n) = {}
  BY <1>1, FS_EmptySet
<1>2. CASE Matching(p, n) # {}
  <2>1. PICK i \in Matching(p, n) : TRUE
    BY <1>2
  <2>2. Matching(p, n) = {i}
    BY <2>1, BandsDisjoint
  <2>3. Cardinality({i}) = 1
    BY FS_Singleton
  <2>4. QED
    BY <2>2, <2>3
<1>3. QED
  BY <1>1, <1>2

(* What is stored and what a PATCH carries are samples of the parameter.   *)
SamplesStored ==
    /\ inputs \in Inputs
    /\ patch # NULL => patch \in Step /\ Valid(patch)

LEMMA SamplesStoredKept ==
    SamplesStored /\ [AppraisalNext]_appraisal => SamplesStored'
<1> SUFFICES ASSUME SamplesStored, [AppraisalNext]_appraisal
             PROVE  SamplesStored'
  OBVIOUS
<1>1. CASE WritePatch
  <2>1. CASE patch.step = "inputs"
    <3>1. /\ patch.parameter \in Scoring
          /\ patch.value \in Samples[patch.parameter] \cup {NULL}
          /\ patch.value \in (UNION {Samples[p] : p \in Scoring}) \cup {NULL}
      BY <1>1, <2>1 DEF WritePatch, SamplesStored, Step, Valid
    <3>2. inputs' = [inputs EXCEPT ![patch.parameter] = patch.value]
      BY <1>1, <2>1 DEF WritePatch
    <3>3. QED
      BY <1>1, <3>1, <3>2 DEF WritePatch, SamplesStored, Inputs
  <2>2. CASE patch.step # "inputs"
    BY <1>1, <2>2 DEF WritePatch, SamplesStored
  <2>3. QED
    BY <2>1, <2>2
<1>2. CASE SaveScore
  <2>1. PICK given \in Sent :
          inputs' = [p \in Scoring |-> IF p \in DOMAIN given THEN given[p]
                                                            ELSE inputs[p]]
    BY <1>2 DEF SaveScore
  <2>2. PICK P \in SUBSET Scoring, i \in Inputs : given = [p \in P |-> i[p]]
    BY DEF Sent
  <2>3. \A p \in Scoring : inputs'[p] = i[p] \/ inputs'[p] = inputs[p]
    BY <2>1, <2>2
  <2>4. inputs' \in Inputs
    BY <2>1, <2>3 DEF SamplesStored, Inputs
  <2>5. QED
    BY <1>2, <2>4 DEF SaveScore, Meanwhile, SamplesStored
<1>3. CASE ReadPatch
  BY <1>3 DEF ReadPatch, written, appraised, SamplesStored
<1>4. CASE FinalizeBasics \/ LosePatch \/ HandOver \/ UNCHANGED appraisal
  BY <1>4 DEF FinalizeBasics, LosePatch, HandOver, Meanwhile, appraisal,
     written, appraised, SamplesStored
<1>5. QED
  BY <1>1, <1>2, <1>3, <1>4 DEF AppraisalNext

(* The score on record was computed from inputs on record, until the       *)
(* wizard writes one of them by hand, and from one band of each            *)
(* (saveCreditScoreParameterByApplicationId).                              *)
THEOREM ScoreStaysOfInputs == AppraisalSpec => []ScoreIsOfStoredInputs
<1> DEFINE Scored1 == scoredBy = "engine" =>
             \E P \in SUBSET Scoring :
                outcome = Calculate([p \in P |-> inputs[p]])
<1>1. AppraisalInit => SamplesStored /\ Scored1
  <2> SUFFICES ASSUME AppraisalInit PROVE SamplesStored /\ Scored1
    OBVIOUS
  <2>1. inputs = [p \in Scoring |-> NULL] /\ patch = NULL
    BY DEF AppraisalInit
  <2>2. inputs \in Inputs
    BY <2>1 DEF Inputs
  <2>3. scoredBy # "engine"
    BY DEF AppraisalInit
  <2>4. QED
    BY <2>1, <2>2, <2>3 DEF SamplesStored
<1>2. SamplesStored /\ Scored1 /\ [AppraisalNext]_appraisal => Scored1'
  <2> SUFFICES ASSUME Scored1, [AppraisalNext]_appraisal PROVE Scored1'
    OBVIOUS
  <2>1. CASE WritePatch
    BY <2>1 DEF WritePatch
  <2>2. CASE SaveScore
    <3>1. PICK given \in Sent :
            /\ inputs' = [p \in Scoring |-> IF p \in DOMAIN given
                                            THEN given[p] ELSE inputs[p]]
            /\ outcome' = Calculate(given)
      BY <2>2 DEF SaveScore, ScoreOf
    <3>2. PICK P \in SUBSET Scoring, i \in Inputs : given = [p \in P |-> i[p]]
      BY DEF Sent
    <3>3. given = [p \in P |-> inputs'[p]]
      BY <3>1, <3>2
    <3>4. QED
      BY <3>1, <3>3
  <2>3. CASE UNCHANGED <<inputs, outcome, scoredBy>>
    BY <2>3
  <2>4. QED
    BY <2>1, <2>2, <2>3 DEF AppraisalNext, FinalizeBasics, ReadPatch,
       LosePatch, HandOver, appraisal, written, appraised
<1>3. SamplesStored /\ Scored1 => ScoreIsOfStoredInputs
  <2> SUFFICES ASSUME SamplesStored, NEW p \in Scoring, inputs[p] # NULL
               PROVE  Cardinality(Matching(p, inputs[p])) <= 1
    BY DEF ScoreIsOfStoredInputs
  <2>1. p \in Parameters /\ inputs[p] \in Int
    BY SamplesAssumption DEF SamplesStored, Inputs, Scoring
  <2>2. QED
    BY <2>1, CountedUnderOne
<1>4. QED
  BY <1>1, <1>2, <1>3, SamplesStoredKept, PTL DEF AppraisalSpec

(* What a parameter is worth at most, in the table of the engine.          *)
Worth(p) == CREDIT_PARAMETERS[p].weight * 3

(* The table: a weight, and three rules of one to three points.            *)
TableRow(p) ==
    /\ CREDIT_PARAMETERS[p].weight \in {1, 2, 3}
    /\ DOMAIN CREDIT_PARAMETERS[p].rules = 1..3
    /\ {CREDIT_PARAMETERS[p].rules[i].point : i \in 1..3} = {1, 2, 3}

LEMMA TableRows == \A p \in Parameters : TableRow(p)
<1> USE DEF TableRow, CREDIT_PARAMETERS, AtMost, AtLeast, Between, Rule
<1>1. TableRow("creditLimit")
  BY SMT
<1>2. TableRow("dsgir")
  BY SMT
<1>3. TableRow("operationOfInstitution")
  BY SMT
<1>4. TableRow("satisfactoryPerformance")
  BY SMT
<1>5. TableRow("parentsBorrowingsWithBFIs")
  BY SMT
<1>6. TableRow("sourceOfIncome")
  BY SMT
<1>7. Parameters = {"creditLimit", "dsgir", "operationOfInstitution",
                    "satisfactoryPerformance", "parentsBorrowingsWithBFIs",
                    "sourceOfIncome"}
  BY SMT DEF Parameters
<1>8. QED
  <2> HIDE DEF TableRow
  <2>1. QED
    BY SMT, <1>1, <1>2, <1>3, <1>4, <1>5, <1>6, <1>7

(* A matched rule scores one to three points, times the weight.            *)
LEMMA PointsOfRule ==
    ASSUME NEW p \in Parameters, NEW n \in Int, Matching(p, n) # {}
    PROVE  /\ GetScore(p, n) \in Nat
           /\ GetScore(p, n) <= Worth(p)
           /\ Worth(p) \in Nat
<1> DEFINE rules == CREDIT_PARAMETERS[p].rules
           weight == CREDIT_PARAMETERS[p].weight
<1>1. /\ weight \in {1, 2, 3}
      /\ DOMAIN rules = 1..3
      /\ \A i \in 1..3 : rules[i].point \in {1, 2, 3}
  BY TableRows DEF TableRow
<1>2. Matching(p, n) \subseteq 1..3
  BY <1>1 DEF Matching
<1>3. Min(Matching(p, n)) \in Matching(p, n)
  <2>1. Matching(p, n) \in SUBSET Nat
    BY <1>2
  <2>2. PICK i \in Matching(p, n) : \A j \in Matching(p, n) : i <= j
    BY <2>1, LeastNumber
  <2>3. QED
    BY <2>2 DEF Min
<1> DEFINE point == rules[Min(Matching(p, n))].point
<1>4. point \in {1, 2, 3}
  BY <1>1, <1>2, <1>3
<1>5. GetScore(p, n) = weight * point /\ Worth(p) = weight * 3
  BY DEF GetScore, Worth
<1> HIDE DEF point, weight
<1>6. /\ weight * point \in Nat /\ weight * 3 \in Nat
      /\ weight * point <= weight * 3
  BY <1>1, <1>4
<1>7. QED
  BY <1>5, <1>6

(* The best rule of every parameter is worth three points.                 *)
LEMMA BestRule ==
    ASSUME NEW p \in Parameters
    PROVE  CREDIT_PARAMETERS[p].weight * MaxPoint(p) = Worth(p)
<1> DEFINE rules == CREDIT_PARAMETERS[p].rules
<1>1. {rule.point : rule \in Range(rules)} =
        {rules[i].point : i \in DOMAIN rules}
  BY DEF Range
<1>2. {rule.point : rule \in Range(rules)} = {1, 2, 3}
  BY <1>1, TableRows DEF TableRow
<1>3. Max({1, 2, 3}) = 3
  BY DEF Max
<1>4. MaxPoint(p) = 3
  BY <1>2, <1>3 DEF MaxPoint
<1>5. QED
  BY <1>4 DEF Worth

(* The points in play, whichever the parameters.                           *)
InPlay(s) ==
    (IF "creditLimit" \in s THEN 6 ELSE 0) + (IF "dsgir" \in s THEN 9 ELSE 0)
    + (IF "operationOfInstitution" \in s THEN 6 ELSE 0)
    + (IF "satisfactoryPerformance" \in s THEN 3 ELSE 0)
    + (IF "parentsBorrowingsWithBFIs" \in s THEN 3 ELSE 0)
    + (IF "sourceOfIncome" \in s THEN 3 ELSE 0)

LEMMA InPlayWithout ==
    ASSUME NEW s, NEW p \in Parameters, p \in s
    PROVE  InPlay(s) = Worth(p) + InPlay(s \ {p})
<1> USE DEF InPlay, Worth, CREDIT_PARAMETERS, Parameters
<1>1. CASE p = "creditLimit"
  BY SMT, <1>1
<1>2. CASE p = "dsgir"
  BY SMT, <1>2
<1>3. CASE p = "operationOfInstitution"
  BY SMT, <1>3
<1>4. CASE p = "satisfactoryPerformance"
  BY SMT, <1>4
<1>5. CASE p = "parentsBorrowingsWithBFIs"
  BY SMT, <1>5
<1>6. CASE p = "sourceOfIncome"
  BY SMT, <1>6
<1>7. QED
  BY SMT, <1>1, <1>2, <1>3, <1>4, <1>5, <1>6

(* The element the sums of the engine go on from.                          *)
OneOf(s) == CHOOSE p \in s : TRUE
OneOfEach(S) == [s \in SUBSET S |-> OneOf(s)]

LEMMA InPlayIsBounded ==
    ASSUME NEW s
    PROVE  InPlay(s) \in 0..30
  BY SMT DEF InPlay

LEMMA ParametersFinite ==
    /\ IsFiniteSet(Parameters)
    /\ \A S \in SUBSET Parameters : IsFiniteSet(S) /\ Picks(OneOfEach(S), S)
<1>1. Parameters = {"creditLimit", "dsgir", "operationOfInstitution",
                    "satisfactoryPerformance", "parentsBorrowingsWithBFIs",
                    "sourceOfIncome"}
  BY SMT DEF Parameters, CREDIT_PARAMETERS
<1>2. IsFiniteSet(Parameters)
  <2>1. IsFiniteSet({}) 
    BY FS_EmptySet
  <2>2. IsFiniteSet({} \cup {"creditLimit"} \cup {"dsgir"}
            \cup {"operationOfInstitution"} \cup {"satisfactoryPerformance"}
            \cup {"parentsBorrowingsWithBFIs"} \cup {"sourceOfIncome"})
    BY <2>1, FS_AddElement
  <2>3. QED
    BY <1>1, <2>2
<1>3. ASSUME NEW S \in SUBSET Parameters
      PROVE  IsFiniteSet(S) /\ Picks(OneOfEach(S), S)
  <2>1. IsFiniteSet(S)
    BY <1>2, FS_Subset
  <2>2. Picks(OneOfEach(S), S)
    BY DEF Picks, OneOfEach, OneOf
  <2>3. QED
    BY <2>1, <2>2
<1>4. QED
  BY <1>2, <1>3

(* g sums along the picks of S what each parameter adds.                   *)
Sums(g, f, S) == \A s \in SUBSET S : g[s] = SumAt(g, f, OneOfEach(S), s)

(* Scores between nothing and what their parameters are worth add up to    *)
(* no more than the points in play, and the worths to just these.          *)
LEMMA SumsInPlay ==
    ASSUME NEW S \in SUBSET Parameters, NEW f, NEW e, NEW g, NEW h,
           Sums(g, f, S), Sums(h, e, S),
           \A p \in S : /\ Worth(p) \in Nat /\ e[p] = Worth(p)
                        /\ f[p] \in Nat /\ f[p] <= Worth(p)
    PROVE  h[S] = InPlay(S) /\ g[S] \in 0..InPlay(S)
<1> DEFINE Good(s) == h[s] = InPlay(s) /\ g[s] \in 0..InPlay(s)
           c == OneOfEach(S)
           Sizes == {Cardinality(s) : s \in {t \in SUBSET S : ~Good(t)}}
<1>1. IsFiniteSet(S) /\ Picks(c, S)
  BY ParametersFinite
<1>2. Good({})
  <2>1. {} \in SUBSET S
    OBVIOUS
  <2>2. g[{}] = 0 /\ h[{}] = 0
    BY <2>1 DEF Sums, SumAt
  <2>3. InPlay({}) = 0
    BY SMT DEF InPlay
  <2>4. QED
    BY <2>2, <2>3
<1>3. ASSUME NEW s \in SUBSET S, s # {}, Good(s \ {c[s]})
      PROVE  Good(s)
  <2>1. c[s] \in s /\ c[s] \in S /\ c[s] \in Parameters
    BY <1>1, <1>3 DEF Picks
  <2>2. g[s] = f[c[s]] + g[s \ {c[s]}] /\ h[s] = e[c[s]] + h[s \ {c[s]}]
    BY <1>3 DEF Sums, SumAt
  <2>3. InPlay(s) = Worth(c[s]) + InPlay(s \ {c[s]})
    BY <2>1, InPlayWithout
  <2>4. InPlay(s) \in Int /\ InPlay(s \ {c[s]}) \in Int
    BY InPlayIsBounded
  <2> HIDE DEF c
  <2>5. PICK a, b, w, y, z, x \in Int :
          /\ a = f[c[s]] /\ b = g[s \ {c[s]}] /\ w = Worth(c[s])
          /\ y = InPlay(s \ {c[s]}) /\ z = InPlay(s) /\ x = h[s \ {c[s]}]
    BY <1>3, <2>1, <2>4
  <2>6. /\ 0 <= a /\ a <= w /\ 0 <= b /\ b <= y /\ x = y /\ e[c[s]] = w
    BY <1>3, <2>1, <2>5
  <2>7. g[s] = a + b /\ h[s] = w + x /\ z = w + y
    BY <2>2, <2>3, <2>5, <2>6
  <2>8. g[s] \in 0..z /\ h[s] = z
    BY ONLY <2>6, <2>7, a \in Int, b \in Int, w \in Int, x \in Int, y \in Int,
            z \in Int
  <2>9. QED
    BY <2>5, <2>8
<1>4. Sizes = {}
  <2>1. SUFFICES ASSUME Sizes # {} PROVE FALSE
    OBVIOUS
  <2>2. Sizes \in SUBSET Nat
    BY <1>1, FS_Subset, FS_CardinalityType
  <2>3. PICK n \in Sizes : \A k \in Sizes : n <= k
    BY <2>1, <2>2, LeastNumber
  <2>4. PICK s \in SUBSET S : ~Good(s) /\ Cardinality(s) = n
    BY <2>3
  <2>5. s # {}
    BY <1>2, <2>4
  <2> HIDE DEF Good, c
  <2>6. /\ s \ {c[s]} \in SUBSET S /\ Cardinality(s) \in Nat
        /\ Cardinality(s \ {c[s]}) = Cardinality(s) - 1
    BY <1>1, <2>5, SmallerByOne
  <2>7. Good(s \ {c[s]})
    <3>1. SUFFICES ASSUME ~Good(s \ {c[s]}) PROVE FALSE
      OBVIOUS
    <3>2. Cardinality(s \ {c[s]}) \in Sizes
      BY Zenon, <2>6, <3>1
    <3>3. n <= n - 1 /\ n \in Nat
      BY <2>3, <2>4, <2>6, <3>2
    <3>4. QED
      BY <3>3
  <2>8. QED
    BY <1>3, <2>4, <2>5, <2>7
<1>5. Good(S)
  BY <1>4
<1>6. QED
  BY <1>5

(* What the engine adds up is what the points of the matched rules, or the *)
(* worths of their parameters, add up to.                                  *)
LEMMA ScoreSum ==
    ASSUME NEW given, Scored(given) \subseteq Parameters,
           NEW f, f = [p \in Scored(given) |-> GetScore(p, given[p])],
           f \in [Scored(given) -> Int]
    PROVE  \E g : Sums(g, f, Scored(given))
                  /\ TotalWeightScore(given) = g[Scored(given)]
<1> DEFINE S == Scored(given)
           Added(g) == [s \in SUBSET S |-> IF s = {} THEN 0
                         ELSE GetScore(OneOf(s), given[OneOf(s)])
                              + g[s \ {OneOf(s)}]]
           iter == CHOOSE g : g = Added(g)
<1>1. PICK g : AddsUp(g, f, OneOfEach(S), S)
  BY ParametersFinite, SumExists
<1>2. ASSUME NEW h, NEW s \in SUBSET S
      PROVE  SumAt(h, f, OneOfEach(S), s) =
                IF s = {} THEN 0 ELSE GetScore(OneOf(s), given[OneOf(s)])
                                      + h[s \ {OneOf(s)}]
  <2>1. s # {} => OneOfEach(S)[s] = OneOf(s) /\ OneOf(s) \in S
    BY DEF OneOfEach, OneOf
  <2>2. QED
    BY <2>1 DEF SumAt
<1>3. g = Added(g)
  BY <1>1, <1>2 DEF AddsUp
<1>4. iter = Added(iter)
  <2> HIDE DEF Added
  <2>1. QED
    BY <1>3
<1>5. TotalWeightScore(given) = iter[S]
  BY Zenon DEF TotalWeightScore, MapThenSumSet, MapThenFoldSet, OneOf
<1>6. Sums(iter, f, S)
  <2> HIDE DEF iter
  <2>1. QED
    BY <1>2, <1>4 DEF Sums
<1>7. QED
  BY <1>5, <1>6

LEMMA WorthSum ==
    ASSUME NEW given, Scored(given) \subseteq Parameters,
           NEW e, e = [p \in Scored(given) |->
                          CREDIT_PARAMETERS[p].weight * MaxPoint(p)],
           e \in [Scored(given) -> Int]
    PROVE  \E h : Sums(h, e, Scored(given))
                  /\ MaxPossibleScore(given) = h[Scored(given)]
<1> DEFINE S == Scored(given)
           Added(g) == [s \in SUBSET S |-> IF s = {} THEN 0
                         ELSE CREDIT_PARAMETERS[OneOf(s)].weight
                                 * MaxPoint(OneOf(s))
                              + g[s \ {OneOf(s)}]]
           iter == CHOOSE g : g = Added(g)
<1>1. PICK g : AddsUp(g, e, OneOfEach(S), S)
  BY ParametersFinite, SumExists
<1>2. ASSUME NEW h, NEW s \in SUBSET S
      PROVE  SumAt(h, e, OneOfEach(S), s) =
                IF s = {} THEN 0 ELSE CREDIT_PARAMETERS[OneOf(s)].weight
                                         * MaxPoint(OneOf(s))
                                      + h[s \ {OneOf(s)}]
  <2>1. s # {} => OneOfEach(S)[s] = OneOf(s) /\ OneOf(s) \in S
    BY DEF OneOfEach, OneOf
  <2>2. QED
    BY <2>1 DEF SumAt
<1>3. g = Added(g)
  BY <1>1, <1>2 DEF AddsUp
<1>4. iter = Added(iter)
  <2> HIDE DEF Added
  <2>1. QED
    BY <1>3
<1>5. MaxPossibleScore(given) = iter[S]
  BY Zenon DEF MaxPossibleScore, MapThenSumSet, MapThenFoldSet, OneOf
<1>6. Sums(iter, e, S)
  <2> HIDE DEF iter
  <2>1. QED
    BY <1>2, <1>4 DEF Sums
<1>7. QED
  BY <1>5, <1>6

Percentages == 0..10000

(* The percentage of a score that does not exceed its maximum.             *)
LEMMA PercentageIsOne ==
    ASSUME NEW max \in Nat, NEW score \in Nat, score <= max
    PROVE  Percentage(score, max) \in Percentages
<1>1. CASE max = 0
  BY SMT, <1>1 DEF Percentage, Percentages
<1>2. CASE max > 0
  <2>1. max \in Nat /\ 10000 * score \in Int
    OBVIOUS
  <2>2. Percentage(score, max) = Round(10000 * score, max)
    BY <1>2 DEF Percentage, Round
  <2>3. PICK q \in Int, x \in Int :
          /\ q = Round(10000 * score, max) /\ x = 10000 * score
          /\ 2 * (q * max) <= 2 * x + max /\ 2 * x - max < 2 * (q * max)
    <3>1. PICK x \in Int : x = 10000 * score
      BY <2>1
    <3>2. /\ Round(x, max) \in Int
          /\ 2 * (Round(x, max) * max) <= 2 * x + max
          /\ 2 * x - max < 2 * (Round(x, max) * max)
      BY <1>2, <2>1, RoundIsNear
    <3>3. QED
      BY <3>1, <3>2
  <2>4. 0 <= x /\ x <= 10000 * max
    BY <2>3
  <2>5. q <= 10000
    <3>1. SUFFICES ASSUME q >= 10001 PROVE FALSE
      OBVIOUS
    <3>2. q * max >= 10001 * max
      BY <3>1, <1>2
    <3>3. QED
      BY <1>2, <2>3, <2>4, <3>2
  <2>6. q >= 0
    <3>1. SUFFICES ASSUME q <= 0 - 1 PROVE FALSE
      OBVIOUS
    <3>2. q * max <= 0 - max
      BY <3>1, <1>2
    <3>3. QED
      BY <1>2, <2>3, <2>4, <3>2
  <2>7. Percentage(score, max) = q
    BY SMT, <2>2, <2>3
  <2>8. QED
    BY SMT, <2>5, <2>6, <2>7 DEF Percentages
<1>3. QED
  BY <1>1, <1>2

(* Whatever inputs it is asked to score, the engine scores no more than    *)
(* the points in play, no more than a hundred percent, and finds a grade.  *)
LEMMA EngineTyped ==
    ASSUME NEW given, DOMAIN given \subseteq Parameters,
           \A p \in DOMAIN given : given[p] \in Int \cup {NULL}
    PROVE  Calculate(given) \in Outcome
<1> DEFINE S == Scored(given)
           f == [p \in S |-> GetScore(p, given[p])]
           e == [p \in S |-> CREDIT_PARAMETERS[p].weight * MaxPoint(p)]
<1>1. S \in SUBSET Parameters
      /\ \A p \in S : given[p] \in Int /\ Matching(p, given[p]) # {}
  BY DEF Scored
<1>2. \A p \in S : /\ Worth(p) \in Nat /\ e[p] = Worth(p)
                   /\ f[p] \in Nat /\ f[p] <= Worth(p)
  BY <1>1, PointsOfRule, BestRule
<1> DEFINE score == TotalWeightScore(given)
           most == MaxPossibleScore(given)
<1>3. f \in [S -> Int] /\ e \in [S -> Int]
  BY <1>2
<1>4. PICK g : Sums(g, f, S) /\ score = g[S]
  <2> HIDE DEF f
  <2>1. f = [p \in S |-> GetScore(p, given[p])]
    BY DEF f
  <2>2. QED
    BY <1>1, <1>3, <2>1, ScoreSum
<1>5. PICK h : Sums(h, e, S) /\ most = h[S]
  <2> HIDE DEF e
  <2>1. e = [p \in S |-> CREDIT_PARAMETERS[p].weight * MaxPoint(p)]
    BY DEF e
  <2>2. QED
    BY <1>1, <1>3, <2>1, WorthSum
<1>6. h[S] = InPlay(S) /\ g[S] \in 0..InPlay(S)
  <2> HIDE DEF f, e, S
  <2>1. QED
    BY <1>1, <1>2, <1>4, <1>5, SumsInPlay
<1> HIDE DEF f, e, S, score, most
<1>7. most \in 0..30 /\ score \in 0..most
  BY <1>4, <1>5, <1>6, InPlayIsBounded
<1>8. Percentage(score, most) \in Percentages
  <2>1. score \in Nat /\ most \in Nat /\ score <= most
    BY <1>7
  <2>2. QED
    BY <2>1, PercentageIsOne
<1>9. ResolveGrade(Percentage(score, most)) \in Grades
  BY <1>8 DEF ResolveGrade, Grades
<1>10. score \in 0..30
  BY <1>7
<1>11. Calculate(given) =
         [totalScore |-> score, totalPercentage |-> Percentage(score, most),
          riskGrade |-> ResolveGrade(Percentage(score, most))]
  BY DEF Calculate, score, most
<1>12. QED
  BY SMT, <1>8, <1>9, <1>10, <1>11 DEF Outcome, Percentages

(* What is stored of an appraisal has its type: a score of the engine is   *)
(* no more than the points of its parameters, and a percentage no more     *)
(* than a hundred (buildScoreRequest, updateInitiatorApplication).         *)
THEOREM AppraisalTypeCorrect == AppraisalSpec => []AppraisalTypeOK
<1> DEFINE Stored ==
        /\ {inWizard, stamped, patchRaced} \subseteq BOOLEAN
        /\ basics \in Value \cup {NULL} /\ family \subseteq Value
        /\ outcome \in Outcome \cup {NULL, TYPED}
        /\ scoredBy \in {"nobody", "wizard", "engine"}
        /\ unstorable \subseteq Columns
<1>1. AppraisalInit => SamplesStored /\ Stored
  <2> SUFFICES ASSUME AppraisalInit PROVE SamplesStored /\ Stored
    OBVIOUS
  <2>1. SamplesStored
    BY DEF AppraisalInit, SamplesStored, Inputs
  <2>2. QED
    BY <2>1 DEF AppraisalInit
<1>2. Stored /\ SamplesStored /\ [AppraisalNext]_appraisal => Stored'
  <2> SUFFICES ASSUME Stored, SamplesStored, [AppraisalNext]_appraisal
               PROVE  Stored'
    OBVIOUS
  <2>1. CASE FinalizeBasics
    BY <2>1 DEF FinalizeBasics, Meanwhile
  <2>2. CASE ReadPatch
    BY <2>2 DEF ReadPatch, written, appraised
  <2>3. CASE WritePatch
    <3>1. /\ patch.step = "basics" => patch.value \in Value
          /\ patch.step = "family" => patch.rows \subseteq Value
      BY <2>3 DEF WritePatch, SamplesStored, Step
    <3>2. basics' \in Value \cup {NULL} /\ family' \subseteq Value
      BY <2>3, <3>1 DEF WritePatch, ReplaceList
    <3>3. QED
      BY <2>3, <3>2 DEF WritePatch
  <2>4. CASE LosePatch
    <3>1. PICK accepts \in Validators : \E c \in DOMAIN accepts :
            unstorable' = unstorable \cup {c}
      BY <2>4 DEF LosePatch
    <3>2. DOMAIN accepts \subseteq Columns
      BY DEF Columns
    <3>3. QED
      BY <2>4, <3>1, <3>2 DEF LosePatch, appraised
  <2>5. CASE SaveScore
    <3>1. PICK given \in Sent : outcome' = Calculate(given)
      BY <2>5 DEF SaveScore, ScoreOf
    <3>2. PICK P \in SUBSET Scoring, i \in Inputs : given = [p \in P |-> i[p]]
      BY DEF Sent
    <3>3. /\ DOMAIN given \subseteq Parameters
          /\ \A p \in DOMAIN given : given[p] \in Int \cup {NULL}
      BY <3>2, SamplesAssumption DEF Inputs, Scoring
    <3>4. outcome' \in Outcome
      BY <3>1, <3>3, EngineTyped
    <3>5. QED
      BY <2>5, <3>4 DEF SaveScore, Meanwhile
  <2>6. CASE HandOver
    BY <2>6 DEF HandOver, Meanwhile, written, appraised
  <2>7. CASE UNCHANGED appraisal
    BY <2>7 DEF appraisal, written, appraised
  <2>8. QED
    BY <2>1, <2>2, <2>3, <2>4, <2>5, <2>6, <2>7 DEF AppraisalNext
<1>3. Stored /\ SamplesStored => AppraisalTypeOK
  BY DEF SamplesStored, AppraisalTypeOK
<1>4. QED
  BY <1>1, <1>2, <1>3, SamplesStoredKept, PTL DEF AppraisalSpec

-------------------------------------------------------------------------------
(* The role tables (Permissions).                                          *)

USE NewItemsAssumption, DefaultsAssumption

(* Every reachable state of the role tables is well typed.                 *)
THEOREM PermissionsTypeCorrect == PermissionsSpec => []PermissionsTypeOK
<1>1. PermissionsInit => PermissionsTypeOK
  <2> SUFFICES ASSUME PermissionsInit PROVE PermissionsTypeOK
    OBVIOUS
  <2>1. editor \in [Editors -> Editor]
    BY DEF PermissionsInit, Editor
  <2>2. menu \in [Roles -> [MenuItems -> {"none", "shown", "hidden"}]]
    BY DEF PermissionsInit
  <2>3. wanted \in [Roles -> [shown : SUBSET MenuItems,
                              known : SUBSET MenuItems]]
    BY DEF PermissionsInit, Unedited
  <2>4. /\ grants \in [Roles -> SUBSET Keys]
        /\ grantedSet \in [Roles -> SUBSET SUBSET Keys]
    BY DEF PermissionsInit
  <2>5. QED
    BY <2>1, <2>2, <2>3, <2>4 DEF PermissionsInit, PermissionsTypeOK, Phases
<1>2. PermissionsTypeOK /\ [PermissionsNext]_permissions => PermissionsTypeOK'
  <2> SUFFICES ASSUME PermissionsTypeOK, [PermissionsNext]_permissions
               PROVE  PermissionsTypeOK'
    OBVIOUS
  <2> USE DEF PermissionsTypeOK, permissionTables
  <2>1. CASE SeedRoles \/ SeedPermissions \/ SeedMenuItems \/ SeedAgain
    BY <2>1
       DEF SeedRoles, SeedPermissions, SeedMenuItems, SeedAgain, Phase, Phases
  <2>2. CASE SeedRoleMenu
    BY <2>2 DEF SeedRoleMenu, Phase, Phases
  <2>3. CASE SeedRolePermissions
    BY <2>3 DEF SeedRolePermissions, Phase, Phases
  <2>4. ASSUME NEW e \in Editors, NEW r \in Roles,
               NEW shown \in SUBSET MenuItems, ReadRoleMenu(e, r, shown)
        PROVE  PermissionsTypeOK'
    BY <2>4 DEF ReadRoleMenu, Editor
  <2>5. ASSUME NEW e \in Editors, NEW r \in Roles,
               NEW keys \in SUBSET Keys, BeginRolePermissions(e, r, keys)
        PROVE  PermissionsTypeOK'
    BY <2>5 DEF BeginRolePermissions, Editor
  <2>6. ASSUME NEW e \in Editors, SetRoleMenu(e)
        PROVE  PermissionsTypeOK'
    <3>1. editor[e] \in [pc : {"menu"}, role : Roles, shown : SUBSET MenuItems,
                         known : SUBSET MenuItems]
      BY <2>6 DEF SetRoleMenu, Editor, NoEditor
    <3>2. menu' \in [Roles -> [MenuItems -> {"none", "shown", "hidden"}]]
      BY <2>6, <3>1 DEF SetRoleMenu, RowHidden
    <3>3. wanted' \in [Roles -> [shown : SUBSET MenuItems,
                                 known : SUBSET MenuItems]]
      BY <2>6, <3>1 DEF SetRoleMenu
    <3>4. QED
      BY <2>6, <3>2, <3>3 DEF SetRoleMenu, Editor
  <2>7. ASSUME NEW e \in Editors, SetRolePermissions(e)
        PROVE  PermissionsTypeOK'
    <3>1. editor[e] \in [pc : {"grants"}, role : Roles, keys : SUBSET Keys,
                         deleted : SUBSET Keys]
      BY <2>7 DEF SetRolePermissions, Editor, NoEditor
    <3>2. /\ grants' \in [Roles -> SUBSET Keys]
          /\ grantedSet' \in [Roles -> SUBSET SUBSET Keys]
      <4> DEFINE edit == editor[e]
                 leftover == DeleteGranted(grants[edit.role], edit)
      <4>1. /\ edit.role \in Roles
            /\ edit.keys \in SUBSET Keys
            /\ leftover \cup edit.keys \in SUBSET Keys
        BY <3>1 DEF DeleteGranted
      <4>2. \/ /\ grants' = [grants EXCEPT ![edit.role] = leftover \cup edit.keys]
               /\ grantedSet' = [grantedSet EXCEPT ![edit.role] = {edit.keys}]
            \/ UNCHANGED <<grants, grantedSet>>
        BY <2>7, Zenon DEF SetRolePermissions
      <4> DEFINE KeySets == SUBSET SUBSET Keys
      <4>3. /\ grants \in [Roles -> SUBSET Keys]
            /\ grantedSet \in [Roles -> KeySets]
            /\ {edit.keys} \in KeySets
        BY <4>1
      <4> HIDE DEF leftover, edit, KeySets, PermissionsTypeOK
      <4>4. grants' \in [Roles -> SUBSET Keys]
        BY <4>1, <4>2, <4>3
      <4>5. grantedSet' \in [Roles -> KeySets]
        BY <4>1, <4>2, <4>3
      <4>6. QED
        BY <4>4, <4>5 DEF KeySets
    <3>3. QED
      BY <2>7, <3>2 DEF SetRolePermissions, Editor
  <2>8. CASE UNCHANGED permissions
    BY <2>8 DEF permissions
  <2>9. QED
    BY <2>1, <2>2, <2>3, <2>4, <2>5, <2>6, <2>7, <2>8 DEF PermissionsNext
<1>3. QED
  BY <1>1, <1>2, PTL DEF PermissionsSpec

-------------------------------------------------------------------------------
(* What makes RoleTablesAgree inductive.  An edit under way is of a role   *)
(* that exists; what an edit left out is recorded as hidden; and until     *)
(* writers of permissions overlap, there is one, which has deleted what is *)
(* still granted.                                                          *)
EditedRolesExist ==
    /\ \A e \in Editors : editor[e] # NoEditor => editor[e].role \in roleRows
    /\ \A r \in Roles : wanted[r].known # {} => r \in roleRows

LeftOutIsHidden ==
    \A r \in Roles : \A i \in wanted[r].known \ wanted[r].shown :
        menu[r][i] = "hidden"

OneWriterOfGrants ==
    ~editsOverlapped =>
        /\ \A e, f \in Editors :
              editor[e].pc = "grants" /\ editor[f].pc = "grants" => e = f
        /\ \A e \in Editors :
              editor[e].pc = "grants" =>
                  editor[e].deleted = grants[editor[e].role]

TablesInv ==
    /\ EditedRolesExist /\ LeftOutIsHidden
    /\ OneWriterOfGrants /\ GrantsAreOfLastEdit

(* The tables as read give the four properties.                            *)
LEMMA TablesAgree ==
    ASSUME PermissionsTypeOK, TablesInv
    PROVE  RoleTablesAgree
<1> USE DEF PermissionsTypeOK, TablesInv, GuardAllowsMenu
<1>1. SidebarIsAllowed
  BY DEF SidebarIsAllowed, Sidebar
<1>2. MatrixTellsTheGuard
  BY DEF MatrixTellsTheGuard, Matrix
<1>3. LeftOutIsRefused
  BY DEF LeftOutIsRefused, LeftOutIsHidden, EditedRolesExist
<1>4. QED
  BY <1>1, <1>2, <1>3 DEF RoleTablesAgree

(* Seeding shows the default items again, and forgets what an edit said of *)
(* them; its own grants end the last edit's.                               *)
LEMMA SeedKeepsTables ==
    ASSUME PermissionsTypeOK, TablesInv,
           SeedRoles \/ SeedPermissions \/ SeedMenuItems \/ SeedRoleMenu
             \/ SeedRolePermissions \/ SeedAgain
    PROVE  TablesInv'
<1> USE DEF PermissionsTypeOK, TablesInv, EditedRolesExist, LeftOutIsHidden,
            OneWriterOfGrants, GrantsAreOfLastEdit
<1>1. CASE SeedRoles
  BY <1>1 DEF SeedRoles
<1>2. CASE SeedPermissions \/ SeedMenuItems \/ SeedAgain
  BY <1>2 DEF SeedPermissions, SeedMenuItems, SeedAgain, permissionTables
<1>3. CASE SeedRoleMenu
  <2>1. \A r \in Roles : /\ wanted'[r].known = wanted[r].known \ DefaultMenu[r]
                         /\ wanted'[r].shown = wanted[r].shown
    BY <1>3 DEF SeedRoleMenu
  <2>2. \A r \in Roles : \A i \in MenuItems \ DefaultMenu[r] :
           menu'[r][i] = menu[r][i]
    BY <1>3 DEF SeedRoleMenu
  <2>3. UNCHANGED <<roleRows, grants, editor, editsOverlapped, grantedSet>>
    BY <1>3 DEF SeedRoleMenu
  <2>4. \A r \in Roles : wanted'[r].known \ wanted'[r].shown \subseteq
                         MenuItems \ DefaultMenu[r]
    BY <2>1
  <2>5. /\ EditedRolesExist' /\ LeftOutIsHidden'
        /\ OneWriterOfGrants' /\ GrantsAreOfLastEdit'
    <3>1. EditedRolesExist'
      BY <2>1, <2>3
    <3>2. LeftOutIsHidden'
      BY <2>1, <2>2, <2>4
    <3>3. QED
      BY <2>3, <3>1, <3>2
  <2>6. QED
    BY <2>5
<1>4. CASE SeedRolePermissions
  BY <1>4 DEF SeedRolePermissions
<1>5. QED
  BY <1>1, <1>2, <1>3, <1>4

(* The reads remember a role that exists and, alone, the rows they delete. *)
LEMMA ReadKeepsTables ==
    ASSUME PermissionsTypeOK, TablesInv, NEW e \in Editors, NEW r \in Roles,
           \/ \E shown \in SUBSET MenuItems : ReadRoleMenu(e, r, shown)
           \/ \E keys \in SUBSET Keys : BeginRolePermissions(e, r, keys)
    PROVE  TablesInv'
<1> USE DEF PermissionsTypeOK, TablesInv, EditedRolesExist, LeftOutIsHidden,
            OneWriterOfGrants, GrantsAreOfLastEdit
<1>1. ASSUME NEW shown \in SUBSET MenuItems, ReadRoleMenu(e, r, shown)
      PROVE  TablesInv'
  BY <1>1 DEF ReadRoleMenu, permissionTables
<1>2. ASSUME NEW keys \in SUBSET Keys, BeginRolePermissions(e, r, keys)
      PROVE  TablesInv'
  BY <1>2 DEF BeginRolePermissions, permissionTables
<1>3. QED
  BY <1>1, <1>2

(* An edit of the menu gives every item it knew a row, shown or hidden.    *)
LEMMA SetRoleMenuKeepsTables ==
    ASSUME PermissionsTypeOK, TablesInv, NEW e \in Editors, SetRoleMenu(e)
    PROVE  TablesInv'
<1> USE DEF PermissionsTypeOK, TablesInv
<1> DEFINE edit == editor[e]
<1>1. edit \in [pc : {"menu"}, role : Roles, shown : SUBSET MenuItems,
                known : SUBSET MenuItems]
  BY DEF SetRoleMenu, Editor, NoEditor
<1>2. \A f \in Editors : editor'[f] = IF f = e THEN NoEditor ELSE editor[f]
  BY DEF SetRoleMenu
<1>3. edit.role \in roleRows
  BY <1>1 DEF EditedRolesExist, NoEditor
<1>4. \A r \in Roles \ {edit.role} :
         menu'[r] = menu[r] /\ wanted'[r] = wanted[r]
  BY <1>1 DEF SetRoleMenu
<1>5. /\ wanted'[edit.role].shown =
            edit.shown \cup (wanted[edit.role].shown \ edit.known)
      /\ wanted'[edit.role].known = edit.known \cup wanted[edit.role].known
      /\ \A i \in MenuItems :
            menu'[edit.role][i] =
               IF i \in edit.shown THEN "shown"
               ELSE IF i \in edit.known THEN "hidden" ELSE menu[edit.role][i]
  BY <1>1 DEF SetRoleMenu, RowHidden
<1>6. EditedRolesExist'
  BY <1>2, <1>3, <1>4 DEF EditedRolesExist, SetRoleMenu
<1>7. LeftOutIsHidden'
  <2> SUFFICES ASSUME NEW r \in Roles,
                      NEW i \in wanted'[r].known \ wanted'[r].shown
               PROVE  menu'[r][i] = "hidden"
    BY DEF LeftOutIsHidden
  <2>1. CASE r = edit.role
    BY <2>1, <1>1, <1>5 DEF LeftOutIsHidden
  <2>2. CASE r # edit.role
    BY <2>2, <1>4 DEF LeftOutIsHidden
  <2>3. QED
    BY <2>1, <2>2
<1>8. OneWriterOfGrants' /\ GrantsAreOfLastEdit'
  BY <1>2 DEF SetRoleMenu, OneWriterOfGrants, GrantsAreOfLastEdit, NoEditor
<1>9. QED
  BY <1>6, <1>7, <1>8

(* An edit of the permissions that is alone leaves the role its own keys.  *)
LEMMA SetRolePermissionsKeepsTables ==
    ASSUME PermissionsTypeOK, TablesInv, NEW e \in Editors,
           SetRolePermissions(e)
    PROVE  TablesInv'
<1> USE DEF PermissionsTypeOK, TablesInv
<1> DEFINE edit == editor[e]
<1>1. edit \in [pc : {"grants"}, role : Roles, keys : SUBSET Keys,
                deleted : SUBSET Keys]
  BY DEF SetRolePermissions, Editor, NoEditor
<1>2. \A f \in Editors : editor'[f] = IF f = e THEN NoEditor ELSE editor[f]
  BY DEF SetRolePermissions
<1>3. EditedRolesExist' /\ LeftOutIsHidden'
  BY <1>2 DEF SetRolePermissions, EditedRolesExist, LeftOutIsHidden
<1>4. ASSUME ~editsOverlapped
      PROVE  /\ \A f \in Editors : editor'[f].pc # "grants"
             /\ grants' = [grants EXCEPT ![edit.role] = edit.keys]
             /\ grantedSet' = [grantedSet EXCEPT ![edit.role] = {edit.keys}]
  <2>1. DeleteGranted(grants[edit.role], edit) = {}
    BY <1>1, <1>4 DEF DeleteGranted, OneWriterOfGrants
  <2>2. \A f \in Editors : editor'[f].pc # "grants"
    BY <1>1, <1>2, <1>4 DEF OneWriterOfGrants, NoEditor
  <2>3. QED
    BY <2>1, <2>2 DEF SetRolePermissions
<1>5. OneWriterOfGrants' /\ GrantsAreOfLastEdit'
  BY <1>1, <1>4
     DEF SetRolePermissions, OneWriterOfGrants, GrantsAreOfLastEdit
<1>6. QED
  BY <1>3, <1>5

(* However the Admins' edits, the seed and its restarts interleave, the    *)
(* sidebar, the matrix and the guard agree, what an edit left out stays    *)
(* refused until the seed shows it again, and until writers of permissions *)
(* overlap a role has those of its last edit.                              *)
THEOREM RolesMeanWhatWasChosen == PermissionsSpec => []RoleTablesAgree
<1>1. PermissionsInit => TablesInv
  BY DEF PermissionsInit, TablesInv, EditedRolesExist, LeftOutIsHidden,
     OneWriterOfGrants, GrantsAreOfLastEdit, NoEditor, Unedited
<1>2. PermissionsTypeOK /\ TablesInv /\ [PermissionsNext]_permissions
        => TablesInv'
  <2> SUFFICES ASSUME PermissionsTypeOK, TablesInv,
                      [PermissionsNext]_permissions
               PROVE  TablesInv'
    OBVIOUS
  <2>1. CASE UNCHANGED permissions
    BY <2>1 DEF permissions, permissionTables, TablesInv, EditedRolesExist,
       LeftOutIsHidden, OneWriterOfGrants, GrantsAreOfLastEdit
  <2>2. CASE PermissionsNext
    BY <2>2, SeedKeepsTables, ReadKeepsTables, SetRoleMenuKeepsTables,
       SetRolePermissionsKeepsTables DEF PermissionsNext
  <2>3. QED
    BY <2>1, <2>2
<1>3. PermissionsTypeOK /\ TablesInv => RoleTablesAgree
  BY TablesAgree
<1>4. QED
  BY <1>1, <1>2, <1>3, PermissionsTypeCorrect, PTL DEF PermissionsSpec

-------------------------------------------------------------------------------
(* The accounts (Accounts).                                                *)

USE MaxTokensAssumption, PasswordsAssumption, NoTokenAssumption

(* The steps by which a request begins, and those by which it goes on.     *)
Begins(r, e) ==
    \/ ReadForgotPassword(r, e)
    \/ \E t \in Token : ReadVerifyEmail(r, e, t)
    \/ \E p \in Passwords :
          \/ ReadRegister(r, e, p)
          \/ \E t \in Token : ReadResetPassword(r, e, t, p)
          \/ \E new \in Passwords : ReadChangePassword(r, e, p, new)

Continues(r) ==
    \/ Register(r) \/ Mail(r) \/ VerifyEmail(r) \/ ForgotPassword(r)
    \/ ResetPassword(r) \/ ChangePassword(r) \/ LoseRequest(r)

(* A token that is drawn is new, and a number.                             *)
LEMMA DrawnToken ==
    ASSUME AccountsTypeOK, DrawToken
    PROVE  /\ tokens' \in Token /\ tokens' = tokens + 1
           /\ tokens' \in 0..MaxTokens
           /\ tokens' # NULL
  BY DEF AccountsTypeOK, DrawToken, Token

(* A request that begins remembers what it may, and writes nothing.        *)
LEMMA BeginsTyped ==
    ASSUME NEW r \in Requests, NEW e \in Emails, Begins(r, e)
    PROVE  /\ \E state \in Request : Start(r, state) /\ state.email = e
           /\ UNCHANGED <<user, tokens, expired, mailed, uses, loggedIn>>
<1>1. CASE ReadForgotPassword(r, e)
  BY <1>1 DEF ReadForgotPassword, Request
<1>2. ASSUME NEW t \in Token, ReadVerifyEmail(r, e, t)
      PROVE  \E state \in Request : Start(r, state) /\ state.email = e
  BY <1>2 DEF ReadVerifyEmail, Request
<1>3. ASSUME NEW p \in Passwords, ReadRegister(r, e, p)
      PROVE  \E state \in Request : Start(r, state) /\ state.email = e
  BY <1>3 DEF ReadRegister, Request
<1>4. ASSUME NEW p \in Passwords, NEW t \in Token,
             ReadResetPassword(r, e, t, p)
      PROVE  \E state \in Request : Start(r, state) /\ state.email = e
  BY <1>4 DEF ReadResetPassword, Request
<1>5. ASSUME NEW p \in Passwords, NEW new \in Passwords,
             ReadChangePassword(r, e, p, new)
      PROVE  \E state \in Request : Start(r, state) /\ state.email = e
  BY <1>5 DEF ReadChangePassword, Request
<1>6. UNCHANGED <<user, tokens, expired, mailed, uses, loggedIn>>
  BY DEF Begins, ReadForgotPassword, ReadVerifyEmail, ReadRegister,
     ReadResetPassword, ReadChangePassword
<1>7. QED
  BY <1>1, <1>2, <1>3, <1>4, <1>5, <1>6 DEF Begins

-------------------------------------------------------------------------------
(* Every reachable state of the accounts is well typed.                    *)
THEOREM AccountsTypeCorrect == AccountsSpec => []AccountsTypeOK
<1>1. AccountsInit => AccountsTypeOK
  <2> SUFFICES ASSUME AccountsInit PROVE AccountsTypeOK
    OBVIOUS
  <2>1. NoUser \in UserRow /\ NoRequest \in Request
    BY DEF NoUser, UserRow, Request
  <2>2. /\ user \in [Emails -> UserRow]
        /\ request \in [Requests -> Request]
        /\ uses \in [Token -> Nat]
    BY <2>1 DEF AccountsInit
  <2>3. /\ tokens = 0 /\ expired = {} /\ mailed = {}
        /\ accountRaced = FALSE /\ loggedIn = {}
    BY DEF AccountsInit
  <2>4. tokens \in 0..MaxTokens
    BY <2>3
  <2>5. expired \subseteq Token /\ mailed \subseteq Token
    BY <2>3
  <2>6. accountRaced \in BOOLEAN /\ loggedIn \subseteq Emails
    BY <2>3
  <2>7. QED
    BY <2>2, <2>4, <2>5, <2>6 DEF AccountsTypeOK
<1>2. AccountsTypeOK /\ [AccountsNext]_accounts => AccountsTypeOK'
  <2> SUFFICES ASSUME AccountsTypeOK, [AccountsNext]_accounts
               PROVE  AccountsTypeOK'
    OBVIOUS
  <2> USE DEF AccountsTypeOK
  <2>1. ASSUME NEW r \in Requests, NEW e \in Emails, Begins(r, e)
        PROVE  AccountsTypeOK'
    <3>1. PICK state \in Request : Start(r, state)
      BY <2>1, BeginsTyped
    <3>2. request' = [request EXCEPT ![r] = state]
      BY <3>1 DEF Start
    <3>3. accountRaced' \in BOOLEAN
      BY <3>1, Zenon DEF Start
    <3>4. UNCHANGED <<user, tokens, expired, mailed, uses, loggedIn>>
      BY <2>1, BeginsTyped
    <3>5. QED
      BY <3>2, <3>3, <3>4
  <2>2. ASSUME NEW r \in Requests, Register(r) PROVE AccountsTypeOK'
    <3>1. request[r] \in [pc : {"register"}, email : Emails,
                          password : Passwords]
      BY <2>2 DEF Register, Request, NoRequest
    <3>2. CASE EmailFree(request[r].email)
      <4> DEFINE row == [NoUser EXCEPT !.password = request[r].password,
                                       !.verifyToken = tokens']
                 next == [pc |-> "mail", email |-> request[r].email,
                          token |-> tokens']
      <4>1. /\ user' = [user EXCEPT ![request[r].email] = row]
            /\ request' = [request EXCEPT ![r] = next]
            /\ DrawToken
            /\ UNCHANGED <<expired, mailed, uses, accountRaced, loggedIn>>
        BY <2>2, <3>2 DEF Register, Continue
      <4>2. row \in UserRow /\ next \in Request
        BY <3>1, <4>1, DrawnToken DEF NoUser, UserRow, Request
      <4> HIDE DEF row, next
      <4>3. QED
        BY <4>1, <4>2, DrawnToken
    <3>3. CASE ~EmailFree(request[r].email)
      BY <2>2, <3>3 DEF Register, Finish, Continue, Request
    <3>4. QED
      BY <3>2, <3>3
  <2>3. ASSUME NEW r \in Requests, Mail(r) \/ LoseRequest(r)
        PROVE  AccountsTypeOK'
    <3>1. request' = [request EXCEPT ![r] = NoRequest]
      BY <2>3 DEF Mail, LoseRequest, Finish, Continue
    <3>2. mailed' \subseteq Token
      BY <2>3 DEF Mail, LoseRequest, Request, NoRequest
    <3>3. QED
      BY <2>3, <3>1, <3>2 DEF Mail, LoseRequest, Request
  <2>4. ASSUME NEW r \in Requests, VerifyEmail(r) PROVE AccountsTypeOK'
    <3>1. request[r].email \in Emails
      BY <2>4 DEF VerifyEmail, Request, NoRequest
    <3>2. user' \in [Emails -> UserRow]
      BY <2>4, <3>1 DEF VerifyEmail, UserRow
    <3>3. QED
      BY <2>4, <3>2 DEF VerifyEmail, Finish, Continue, Request
  <2>5. ASSUME NEW r \in Requests, ForgotPassword(r) PROVE AccountsTypeOK'
    <3>1. request[r].email \in Emails /\ DrawToken
      BY <2>5 DEF ForgotPassword, Request, NoRequest
    <3>2. user' \in [Emails -> UserRow]
      BY <2>5, <3>1, DrawnToken DEF ForgotPassword, UserRow
    <3>3. request' \in [Requests -> Request]
      BY <2>5, <3>1, DrawnToken DEF ForgotPassword, Continue, Request
    <3>4. QED
      BY <2>5, <3>1, <3>2, <3>3, DrawnToken DEF ForgotPassword
  <2>6. ASSUME NEW r \in Requests, ResetPassword(r) PROVE AccountsTypeOK'
    <3>1. request[r] \in [pc : {"reset"}, email : Emails, token : Token,
                          password : Passwords]
      BY <2>6 DEF ResetPassword, Request, NoRequest
    <3>2. user' \in [Emails -> UserRow]
      BY <2>6, <3>1 DEF ResetPassword, TokenSpent, UserRow
    <3>3. uses' \in [Token -> Nat]
      BY <2>6, <3>1 DEF ResetPassword
    <3>4. QED
      BY <2>6, <3>2, <3>3 DEF ResetPassword, Finish, Continue, Request
  <2>7. ASSUME NEW r \in Requests, ChangePassword(r) PROVE AccountsTypeOK'
    <3>1. request[r] \in [pc : {"change"}, email : Emails,
                          current : Passwords, password : Passwords]
      BY <2>7 DEF ChangePassword, Request, NoRequest
    <3>2. user' \in [Emails -> UserRow]
      BY <2>7, <3>1 DEF ChangePassword, UserRow
    <3>3. QED
      BY <2>7, <3>2 DEF ChangePassword, Finish, Continue, Request
  <2>8. ASSUME NEW e \in Emails, NEW p \in Passwords, Login(e, p)
        PROVE  AccountsTypeOK'
    BY <2>8 DEF Login
  <2>9. ASSUME NEW t \in Token, Expire(t) PROVE AccountsTypeOK'
    BY <2>9 DEF Expire
  <2>10. CASE UNCHANGED accounts
    BY <2>10 DEF accounts
  <2>11. QED
    BY <2>1, <2>2, <2>3, <2>4, <2>5, <2>6, <2>7, <2>8, <2>9, <2>10
       DEF AccountsNext, Begins
<1>3. QED
  BY <1>1, <1>2, PTL DEF AccountsSpec

-------------------------------------------------------------------------------
(* What makes UnverifiedKeepsItsLink inductive: requests that write a      *)
(* password or a reset token write the row of an account that exists.      *)
NoTraceBeforeRegistration ==
    \A e \in Emails : ~Exists(e) => user[e] = NoUser /\ e \notin loggedIn

WritesToAccounts ==
    \A r \in Requests :
        request[r].pc \in {"verify", "forgot", "reset", "change"}
            => Exists(request[r].email)

LinkInv ==
    NoTraceBeforeRegistration /\ WritesToAccounts /\ UnverifiedKeepsItsLink

(* A request that writes one row and is done with the account.             *)
LEMMA RowKeepsLinks ==
    ASSUME AccountsTypeOK, LinkInv, NEW r \in Requests, NEW e \in Emails,
           NEW row \in UserRow, user' = [user EXCEPT ![e] = row],
           row.password # NULL,
           row.verified \/ (row.verifyToken # NULL /\ e \notin loggedIn),
           loggedIn' = loggedIn, request'[r].pc \in {"idle", "mail"},
           \A q \in Requests : q # r => request'[q] = request[q]
    PROVE  LinkInv'
<1> USE DEF AccountsTypeOK, LinkInv
<1>1. \A f \in Emails : user'[f] = IF f = e THEN row ELSE user[f]
  OBVIOUS
<1>2. NoTraceBeforeRegistration'
  BY <1>1 DEF NoTraceBeforeRegistration, Exists
<1>3. WritesToAccounts'
  <2>1. \A f : Exists(f) => Exists(f)'
    BY <1>1 DEF Exists
  <2>2. QED
    BY <2>1 DEF WritesToAccounts
<1>4. UnverifiedKeepsItsLink'
  BY <1>1 DEF UnverifiedKeepsItsLink, Exists
<1>5. QED
  BY <1>2, <1>3, <1>4

(* The invariant behind UnverifiedKeepsItsLink.                            *)
LEMMA LinkInvHolds == AccountsSpec => []LinkInv
<1> USE DEF LinkInv, NoTraceBeforeRegistration, WritesToAccounts,
            UnverifiedKeepsItsLink, Exists
<1>1. AccountsInit => LinkInv
  BY DEF AccountsInit, NoUser, NoRequest
<1>2. AccountsTypeOK /\ LinkInv /\ [AccountsNext]_accounts => LinkInv'
  <2> SUFFICES ASSUME AccountsTypeOK, LinkInv, [AccountsNext]_accounts
               PROVE  LinkInv'
    OBVIOUS
  <2> USE DEF AccountsTypeOK
  <2>1. ASSUME NEW r \in Requests, NEW e \in Emails, Begins(r, e)
        PROVE  LinkInv'
    <3>1. /\ UNCHANGED <<user, tokens, expired, mailed, uses, loggedIn>>
          /\ \A q \in Requests : q # r => request'[q] = request[q]
      BY <2>1, BeginsTyped DEF Start
    <3>2. request'[r].pc \in {"verify", "forgot", "reset", "change"}
             => request'[r].email = e /\ Exists(e)
      BY <2>1 DEF Begins, ReadForgotPassword, ReadVerifyEmail, ReadRegister,
         ReadResetPassword, ReadChangePassword, Start, Token, NoUser
    <3>3. QED
      BY <3>1, <3>2
  <2>2. ASSUME NEW r \in Requests, Continues(r) PROVE LinkInv'
    <3> DEFINE e == request[r].email
    <3>1. /\ \A q \in Requests : q # r => request'[q] = request[q]
          /\ request'[r].pc \in {"idle", "mail"}
          /\ UNCHANGED loggedIn
      BY <2>2 DEF Continues, Register, Mail, VerifyEmail, ForgotPassword,
         ResetPassword, ChangePassword, LoseRequest, Finish, Continue,
         NoRequest
    <3>2. ASSUME UNCHANGED user PROVE LinkInv'
      BY <3>1, <3>2
    <3>3. CASE Register(r)
      <4>1. request[r] \in [pc : {"register"}, email : Emails,
                            password : Passwords]
        BY <3>3 DEF Register, Request, NoRequest
      <4>2. CASE EmailFree(e)
        <5> DEFINE row == [NoUser EXCEPT !.password = request[r].password,
                                         !.verifyToken = tokens']
        <5>1. DrawToken /\ user' = [user EXCEPT ![e] = row]
          BY <3>3, <4>2 DEF Register
        <5>2. /\ row \in UserRow /\ row.password # NULL
              /\ row.verifyToken # NULL
          BY <4>1, <5>1, DrawnToken DEF NoUser, UserRow
        <5>3. e \in Emails /\ e \notin loggedIn
          BY <4>1, <4>2 DEF EmailFree
        <5> HIDE DEF row
        <5>4. QED
          BY <3>1, <5>1, <5>2, <5>3, RowKeepsLinks
      <4>3. CASE ~EmailFree(e)
        BY <3>2, <3>3, <4>3 DEF Register
      <4>4. QED
        BY <4>2, <4>3
    <3>4. CASE VerifyEmail(r)
      <4> DEFINE row == [user[e] EXCEPT !.verified = TRUE,
                                        !.verifyToken = NULL]
      <4>1. e \in Emails /\ Exists(e)
        BY <3>4 DEF VerifyEmail, Request, NoRequest
      <4>2. row \in UserRow /\ row.password # NULL /\ row.verified
        BY <4>1 DEF UserRow
      <4>3. user' = [user EXCEPT ![e] = row]
        BY <3>4, <4>1 DEF VerifyEmail, UserRow
      <4> HIDE DEF row
      <4>4. QED
        BY <3>1, <4>1, <4>2, <4>3, RowKeepsLinks
    <3>5. CASE ForgotPassword(r)
      <4> DEFINE row == [user[e] EXCEPT !.resetToken = tokens']
      <4>1. e \in Emails /\ Exists(e) /\ DrawToken
        BY <3>5 DEF ForgotPassword, Request, NoRequest
      <4>2. /\ row \in UserRow /\ row.password # NULL
            /\ row.verified \/ (row.verifyToken # NULL /\ e \notin loggedIn)
        BY <4>1, DrawnToken DEF UserRow
      <4>3. user' = [user EXCEPT ![e] = row]
        BY <3>5, <4>1 DEF ForgotPassword, UserRow
      <4> HIDE DEF row
      <4>4. QED
        BY <3>1, <4>1, <4>2, <4>3, RowKeepsLinks
    <3>6. CASE ResetPassword(r) \/ ChangePassword(r)
      <4>1. /\ e \in Emails /\ Exists(e)
            /\ request[r].password \in Passwords
        BY <3>6 DEF ResetPassword, ChangePassword, Request, NoRequest
      <4>2. PICK t \in {NULL, user[e].resetToken} :
               user' = [user EXCEPT ![e].password = request[r].password,
                                    ![e].resetToken = t]
        BY <3>6, <4>1
           DEF ResetPassword, ChangePassword, TokenSpent, UserRow
      <4> DEFINE row == [user[e] EXCEPT !.password = request[r].password,
                                        !.resetToken = t]
      <4>3. /\ row \in UserRow /\ row.password # NULL
            /\ row.verified \/ (row.verifyToken # NULL /\ e \notin loggedIn)
        BY <4>1 DEF UserRow
      <4>4. user' = [user EXCEPT ![e] = row]
        BY <4>1, <4>2 DEF UserRow
      <4> HIDE DEF row
      <4>5. QED
        BY <3>1, <4>1, <4>3, <4>4, RowKeepsLinks
    <3>7. CASE Mail(r) \/ LoseRequest(r)
      BY <3>2, <3>7 DEF Mail, LoseRequest
    <3>8. QED
      BY <2>2, <3>3, <3>4, <3>5, <3>6, <3>7 DEF Continues
  <2>3. ASSUME NEW e \in Emails, NEW p \in Passwords, Login(e, p)
        PROVE  LinkInv'
    BY <2>3 DEF Login
  <2>4. ASSUME NEW t \in Token, Expire(t) PROVE LinkInv'
    BY <2>4 DEF Expire
  <2>5. CASE UNCHANGED accounts
    BY <2>5 DEF accounts
  <2>6. QED
    BY <2>1, <2>2, <2>3, <2>4, <2>5 DEF AccountsNext, Begins, Continues
<1>3. QED
  BY <1>1, <1>2, AccountsTypeCorrect, PTL DEF AccountsSpec

-------------------------------------------------------------------------------
(* What makes LinkSetsPasswordOnce inductive: a reset token belongs to one *)
(* account and to none once it was used; and until requests on an account  *)
(* overlap, a reset under way still holds its account's token.             *)
TokensAreOneUse ==
    /\ \A e \in Emails : user[e].resetToken # NULL =>
          user[e].resetToken \in 1..tokens
    /\ \A e, f \in Emails :
          user[e].resetToken = user[f].resetToken
              => user[e].resetToken = NULL \/ e = f

ResetHoldsToken ==
    ~accountRaced =>
        /\ \A q, r \in Requests :
              q # r => \/ request[q] = NoRequest \/ request[r] = NoRequest
                       \/ request[q].email # request[r].email
        /\ \A r \in Requests :
              request[r].pc = "reset"
                  => user[request[r].email].resetToken = request[r].token
        /\ \A t \in Token :
              uses[t] > 0 => /\ t <= tokens
                             /\ \A e \in Emails : user[e].resetToken # t

OnceInv == TokensAreOneUse /\ ResetHoldsToken /\ LinkSetsPasswordOnce

(* A request that begins holds the token its account has, and is alone on  *)
(* the account unless it races.                                            *)
LEMMA BeginsKeepsOnce ==
    ASSUME AccountsTypeOK, OnceInv, NEW r \in Requests, NEW e \in Emails,
           Begins(r, e)
    PROVE  OnceInv'
<1> USE DEF AccountsTypeOK, OnceInv
<1>1. UNCHANGED <<user, tokens, expired, mailed, uses, loggedIn>>
  BY BeginsTyped
<1>2. PICK state \in Request : Start(r, state) /\ state.email = e
  BY BeginsTyped
<1>3. /\ request[r] = NoRequest
      /\ request'[r] = state
      /\ \A q \in Requests : q # r => request'[q] = request[q]
  BY <1>2 DEF Start
<1>4. request'[r].pc = "reset"
         => request'[r].email = e /\ user[e].resetToken = request'[r].token
  BY DEF Begins, ReadForgotPassword, ReadVerifyEmail, ReadRegister,
     ReadResetPassword, ReadChangePassword, Start
<1>5. ~accountRaced' =>
         /\ ~accountRaced
         /\ \A q \in Requests :
               q # r => request[q] = NoRequest \/ request[q].email # e
  BY <1>2, <1>3 DEF Start
<1>6. TokensAreOneUse' /\ LinkSetsPasswordOnce'
  BY <1>1, <1>5 DEF TokensAreOneUse, LinkSetsPasswordOnce
<1>7. ResetHoldsToken'
  BY <1>1, <1>2, <1>3, <1>4, <1>5 DEF ResetHoldsToken, NoRequest
<1>8. QED
  BY <1>6, <1>7

(* A request that goes on writes to its own account only: alone, it leaves *)
(* the other requests' accounts as they know them.                         *)
LEMMA OthersKeepTheirToken ==
    ASSUME AccountsTypeOK, ResetHoldsToken, NEW r \in Requests,
           request[r] # NoRequest, ~accountRaced,
           \A f \in Emails : f # request[r].email => user'[f] = user[f],
           request'[r].pc \in {"idle", "mail"},
           request'[r] = NoRequest \/ request'[r].email = request[r].email,
           \A q \in Requests : q # r => request'[q] = request[q]
    PROVE  /\ \A p, q \in Requests :
                 p # q => \/ request'[p] = NoRequest
                          \/ request'[q] = NoRequest
                          \/ request'[p].email # request'[q].email
           /\ \A q \in Requests :
                 request'[q].pc = "reset"
                    => user'[request'[q].email].resetToken = request'[q].token
<1> USE DEF AccountsTypeOK, ResetHoldsToken
<1>1. \A q \in Requests : q # r => \/ request[q] = NoRequest
                                   \/ request[q].email # request[r].email
  OBVIOUS
<1>2. \A q \in Requests : request[q].pc = "reset" => request[q].email \in Emails
  BY DEF Request, NoRequest
<1>3. QED
  BY <1>1, <1>2 DEF NoRequest

(* A step of a request under way spends a token, draws one or does neither.*)
LEMMA ContinuesKeepsOnce ==
    ASSUME AccountsTypeOK, OnceInv, NEW r \in Requests, Continues(r)
    PROVE  OnceInv'
<1> USE DEF AccountsTypeOK, OnceInv, TokensAreOneUse, LinkSetsPasswordOnce
<1> DEFINE e == request[r].email
<1>1. /\ \A q \in Requests : q # r => request'[q] = request[q]
      /\ request'[r].pc \in {"idle", "mail"}
      /\ request'[r] = NoRequest \/ request'[r].email = e
      /\ request[r] # NoRequest
      /\ accountRaced' = accountRaced
  BY DEF Continues, Register, Mail, VerifyEmail, ForgotPassword,
     ResetPassword, ChangePassword, LoseRequest, Finish, Continue, NoRequest
<1>2. ASSUME \A f \in Emails : /\ f # e => user'[f] = user[f]
                               /\ \/ user'[f].resetToken = user[f].resetToken
                                  \/ user'[f].resetToken = NULL,
             UNCHANGED <<tokens, uses>>
      PROVE  OnceInv'
  <2>1. TokensAreOneUse' /\ LinkSetsPasswordOnce'
    BY <1>1, <1>2
  <2>2. \A t \in Token : t # NULL
    BY DEF Token
  <2>3. ResetHoldsToken'
    BY <1>1, <1>2, <2>2, OthersKeepTheirToken DEF ResetHoldsToken
  <2>4. QED
    BY <2>1, <2>3
<1>3. CASE ForgotPassword(r)
  <2>1. e \in Emails /\ DrawToken
    BY <1>3 DEF ForgotPassword, Request, NoRequest
  <2>2. /\ tokens' = tokens + 1 /\ tokens' \in Token
        /\ UNCHANGED uses
        /\ \A f \in Emails : f # e => user'[f] = user[f]
        /\ user'[e].resetToken = tokens'
    BY <1>3, <2>1, DrawnToken DEF ForgotPassword, UserRow
  <2>3. /\ 1..tokens \subseteq 1..tokens'
        /\ tokens' \in 1..tokens' /\ tokens' \notin 1..tokens
        /\ \A t \in Token : t <= tokens => t <= tokens' /\ t # tokens'
    BY <2>2 DEF Token
  <2>4. \A f \in Emails : user[f].resetToken # tokens'
    BY <2>2, <2>3, DrawnToken, <2>1
  <2>5. TokensAreOneUse'
    BY <2>1, <2>2, <2>3, <2>4
  <2>6. ResetHoldsToken'
    <3> SUFFICES ASSUME ~accountRaced PROVE ResetHoldsToken'
      BY <1>1 DEF ResetHoldsToken
    <3>1. \A t \in Token :
             uses'[t] > 0 => /\ t <= tokens'
                             /\ \A f \in Emails : user'[f].resetToken # t
      BY <2>1, <2>2, <2>3 DEF ResetHoldsToken
    <3>2. QED
      BY <1>1, <2>2, <3>1, OthersKeepTheirToken DEF ResetHoldsToken
  <2>7. QED
    BY <1>1, <2>2, <2>5, <2>6
<1>4. CASE ResetPassword(r)
  <2> DEFINE t == request[r].token
  <2>1. e \in Emails /\ t \in Token
    BY <1>4 DEF ResetPassword, Request, NoRequest
  <2>2. /\ UNCHANGED tokens
        /\ uses' = [uses EXCEPT ![t] = uses[t] + 1]
        /\ \A f \in Emails : f # e => user'[f] = user[f]
        /\ user'[e].resetToken = NULL
    BY <1>4, <2>1 DEF ResetPassword, TokenSpent, UserRow
  <2>3. TokensAreOneUse'
    BY <2>1, <2>2
  <2>4. ASSUME ~accountRaced
        PROVE  /\ user[e].resetToken = t /\ t <= tokens /\ uses[t] = 0
               /\ \A f \in Emails : f # e => user[f].resetToken # t
    <3>1. user[e].resetToken = t
      BY <1>4, <2>4 DEF ResetHoldsToken, ResetPassword
    <3>2. t # NULL /\ t <= tokens
      BY <2>1, <3>1 DEF Token
    <3>3. QED
      BY <2>1, <2>4, <3>1, <3>2 DEF ResetHoldsToken
  <2>5. LinkSetsPasswordOnce'
    BY <1>1, <2>1, <2>2, <2>4
  <2>6. ResetHoldsToken'
    <3> SUFFICES ASSUME ~accountRaced PROVE ResetHoldsToken'
      BY <1>1 DEF ResetHoldsToken
    <3>1. \A s \in Token :
             uses'[s] > 0 => /\ s <= tokens'
                             /\ \A f \in Emails : user'[f].resetToken # s
      BY <2>1, <2>2, <2>4 DEF ResetHoldsToken, Token
    <3>2. QED
      BY <1>1, <2>2, <3>1, OthersKeepTheirToken DEF ResetHoldsToken
  <2>7. QED
    BY <2>3, <2>5, <2>6
<1>5. CASE VerifyEmail(r) \/ ChangePassword(r)
  <2>1. e \in Emails
    BY <1>5 DEF VerifyEmail, ChangePassword, Request, NoRequest
  <2>2. /\ \A f \in Emails : f # e => user'[f] = user[f]
        /\ user'[e].resetToken = user[e].resetToken
        /\ UNCHANGED <<tokens, uses>>
    BY <1>5, <2>1 DEF VerifyEmail, ChangePassword, UserRow
  <2>3. QED
    BY <1>2, <2>2
<1>6. CASE Register(r)
  <2>1. e \in Emails
    BY <1>6 DEF Register, Request, NoRequest
  <2>2. CASE EmailFree(e)
    <3>1. /\ DrawToken /\ UNCHANGED uses
          /\ \A f \in Emails : f # e => user'[f] = user[f]
          /\ user'[e].resetToken = NULL
      BY <1>6, <2>1, <2>2 DEF Register, NoUser
    <3>2. TokensAreOneUse'
      <4>1. \A f \in Emails : \/ user'[f].resetToken = user[f].resetToken
                              \/ user'[f].resetToken = NULL
        BY <3>1
      <4>2. 1..tokens \subseteq 1..tokens'
        BY <3>1, DrawnToken
      <4>3. QED
        BY <4>1, <4>2
    <3>3. ResetHoldsToken'
      <4> SUFFICES ASSUME ~accountRaced PROVE ResetHoldsToken'
        BY <1>1 DEF ResetHoldsToken
      <4>1. \A t \in Token :
               uses'[t] > 0 => /\ t <= tokens'
                               /\ \A f \in Emails : user'[f].resetToken # t
        <5>1. \A t \in Token : t # NULL /\ (t <= tokens => t <= tokens')
          BY <3>1, DrawnToken DEF Token
        <5>2. QED
          BY <2>1, <3>1, <5>1 DEF ResetHoldsToken
      <4>2. QED
        BY <1>1, <3>1, <4>1, OthersKeepTheirToken DEF ResetHoldsToken
    <3>4. QED
      BY <1>1, <3>1, <3>2, <3>3
  <2>3. CASE ~EmailFree(e)
    BY <1>2, <1>6, <2>3 DEF Register
  <2>4. QED
    BY <2>2, <2>3
<1>7. CASE Mail(r) \/ LoseRequest(r)
  BY <1>2, <1>7 DEF Mail, LoseRequest
<1>8. QED
  BY <1>3, <1>4, <1>5, <1>6, <1>7 DEF Continues

(* The invariant behind LinkSetsPasswordOnce.                              *)
LEMMA OnceInvHolds == AccountsSpec => []OnceInv
<1> USE DEF OnceInv, TokensAreOneUse, ResetHoldsToken, LinkSetsPasswordOnce
<1>1. AccountsInit => OnceInv
  <2> SUFFICES ASSUME AccountsInit PROVE OnceInv
    OBVIOUS
  <2>1. /\ \A e \in Emails : user[e].resetToken = NULL
        /\ \A r \in Requests : request[r] = NoRequest
        /\ \A t \in Token : uses[t] = 0
    BY DEF AccountsInit, NoUser
  <2>2. QED
    BY <2>1 DEF NoRequest
<1>2. AccountsTypeOK /\ OnceInv /\ [AccountsNext]_accounts => OnceInv'
  <2> SUFFICES ASSUME AccountsTypeOK, OnceInv, [AccountsNext]_accounts
               PROVE  OnceInv'
    OBVIOUS
  <2>1. ASSUME NEW e \in Emails, NEW p \in Passwords, Login(e, p)
        PROVE  OnceInv'
    BY <2>1 DEF Login
  <2>2. ASSUME NEW t \in Token, Expire(t) PROVE OnceInv'
    BY <2>2 DEF Expire
  <2>3. CASE UNCHANGED accounts
    BY <2>3 DEF accounts
  <2> HIDE DEF OnceInv
  <2>4. QED
    BY <2>1, <2>2, <2>3, BeginsKeepsOnce, ContinuesKeepsOnce
       DEF AccountsNext, Begins, Continues
<1>3. QED
  BY <1>1, <1>2, AccountsTypeCorrect, PTL DEF AccountsSpec

(* Whatever requests, expiries and lost mails interleave, nobody logs in   *)
(* to an account that has not followed its verification link, and one not  *)
(* verified yet still has that link; and until requests on an account      *)
(* overlap a reset link sets a password once.                              *)
THEOREM LinksWorkOnce == AccountsSpec => []LinksAreSound
<1>1. LinkInv /\ OnceInv => LinksAreSound
  BY DEF LinkInv, OnceInv, LinksAreSound
<1>2. QED
  BY <1>1, LinkInvHolds, OnceInvHolds, PTL

-------------------------------------------------------------------------------
(* The student's consent (StudentConsent).                                 *)

USE TermsTextAssumption DEF ConsentRow

(* A row that was found is never deleted.                                  *)
FoundStaysFound ==
    \A r \in Requests : consenting[r].pc = "accept" => consent # NULL

(* A consent that was found is not taken away under the request, and what  *)
(* was agreed to are the terms.                                            *)
ConsentInv == ConsentTypeOK /\ FoundStaysFound /\ ConsentSound

LEMMA ConsentInvHolds == ConsentSpec => []ConsentInv
<1> USE DEF ConsentInv
<1>1. ConsentInit => ConsentInv
  <2> SUFFICES ASSUME ConsentInit PROVE ConsentInv
    OBVIOUS
  <2>1. \A r \in Requests : consenting[r] = NotConsenting
    BY DEF ConsentInit
  <2>2. ConsentTypeOK
    BY DEF ConsentInit, ConsentTypeOK
  <2>3. FoundStaysFound /\ ConsentSound
    BY <2>1 DEF ConsentInit, FoundStaysFound, ConsentSound,
       ConsentIsToTheTerms, TermsAreAnnounced, NotConsenting
  <2>4. QED
    BY <2>2, <2>3
<1>2. ConsentInv /\ [ConsentNext]_studentConsent => ConsentInv'
  <2> SUFFICES ASSUME ConsentInv, [ConsentNext]_studentConsent PROVE ConsentInv'
    OBVIOUS
  <2> USE DEF ConsentTypeOK, ConsentSound, ConsentIsToTheTerms,
              TermsAreAnnounced, FoundStaysFound, NotConsenting
  <2>1. ASSUME NEW r \in Requests, NEW text \in TermsText,
               SendStudentConsent(r, text)
        PROVE  ConsentInv'
    <3>1. /\ consent' = [terms |-> text, consented |-> FALSE]
          /\ consent' \in ConsentRow
      BY <2>1 DEF SendStudentConsent, UpsertConsent
    <3>2. /\ consenting' =
                [consenting EXCEPT ![r] = [pc |-> "notify", terms |-> text]]
          /\ informed' = FALSE /\ silent' = FALSE
          /\ UNCHANGED <<termsShown, agreedTo, stalePage>>
      BY <2>1 DEF SendStudentConsent
    <3>3. ConsentTypeOK'
      BY <3>1, <3>2
    <3>4. consenting'[r].pc = "notify" /\ consent' # NULL
      BY <3>1, <3>2
    <3>5. ConsentSound' /\ FoundStaysFound'
      BY <3>1, <3>4
    <3>6. QED
      BY <3>3, <3>5
  <2>2. ASSUME NEW r \in Requests, NotifyStudentConsentRequested(r)
        PROVE  ConsentInv'
    BY <2>2 DEF NotifyStudentConsentRequested
  <2>3. CASE GetMyConsent
    BY <2>3 DEF GetMyConsent
  <2>4. ASSUME NEW r \in Requests, ReadAcceptMyConsent(r) PROVE ConsentInv'
    BY <2>4 DEF ReadAcceptMyConsent
  <2>5. ASSUME NEW r \in Requests, AcceptMyConsent(r) PROVE ConsentInv'
    <3>1. consent \in ConsentRow
      BY <2>5 DEF AcceptMyConsent
    <3>2. /\ consent' \in ConsentRow
          /\ consent'.terms = consent.terms
          /\ UNCHANGED <<termsShown, informed, silent>>
      BY <2>5, <3>1 DEF AcceptMyConsent
    <3>3. /\ agreedTo' = consenting[r].terms /\ agreedTo' \in TermsText
          /\ stalePage' = (consenting[r].terms # consent.terms)
      BY <2>5 DEF AcceptMyConsent
    <3>4. /\ consenting' = [consenting EXCEPT ![r] = NotConsenting]
          /\ consenting[r].pc = "accept"
      BY <2>5 DEF AcceptMyConsent
    <3>5. ConsentTypeOK'
      BY <3>2, <3>3, <3>4
    <3>6. ConsentIsToTheTerms'
      BY <3>2, <3>3
    <3>7. TermsAreAnnounced' /\ FoundStaysFound'
      <4>1. consent # NULL
        BY <2>5 DEF AcceptMyConsent
      <4>2. consent' # NULL
        BY <2>5, <4>1, <3>1, <3>2
      <4>3. QED
        BY <3>2, <3>4, <4>1, <4>2
    <3>8. QED
      BY <3>5, <3>6, <3>7
  <2>6. ASSUME NEW r \in Requests, LoseConsentRequest(r) PROVE ConsentInv'
    BY <2>6 DEF LoseConsentRequest
  <2>7. CASE UNCHANGED studentConsent
    BY <2>7 DEF studentConsent
  <2>8. QED
    BY <2>1, <2>2, <2>3, <2>4, <2>5, <2>6, <2>7 DEF ConsentNext
<1>3. QED
  BY <1>1, <1>2, PTL DEF ConsentSpec

(* A consent on record means what the student agreed to, whatever requests *)
(* send, announce, accept and fail at once.                                *)
THEOREM ConsentMeansTheTerms == ConsentSpec => []ConsentSound
<1>1. ConsentInv => ConsentSound
  BY DEF ConsentInv
<1>2. QED
  BY <1>1, ConsentInvHolds, PTL

(* A consent on record and what a request remembers of it have their type  *)
(* (sendStudentConsent, acceptMyConsent).                                  *)
THEOREM ConsentTypeCorrect == ConsentSpec => []ConsentTypeOK
<1>1. ConsentInv => ConsentTypeOK
  BY DEF ConsentInv
<1>2. QED
  BY <1>1, ConsentInvHolds, PTL

-------------------------------------------------------------------------------
(* The messages (Notifications).                                           *)

Endings == {"reading", "sending", "returned", "threw", "died"}

(* What the call under way may yet reach: the channels and participants    *)
(* left to it.                                                             *)
Expected ==
    {left[k] : k \in DOMAIN left} \cup {Addressee(x) : x \in pending}

(* The channels left are distinct, and a row comes first, except the       *)
(* reminder's.                                                             *)
InOrder(channels, kind) ==
    /\ channels \in Seq(Channels)
    /\ \A k, l \in DOMAIN channels : channels[k] = channels[l] => k = l
    /\ kind # "reminder" =>
         \A k \in DOMAIN channels : channels[k] = "row" => k = 1

MessagesTyped ==
    /\ addressees \in Addresses /\ message \in Kinds /\ spent \in Nat
    /\ ending \in Endings
    /\ InOrder(left, message) /\ (left # <<>> => message \in Personal)
    /\ pending \subseteq Recipients /\ (pending # {} => message \notin Personal)
    /\ received = [x \in Channels \cup Everyone |-> received[x]]
    /\ \A x \in Channels \cup Everyone : received[x] \in Nat

(* What the call may yet reach has been received from calls that are over  *)
(* without an error only, and nothing was before the row.                  *)
NotYetRepeated ==
    message \notin Loops \cup {"reminder"} /\ ending = "sending" =>
        /\ \A x \in DOMAIN received \cap Expected : received[x] <= spent
        /\ (\E k \in DOMAIN left : left[k] = "row") =>
             \A x \in DOMAIN received : received[x] <= spent

(* A recipient of a fan-out is settled or waits.                           *)
SettledOrPending ==
    message \in FanOuts =>
        /\ ending = "returned" => pending = {}
        /\ ending = "threw" => message = "forwarded" /\ sent \cup warned = {}
        /\ ending \in {"sending", "returned"} /\ calls > 0 =>
             \A x \in Recipients : x \in pending \/ Addressee(x) \in sent \cup warned

(* While the recipients are read nothing has been sent.                    *)
NothingWhileReading ==
    ending = "reading" => message \in ReadsFirst /\ sent \cup warned = {}

MessagesInv ==
    /\ MessagesTyped /\ NotYetRepeated /\ SettledOrPending
    /\ NothingWhileReading /\ RetryRepeatsNothing /\ OnlyRowsThrow
    /\ calls \in Nat

(* The channels of every message are in order.                             *)
LEMMA ChannelsInOrder ==
    ASSUME NEW kind \in Personal
    PROVE  InOrder(ChannelsOf(kind), kind)
<1>1. CASE kind = "readyToSign"
  BY <1>1 DEF ChannelsOf, InOrder, Channels
<1>2. CASE kind \in {"bankAccount", "submitted", "consent"}
  <2>1. ChannelsOf(kind) = <<"row", "email">>
    BY <1>2 DEF ChannelsOf
  <2>2. InOrder(<<"row", "email">>, kind)
    BY DEF InOrder, Channels
  <2>3. QED
    BY <2>1, <2>2
<1>3. CASE kind = "rejected"
  BY <1>3 DEF ChannelsOf, InOrder, Channels
<1>4. CASE kind \in {"finalized", "cleared"}
  <2> DEFINE all == <<"row", "email", "sms", "parentSms", "parentWhatsapp">>
  <2>1. ChannelsOf(kind) = all
    BY <1>4 DEF ChannelsOf
  <2>2. InOrder(all, kind)
    BY DEF InOrder, Channels
  <2>3. QED
    BY <2>1, <2>2
<1>5. CASE kind = "reminder"
  BY <1>5 DEF ChannelsOf, InOrder, Channels
<1>6. CASE kind = "link"
  BY <1>6 DEF ChannelsOf, InOrder, Channels
<1>7. QED
  BY <1>1, <1>2, <1>3, <1>4, <1>5, <1>6 DEF Personal

(* When a channel has been tried, the rest is still in order, lies among   *)
(* what was left without that channel, and holds no row.                   *)
LEMMA TailInOrder ==
    ASSUME NEW channels, NEW kind, InOrder(channels, kind), channels # <<>>
    PROVE  /\ InOrder(Tail(channels), kind)
           /\ Head(channels) \in Channels
           /\ \A k \in DOMAIN Tail(channels) :
                /\ Tail(channels)[k] # Head(channels)
                /\ \E l \in DOMAIN channels : channels[l] = Tail(channels)[k]
                /\ kind # "reminder" => Tail(channels)[k] # "row"
           /\ \E l \in DOMAIN channels : channels[l] = Head(channels)
<1>1. channels \in Seq(Channels) /\ Len(channels) \in Nat
  BY DEF InOrder
<1>2. Len(channels) > 0 /\ DOMAIN channels = 1..Len(channels)
  BY <1>1
<1>3. /\ Tail(channels) \in Seq(Channels)
      /\ DOMAIN Tail(channels) = 1..(Len(channels) - 1)
      /\ \A k \in 1..(Len(channels) - 1) : Tail(channels)[k] = channels[k + 1]
  BY <1>1, <1>2
<1>4. Head(channels) = channels[1] /\ channels[1] \in Channels
  BY <1>1, <1>2
<1>5. \A k \in 1..(Len(channels) - 1) : k + 1 \in DOMAIN channels /\ k + 1 # 1
  BY <1>1, <1>2
<1>6. \A k, l \in DOMAIN channels : channels[k] = channels[l] => k = l
  BY DEF InOrder
<1>7. /\ 1 \in DOMAIN channels
      /\ kind # "reminder" =>
           \A k \in DOMAIN channels : channels[k] = "row" => k = 1
  BY <1>1, <1>2 DEF InOrder
<1>8. \A k \in DOMAIN Tail(channels) :
        /\ Tail(channels)[k] # Head(channels)
        /\ \E l \in DOMAIN channels : channels[l] = Tail(channels)[k]
        /\ kind # "reminder" => Tail(channels)[k] # "row"
  BY <1>3, <1>4, <1>5, <1>6, <1>7
<1>9. \A k, l \in DOMAIN Tail(channels) :
        Tail(channels)[k] = Tail(channels)[l] => k = l
  BY <1>3, <1>5, <1>6
<1>10. InOrder(Tail(channels), kind)
  BY <1>3, <1>8, <1>9 DEF InOrder
<1>11. QED
  BY <1>4, <1>7, <1>8, <1>10

(* Recipients are told apart, and are of the application.                  *)
LEMMA RecipientsDiffer ==
    ASSUME addressees \in Addresses, NEW x \in Recipients
    PROVE  /\ Addressee(x) \in Everyone
           /\ \A y \in Recipients : Addressee(x) = Addressee(y) => x = y
<1>1. CASE message \in {"collegeDocument", "legalDocument"}
  <2>1. Recipients = Participants
    BY <1>1 DEF Recipients
  <2>2. ASSUME NEW y \in Participants
        PROVE  \E i \in 1..5 :
                 /\ y = SlotOrder[i] /\ y \in Slots /\ addressees[y] # NULL
                 /\ \A j \in 1..(i - 1) :
                      addressees[SlotOrder[j]] # addressees[y]
    BY DEF Participants, SlotOrder, Slots
  <2>3. PICK i \in 1..5 :
          /\ x = SlotOrder[i] /\ x \in Slots /\ addressees[x] # NULL
          /\ \A j \in 1..(i - 1) : addressees[SlotOrder[j]] # addressees[x]
    BY <2>1, <2>2
  <2>4. Addressee(x) \in Everyone
    BY <2>3 DEF Everyone, FilledSlots
  <2>5. ASSUME NEW y \in Recipients, Addressee(x) = Addressee(y)
        PROVE  x = y
    <3>1. PICK k \in 1..5 :
            /\ y = SlotOrder[k] /\ y \in Slots /\ addressees[y] # NULL
            /\ \A j \in 1..(k - 1) : addressees[SlotOrder[j]] # addressees[y]
      BY <2>1, <2>2
    <3>2. addressees[x] = addressees[y]
      BY <2>3, <2>5, <3>1 DEF Addressee
    <3>3. ~(i < k) /\ ~(k < i)
      BY <2>3, <3>1, <3>2
    <3>4. QED
      BY <2>3, <3>1, <3>3
  <2>6. QED
    BY <2>4, <2>5
<1>2. CASE message \notin {"collegeDocument", "legalDocument"}
  <2>1. Recipients = addressees.holders /\ addressees.holders \cap Slots = {}
    BY <1>2, AddressesAssumption DEF Recipients
  <2>2. \A y \in Recipients : Addressee(y) = y
    BY <2>1 DEF Addressee
  <2>3. QED
    BY <2>1, <2>2 DEF Everyone
<1>3. QED
  BY <1>1, <1>2

LEMMA SameAddressees ==
    ASSUME UNCHANGED <<addressees, message>>
    PROVE  /\ Recipients' = Recipients /\ Everyone' = Everyone
           /\ \A x : Addressee(x)' = Addressee(x)
<1>1. Participants' = Participants
  BY DEF Participants
<1>2. FilledSlots' = FilledSlots
  BY DEF FilledSlots
<1>3. Everyone' = Everyone
  BY <1>2 DEF Everyone, Addressee
<1>4. QED
  BY <1>1, <1>3 DEF Recipients, Addressee

(* A call that begins to send expects each addressee once, and has sent    *)
(* nothing.                                                                *)
LEMMA StartKeepsMessages ==
    ASSUME MessagesInv, StartSending, ending # "sending",
           UNCHANGED <<addressees, message, spent, received>>, calls' \in Nat
    PROVE  MessagesInv'
<1>1. /\ ending' = "sending"
      /\ UNCHANGED <<addressees, message, spent, received>>
  BY DEF StartSending
<1>2. /\ Recipients' = Recipients /\ Everyone' = Everyone
      /\ \A x : Addressee(x)' = Addressee(x)
  BY <1>1, SameAddressees
<1>3. \/ /\ message \in Personal /\ left' = ChannelsOf(message)
         /\ pending' = {}
      \/ /\ message \notin Personal /\ pending' = Recipients /\ left' = <<>>
  BY DEF StartSending
<1>4. InOrder(left', message)
  <2>1. InOrder(<<>>, message)
    BY DEF InOrder
  <2>2. QED
    BY <1>3, <2>1, ChannelsInOrder
<1>5. MessagesTyped'
  <2>1. left' # <<>> => message \in Personal
    BY <1>3
  <2>2. pending' \subseteq Recipients /\ (pending' # {} => message \notin Personal)
    BY <1>3
  <2>3. QED
    BY <1>1, <1>2, <1>4, <2>1, <2>2 DEF MessagesInv, MessagesTyped, Endings
<1>6. message \notin Loops \cup {"reminder"} =>
        \A x \in DOMAIN received : received[x] <= spent
  <2>1. /\ spent \in Nat /\ DOMAIN received = Channels \cup Everyone
        /\ \A x \in Channels \cup Everyone : received[x] \in Nat
    BY DEF MessagesInv, MessagesTyped
  <2>2. RetryRepeatsNothing
    BY DEF MessagesInv
  <2>3. (IF ending = "sending" THEN 1 ELSE 0) = 0
    OBVIOUS
  <2>4. QED
    BY <2>1, <2>2, <2>3 DEF RetryRepeatsNothing
<1>7. NotYetRepeated'
  BY <1>1, <1>6 DEF NotYetRepeated
<1>8. RetryRepeatsNothing'
  <2>1. /\ DOMAIN received = Channels \cup Everyone /\ spent \in Nat
        /\ \A x \in Channels \cup Everyone : received[x] \in Nat
    BY DEF MessagesInv, MessagesTyped
  <2>2. \A x \in DOMAIN received :
          message \notin Loops \cup {"reminder"} => received[x] <= spent + 1
    BY <1>6, <2>1
  <2>3. QED
    BY <1>1, <2>2 DEF RetryRepeatsNothing
<1>9. SettledOrPending'
  <2>1. message \in FanOuts => message \notin Personal
    BY DEF FanOuts, Personal
  <2>2. QED
    BY <1>1, <1>2, <1>3, <2>1 DEF SettledOrPending
<1>10. OnlyRowsThrow' /\ NothingWhileReading'
  BY <1>1 DEF OnlyRowsThrow, NothingWhileReading
<1>11. QED
  BY <1>5, <1>7, <1>8, <1>9, <1>10 DEF MessagesInv

(* So does one that reads first whom it goes to.                           *)
LEMMA CallKeepsMessages ==
    ASSUME MessagesInv, Call
    PROVE  MessagesInv'
<1>1. /\ ending \in {"returned", "threw", "died"} /\ calls' = calls + 1
      /\ sent' = {} /\ warned' = {}
      /\ UNCHANGED <<addressees, message, spent, received>>
  BY DEF Call
<1>2. calls' \in Nat
  BY <1>1 DEF MessagesInv
<1>3. CASE StartSending
  BY <1>1, <1>2, <1>3, StartKeepsMessages
<1>4. CASE message \in ReadsFirst
  <2>1. ending' = "reading" /\ left' = <<>> /\ pending' = {}
    BY <1>4 DEF Call
  <2>2. /\ Recipients' = Recipients /\ Everyone' = Everyone
        /\ \A x : Addressee(x)' = Addressee(x)
    BY <1>1, SameAddressees
  <2>3. MessagesTyped'
    <3>1. InOrder(<<>>, message)
      BY DEF InOrder
    <3>2. QED
      BY <1>1, <2>1, <2>2, <3>1 DEF MessagesInv, MessagesTyped, Endings
  <2>4. RetryRepeatsNothing'
    BY <1>1, <2>1 DEF MessagesInv, RetryRepeatsNothing
  <2>5. /\ NotYetRepeated' /\ SettledOrPending' /\ OnlyRowsThrow'
        /\ NothingWhileReading'
    BY <1>1, <1>4, <2>1
       DEF NotYetRepeated, SettledOrPending, OnlyRowsThrow, NothingWhileReading
  <2>6. QED
    BY <1>2, <2>3, <2>4, <2>5 DEF MessagesInv
<1>5. QED
  BY <1>3, <1>4 DEF Call

(* A read that rejects fails the caller before anything is sent.           *)
LEMMA ReadKeepsMessages ==
    ASSUME MessagesInv, ReadRecipients
    PROVE  MessagesInv'
<1>1. /\ ending = "reading"
      /\ UNCHANGED <<addressees, message, calls, spent, sent, warned, received>>
  BY DEF ReadRecipients
<1>2. CASE StartSending
  BY <1>1, <1>2, StartKeepsMessages DEF MessagesInv
<1>3. CASE ending' = "threw" /\ UNCHANGED <<left, pending>>
  <2>1. /\ Recipients' = Recipients /\ Everyone' = Everyone
        /\ \A x : Addressee(x)' = Addressee(x)
    BY <1>1, SameAddressees
  <2>2. MessagesTyped'
    BY <1>1, <1>3, <2>1 DEF MessagesInv, MessagesTyped, Endings
  <2>3. RetryRepeatsNothing'
    BY <1>1, <1>3 DEF MessagesInv, RetryRepeatsNothing
  <2>4. message \in ReadsFirst /\ sent' \cup warned' = {}
    BY <1>1 DEF MessagesInv, NothingWhileReading
  <2>5. message \in FanOuts => message = "forwarded"
    BY <2>4 DEF FanOuts, ReadsFirst
  <2>6. /\ NotYetRepeated' /\ SettledOrPending' /\ OnlyRowsThrow'
        /\ NothingWhileReading'
    BY <1>1, <1>3, <2>4, <2>5
       DEF NotYetRepeated, SettledOrPending, OnlyRowsThrow, NothingWhileReading
  <2>7. QED
    BY <1>1, <2>2, <2>3, <2>6 DEF MessagesInv
<1>4. QED
  BY <1>2, <1>3 DEF ReadRecipients

(* A channel that is tried leaves the rest in order, and if it throws it   *)
(* was the row, before which nothing was sent.                             *)
LEMMA ChannelKeepsMessages ==
    ASSUME MessagesInv, ending = "sending", left # <<>>, left' = Tail(left),
           UNCHANGED <<addressees, message, calls, spent, pending>>,
           \/ /\ UNCHANGED received
              /\ \/ ending' = "sending"
                 \/ /\ ending' = "threw" /\ Head(left) = "row"
                    /\ "row" \in warned'
           \/ /\ received' =
                    [received EXCEPT ![Head(left)] = received[Head(left)] + 1]
              /\ ending' = "sending"
    PROVE  MessagesInv'
<1> DEFINE c == Head(left)
<1>1. /\ Recipients' = Recipients /\ Everyone' = Everyone
      /\ \A x : Addressee(x)' = Addressee(x)
  BY SameAddressees
<1>2. /\ InOrder(left', message) /\ c \in Channels
      /\ \A k \in DOMAIN left' :
           /\ left'[k] # c
           /\ \E l \in DOMAIN left : left[l] = left'[k]
           /\ message # "reminder" => left'[k] # "row"
      /\ \E l \in DOMAIN left : left[l] = c
  BY TailInOrder DEF MessagesInv, MessagesTyped
<1>3. message \in Personal /\ pending = {}
  BY DEF MessagesInv, MessagesTyped
<1>4. message \notin FanOuts
  BY <1>3 DEF FanOuts, Personal
<1>5. /\ DOMAIN received = Channels \cup Everyone
      /\ \A x \in DOMAIN received : received[x] \in Nat
      /\ spent \in Nat
  BY DEF MessagesInv, MessagesTyped
<1>6. /\ received' = [x \in Channels \cup Everyone |-> received'[x]]
      /\ \A x \in Channels \cup Everyone :
           /\ received'[x] \in Nat
           /\ x # c => received'[x] = received[x]
      /\ \/ received'[c] = received[c]
         \/ ending' = "sending" /\ received'[c] = received[c] + 1
  <2> DEFINE S == Channels \cup Everyone
  <2>1. received = [x \in S |-> received[x]] /\ c \in S
    BY <1>2 DEF MessagesInv, MessagesTyped
  <2>2. CASE UNCHANGED received
    BY <1>5, <2>1, <2>2
  <2>3. CASE /\ received' = [received EXCEPT ![c] = received[c] + 1]
             /\ ending' = "sending"
    <3>1. received' = [x \in S |-> IF x = c THEN received[c] + 1
                                           ELSE received[x]]
      BY <1>5, <2>3
    <3>2. /\ received' = [x \in S |-> received'[x]]
          /\ received'[c] = received[c] + 1
          /\ \A x \in S : x # c => received'[x] = received[x]
      BY <2>1, <3>1
    <3>3. received[c] + 1 \in Nat
      <4>1. c \in DOMAIN received
        BY <1>2, <1>5
      <4>2. received[c] \in Nat
        BY <1>5, <4>1
      <4>3. QED
        BY <4>2
    <3>4. \A x \in S : received'[x] \in Nat
      BY <1>5, <3>2, <3>3
    <3>5. QED
      BY <2>3, <3>2, <3>4
  <2>4. QED
    BY <2>2, <2>3
<1>7. MessagesTyped'
  <2>1. ending' \in Endings
    BY DEF Endings
  <2>2. QED
    BY <1>1, <1>2, <1>3, <1>6, <2>1 DEF MessagesInv, MessagesTyped
<1>8. Expected' = {left'[k] : k \in DOMAIN left'}
  BY <1>3 DEF Expected
<1>9. Expected' \subseteq Expected \ {c} /\ c \in Expected
  <2>1. c \in Expected
    BY <1>2 DEF Expected
  <2>2. ASSUME NEW k \in DOMAIN left'
        PROVE  left'[k] \in Expected /\ left'[k] # c
    <3>1. \E l \in DOMAIN left : left[l] = left'[k]
      BY <1>2
    <3>2. QED
      BY <1>2, <3>1 DEF Expected
  <2>3. QED
    BY <1>8, <2>1, <2>2
<1>10. NotYetRepeated'
  <2> SUFFICES ASSUME message \notin Loops \cup {"reminder"}
               PROVE  /\ \A x \in DOMAIN received' \cap Expected' :
                           received'[x] <= spent
                      /\ ~ \E k \in DOMAIN left' : left'[k] = "row"
    BY DEF NotYetRepeated
  <2>1. \A x \in DOMAIN received \cap Expected : received[x] <= spent
    BY DEF MessagesInv, NotYetRepeated
  <2>2. QED
    BY <1>2, <1>5, <1>6, <1>9, <2>1
<1>11. RetryRepeatsNothing'
  <2> SUFFICES ASSUME message \notin Loops \cup {"reminder"},
                      NEW x \in Channels \cup Everyone
               PROVE  received'[x] <=
                        spent + (IF ending' = "sending" THEN 1 ELSE 0)
    BY <1>6 DEF RetryRepeatsNothing
  <2>1. /\ received[x] <= spent + 1
        /\ \A y \in DOMAIN received \cap Expected : received[y] <= spent
        /\ (\E k \in DOMAIN left : left[k] = "row") =>
             \A y \in DOMAIN received : received[y] <= spent
    BY <1>5 DEF MessagesInv, NotYetRepeated, RetryRepeatsNothing
  <2>2. CASE ending' = "sending"
    <3>1. CASE x = c
      <4>1. received[c] <= spent
        BY <1>5, <1>9, <2>1, <3>1
      <4>2. QED
        BY <1>5, <1>6, <2>2, <3>1, <4>1
    <3>2. CASE x # c
      BY <1>5, <1>6, <2>1, <2>2, <3>2
    <3>3. QED
      BY <3>1, <3>2
  <2>3. CASE ending' # "sending"
    <3>1. received' = received /\ c = "row"
      BY <2>3
    <3>2. received[x] <= spent
      BY <1>2, <1>5, <2>1, <3>1
    <3>3. QED
      BY <1>5, <2>3, <3>1, <3>2
  <2>4. QED
    BY <2>2, <2>3
<1>12. OnlyRowsThrow'
  BY DEF OnlyRowsThrow
<1>13. SettledOrPending' /\ NothingWhileReading'
  BY <1>4 DEF SettledOrPending, NothingWhileReading
<1>14. QED
  BY <1>7, <1>10, <1>11, <1>12, <1>13 DEF MessagesInv

(* Who is settled is no longer expected, and only a loop over the holders  *)
(* of a role throws.                                                       *)
LEMMA SettleKeepsMessages ==
    ASSUME MessagesInv, NEW x \in pending, Settle(x)
    PROVE  MessagesInv'
<1> DEFINE a == Addressee(x)
           S == Channels \cup Everyone
<1>1. /\ ending = "sending"
      /\ UNCHANGED <<addressees, message, calls, spent, left>>
  BY DEF Settle
<1>2. /\ Recipients' = Recipients /\ Everyone' = Everyone
      /\ \A y : Addressee(y)' = Addressee(y)
  BY <1>1, SameAddressees
<1>3. /\ message \notin Personal /\ left = <<>> /\ pending \subseteq Recipients
      /\ spent \in Nat /\ DOMAIN received = S
      /\ \A y \in DOMAIN received : received[y] \in Nat
  BY DEF MessagesInv, MessagesTyped
<1>4. a \in Everyone /\ \A y \in pending \ {x} : Addressee(y) # a
  BY <1>3, RecipientsDiffer DEF MessagesInv, MessagesTyped
<1>5. \/ /\ received' = [received EXCEPT ![a] = received[a] + 1]
         /\ sent' = sent \cup {a} /\ UNCHANGED warned
         /\ pending' = pending \ {x} /\ ending' = ending
      \/ /\ message \in FanOuts /\ UNCHANGED <<received, sent>>
         /\ warned' = warned \cup {a}
         /\ pending' = pending \ {x} /\ ending' = ending
      \/ /\ message \in Loops /\ UNCHANGED <<received, sent>>
         /\ warned' = warned \cup {a}
         /\ pending' = {} /\ ending' = "threw"
  BY DEF Settle, Reach, Miss, SettleFailed, StopAtError
<1>6. Loops \cap FanOuts = {}
  BY DEF Loops, FanOuts
<1>7. /\ received' = [y \in S |-> received'[y]]
      /\ \A y \in S : received'[y] \in Nat /\ (y # a => received'[y] = received[y])
      /\ \/ received'[a] = received[a]
         \/ ending' = "sending" /\ received'[a] = received[a] + 1
  <2>1. received = [y \in S |-> received[y]] /\ a \in S
    BY <1>4 DEF MessagesInv, MessagesTyped
  <2>2. CASE UNCHANGED received
    BY <1>3, <2>1, <2>2
  <2>3. CASE /\ received' = [received EXCEPT ![a] = received[a] + 1]
             /\ ending' = "sending"
    <3>1. received' = [y \in S |-> IF y = a THEN received[a] + 1
                                           ELSE received[y]]
      BY <1>3, <2>3
    <3>2. /\ received' = [y \in S |-> received'[y]]
          /\ received'[a] = received[a] + 1
          /\ \A y \in S : y # a => received'[y] = received[y]
      BY <2>1, <3>1
    <3>3. received[a] + 1 \in Nat
      <4>1. a \in DOMAIN received
        BY <1>3, <1>4
      <4>2. received[a] \in Nat
        BY <1>3, <4>1
      <4>3. QED
        BY <4>2
    <3>4. \A y \in S : received'[y] \in Nat
      BY <1>3, <3>2, <3>3
    <3>5. QED
      BY <2>3, <3>2, <3>4
  <2>4. QED
    BY <1>1, <1>5, <2>2, <2>3
<1>8. pending' \subseteq pending \ {x}
  BY <1>5
<1>9. MessagesTyped'
  <2>1. ending' \in Endings /\ left' = <<>>
    BY <1>1, <1>3, <1>5 DEF Endings
  <2>2. pending' \subseteq Recipients'
    BY <1>2, <1>3, <1>8
  <2>3. InOrder(left', message')
    BY <1>1 DEF MessagesInv, MessagesTyped
  <2>4. addressees' \in Addresses /\ message' \in Kinds /\ spent' \in Nat
    BY <1>1 DEF MessagesInv, MessagesTyped
  <2>5. QED
    BY <1>1, <1>2, <1>3, <1>7, <2>1, <2>2, <2>3, <2>4 DEF MessagesTyped
<1>10. DOMAIN left = {} /\ DOMAIN left' = {}
  BY <1>1, <1>3
<1>11. Expected' \subseteq Expected \ {a} /\ a \in Expected
  <2>1. Expected = {Addressee(y) : y \in pending}
    BY <1>10 DEF Expected
  <2>2. Expected' = {Addressee(y) : y \in pending'}
    BY <1>2, <1>10 DEF Expected
  <2>3. QED
    BY <1>4, <1>8, <2>1, <2>2
<1>12. message \notin Loops \cup {"reminder"} =>
         /\ \A y \in DOMAIN received : received[y] <= spent + 1
         /\ \A y \in DOMAIN received \cap Expected : received[y] <= spent
  BY <1>1, <1>3 DEF MessagesInv, NotYetRepeated, RetryRepeatsNothing
<1>13. NotYetRepeated'
  <2> SUFFICES ASSUME message \notin Loops \cup {"reminder"},
                      NEW y \in S, y \in Expected'
               PROVE  received'[y] <= spent
    BY <1>1, <1>7, <1>10 DEF NotYetRepeated
  <2>1. y # a /\ y \in DOMAIN received \cap Expected
    BY <1>3, <1>11
  <2>2. received'[y] = received[y]
    BY <1>7, <2>1
  <2>3. QED
    BY <1>12, <2>1, <2>2
<1>14. RetryRepeatsNothing'
  <2> SUFFICES ASSUME message \notin Loops \cup {"reminder"}, NEW y \in S
               PROVE  received'[y] <= spent + 1 /\ ending' = "sending"
    BY <1>1, <1>7 DEF RetryRepeatsNothing
  <2>1. ending' = "sending"
    BY <1>1, <1>5
  <2>2. CASE y = a
    <3>1. received[a] <= spent /\ received[a] \in Nat
      <4>1. a \in DOMAIN received \cap Expected
        BY <1>3, <1>4, <1>11
      <4>2. QED
        BY <1>3, <1>12, <4>1
    <3>2. QED
      BY <1>3, <1>7, <2>1, <2>2, <3>1
  <2>3. CASE y # a
    BY <1>3, <1>7, <1>12, <2>1, <2>3
  <2>4. QED
    BY <2>2, <2>3
<1>15. SettledOrPending'
  <2> SUFFICES ASSUME message \in FanOuts
               PROVE  /\ ending' = "sending"
                      /\ calls > 0 => \A y \in Recipients :
                           y \in pending' \/ Addressee(y) \in sent' \cup warned'
    BY <1>1, <1>2 DEF SettledOrPending
  <2>1. /\ ending' = "sending" /\ pending' = pending \ {x}
        /\ sent' \cup warned' = sent \cup warned \cup {a}
    BY <1>1, <1>5, <1>6
  <2>2. calls > 0 => \A y \in Recipients :
          y \in pending \/ Addressee(y) \in sent \cup warned
    BY <1>1 DEF MessagesInv, SettledOrPending
  <2>3. QED
    BY <2>1, <2>2
<1>16. OnlyRowsThrow' /\ NothingWhileReading'
  BY <1>1, <1>2, <1>4, <1>5, <1>6 DEF OnlyRowsThrow, NothingWhileReading
<1>17. calls' \in Nat
  BY <1>1 DEF MessagesInv
<1>18. QED
  BY <1>9, <1>13, <1>14, <1>15, <1>16, <1>17 DEF MessagesInv

(* A call that is over, having returned or died with the process, counts.  *)
LEMMA FinishKeepsMessages ==
    ASSUME MessagesInv, Finished \/ Die
    PROVE  MessagesInv'
<1>1. /\ ending \in {"reading", "sending"}
      /\ \/ ending' = "died"
         \/ ending = "sending" /\ ending' = "returned" /\ pending = {}
      /\ spent' = spent + 1
      /\ UNCHANGED <<addressees, message, calls, left, pending, sent, warned,
                     received>>
  BY DEF Finished, Die
<1>2. /\ Recipients' = Recipients /\ Everyone' = Everyone
      /\ \A y : Addressee(y)' = Addressee(y)
  BY <1>1, SameAddressees
<1>3. /\ spent \in Nat /\ DOMAIN received = Channels \cup Everyone
      /\ \A y \in DOMAIN received : received[y] \in Nat
  BY DEF MessagesInv, MessagesTyped
<1>4. MessagesTyped'
  <2>1. MessagesTyped
    BY DEF MessagesInv
  <2>2. /\ InOrder(left, message)' /\ spent' \in Nat
        /\ addressees' \in Addresses /\ message' \in Kinds
    BY <1>1, <1>3, <2>1 DEF MessagesTyped
  <2>3. /\ received' = [x \in (Channels \cup Everyone)' |-> received'[x]]
        /\ \A x \in (Channels \cup Everyone)' : received'[x] \in Nat
    BY <1>1, <1>2, <2>1 DEF MessagesTyped
  <2>4. QED
    BY <1>1, <1>2, <2>1, <2>2, <2>3 DEF MessagesTyped, Endings
<1>5. RetryRepeatsNothing'
  <2>1. message \notin Loops \cup {"reminder"} =>
          \A y \in DOMAIN received : received[y] <= spent + 1
    BY <1>1, <1>3 DEF MessagesInv, RetryRepeatsNothing
  <2>2. message \notin Loops \cup {"reminder"} =>
          \A y \in DOMAIN received : received[y] <= spent + 1 + 0
    BY <1>3, <2>1
  <2>3. QED
    BY <1>1, <2>2 DEF RetryRepeatsNothing
<1>6. /\ NotYetRepeated' /\ SettledOrPending' /\ OnlyRowsThrow'
      /\ NothingWhileReading'
  BY <1>1, <1>2 DEF MessagesInv, NotYetRepeated, SettledOrPending, OnlyRowsThrow,
     NothingWhileReading
<1>7. QED
  BY <1>1, <1>4, <1>5, <1>6 DEF MessagesInv

LEMMA MessagesInvKept ==
    ASSUME MessagesInv, [NotificationsNext]_notifications
    PROVE  MessagesInv'
<1>1. CASE UNCHANGED notifications
  <2>1. UNCHANGED <<addressees, message, calls, spent, left, pending, sent,
                    warned, received, ending>>
    BY <1>1 DEF notifications
  <2>2. /\ Recipients' = Recipients /\ Everyone' = Everyone
        /\ \A y : Addressee(y)' = Addressee(y)
    BY <2>1, SameAddressees
  <2>3. Expected' = Expected
    BY <2>1, <2>2 DEF Expected
  <2>4. MessagesTyped' /\ NotYetRepeated' /\ SettledOrPending'
    BY <2>1, <2>2, <2>3
       DEF MessagesInv, MessagesTyped, NotYetRepeated, SettledOrPending
  <2>5. QED
    BY <2>1, <2>2, <2>4
       DEF MessagesInv, RetryRepeatsNothing, OnlyRowsThrow, NothingWhileReading
<1>2. CASE Call
  BY <1>2, CallKeepsMessages
<1>3. CASE PassOver
  BY <1>3, ChannelKeepsMessages DEF PassOver
<1>4. CASE CreateNotificationRow
  BY <1>4, ChannelKeepsMessages DEF CreateNotificationRow, Reach, Miss
<1>5. CASE Send
  BY <1>5, ChannelKeepsMessages DEF Send, Reach, ProviderFails, Miss
<1>6. ASSUME NEW x \in pending, Settle(x)
      PROVE  MessagesInv'
  BY <1>6, SettleKeepsMessages
<1>7. CASE Finished \/ Die
  BY <1>7, FinishKeepsMessages
<1>8. CASE ReadRecipients
  BY <1>8, ReadKeepsMessages
<1>9. QED
  BY <1>1, <1>2, <1>3, <1>4, <1>5, <1>6, <1>7, <1>8 DEF NotificationsNext

LEMMA MessagesInvInitially == NotificationsInit => MessagesInv
<1> SUFFICES ASSUME NotificationsInit PROVE MessagesInv
  OBVIOUS
<1>1. /\ addressees \in Addresses /\ message \in Kinds
      /\ calls = 0 /\ spent = 0 /\ left = <<>> /\ pending = {}
      /\ ending = "returned"
      /\ received = [x \in Channels \cup Everyone |-> 0]
  BY DEF NotificationsInit
<1>2. InOrder(<<>>, message)
  BY DEF InOrder
<1>3. /\ received = [x \in Channels \cup Everyone |-> received[x]]
      /\ \A x \in Channels \cup Everyone : received[x] = 0
  BY <1>1
<1>4. MessagesTyped
  BY <1>1, <1>2, <1>3 DEF MessagesTyped, Endings
<1>5. RetryRepeatsNothing
  BY <1>1, <1>3 DEF RetryRepeatsNothing
<1>6. /\ NotYetRepeated /\ SettledOrPending /\ OnlyRowsThrow
      /\ NothingWhileReading
  BY <1>1 DEF NotYetRepeated, SettledOrPending, OnlyRowsThrow,
     NothingWhileReading
<1>7. QED
  BY <1>1, <1>4, <1>5, <1>6 DEF MessagesInv

(* Whatever message, addressees, rejected reads, failing channels, deaths  *)
(* of the process and repeated calls: a call that threw delivered nothing  *)
(* that a repeated call delivers again, a fan-out that returns has told or *)
(* reported everyone, and no provider's error reaches the caller           *)
(* (notifications.service.ts).                                             *)
THEOREM FailuresAreReported == NotificationsSpec => []DeliveredOrReported
<1>1. MessagesInv => DeliveredOrReported
  <2> SUFFICES ASSUME MessagesInv PROVE DeliveredOrReported
    OBVIOUS
  <2>1. EveryParticipantTold
    BY DEF MessagesInv, SettledOrPending, EveryParticipantTold
  <2>2. QED
    BY <2>1 DEF MessagesInv, DeliveredOrReported
<1>2. QED
  BY <1>1, MessagesInvInitially, MessagesInvKept, PTL DEF NotificationsSpec

-------------------------------------------------------------------------------
(* The types of the messages: a call tries a channel or a participant at   *)
(* most once, so none gets more messages than there were calls.            *)

Tallied ==
    /\ calls \in Nat
    /\ spent + (IF ending \in {"reading", "sending"} THEN 1 ELSE 0) <= calls
    /\ \A x \in DOMAIN received :
          received[x] + (IF \/ ending = "reading"
                            \/ ending = "sending" /\ x \in Expected
                         THEN 1 ELSE 0) <= calls

Reported ==
    /\ calls \in 0..MaxCalls /\ twilio \in BOOLEAN
    /\ sent \subseteq Channels \cup Everyone
    /\ warned \subseteq Channels \cup Everyone

(* Trying a channel leaves less to expect.                                 *)
LEMMA ChannelLeavesLess ==
    ASSUME MessagesInv, left # <<>>, left' = Tail(left),
           UNCHANGED <<addressees, message, pending>>
    PROVE  /\ Expected' \subseteq Expected \ {Head(left)}
           /\ Head(left) \in Expected /\ Head(left) \in Channels
<1> DEFINE c == Head(left)
<1>1. /\ c \in Channels /\ \E l \in DOMAIN left : left[l] = c
      /\ \A k \in DOMAIN left' :
           left'[k] # c /\ \E l \in DOMAIN left : left[l] = left'[k]
  BY TailInOrder DEF MessagesInv, MessagesTyped
<1>2. pending = {} /\ pending' = {}
  BY DEF MessagesInv, MessagesTyped
<1>3. /\ Expected = {left[k] : k \in DOMAIN left}
      /\ Expected' = {left'[k] : k \in DOMAIN left'}
  BY <1>2 DEF Expected
<1>4. QED
  BY <1>1, <1>3

(* And so does settling a participant.                                     *)
LEMMA SettlingLeavesLess ==
    ASSUME MessagesInv, NEW x \in pending, pending' \subseteq pending \ {x},
           UNCHANGED <<addressees, message, left>>
    PROVE  /\ Expected' \subseteq Expected \ {Addressee(x)}
           /\ Addressee(x) \in Expected /\ Addressee(x) \in Everyone
<1> DEFINE a == Addressee(x)
<1>1. left = <<>> /\ pending \subseteq Recipients
  BY DEF MessagesInv, MessagesTyped
<1>2. DOMAIN left = {} /\ DOMAIN left' = {}
  BY <1>1
<1>3. a \in Everyone /\ \A y \in pending \ {x} : Addressee(y) # a
  BY <1>1, RecipientsDiffer DEF MessagesInv, MessagesTyped
<1>4. \A y : Addressee(y)' = Addressee(y)
  BY SameAddressees
<1>5. /\ Expected = {Addressee(y) : y \in pending}
      /\ Expected' = {Addressee(y) : y \in pending'}
  BY <1>2, <1>4 DEF Expected
<1>6. QED
  BY <1>3, <1>5

(* What was tried is counted at most once, and is no longer expected.      *)
LEMMA TryingKeepsTally ==
    ASSUME MessagesInv, Tallied, ending = "sending",
           ending' \in {"sending", "threw"},
           NEW a \in Expected, Expected' \subseteq Expected \ {a},
           UNCHANGED <<calls, spent>>,
           received' = received
             \/ received' = [received EXCEPT ![a] = received[a] + 1]
    PROVE  Tallied'
<1>1. /\ \A x \in DOMAIN received : received[x] \in Nat
      /\ spent \in Nat /\ calls \in Nat
  BY DEF MessagesInv, MessagesTyped, Tallied
<1>2. ASSUME NEW x \in DOMAIN received'
      PROVE  received'[x] + (IF \/ ending' = "reading"
                                \/ ending' = "sending" /\ x \in Expected'
                             THEN 1 ELSE 0) <= calls
  <2>1. x \in DOMAIN received /\ received[x] \in Nat
    BY <1>1, <1>2
  <2>2. /\ received[x] <= calls
        /\ x \in Expected => received[x] + 1 <= calls
    BY <1>1, <2>1 DEF Tallied
  <2>3. CASE x = a
    <3>1. x \notin Expected' /\ received[x] + 1 <= calls
      BY <2>2, <2>3
    <3>2. received'[x] = received[x] \/ received'[x] = received[x] + 1
      BY <2>1, <2>3
    <3>3. QED
      BY <1>1, <2>1, <3>1, <3>2
  <2>4. CASE x # a
    <3>1. received'[x] = received[x] /\ (x \in Expected' => x \in Expected)
      BY <2>1, <2>4
    <3>2. QED
      BY <1>1, <2>1, <2>2, <3>1
  <2>5. QED
    BY <2>3, <2>4
<1>3. spent + 1 <= calls
  BY DEF Tallied
<1>4. spent' + (IF ending' \in {"reading", "sending"} THEN 1 ELSE 0) <= calls'
  BY <1>1, <1>3
<1>5. QED
  BY <1>1, <1>2, <1>4 DEF Tallied

LEMMA TalliedKept ==
    ASSUME MessagesInv, Tallied, [NotificationsNext]_notifications
    PROVE  Tallied'
<1>1. CASE UNCHANGED notifications
  <2>1. Expected' = Expected
    <3>1. \A y : Addressee(y)' = Addressee(y)
      BY <1>1, SameAddressees DEF notifications
    <3>2. UNCHANGED <<left, pending>>
      BY <1>1 DEF notifications
    <3>3. QED
      BY <3>1, <3>2 DEF Expected
  <2>2. UNCHANGED <<calls, spent, received, ending>>
    BY <1>1 DEF notifications
  <2>3. QED
    BY <2>1, <2>2 DEF Tallied
<1>2. CASE Call \/ ReadRecipients
  <2>1. /\ ending' \in {"reading", "sending", "threw"} /\ UNCHANGED <<spent, received>>
        /\ \/ ending = "reading" /\ calls' = calls
           \/ ending \notin {"reading", "sending"} /\ calls' = calls + 1
    BY <1>2 DEF Call, ReadRecipients, StartSending
  <2>2. /\ \A x \in DOMAIN received : received[x] \in Nat
        /\ spent \in Nat /\ calls \in Nat
    BY DEF MessagesInv, MessagesTyped, Tallied
  <2>3. /\ \A x \in DOMAIN received : received[x] + 1 <= calls'
        /\ spent + 1 <= calls'
    <3>1. CASE ending = "reading"
      BY <2>1, <2>2, <3>1 DEF Tallied
    <3>2. CASE ending \notin {"reading", "sending"}
      <4>1. /\ \A x \in DOMAIN received : received[x] + 0 <= calls
            /\ spent + 0 <= calls
        BY <3>2 DEF Tallied
      <4>2. QED
        BY <2>1, <2>2, <3>2, <4>1
    <3>3. QED
      BY <2>1, <3>1, <3>2
  <2>4. /\ \A x \in DOMAIN received : received[x] + 0 <= calls'
        /\ spent + 0 <= calls' /\ calls' \in Nat
    BY <2>1, <2>2, <2>3
  <2>5. QED
    BY <2>1, <2>3, <2>4 DEF Tallied
<1>3. CASE PassOver \/ CreateNotificationRow \/ Send
  <2>1. /\ ending = "sending" /\ ending' \in {"sending", "threw"}
        /\ left # <<>> /\ left' = Tail(left)
        /\ UNCHANGED <<addressees, message, calls, spent, pending>>
        /\ \/ received' = received
           \/ received' = [received EXCEPT ![Head(left)] =
                                              received[Head(left)] + 1]
    BY <1>3 DEF PassOver, CreateNotificationRow, Send, Reach, Miss, ProviderFails
  <2>2. QED
    BY <2>1, ChannelLeavesLess, TryingKeepsTally
<1>4. ASSUME NEW x \in pending, Settle(x)
      PROVE  Tallied'
  <2>1. /\ ending = "sending" /\ ending' \in {"sending", "threw"}
        /\ pending' \subseteq pending \ {x}
        /\ UNCHANGED <<addressees, message, calls, spent, left>>
        /\ \/ received' = received
           \/ received' = [received EXCEPT ![Addressee(x)] =
                                              received[Addressee(x)] + 1]
    BY <1>4 DEF Settle, Reach, Miss, SettleFailed, StopAtError
  <2>2. QED
    BY <2>1, SettlingLeavesLess, TryingKeepsTally
<1>5. CASE Finished \/ Die
  <2>1. /\ ending \in {"reading", "sending"} /\ ending' \in {"returned", "died"}
        /\ spent' = spent + 1 /\ UNCHANGED <<calls, received>>
    BY <1>5 DEF Finished, Die
  <2>2. /\ \A x \in DOMAIN received : received[x] \in Nat
        /\ spent \in Nat /\ calls \in Nat
    BY DEF MessagesInv, MessagesTyped, Tallied
  <2>3. /\ \A x \in DOMAIN received : received[x] <= calls
        /\ spent + 1 <= calls
    BY <2>1, <2>2 DEF Tallied
  <2>4. QED
    BY <2>1, <2>2, <2>3 DEF Tallied
<1>6. QED
  BY <1>1, <1>2, <1>3, <1>4, <1>5 DEF NotificationsNext

LEMMA ReportedKept ==
    ASSUME MessagesInv, Reported, [NotificationsNext]_notifications
    PROVE  Reported'
<1>1. UNCHANGED <<addressees, message, twilio>>
  BY DEF NotificationsNext, Call, ReadRecipients, Die, PassOver,
     CreateNotificationRow, Send, Finished, Settle, notifications
<1>2. Everyone' = Everyone
  BY <1>1, SameAddressees
<1>3. calls' = calls \/ (calls < MaxCalls /\ calls' = calls + 1)
  BY DEF NotificationsNext, Call, ReadRecipients, Die, PassOver,
     CreateNotificationRow, Send, Finished, Settle, notifications
<1>4. calls' \in 0..MaxCalls
  BY <1>3, MaxCallsAssumption DEF Reported
<1>5. CASE Call
  BY <1>1, <1>4, <1>5 DEF Call, Reported
<1>6. CASE CreateNotificationRow \/ Send
  <2>1. Head(left) \in Channels
    BY <1>6, TailInOrder DEF CreateNotificationRow, Send, MessagesInv,
       MessagesTyped
  <2>2. /\ sent' \subseteq sent \cup {Head(left)}
        /\ warned' \subseteq warned \cup {Head(left)}
    BY <1>6 DEF CreateNotificationRow, Send, Reach, Miss, ProviderFails
  <2>3. QED
    BY <1>1, <1>2, <1>4, <2>1, <2>2 DEF Reported
<1>7. ASSUME NEW x \in pending, Settle(x)
      PROVE  Reported'
  <2>1. Addressee(x) \in Everyone
    BY RecipientsDiffer DEF MessagesInv, MessagesTyped
  <2>2. /\ sent' \subseteq sent \cup {Addressee(x)}
        /\ warned' \subseteq warned \cup {Addressee(x)}
    BY <1>7 DEF Settle, Reach, Miss, SettleFailed, StopAtError
  <2>3. QED
    BY <1>1, <1>2, <1>4, <2>1, <2>2 DEF Reported
<1>8. CASE PassOver \/ Finished \/ ReadRecipients \/ Die \/ UNCHANGED notifications
  <2>1. UNCHANGED <<sent, warned>>
    BY <1>8 DEF PassOver, Finished, ReadRecipients, Die, notifications
  <2>2. QED
    BY <1>1, <1>2, <1>4, <2>1 DEF Reported
<1>9. QED
  BY <1>5, <1>6, <1>7, <1>8 DEF NotificationsNext

(* The state of a message has its type: a channel or participant gets no   *)
(* more messages than there were calls (notifications.service.ts).         *)
THEOREM MessagesTypeCorrect == NotificationsSpec => []NotificationsTypeOK
<1>1. NotificationsInit => Tallied /\ Reported
  <2> SUFFICES ASSUME NotificationsInit PROVE Tallied /\ Reported
    OBVIOUS
  <2>1. /\ calls = 0 /\ spent = 0 /\ ending = "returned" /\ sent = {}
        /\ warned = {} /\ twilio \in BOOLEAN
        /\ \A x \in DOMAIN received : received[x] = 0
    BY DEF NotificationsInit
  <2>2. QED
    BY <2>1, MaxCallsAssumption DEF Tallied, Reported
<1>2. MessagesInv /\ Tallied /\ Reported => NotificationsTypeOK
  <2> SUFFICES ASSUME MessagesInv, Tallied, Reported PROVE NotificationsTypeOK
    OBVIOUS
  <2>1. /\ addressees \in Addresses /\ message \in Kinds /\ spent \in Nat
        /\ ending \in Endings
        /\ left \in Seq(Channels) /\ pending \subseteq Recipients
        /\ received = [x \in Channels \cup Everyone |-> received[x]]
        /\ \A x \in Channels \cup Everyone : received[x] \in Nat
    BY DEF MessagesInv, MessagesTyped, InOrder
  <2>2. Recipients \subseteq Slots \cup Everyone
    <3>1. Participants \subseteq Slots
      <4>1. \A i \in 1..5 : SlotOrder[i] \in Slots
        BY DEF SlotOrder, Slots
      <4>2. QED
        BY <4>1 DEF Participants
    <3>2. QED
      BY <3>1 DEF Recipients, Everyone
  <2>3. spent \in 0..calls
    BY <2>1 DEF Tallied
  <2>4. ASSUME NEW x \in Channels \cup Everyone
        PROVE  received[x] \in 0..calls
    <3>1. x \in DOMAIN received /\ received[x] \in Nat
      BY <2>1
    <3>2. received[x] <= calls /\ calls \in Nat
      BY <3>1 DEF Tallied
    <3>3. QED
      BY <3>1, <3>2
  <2>5. received \in [Channels \cup Everyone -> 0..calls]
    BY <2>1, <2>4
  <2>6. QED
    BY <2>1, <2>2, <2>3, <2>5 DEF Reported, NotificationsTypeOK, Endings
<1>3. QED
  BY <1>1, <1>2, MessagesInvInitially, MessagesInvKept, TalliedKept,
     ReportedKept, PTL DEF NotificationsSpec

-------------------------------------------------------------------------------
(* The parts side by side (MCBackOffice).                                  *)

(* A step of the back office is a step of one part, and a stutter of the   *)
(* others.                                                                 *)
LEMMA EachPartRuns ==
    Spec => /\ InitiatorSpec /\ AppraisalSpec /\ PermissionsSpec /\ AccountsSpec
            /\ NotificationsSpec /\ AmortizationSpec /\ ServicingSpec
            /\ CollectionsSpec /\ ConsentSpec
<1>1. Init => /\ InitiatorInit /\ AppraisalInit /\ PermissionsInit
              /\ AccountsInit /\ NotificationsInit /\ AmortizationInit
              /\ ServicingInit /\ CollectionsInit /\ ConsentInit
  BY DEF Init
<1>2. [Next]_vars => [InitiatorNext]_initiatorSection
  BY DEF Next, Others, vars
<1>3. [Next]_vars => [AppraisalNext]_appraisal
  BY DEF Next, Others, vars
<1>4. [Next]_vars => [PermissionsNext]_permissions
  BY DEF Next, Others, vars
<1>5. [Next]_vars => [AccountsNext]_accounts
  BY DEF Next, Others, vars
<1>6. [Next]_vars => [NotificationsNext]_notifications
  BY DEF Next, Others, vars
<1>7. [Next]_vars => [AmortizationNext]_amortization
  BY DEF Next, Others, vars
<1>8. [Next]_vars => [ServicingNext]_loanServicing
  BY DEF Next, Others, vars
<1>9. [Next]_vars => [CollectionsNext]_collections
  BY DEF Next, Others, vars
<1>10. [Next]_vars => [ConsentNext]_studentConsent
  BY DEF Next, Others, vars
<1>11. QED
  BY <1>1, <1>2, <1>3, <1>4, <1>5, <1>6, <1>7, <1>8, <1>9, <1>10, PTL
     DEF Spec, InitiatorSpec, AppraisalSpec, PermissionsSpec, AccountsSpec,
         NotificationsSpec, AmortizationSpec, ServicingSpec, CollectionsSpec,
         ConsentSpec

(* Whatever part runs, the state of every part has its type.               *)
THEOREM BackOfficeTypeCorrect == Spec => []BackOfficeTypeOK
<1>1. /\ InitiatorTypeOK /\ AppraisalTypeOK /\ PermissionsTypeOK
      /\ AccountsTypeOK /\ NotificationsTypeOK /\ AmortizationTypeOK
      /\ ServicingTypeOK /\ CollectionsTypeOK /\ ConsentTypeOK
      => BackOfficeTypeOK
  BY DEF BackOfficeTypeOK
<1>2. QED
  BY <1>1, EachPartRuns, SectionTypeCorrect, AppraisalTypeCorrect,
     PermissionsTypeCorrect, AccountsTypeCorrect, MessagesTypeCorrect,
     ScheduleTypeCorrect, ServicingTypeCorrect, CollectionsTypeCorrect,
     ConsentTypeCorrect, PTL

===============================================================================
