----------------------- MODULE BankAccountOpeningProofs -----------------------
(***************************************************************************)
(* Theorems about the gate between verification and the Initiator's queue, *)
(* for every set of concurrent requests: its state is well typed, the      *)
(* requirement is never missed, and it means what it promises.             *)
(***************************************************************************)
EXTENDS BankAccountOpening, TLAPS

(* Every reachable state of the gate is well typed.                        *)
THEOREM TypeCorrect == Spec => []TypeOK
<1>1. Init => TypeOK
  <2> SUFFICES ASSUME Init PROVE TypeOK
    OBVIOUS
  <2>1. invitationVerified \in [Side -> BOOLEAN]
    BY Zenon DEF Init
  <2>2. QED
    BY <2>1 DEF Init, TypeOK, Idle, Side, Pc
<1>2. TypeOK /\ [Next]_vars => TypeOK'
  <2> SUFFICES ASSUME TypeOK, [Next]_vars PROVE TypeOK'
    OBVIOUS
  <2> USE DEF TypeOK, Side, Pc
  <2>1. ASSUME NEW r \in Requests, Next, Start(r) PROVE TypeOK'
    <3>1. CASE SubmitParentProfile(r)
      BY <2>1, <3>1 DEF SubmitParentProfile, Submit, Next
    <3>2. CASE SubmitCollegeForm(r)
      BY <2>1, <3>2 DEF SubmitCollegeForm, Submit, Next
    <3>3. CASE ReadCompletion(r)
      BY <2>1, <3>3 DEF ReadCompletion, Goto, forms, Next
    <3>4. QED
      BY <2>1, <3>1, <3>2, <3>3 DEF Start
  <2>2. ASSUME NEW r \in Requests, Next, Proceed(r) PROVE TypeOK'
    <3> USE DEF Goto, Return, Idle, forms, Next
    <3>1. CASE MarkVerified(r)
      BY <2>2, <3>1 DEF MarkVerified
    <3>2. CASE EnsureRequirement(r)
      BY <2>2, <3>2 DEF EnsureRequirement
    <3>3. CASE CreateRequirement(r) \/ CreateConflict(r)
      BY <2>2, <3>3 DEF CreateRequirement, CreateConflict
    <3>4. CASE NotifyRequired(r)
      BY <2>2, <3>4 DEF NotifyRequired
    <3>5. CASE Complete(r)
      BY <2>2, <3>5 DEF Complete
    <3>6. CASE AuditCompletion(r)
      BY <2>2, <3>6 DEF AuditCompletion
    <3>7. QED
      BY <2>2, <3>1, <3>2, <3>3, <3>4, <3>5, <3>6 DEF Proceed
  <2>3. ASSUME NEW r \in Requests, Next, Fail(r) PROVE TypeOK'
    BY <2>3 DEF Fail, Return, Idle, Next
  <2>4. CASE UNCHANGED vars
    BY <2>4 DEF vars, rows, forms
  <2>5. QED
    BY <2>1, <2>2, <2>3, <2>4 DEF Next, Step
<1>3. QED
  BY <1>1, <1>2, PTL DEF Spec

-------------------------------------------------------------------------------
(* NoMissedRequirement is inductive beside the types: whoever leaves the   *)
(* requirement uncreated has seen a form missing that is written later by  *)
(* a request still on its way, or has failed.                              *)

(* Whichever form comes second, the requirement is not missed.             *)
THEOREM RequirementNotMissed == Spec => []NoMissedRequirement
<1> DEFINE OnItsWay(r) == req[r].pc \in {"submitted", "marked", "creating"}
<1>1. Init => NoMissedRequirement
  BY DEF Init, NoMissedRequirement
<1>2. TypeOK /\ NoMissedRequirement /\ [Next]_vars => NoMissedRequirement'
  <2> SUFFICES ASSUME TypeOK, NoMissedRequirement, [Next]_vars
               PROVE  NoMissedRequirement'
    OBVIOUS
  <2> USE DEF TypeOK, NoMissedRequirement, Goto, Return, Idle, forms
  <2>1. ASSUME NEW r \in Requests, Start(r) PROVE NoMissedRequirement'
    <3>1. CASE SubmitParentProfile(r) \/ SubmitCollegeForm(r)
      <4>1. OnItsWay(r)'
        BY <3>1 DEF SubmitParentProfile, SubmitCollegeForm, Submit
      <4>2. QED
        BY <4>1
    <3>2. CASE ReadCompletion(r)
      BY <3>2 DEF ReadCompletion
    <3>3. QED
      BY <2>1, <3>1, <3>2 DEF Start
  <2>2. ASSUME NEW r \in Requests, Proceed(r) PROVE NoMissedRequirement'
    <3>1. CASE MarkVerified(r)
      BY <3>1 DEF MarkVerified
    <3>2. CASE EnsureRequirement(r)
      BY <3>2 DEF EnsureRequirement, BothVerified
    <3>3. CASE CreateRequirement(r) \/ CreateConflict(r)
      BY <3>3 DEF CreateRequirement, CreateConflict
    <3>4. CASE NotifyRequired(r)
      BY <3>4 DEF NotifyRequired
    <3>5. CASE Complete(r)
      BY <3>5 DEF Complete
    <3>6. CASE AuditCompletion(r)
      BY <3>6 DEF AuditCompletion
    <3>7. QED
      BY <2>2, <3>1, <3>2, <3>3, <3>4, <3>5, <3>6 DEF Proceed
  <2>3. ASSUME NEW r \in Requests, Fail(r) PROVE NoMissedRequirement'
    BY <2>3 DEF Fail
  <2>4. CASE UNCHANGED vars
    BY <2>4 DEF vars, rows
  <2>5. QED
    BY <2>1, <2>2, <2>3, <2>4 DEF Next, Step
<1>3. QED
  BY <1>1, <1>2, TypeCorrect, PTL DEF Spec

-------------------------------------------------------------------------------
(* The strengthening of RequirementSound.                                  *)

(* Who is about to create or complete the requirement comes after both     *)
(* forms were verified.                                                    *)
CreatorSawBoth ==
    /\ BothVerified => bothSeen
    /\ \A r \in Requests : req[r].pc \in {"creating", "completing"} => bothSeen

(* The one request that created it is the one that notifies, once.         *)
CreatorNotifies ==
    /\ opening = "NONE" => notified = 0
    /\ \A r \in Requests :
          req[r].pc = "created" => opening # "NONE" /\ notified = 0
    /\ \A q, r \in Requests :
          req[q].pc = "created" /\ req[r].pc = "created" => q = r

(* One request at a time completes it and audits that.                     *)
OneClickAtATime ==
    ~overlapped =>
        /\ ~Overlap
        /\ opening # "COMPLETED" => completionAudits = 0
        /\ \A r \in Requests :
              /\ req[r].pc = "completing" => opening = "PENDING"
              /\ req[r].pc = "completed" =>
                    opening = "COMPLETED" /\ completionAudits = 0

SoundInv ==
    /\ RequirementSound
    /\ CreatorSawBoth
    /\ CreatorNotifies
    /\ OneClickAtATime

(* The requirement follows two verified forms, once announced, and as long *)
(* as no requests overlap its completion is audited once.                  *)
THEOREM RequirementMeansBoth == Spec => []RequirementSound
<1>1. Init => SoundInv
  BY DEF Init, SoundInv, RequirementSound, RequirementNeedsBoth,
     NotifiedAtMostOnce, CompletionAuditedOnce, CreatorSawBoth,
     CreatorNotifies, OneClickAtATime, Overlap, Idle, BothVerified
<1>2. TypeOK /\ SoundInv /\ [Next]_vars => SoundInv'
  <2> SUFFICES ASSUME TypeOK, SoundInv, [Next]_vars PROVE SoundInv'
    OBVIOUS
  <2>1. (RequirementNeedsBoth /\ CreatorSawBoth)'
    <3> USE DEF SoundInv, RequirementSound, RequirementNeedsBoth,
                CreatorSawBoth, BothVerified, TypeOK, Goto, Return, Idle, forms
    <3>1. ASSUME NEW r \in Requests, Start(r)
          PROVE  (RequirementNeedsBoth /\ CreatorSawBoth)'
      BY <3>1 DEF Start, SubmitParentProfile, SubmitCollegeForm, Submit,
         ReadCompletion
    <3>2. ASSUME NEW r \in Requests, Proceed(r)
          PROVE  (RequirementNeedsBoth /\ CreatorSawBoth)'
      <4>1. CASE EnsureRequirement(r)
        BY <4>1 DEF EnsureRequirement
      <4>2. CASE CreateRequirement(r) \/ CreateConflict(r)
        BY <4>2 DEF CreateRequirement, CreateConflict
      <4>3. CASE MarkVerified(r) \/ NotifyRequired(r)
        BY <4>3 DEF MarkVerified, NotifyRequired
      <4>4. CASE Complete(r) \/ AuditCompletion(r)
        BY <4>4 DEF Complete, AuditCompletion
      <4>5. QED
        BY <3>2, <4>1, <4>2, <4>3, <4>4 DEF Proceed
    <3>3. ASSUME NEW r \in Requests, Fail(r)
          PROVE  (RequirementNeedsBoth /\ CreatorSawBoth)'
      BY <3>3 DEF Fail
    <3>4. CASE UNCHANGED vars
      BY <3>4 DEF vars, rows
    <3>5. QED
      BY <3>1, <3>2, <3>3, <3>4 DEF Next, Step
  <2>2. (NotifiedAtMostOnce /\ CreatorNotifies)'
    <3> USE DEF SoundInv, RequirementSound, NotifiedAtMostOnce,
                CreatorNotifies, TypeOK, Goto, Return, Idle, forms
    <3>1. ASSUME NEW r \in Requests, Start(r)
          PROVE  (NotifiedAtMostOnce /\ CreatorNotifies)'
      BY <3>1 DEF Start, SubmitParentProfile, SubmitCollegeForm, Submit,
         ReadCompletion
    <3>2. ASSUME NEW r \in Requests, Proceed(r)
          PROVE  (NotifiedAtMostOnce /\ CreatorNotifies)'
      <4>1. CASE CreateRequirement(r)
        BY <4>1 DEF CreateRequirement
      <4>2. CASE NotifyRequired(r)
        BY <4>2 DEF NotifyRequired
      <4>3. CASE MarkVerified(r) \/ EnsureRequirement(r) \/ CreateConflict(r)
        BY <4>3 DEF MarkVerified, EnsureRequirement, CreateConflict
      <4>4. CASE Complete(r) \/ AuditCompletion(r)
        BY <4>4 DEF Complete, AuditCompletion
      <4>5. QED
        BY <3>2, <4>1, <4>2, <4>3, <4>4 DEF Proceed
    <3>3. ASSUME NEW r \in Requests, Fail(r)
          PROVE  (NotifiedAtMostOnce /\ CreatorNotifies)'
      BY <3>3 DEF Fail
    <3>4. CASE UNCHANGED vars
      BY <3>4 DEF vars, rows
    <3>5. QED
      BY <3>1, <3>2, <3>3, <3>4 DEF Next, Step
  <2>3. (CompletionAuditedOnce /\ OneClickAtATime)'
    <3> USE DEF SoundInv, RequirementSound, CompletionAuditedOnce,
                OneClickAtATime
    <3>1. CASE overlapped'
      BY <3>1
    <3>2. CASE ~overlapped' /\ Next
      <4>1. ~overlapped /\ ~Overlap /\ ~Overlap'
        BY <3>2 DEF Next, TypeOK
      <4>2. PICK r \in Requests : Start(r) \/ Proceed(r) \/ Fail(r)
        BY <3>2 DEF Next, Step
      <4>3. \A q \in Requests \ {r} : req'[q].pc = req[q].pc
        BY <4>2 DEF Start, SubmitParentProfile, SubmitCollegeForm, Submit,
           ReadCompletion, Proceed, MarkVerified, EnsureRequirement,
           CreateRequirement, CreateConflict, NotifyRequired, Complete,
           AuditCompletion, Fail, Goto, Return, TypeOK
      <4>4. req'[r] # Idle \/ req[r] # Idle
        BY <4>2 DEF Start, SubmitParentProfile, SubmitCollegeForm, Submit,
           ReadCompletion, Proceed, MarkVerified, EnsureRequirement,
           CreateRequirement, CreateConflict, NotifyRequired, Complete,
           AuditCompletion, Fail, Goto, Return, TypeOK, Idle
      <4>5. \A q \in Requests \ {r} : req'[q].pc = "idle"
        BY <4>1, <4>2, <4>3, <4>4 DEF Overlap, Idle, Start,
           SubmitParentProfile, SubmitCollegeForm, Submit, ReadCompletion,
           Proceed, MarkVerified, EnsureRequirement, CreateRequirement,
           CreateConflict, NotifyRequired, Complete, AuditCompletion, Fail,
           Goto, Return, TypeOK
      <4> USE DEF TypeOK, Goto, Return, Idle, forms
      <4>6. CASE Start(r)
        BY <4>1, <4>5, <4>6 DEF Start, SubmitParentProfile,
           SubmitCollegeForm, Submit, ReadCompletion
      <4>7. CASE Complete(r)
        BY <4>1, <4>5, <4>7 DEF Complete
      <4>8. CASE AuditCompletion(r)
        BY <4>1, <4>5, <4>8 DEF AuditCompletion
      <4>9. CASE MarkVerified(r) \/ EnsureRequirement(r)
        BY <4>1, <4>5, <4>9 DEF MarkVerified, EnsureRequirement
      <4>10. CASE CreateRequirement(r) \/ CreateConflict(r) \/ NotifyRequired(r)
        BY <4>1, <4>5, <4>10 DEF CreateRequirement, CreateConflict,
           NotifyRequired
      <4>11. CASE Fail(r)
        BY <4>1, <4>5, <4>11 DEF Fail
      <4>12. QED
        BY <4>2, <4>6, <4>7, <4>8, <4>9, <4>10, <4>11 DEF Proceed
    <3>3. CASE UNCHANGED vars
      BY <3>3 DEF vars, rows, forms, Overlap
    <3>4. QED
      BY <3>1, <3>2, <3>3
  <2>4. QED
    BY <2>1, <2>2, <2>3 DEF SoundInv, RequirementSound
<1>3. SoundInv => RequirementSound
  BY DEF SoundInv
<1>4. QED
  BY <1>1, <1>2, <1>3, TypeCorrect, PTL DEF Spec

-------------------------------------------------------------------------------
(* What RequirementFollows rests on: a submission on its way gets nearer.  *)

Reached == opening # "NONE" \/ dropped \/ ~collegeVerified

StepsAhead(r) ==
    CASE req[r].pc = "submitted" -> 3
      [] req[r].pc = "marked"    -> 2
      [] req[r].pc = "creating"  -> 1
      [] OTHER                   -> 0

OnItsWay(r) == parentSubmitted /\ ~Reached /\ StepsAhead(r) > 0

LEMMA OnlyItsOwnSteps ==
    ASSUME TypeOK, NEW q \in Requests, NEW r \in Requests, q # r,
           Start(q) \/ Proceed(q) \/ Fail(q)
    PROVE  req'[r] = req[r]
  BY DEF TypeOK, Start, SubmitParentProfile, SubmitCollegeForm, Submit,
     ReadCompletion, Proceed, MarkVerified, EnsureRequirement,
     CreateRequirement, CreateConflict, NotifyRequired, Complete,
     AuditCompletion, Fail, Goto, Return

(* Verified forms without a requirement: a submission that is to create it *)
(* loses no ground to what other requests do, and every statement of its   *)
(* own brings it nearer or ends the matter.  That somebody is on the way   *)
(* is NoMissedRequirement, and that it goes on is the event loop's         *)
(* fairness: RequirementFollows (ensureRequirementIfBothVerified).         *)
THEOREM SubmissionsGetThere ==
    Spec => [][\A r \in Requests : OnItsWay(r) =>
                 \/ Reached'
                 \/ /\ OnItsWay(r)'
                    /\ IF Proceed(r) \/ Fail(r)
                       THEN StepsAhead(r)' = StepsAhead(r) - 1
                       ELSE StepsAhead(r)' = StepsAhead(r)]_vars
<1>1. ASSUME TypeOK, Next, NEW r \in Requests, OnItsWay(r), ~Reached'
      PROVE  /\ OnItsWay(r)'
             /\ IF Proceed(r) \/ Fail(r)
                THEN StepsAhead(r)' = StepsAhead(r) - 1
                ELSE StepsAhead(r)' = StepsAhead(r)
  <2>1. PICK q \in Requests : Start(q) \/ Proceed(q) \/ Fail(q)
    BY <1>1 DEF Next, Step
  <2>2. parentSubmitted'
    BY <1>1, <2>1 DEF OnItsWay, Start, SubmitParentProfile, SubmitCollegeForm,
       ReadCompletion, Proceed, MarkVerified, EnsureRequirement,
       CreateRequirement, CreateConflict, NotifyRequired, Complete,
       AuditCompletion, Fail, forms
  <2>3. /\ opening = "NONE" /\ collegeVerified /\ parentSubmitted
        /\ opening' = "NONE" /\ ~dropped'
        /\ req[r].pc \in {"submitted", "marked", "creating"}
    BY <1>1 DEF OnItsWay, Reached, StepsAhead
  <2>4. req[r] # Idle
    BY <2>3 DEF Idle
  <2>5. CASE q # r
    <3>1. req'[r] = req[r]
      BY <1>1, <2>1, <2>5, OnlyItsOwnSteps
    <3>2. ~Proceed(r) /\ ~Fail(r)
      <4>1. req \in [Requests -> [pc : Pc, side : Side]]
        BY <1>1 DEF TypeOK
      <4>2. ~Fail(r)
        BY <2>4, <3>1, <4>1 DEF Fail, Return
      <4>3. ~MarkVerified(r)
        BY <3>1, <4>1 DEF MarkVerified, Goto
      <4>4. ~EnsureRequirement(r)
        BY <2>4, <3>1, <4>1 DEF EnsureRequirement, Goto, Return
      <4>5. ~CreateRequirement(r) /\ ~CreateConflict(r)
        BY <2>3 DEF CreateRequirement, CreateConflict
      <4>6. ~NotifyRequired(r) /\ ~Complete(r) /\ ~AuditCompletion(r)
        BY <2>3 DEF NotifyRequired, Complete, AuditCompletion, Goto
      <4>7. QED
        BY <4>2, <4>3, <4>4, <4>5, <4>6 DEF Proceed
    <3>3. StepsAhead(r)' = StepsAhead(r)
      BY <3>1 DEF StepsAhead
    <3>4. QED
      BY <1>1, <2>2, <3>2, <3>3 DEF OnItsWay
  <2>6. CASE q = r
    <3>1. ~Start(r) /\ ~Fail(r)
      BY <2>3, <2>4 DEF Start, SubmitParentProfile, SubmitCollegeForm, Submit,
         ReadCompletion, Goto, Fail
    <3>2. CASE req[r].pc = "submitted"
      <4>1. req'[r].pc = "marked"
        BY <1>1, <2>1, <2>6, <3>1, <3>2 DEF Proceed, MarkVerified,
           EnsureRequirement, CreateRequirement, CreateConflict,
           NotifyRequired, Complete, AuditCompletion, Goto, TypeOK
      <4>2. StepsAhead(r) = 3 /\ StepsAhead(r)' = 2
        BY <3>2, <4>1 DEF StepsAhead
      <4>3. QED
        BY <1>1, <2>1, <2>2, <2>6, <3>1, <4>2 DEF OnItsWay
    <3>3. CASE req[r].pc = "marked"
      <4>1. req'[r].pc = "creating"
        BY <1>1, <2>1, <2>3, <2>6, <3>1, <3>3 DEF Proceed, MarkVerified,
           EnsureRequirement, BothVerified, CreateRequirement,
           CreateConflict, NotifyRequired, Complete, AuditCompletion, Goto,
           TypeOK
      <4>2. StepsAhead(r) = 2 /\ StepsAhead(r)' = 1
        BY <3>3, <4>1 DEF StepsAhead
      <4>3. QED
        BY <1>1, <2>1, <2>2, <2>6, <3>1, <4>2 DEF OnItsWay
    <3>4. CASE req[r].pc = "creating"
      BY <2>1, <2>3, <2>6, <3>1, <3>4 DEF Proceed, MarkVerified,
         EnsureRequirement, CreateRequirement, CreateConflict,
         NotifyRequired, Complete, AuditCompletion, Goto
    <3>5. QED
      BY <2>3, <3>2, <3>3, <3>4
  <2>7. QED
    BY <2>5, <2>6
<1>2. TypeOK /\ [Next]_vars =>
        [\A r \in Requests : OnItsWay(r) =>
            \/ Reached'
            \/ /\ OnItsWay(r)'
               /\ IF Proceed(r) \/ Fail(r)
                  THEN StepsAhead(r)' = StepsAhead(r) - 1
                  ELSE StepsAhead(r)' = StepsAhead(r)]_vars
  BY <1>1
<1>3. QED
  BY <1>2, TypeCorrect, PTL DEF Spec

===============================================================================
