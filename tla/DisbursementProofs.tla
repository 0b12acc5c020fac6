-------------------------- MODULE DisbursementProofs --------------------------
(***************************************************************************)
(* Nothing of a loan is paid, and no condition exists, before a Loan       *)
(* Agreement has been signed, and every payout is accounted for: for any   *)
(* number of requests, agreements, conditions and tranches.                *)
(***************************************************************************)
EXTENDS Disbursement, LoanProofs

Unsigned == \A a \in Agreements : ~signedAt[a]

(* What the strengthening adds: a signed status comes with its date, and a *)
(* request beyond the gate with a signature made, whatever the status says *)
(* now.                                                                    *)
SignedHasDate ==
    \A a \in Agreements :
        agreementStatus[a] \in {"SIGNED", "ACTIVE"} => signedAt[a]

Beyond == {"adding", "updating", "agreed", "cleared", "raised"}

GateHeld == Unsigned => \A r \in Requests : req[r].pc \notin Beyond

SignInv == TypeOK /\ SignedHasDate /\ GateHeld /\ NothingBeforeSigning

-------------------------------------------------------------------------------
(* A request's place determines what it works on.                          *)
LEMMA PlaceType ==
    ASSUME TypeOK, NEW r \in Requests
    PROVE  /\ req[r].pc \in DocumentPc => req[r].on \in Agreements
           /\ req[r].pc = "updating" => req[r].on \in Conditions
           /\ req[r].pc = "raised" => req[r].on \in Amounts
<1>1. req[r] \in RequestType
  BY DEF TypeOK
<1> QED
  BY <1>1 DEF RequestType, Idle, At, DocumentPc, GatedPc

(* The gate opens only to a signature that was made.                       *)
LEMMA GateNeedsSignature ==
    ASSUME SignedHasDate, SignedLoanAgreement
    PROVE  ~Unsigned
  BY DEF SignedHasDate, SignedLoanAgreement, Unsigned

(* Every way a request moves keeps the requests typed.                     *)
LEMMA RequestMoves ==
    ASSUME TypeOK, NEW r \in Requests, NEW q \in RequestType,
           req' = [req EXCEPT ![r] = q]
    PROVE  /\ req' \in [Requests -> RequestType]
           /\ req'[r] = q
           /\ \A s \in Requests \ {r} : req'[s] = req[s]
  BY DEF TypeOK

(* A request served in one write leaves its slot idle.                     *)
LEMMA ServedMovesNone ==
    ASSUME TypeOK, NEW r \in Requests, Served(r)
    PROVE  req' = req
  BY DEF Served, Arrive, Idle, TypeOK

(* The history variable stays a truth value.                               *)
LEMMA OverlappedIsBoolean ==
    ASSUME TypeOK, NEW r \in Requests,
           \/ LegalStep(r) \/ ChecklistStep(r) \/ ConfirmStep(r)
           \/ SubmitBankAccount(r) \/ Fail(r)
    PROVE  overlapped' \in BOOLEAN
<1>1. ASSUME NEW pc, NEW on, Arrive(r, pc, on) PROVE overlapped' \in BOOLEAN
  BY <1>1 DEF Arrive
<1>2. \/ \E pc, on : Arrive(r, pc, on)
      \/ overlapped' = overlapped
  <2>1. CASE LegalStep(r)
    BY <2>1 DEF LegalStep, CreateAgreement, ReadSendToSign, ReadMarkSigned,
       ReadUploadSigned, SendToSign, MarkSigned, UploadSigned, Served, Return
  <2>2. CASE ChecklistStep(r)
    BY <2>2 DEF ChecklistStep, ReadAddCondition, AddCondition,
       ReadUpdateCondition, UpdateCondition, Return
  <2>3. CASE ConfirmStep(r)
    BY <2>3 DEF ConfirmStep, ReadBankAccount, ReadAgreement, ReadConditions,
       UpsertDisbursement, CreateTranche, Goto, Return
  <2>4. CASE SubmitBankAccount(r) \/ Fail(r)
    BY <2>4 DEF SubmitBankAccount, Served, Fail
  <2> QED
    BY <2>1, <2>2, <2>3, <2>4
<1> QED
  BY <1>1, <1>2 DEF TypeOK

(* The legal document: its statuses and dates stay typed and dated.        *)
LEMMA LegalStepKeeps ==
    ASSUME SignInv, NEW r \in Requests, LegalStep(r)
    PROVE  SignInv'
<1> USE DEF SignInv
<1>0. overlapped' \in BOOLEAN
  BY OverlappedIsBoolean
<1>1. CASE \E a \in Agreements : CreateAgreement(r, a)
  <2>1. PICK a \in Agreements : CreateAgreement(r, a)
    BY <1>1
  <2>2. TypeOK' /\ SignedHasDate'
    BY <1>0, <2>1, ServedMovesNone
       DEF CreateAgreement, payout, TypeOK, SignedHasDate
  <2>3. GateHeld' /\ NothingBeforeSigning'
    BY <2>1, ServedMovesNone
       DEF CreateAgreement, payout, GateHeld, NothingBeforeSigning, Unsigned
  <2> QED
    BY <2>2, <2>3
<1>2. CASE \E a \in Agreements :
             ReadSendToSign(r, a) \/ ReadMarkSigned(r, a) \/ ReadUploadSigned(r, a)
  <2>1. PICK a \in Agreements, pc \in DocumentPc :
          /\ req' = [req EXCEPT ![r] = At(pc, a)]
          /\ UNCHANGED <<legal, bankAccount, conditions, payout>>
    BY <1>2 DEF ReadSendToSign, ReadMarkSigned, ReadUploadSigned, Arrive, DocumentPc
  <2>2. At(pc, a) \in RequestType
    BY <2>1 DEF At, RequestType
  <2>3. /\ req' \in [Requests -> RequestType]
        /\ req'[r] = At(pc, a)
        /\ \A s \in Requests \ {r} : req'[s] = req[s]
    BY <2>1, <2>2, RequestMoves
  <2>4. TypeOK' /\ SignedHasDate'
    BY <1>0, <2>1, <2>3 DEF legal, payout, TypeOK, SignedHasDate
  <2>5. GateHeld' /\ NothingBeforeSigning'
    BY <2>1, <2>3 DEF legal, payout, GateHeld, NothingBeforeSigning, Unsigned,
                      At, DocumentPc, Beyond
  <2> QED
    BY <2>4, <2>5
<1>3. CASE SendToSign(r) \/ MarkSigned(r) \/ UploadSigned(r)
  <2> DEFINE a == req[r].on
  <2>1. a \in Agreements
    BY <1>3, PlaceType DEF SendToSign, MarkSigned, UploadSigned, Return, DocumentPc
  <2>2. Idle \in RequestType
    BY DEF RequestType
  <2>3. /\ req' \in [Requests -> RequestType]
        /\ req'[r] = Idle
        /\ \A s \in Requests \ {r} : req'[s] = req[s]
    BY <1>3, <2>2, RequestMoves DEF SendToSign, MarkSigned, UploadSigned, Return
  <2>4. /\ UNCHANGED <<bankAccount, conditions, payout>>
        /\ \/ Sign(a)
           \/ /\ agreementStatus' =
                   [agreementStatus EXCEPT ![a] = "PENDING_SIGNATURE"]
              /\ signedAt' = signedAt
    BY <1>3 DEF SendToSign, MarkSigned, UploadSigned
  <2>5. \A b \in Agreements : signedAt[b] => signedAt'[b]
    BY <2>1, <2>4 DEF Sign, TypeOK
  <2>6. TypeOK' /\ SignedHasDate'
    <3> HIDE DEF a
    <3>1. CASE Sign(a)
      BY <1>0, <2>1, <2>3, <2>4, <3>1 DEF Sign, payout, TypeOK, SignedHasDate
    <3>2. CASE ~Sign(a)
      BY <1>0, <2>1, <2>3, <2>4, <3>2 DEF payout, TypeOK, SignedHasDate
    <3> QED
      BY <3>1, <3>2
  <2>7. GateHeld' /\ NothingBeforeSigning'
    BY <2>3, <2>4, <2>5
       DEF payout, GateHeld, NothingBeforeSigning, Unsigned, Idle, At, Beyond
  <2> QED
    BY <2>6, <2>7
<1> QED
  BY <1>1, <1>2, <1>3 DEF LegalStep

(* The checklist is reached only through the gate.                         *)
LEMMA ChecklistStepKeeps ==
    ASSUME SignInv, NEW r \in Requests, ChecklistStep(r)
    PROVE  SignInv'
<1> USE DEF SignInv
<1>0. overlapped' \in BOOLEAN
  BY OverlappedIsBoolean
<1>1. CASE ReadAddCondition(r)
           \/ \E c \in Conditions : ReadUpdateCondition(r, c)
  <2>1. PICK q \in RequestType :
          /\ req' = [req EXCEPT ![r] = q]
          /\ SignedLoanAgreement
          /\ UNCHANGED <<legal, bankAccount, conditions, payout>>
    <3>1. CASE ReadAddCondition(r)
      <4>1. At("adding", NULL) \in RequestType
        BY DEF At, RequestType, GatedPc
      <4> QED
        BY <3>1, <4>1 DEF ReadAddCondition, Arrive
    <3>2. CASE \E c \in Conditions : ReadUpdateCondition(r, c)
      <4>1. \A c \in Conditions : At("updating", c) \in RequestType
        BY DEF At, RequestType
      <4> QED
        BY <3>2, <4>1 DEF ReadUpdateCondition, Arrive
    <3> QED
      BY <1>1, <3>1, <3>2
  <2>2. req' \in [Requests -> RequestType]
    BY <2>1, RequestMoves
  <2>3. ~Unsigned'
    BY <2>1, GateNeedsSignature DEF legal, Unsigned
  <2>4. TypeOK' /\ SignedHasDate'
    BY <1>0, <2>1, <2>2 DEF legal, payout, TypeOK, SignedHasDate
  <2> QED
    BY <2>3, <2>4 DEF GateHeld, NothingBeforeSigning, Unsigned
<1>2. CASE UpdateCondition(r) \/ \E c \in Conditions : AddCondition(r, c)
  <2>1. PICK c \in Conditions, status \in {"PENDING", "DONE", "MISSING"} :
          conditions' = [conditions EXCEPT ![c] = status]
    BY <1>2, PlaceType DEF AddCondition, UpdateCondition, Return
  <2>2. /\ req[r].pc \in {"adding", "updating"}
        /\ req' = [req EXCEPT ![r] = Idle]
        /\ UNCHANGED <<legal, bankAccount, payout>>
    BY <1>2 DEF AddCondition, UpdateCondition, Return
  <2>3. ~Unsigned'
    BY <2>2 DEF legal, Unsigned, GateHeld, Beyond
  <2>4. Idle \in RequestType
    BY DEF RequestType
  <2>5. req' \in [Requests -> RequestType]
    BY <2>2, <2>4, RequestMoves
  <2>6. TypeOK' /\ SignedHasDate'
    BY <1>0, <2>1, <2>2, <2>5 DEF legal, payout, TypeOK, SignedHasDate
  <2> QED
    BY <2>3, <2>6 DEF GateHeld, NothingBeforeSigning, Unsigned
<1> QED
  BY <1>1, <1>2 DEF ChecklistStep

(* A payout passes the gate before it raises the total.                    *)
LEMMA ConfirmStepKeeps ==
    ASSUME SignInv, NEW r \in Requests, ConfirmStep(r)
    PROVE  SignInv'
<1> USE DEF SignInv
<1>0. overlapped' \in BOOLEAN
  BY OverlappedIsBoolean
<1>1. CASE ReadBankAccount(r)
  <2>1. At("banked", NULL) \in RequestType
    BY DEF At, RequestType
  <2>2. /\ req' \in [Requests -> RequestType]
        /\ req'[r] = At("banked", NULL)
        /\ \A s \in Requests \ {r} : req'[s] = req[s]
    BY <1>1, <2>1, RequestMoves DEF ReadBankAccount, Arrive
  <2>3. TypeOK' /\ SignedHasDate'
    BY <1>0, <1>1, <2>2 DEF ReadBankAccount, legal, payout, TypeOK, SignedHasDate
  <2>4. GateHeld' /\ NothingBeforeSigning'
    BY <1>1, <2>2 DEF ReadBankAccount, legal, payout, GateHeld,
                      NothingBeforeSigning, Unsigned, At, Beyond
  <2> QED
    BY <2>3, <2>4
<1>2. CASE ReadAgreement(r) \/ ReadConditions(r)
  <2>1. PICK pc \in GatedPc :
          /\ req' = [req EXCEPT ![r] = At(pc, NULL)]
          /\ UNCHANGED <<legal, bankAccount, conditions, payout>>
    BY <1>2 DEF ReadAgreement, ReadConditions, Goto, GatedPc
  <2>2. At(pc, NULL) \in RequestType
    BY <2>1 DEF At, RequestType
  <2>3. req' \in [Requests -> RequestType]
    BY <2>1, <2>2, RequestMoves
  <2>4. ~Unsigned
    BY <1>2, GateNeedsSignature
       DEF ReadAgreement, ReadConditions, Goto, GateHeld, Beyond
  <2>5. TypeOK' /\ SignedHasDate'
    BY <1>0, <2>1, <2>3 DEF legal, payout, TypeOK, SignedHasDate
  <2> QED
    BY <2>1, <2>4, <2>5 DEF legal, GateHeld, NothingBeforeSigning, Unsigned
<1>3. CASE UpsertDisbursement(r)
  <2>1. PICK amount \in Amounts :
          /\ total' = total + amount
          /\ req' = [req EXCEPT ![r] = At("raised", amount)]
    BY <1>3 DEF UpsertDisbursement
  <2>2. At("raised", amount) \in RequestType
    BY <2>1 DEF At, RequestType
  <2>3. req' \in [Requests -> RequestType]
    BY <2>1, <2>2, RequestMoves
  <2>4. total' \in Int
    BY <2>1, AmountsAssumption DEF TypeOK
  <2>5. TypeOK' /\ SignedHasDate'
    BY <1>0, <1>3, <2>3, <2>4 DEF UpsertDisbursement, legal, TypeOK, SignedHasDate
  <2>6. ~Unsigned'
    BY <1>3 DEF UpsertDisbursement, legal, Unsigned, GateHeld, Beyond
  <2> QED
    BY <2>5, <2>6 DEF GateHeld, NothingBeforeSigning, Unsigned
<1>4. CASE CreateTranche(r)
  <2>1. req[r].on \in Amounts
    BY <1>4, PlaceType DEF CreateTranche, Return
  <2>2. tranches' \in Seq(Amounts)
    BY <1>4, <2>1 DEF CreateTranche, TypeOK
  <2>3. Idle \in RequestType
    BY DEF RequestType
  <2>4. req' \in [Requests -> RequestType]
    BY <1>4, <2>3, RequestMoves DEF CreateTranche, Return
  <2>5. TypeOK' /\ SignedHasDate'
    BY <1>0, <1>4, <2>2, <2>4 DEF CreateTranche, legal, TypeOK, SignedHasDate
  <2>6. ~Unsigned'
    BY <1>4 DEF CreateTranche, Return, legal, Unsigned, GateHeld, Beyond
  <2> QED
    BY <2>5, <2>6 DEF GateHeld, NothingBeforeSigning, Unsigned
<1> QED
  BY <1>1, <1>2, <1>3, <1>4 DEF ConfirmStep

(* The bank account and failures open no gate.                             *)
LEMMA OtherStepKeeps ==
    ASSUME SignInv, NEW r \in Requests, SubmitBankAccount(r) \/ Fail(r)
    PROVE  SignInv'
<1> USE DEF SignInv
<1>0. overlapped' \in BOOLEAN
  BY OverlappedIsBoolean
<1>1. CASE SubmitBankAccount(r)
  <2>1. TypeOK' /\ SignedHasDate'
    BY <1>0, <1>1, ServedMovesNone
       DEF SubmitBankAccount, legal, payout, TypeOK, SignedHasDate
  <2>2. GateHeld' /\ NothingBeforeSigning'
    BY <1>1, ServedMovesNone
       DEF SubmitBankAccount, legal, payout, GateHeld, NothingBeforeSigning,
           Unsigned
  <2> QED
    BY <2>1, <2>2
<1>2. CASE Fail(r)
  <2>1. Idle \in RequestType
    BY DEF RequestType
  <2>2. /\ req' \in [Requests -> RequestType]
        /\ req'[r] = Idle
        /\ \A s \in Requests \ {r} : req'[s] = req[s]
    BY <1>2, <2>1, RequestMoves DEF Fail
  <2>3. orphaned' \in Int
    <3>1. req[r].pc = "raised" => req[r].on \in Int
      BY PlaceType, AmountsAssumption
    <3> QED
      BY <1>2, <3>1 DEF Fail, TypeOK
  <2>4. TypeOK' /\ SignedHasDate'
    BY <1>0, <1>2, <2>2, <2>3 DEF Fail, legal, TypeOK, SignedHasDate
  <2>5. GateHeld' /\ NothingBeforeSigning'
    BY <1>2, <2>2 DEF Fail, legal, GateHeld, NothingBeforeSigning, Unsigned,
                      Idle, At, Beyond
  <2> QED
    BY <2>4, <2>5
<1> QED
  BY <1>1, <1>2

-------------------------------------------------------------------------------
(* At first nothing is signed and nothing paid.                            *)
LEMMA InitSigns == Init => SignInv
<1> SUFFICES ASSUME Init PROVE SignInv
  OBVIOUS
<1>1. TypeOK
  <2>1. req \in [Requests -> RequestType]
    BY DEF Init, RequestType
  <2>4. total \in Int /\ orphaned \in Int
    BY DEF Init
  <2>2. tranches \in Seq(Amounts)
    BY DEF Init
  <2>3. signedAt \in [Agreements -> BOOLEAN]
    BY Zenon DEF Init
  <2> QED
    BY <2>1, <2>2, <2>3, <2>4 DEF Init, TypeOK
<1>2. SignedHasDate /\ GateHeld
  BY DEF Init, SignedHasDate, GateHeld, Idle, At, Beyond
<1>3. NothingBeforeSigning
  BY DEF Init, NothingBeforeSigning
<1> QED
  BY <1>1, <1>2, <1>3 DEF SignInv

(* Every step keeps the strengthening.                                     *)
LEMMA NextKeepsSigns == SignInv /\ [Next]_vars => SignInv'
<1> SUFFICES ASSUME SignInv, [Next]_vars PROVE SignInv'
  OBVIOUS
<1>1. CASE Next
  <2>1. PICK r \in Requests :
          \/ LegalStep(r) \/ ChecklistStep(r) \/ ConfirmStep(r)
          \/ SubmitBankAccount(r) \/ Fail(r)
    BY <1>1 DEF Next
  <2> QED
    BY <2>1, LegalStepKeeps, ChecklistStepKeeps, ConfirmStepKeeps, OtherStepKeeps
<1>2. CASE UNCHANGED vars
  <2>1. TypeOK' /\ SignedHasDate'
    BY <1>2 DEF vars, legal, payout, SignInv, TypeOK, SignedHasDate
  <2>2. GateHeld' /\ NothingBeforeSigning'
    BY <1>2 DEF vars, legal, payout, SignInv, GateHeld, NothingBeforeSigning,
                Unsigned
  <2> QED
    BY <2>1, <2>2 DEF SignInv
<1> QED
  BY <1>1, <1>2

(* No payout and no condition precede a signature, and no request passes   *)
(* the gate without one: every amount of racing documents and requests     *)
(* (assertSignedLoanAgreement).                                            *)
THEOREM SigningComesFirst == Spec => []NothingBeforeSigning
<1>1. SignInv => NothingBeforeSigning
  BY DEF SignInv
<1> QED
  BY InitSigns, NextKeepsSigns, <1>1, PTL DEF Spec

(* Every column keeps the values the handlers can write.                   *)
THEOREM TypeCorrect == Spec => []TypeOK
<1>1. SignInv => TypeOK
  BY DEF SignInv
<1> QED
  BY InitSigns, NextKeepsSigns, <1>1, PTL DEF Spec

-------------------------------------------------------------------------------
(* What a confirm() in flight has read still holds when it goes on, as     *)
(* long as no other request has been served since.                         *)
ReadStillHolds ==
    ~overlapped =>
        /\ \A q, r \in Requests : q # r => req[q] = Idle \/ req[r] = Idle
        /\ \A r \in Requests :
              /\ req[r].pc \in {"banked", "agreed", "cleared"} => bankAccount
              /\ req[r].pc \in {"agreed", "cleared"} => SignedLoanAgreement
              /\ req[r].pc = "cleared" => AllDone

StepOf(r) ==
    LegalStep(r) \/ ChecklistStep(r) \/ ConfirmStep(r)
        \/ SubmitBankAccount(r) \/ Fail(r)

(* A step either serves a request that arrives, or moves one on.           *)
LEMMA ArrivesOrMoves ==
    ASSUME NEW r \in Requests, StepOf(r)
    PROVE  \/ \E pc, on : Arrive(r, pc, on)
           \/ /\ req[r] # Idle /\ UNCHANGED overlapped
              /\ \E pc, on : req' = [req EXCEPT ![r] = At(pc, on)]
<1>1. CASE LegalStep(r)
  BY <1>1 DEF LegalStep, CreateAgreement, ReadSendToSign, ReadMarkSigned,
     ReadUploadSigned, SendToSign, MarkSigned, UploadSigned, Served, Return,
     Idle, At
<1>2. CASE ChecklistStep(r)
  BY <1>2 DEF ChecklistStep, ReadAddCondition, AddCondition,
     ReadUpdateCondition, UpdateCondition, Return, Idle, At
<1>3. CASE ConfirmStep(r)
  BY <1>3 DEF ConfirmStep, ReadBankAccount, ReadAgreement, ReadConditions,
     UpsertDisbursement, CreateTranche, Goto, Return, Idle, At
<1>4. CASE SubmitBankAccount(r) \/ Fail(r)
  BY <1>4 DEF SubmitBankAccount, Served, Fail, Idle
<1>5. QED
  BY <1>1, <1>2, <1>3, <1>4 DEF StepOf

(* Without an overlap, the others are idle while one request moves.        *)
LEMMA OthersStandStill ==
    ASSUME TypeOK, ReadStillHolds, NEW r \in Requests, StepOf(r), ~overlapped'
    PROVE  /\ ~overlapped
           /\ \A q \in Requests \ {r} : req[q] = Idle /\ req'[q] = Idle
<1>1. CASE \E pc, on : Arrive(r, pc, on)
  <2>1. PICK pc, on : Arrive(r, pc, on)
    BY <1>1
  <2>2. ~overlapped /\ \A q \in Requests : req[q] = Idle
    BY <2>1 DEF Arrive, TypeOK
  <2>3. QED
    BY <2>1, <2>2 DEF Arrive, TypeOK
<1>2. CASE ~ \E pc, on : Arrive(r, pc, on)
  <2>1. PICK pc, on : req' = [req EXCEPT ![r] = At(pc, on)]
    BY <1>2, ArrivesOrMoves
  <2>2. req[r] # Idle /\ ~overlapped
    BY <1>2, ArrivesOrMoves
  <2>3. \A q \in Requests \ {r} : req[q] = Idle
    BY <2>2 DEF ReadStillHolds
  <2>4. QED
    BY <2>1, <2>2, <2>3 DEF TypeOK
<1>3. QED
  BY <1>1, <1>2

(* Whatever one request does alone, what a confirm() has read holds on.    *)
LEMMA StepKeepsReads ==
    ASSUME TypeOK, ReadStillHolds, NEW r \in Requests, StepOf(r)
    PROVE  ReadStillHolds'
<1> SUFFICES ASSUME ~overlapped' PROVE ReadStillHolds'
  BY DEF ReadStillHolds
<1>1. /\ ~overlapped
      /\ \A q \in Requests \ {r} : req[q] = Idle /\ req'[q] = Idle
  BY OthersStandStill
<1>2. /\ req'[r].pc \in {"banked", "agreed", "cleared"} => bankAccount'
      /\ req'[r].pc \in {"agreed", "cleared"} => SignedLoanAgreement'
      /\ req'[r].pc = "cleared" => AllDone'
  <2> USE DEF ReadStillHolds, TypeOK, Idle, At
  <2>1. CASE LegalStep(r)
    BY <2>1 DEF LegalStep, CreateAgreement, ReadSendToSign, ReadMarkSigned,
       ReadUploadSigned, SendToSign, MarkSigned, UploadSigned, Served,
       Arrive, Return
  <2>2. CASE ChecklistStep(r)
    BY <2>2 DEF ChecklistStep, ReadAddCondition, AddCondition,
       ReadUpdateCondition, UpdateCondition, Arrive, Return
  <2>3. CASE ReadBankAccount(r)
    BY <2>3 DEF ReadBankAccount, Arrive
  <2>4. CASE ReadAgreement(r)
    BY <1>1, <2>4 DEF ReadAgreement, Goto, legal, SignedLoanAgreement
  <2>5. CASE ReadConditions(r)
    BY <1>1, <2>5 DEF ReadConditions, Goto, legal, SignedLoanAgreement,
       AllDone
  <2>6. CASE UpsertDisbursement(r)
    BY <2>6 DEF UpsertDisbursement
  <2>7. CASE CreateTranche(r)
    BY <2>7 DEF CreateTranche, Return
  <2>8. CASE SubmitBankAccount(r) \/ Fail(r)
    BY <2>8 DEF SubmitBankAccount, Served, Arrive, Fail
  <2>9. QED
    BY <2>1, <2>2, <2>3, <2>4, <2>5, <2>6, <2>7, <2>8
       DEF StepOf, ConfirmStep
<1>3. QED
  BY <1>1, <1>2 DEF ReadStillHolds, Idle, At

(* As long as no requests overlap, money leaves only while the bank        *)
(* account, the signature and the conditions are all there.                *)
THEOREM PayoutWasReady == Spec => PaysOnlyWhenReady
<1>1. Init => ReadStillHolds
  BY DEF Init, ReadStillHolds, Idle, At
<1>2. TypeOK /\ ReadStillHolds /\ [Next]_vars => ReadStillHolds'
  <2> SUFFICES ASSUME TypeOK, ReadStillHolds, [Next]_vars
               PROVE  ReadStillHolds'
    OBVIOUS
  <2>1. CASE Next
    BY <2>1, StepKeepsReads DEF Next, StepOf
  <2>2. CASE UNCHANGED vars
    BY <2>2 DEF vars, legal, ReadStillHolds, SignedLoanAgreement, AllDone
  <2>3. QED
    BY <2>1, <2>2
<1>3. TypeOK /\ ReadStillHolds /\ [Next]_vars
        => (~overlapped /\ (total' # total \/ \E r \in Requests : PaysOut(r)) =>
              /\ bankAccount
              /\ \E a \in Agreements : agreementStatus[a] = "SIGNED"
              /\ \A c \in Conditions : conditions[c] \in {"NONE", "DONE"})
  <2> SUFFICES ASSUME TypeOK, ReadStillHolds, [Next]_vars, ~overlapped,
                      total' # total \/ \E r \in Requests : PaysOut(r)
               PROVE  bankAccount /\ SignedLoanAgreement /\ AllDone
    BY DEF SignedLoanAgreement, AllDone, TypeOK
  <2>1. total' # total => \E r \in Requests : UpsertDisbursement(r)
    BY DEF Next, vars, LegalStep, CreateAgreement, ReadSendToSign,
       ReadMarkSigned, ReadUploadSigned, SendToSign, MarkSigned,
       UploadSigned, ChecklistStep, ReadAddCondition, AddCondition,
       ReadUpdateCondition, UpdateCondition, ConfirmStep, ReadBankAccount,
       ReadAgreement, ReadConditions, CreateTranche, SubmitBankAccount,
       Fail, payout
  <2>2. \E r \in Requests : req[r].pc = "cleared"
    BY <2>1 DEF UpsertDisbursement, PaysOut
  <2>3. QED
    BY <2>2 DEF ReadStillHolds
<1>4. QED
  BY <1>1, <1>2, <1>3, TypeCorrect, PTL DEF Spec, PaysOnlyWhenReady

-------------------------------------------------------------------------------
(* What confirm() pays out.                                                *)

InFlight == MapThenSumSet(Raised, Requests)
Recorded == FoldLeft(Plus, 0, tranches)

AnElement(s) == CHOOSE x \in s : TRUE

Amount   == [r \in Requests |-> Raised(r)]
AnyOf(S) == [s \in SUBSET S |-> AnElement(s)]

(* What is in flight, and what is recorded, are such sums.                 *)
InFlightAddsUp ==
    \E g : AddsUp(g, Amount, AnyOf(Requests), Requests) /\ InFlight = g[Requests]

RecordedAddsUp ==
    \E g : /\ AddsUp(g, tranches, LastOf(DOMAIN tranches), DOMAIN tranches)
          /\ Recorded = g[DOMAIN tranches]

AmountTypeOK == Amount \in [Requests -> Int]

(* What a request has raised is a number.                                  *)
LEMMA AmountType == TypeOK => AmountTypeOK
<1>1. SUFFICES ASSUME TypeOK, NEW r \in Requests PROVE Raised(r) \in Int
  BY DEF Amount, AmountTypeOK
<1>2. req[r].pc = "raised" => req[r].on \in Int
  <2>1. Amounts \subseteq Int
    BY AmountsAssumption
  <2>2. QED
    BY <1>1, <2>1, PlaceType
<1>3. QED
  BY <1>2 DEF Raised

(* The community modules' sum over the requests is such a sum.             *)
LEMMA InFlightSum == TypeOK => InFlightAddsUp
<1>1. SUFFICES ASSUME TypeOK PROVE InFlightAddsUp
  OBVIOUS
<1> DEFINE S == Requests
           Step(g) == [s \in SUBSET S |-> IF s = {} THEN 0
                         ELSE Raised(AnElement(s)) + g[s \ {AnElement(s)}]]
           iter == CHOOSE g : g = Step(g)
<1>2. Picks(AnyOf(S), S)
  BY DEF Picks, AnyOf, AnElement
<1>3. PICK g : AddsUp(g, Amount, AnyOf(S), S)
  BY <1>1, <1>2, AmountType, SumExists, RequestsAssumption
     DEF AmountTypeOK
<1>4. ASSUME NEW h, NEW s \in SUBSET S
      PROVE  SumAt(h, Amount, AnyOf(S), s) =
                IF s = {} THEN 0 ELSE Raised(AnElement(s)) + h[s \ {AnElement(s)}]
  <2>1. s # {} => AnyOf(S)[s] = AnElement(s) /\ AnElement(s) \in S
    BY DEF AnyOf, AnElement
  <2>2. QED
    BY <2>1 DEF SumAt, Amount
<1>5. g = Step(g)
  BY <1>3, <1>4 DEF AddsUp
<1>6. iter = Step(iter)
  <2> HIDE DEF Step
  <2>1. QED
    BY <1>5
<1>7. InFlight = iter[S]
  BY Zenon DEF InFlight, MapThenSumSet, MapThenFoldSet, AnElement
<1>8. iter[S] = g[S]
  <2> HIDE DEF iter
  <2>1. \A s \in SUBSET S : iter[s] = SumAt(iter, Amount, AnyOf(S), s)
    BY <1>4, <1>6
  <2>2. \A s \in SUBSET S : g[s] = SumAt(g, Amount, AnyOf(S), s)
    BY <1>3 DEF AddsUp
  <2> DEFINE c == AnyOf(S)
  <2>3. g[{}] = iter[{}]
    BY <2>1, <2>2 DEF SumAt
  <2>4. \A s \in SUBSET S :
          s # {} /\ g[s \ {c[s]}] = iter[s \ {c[s]}] => g[s] = iter[s]
    BY <2>1, <2>2 DEF SumAt
  <2>5. Picks(c, S) /\ IsFiniteSet(S)
    BY <1>2, RequestsAssumption
  <2> HIDE DEF c
  <2>6. PICK h, d, U : h = iter /\ d = c /\ U = S
    OBVIOUS
  <2>7. /\ \A s \in SUBSET U :
             s # {} /\ g[s \ {d[s]}] = h[s \ {d[s]}] => g[s] = h[s]
        /\ g[{}] = h[{}]
        /\ Picks(d, U)
        /\ IsFiniteSet(U)
    BY Zenon, <2>3, <2>4, <2>5, <2>6
  <2>8. h[U] = g[U]
    BY ONLY <2>7, SameInTheEnd
  <2>9. QED
    BY <2>6, <2>8
<1>9. QED
  BY <1>3, <1>7, <1>8 DEF InFlightAddsUp

(* The tranches are numbers.                                               *)
LEMMA TranchesAreNumbers ==
    ASSUME TypeOK
    PROVE  /\ tranches \in Seq(Int)
           /\ Len(tranches) \in Nat
           /\ DOMAIN tranches = 1..Len(tranches)
           /\ tranches \in [1..Len(tranches) -> Int]
<1>1. /\ tranches \in [1..Len(tranches) -> Amounts]
      /\ DOMAIN tranches = 1..Len(tranches)
      /\ Len(tranches) \in Nat
  BY DEF TypeOK
<1>2. tranches \in [1..Len(tranches) -> Int]
  <2>1. Amounts \subseteq Int
    BY AmountsAssumption
  <2>2. QED
    BY <1>1, <2>1
<1>3. tranches \in Seq(Int)
  BY <1>1, <1>2
<1>4. QED
  BY <1>1, <1>2, <1>3

(* So is their fold over the tranches.                                     *)
LEMMA RecordedSum == TypeOK => RecordedAddsUp
<1>1. SUFFICES ASSUME TypeOK PROVE RecordedAddsUp
  OBVIOUS
<1>2. PICK n \in Nat : DOMAIN tranches = 1..n /\ tranches \in [1..n -> Int]
  BY <1>1, TranchesAreNumbers
<1> DEFINE S == DOMAIN tranches
           Step(g) == [t \in SUBSET S |-> IF t = {} THEN 0
                         ELSE g[t \ {Max(t)}] + tranches[Max(t)]]
           iter == CHOOSE g : g = Step(g)
<1>3. IsFiniteSet(S) /\ Picks(LastOf(S), S)
  BY <1>2, LastIsPicked, FS_Interval
<1>4. tranches \in [S -> Int]
  BY <1>2
<1>5. PICK g : AddsUp(g, tranches, LastOf(S), S)
  BY <1>3, <1>4, SumExists
<1>6. g = Step(g)
  <2>1. ASSUME NEW t \in SUBSET S, t # {}
        PROVE  g[t] = g[t \ {Max(t)}] + tranches[Max(t)]
    <3>1. LastOf(S)[t] = Max(t)
      BY DEF LastOf
    <3>2. Max(t) \in t
      BY <1>3, <2>1, <3>1 DEF Picks
    <3>3. g[t \ {Max(t)}] \in Int /\ tranches[Max(t)] \in Int
      BY <1>4, <1>5, <3>2 DEF AddsUp
    <3>4. g[t] = tranches[Max(t)] + g[t \ {Max(t)}]
      BY <1>5, <2>1, <3>1 DEF AddsUp, SumAt
    <3>5. QED
      BY <3>3, <3>4
  <2>2. g[{}] = 0
    BY <1>5 DEF AddsUp, SumAt
  <2>3. g \in [SUBSET S -> Int]
    BY <1>5 DEF AddsUp
  <2>4. QED
    BY <2>1, <2>2, <2>3
<1>7. iter = Step(iter)
  <2> HIDE DEF Step
  <2>1. QED
    BY <1>6
<1>8. Recorded = iter[S]
  BY Zenon DEF Recorded, FoldLeft, MapThenFoldSet, Plus
<1>9. iter[S] = g[S]
  <2> HIDE DEF iter
  <2>1. ASSUME NEW t \in SUBSET S, t # {}
        PROVE  /\ LastOf(S)[t] = Max(t)
               /\ iter[t] = iter[t \ {Max(t)}] + tranches[Max(t)]
               /\ g[t] = g[t \ {Max(t)}] + tranches[Max(t)]
    BY <1>6, <1>7, <2>1 DEF LastOf
  <2> DEFINE c == LastOf(S)
  <2>2. g[{}] = iter[{}]
    BY <1>6, <1>7
  <2>3. \A t \in SUBSET S :
          t # {} /\ g[t \ {c[t]}] = iter[t \ {c[t]}] => g[t] = iter[t]
    <3> HIDE DEF Step
    <3>1. QED
      BY <2>1
  <2>4. Picks(c, S) /\ IsFiniteSet(S)
    BY <1>3
  <2> HIDE DEF c
  <2>5. PICK h, d, U : h = iter /\ d = c /\ U = S
    OBVIOUS
  <2>6. /\ \A s \in SUBSET U :
             s # {} /\ g[s \ {d[s]}] = h[s \ {d[s]}] => g[s] = h[s]
        /\ g[{}] = h[{}]
        /\ Picks(d, U)
        /\ IsFiniteSet(U)
    BY Zenon, <2>2, <2>3, <2>4, <2>5
  <2>7. h[U] = g[U]
    BY ONLY <2>6, SameInTheEnd
  <2>8. QED
    BY <2>5, <2>7
<1>10. QED
  BY <1>5, <1>8, <1>9 DEF RecordedAddsUp

-------------------------------------------------------------------------------
(* A step of one request changes what is in flight by what that request    *)
(* holds.                                                                  *)
LEMMA InFlightMoves ==
    ASSUME TypeOK, TypeOK', NEW r,
           \A q \in Requests \ {r} : req'[q] = req[q]
    PROVE  /\ InFlight \in Int
           /\ r \in Requests => Raised(r) \in Int
           /\ InFlight' = InFlight + (IF r \in Requests
                                       THEN Raised(r)' - Raised(r) ELSE 0)
<1>1. AmountTypeOK /\ AmountTypeOK'
  BY AmountType, PTL
<1>2. InFlightAddsUp /\ InFlightAddsUp'
  BY InFlightSum, PTL
<1>3. PICK g : AddsUp(g, Amount, AnyOf(Requests), Requests)
               /\ InFlight = g[Requests]
  BY <1>2 DEF InFlightAddsUp
<1>4. PICK h : AddsUp(h, Amount', AnyOf(Requests), Requests)
               /\ InFlight' = h[Requests]
  BY <1>2 DEF InFlightAddsUp
<1>5. \A x \in Requests \ {r} : Amount[x] = Amount'[x]
  BY DEF Amount, Raised
<1>6. Picks(AnyOf(Requests), Requests)
  BY DEF Picks, AnyOf, AnElement
<1>7. PICK f, e, c : f = Amount /\ e = Amount' /\ c = AnyOf(Requests)
  OBVIOUS
<1>8. h[Requests] =
        g[Requests] + (IF r \in Requests THEN e[r] - f[r] ELSE 0)
  <2>1. /\ f \in [Requests -> Int] /\ e \in [Requests -> Int]
        /\ Picks(c, Requests) /\ IsFiniteSet(Requests)
        /\ AddsUp(g, f, c, Requests) /\ AddsUp(h, e, c, Requests)
        /\ \A x \in Requests \ {r} : f[x] = e[x]
    BY <1>1, <1>3, <1>4, <1>5, <1>6, <1>7, RequestsAssumption
       DEF AmountTypeOK
  <2>2. QED
    BY ONLY <2>1, SumMoves
<1>9. QED
  BY <1>1, <1>3, <1>4, <1>7, <1>8 DEF Amount, AmountTypeOK, AddsUp

(* What is recorded is a number.                                           *)
LEMMA RecordedIsNumber == TypeOK => Recorded \in Int
  BY RecordedSum DEF RecordedAddsUp, AddsUp

(* Without a new tranche, what is recorded stays.                          *)
LEMMA RecordedStays ==
    ASSUME TypeOK, TypeOK', tranches' = tranches
    PROVE  Recorded' = Recorded
<1>1. RecordedAddsUp /\ RecordedAddsUp'
  BY RecordedSum, PTL
<1>2. PICK n \in Nat : DOMAIN tranches = 1..n /\ tranches \in [1..n -> Int]
  BY TranchesAreNumbers
<1>3. PICK g : AddsUp(g, tranches, LastOf(1..n), 1..n) /\ Recorded = g[1..n]
  BY <1>1, <1>2 DEF RecordedAddsUp
<1>4. PICK h : AddsUp(h, tranches, LastOf(1..n), 1..n) /\ Recorded' = h[1..n]
  BY <1>1, <1>2 DEF RecordedAddsUp
<1>5. PICK f, c : f = tranches /\ c = LastOf(1..n)
  OBVIOUS
<1>6. /\ Picks(c, 1..n) /\ IsFiniteSet(1..n)
      /\ AddsUp(g, f, c, 1..n) /\ AddsUp(h, f, c, 1..n)
  BY <1>3, <1>4, <1>5, FS_Interval, LastIsPicked
<1>7. h[1..n] = g[1..n]
  BY ONLY <1>6, SameSum
<1>8. QED
  BY <1>3, <1>4, <1>7

(* A tranche recorded adds to what is recorded.                            *)
LEMMA RecordedGrows ==
    ASSUME TypeOK, TypeOK', NEW amount \in Int,
           tranches' = Append(tranches, amount)
    PROVE  Recorded \in Int /\ Recorded' = Recorded + amount
<1>1. RecordedAddsUp /\ RecordedAddsUp'
  BY RecordedSum, PTL
<1>2. PICK n \in Nat : /\ DOMAIN tranches = 1..n
                      /\ tranches \in [1..n -> Int]
                      /\ tranches \in Seq(Int)
                      /\ Len(tranches) = n
  BY TranchesAreNumbers
<1> DEFINE T == tranches'
<1>3. /\ DOMAIN T = 1..(n + 1)
      /\ T \in [1..(n + 1) -> Int]
      /\ T[n + 1] = amount
      /\ \A i \in 1..n : T[i] = tranches[i]
  <2>1. T \in Seq(Int) /\ Len(T) = n + 1
    BY <1>2, AppendProperties
  <2>2. T[n + 1] = amount /\ \A i \in 1..n : T[i] = tranches[i]
    BY <1>2, AppendProperties
  <2>3. DOMAIN T = 1..(n + 1) /\ T \in [1..(n + 1) -> Int]
    <3> HIDE DEF T
    <3>1. QED
      BY <2>1
  <2>4. QED
    BY <2>2, <2>3
<1>4. PICK g : AddsUp(g, tranches, LastOf(1..n), 1..n) /\ Recorded = g[1..n]
  BY <1>1, <1>2 DEF RecordedAddsUp
<1>5. PICK h : AddsUp(h, T, LastOf(1..(n + 1)), 1..(n + 1))
               /\ Recorded' = h[1..(n + 1)]
  BY <1>1, <1>3 DEF RecordedAddsUp
<1>6. PICK f, e : f = tranches /\ e = T
  OBVIOUS
<1>7. /\ f \in [1..n -> Int] /\ e \in [1..(n + 1) -> Int]
      /\ \A i \in 1..n : f[i] = e[i]
      /\ AddsUp(g, f, LastOf(1..n), 1..n)
      /\ AddsUp(h, e, LastOf(1..(n + 1)), 1..(n + 1))
  BY <1>2, <1>3, <1>4, <1>5, <1>6
<1>8. g[1..n] \in Int /\ h[1..(n + 1)] = g[1..n] + e[n + 1]
  BY ONLY n \in Nat, <1>7, SumGrows
<1>9. QED
  BY <1>3, <1>4, <1>5, <1>6, <1>8

-------------------------------------------------------------------------------
Accounted == total = Recorded + orphaned + InFlight

AccountInv == SignInv /\ Accounted

(* At first nothing is paid, recorded or in flight.                        *)
LEMMA InitAccounts == Init => AccountInv
<1>1. SUFFICES ASSUME Init PROVE AccountInv
  OBVIOUS
<1>2. SignInv /\ TypeOK
  BY <1>1, InitSigns DEF SignInv
<1>3. Recorded = 0
  <2>1. PICK g : /\ AddsUp(g, tranches, LastOf(DOMAIN tranches), DOMAIN tranches)
                 /\ Recorded = g[DOMAIN tranches]
    BY <1>2, RecordedSum DEF RecordedAddsUp
  <2>2. DOMAIN tranches = {}
    BY <1>1 DEF Init
  <2>3. QED
    BY <2>1, <2>2 DEF AddsUp, SumAt
<1>4. InFlight = 0
  <2> DEFINE S == Requests
             z == [s \in SUBSET S |-> 0]
  <2>1. PICK g : AddsUp(g, Amount, AnyOf(S), S) /\ InFlight = g[S]
    BY <1>2, InFlightSum DEF InFlightAddsUp
  <2>2. \A r \in Requests : Raised(r) = 0
    BY <1>1 DEF Init, Raised, Idle, At
  <2>3. Picks(AnyOf(S), S)
    BY DEF Picks, AnyOf, AnElement
  <2>4. ASSUME NEW s \in SUBSET S
        PROVE  SumAt(z, Amount, AnyOf(S), s) = 0
    <3>1. s # {} => AnyOf(S)[s] \in S
      BY <2>3 DEF Picks
    <3>2. s # {} => Amount[AnyOf(S)[s]] = 0
      BY <2>2, <3>1 DEF Amount
    <3>3. s # {} => z[s \ {AnyOf(S)[s]}] = 0
      OBVIOUS
    <3>4. QED
      BY <3>2, <3>3 DEF SumAt
  <2>5. ASSUME NEW s \in SUBSET S, s # {},
               g[s \ {AnyOf(S)[s]}] = z[s \ {AnyOf(S)[s]}]
        PROVE  g[s] = z[s]
    <3>1. SumAt(g, Amount, AnyOf(S), s) = SumAt(z, Amount, AnyOf(S), s)
      BY <2>5 DEF SumAt
    <3>2. QED
      BY <2>1, <2>4, <3>1 DEF AddsUp
  <2>6. g[{}] = z[{}]
    BY <2>1 DEF AddsUp, SumAt
  <2>7. PICK c, h : c = AnyOf(S) /\ h = z
    OBVIOUS
  <2>8. h[S] = g[S]
    <3> HIDE DEF z
    <3>1. /\ g[{}] = h[{}] /\ Picks(c, S) /\ IsFiniteSet(S)
          /\ \A s \in SUBSET S :
                s # {} /\ g[s \ {c[s]}] = h[s \ {c[s]}] => g[s] = h[s]
      BY <2>3, <2>5, <2>6, <2>7, RequestsAssumption
    <3>2. QED
      BY ONLY <3>1, SameInTheEnd
  <2>9. QED
    BY <2>1, <2>7, <2>8
<1>5. QED
  BY <1>1, <1>2, <1>3, <1>4 DEF Init, AccountInv, Accounted

(* Every step keeps the account.                                           *)
LEMMA NextKeepsAccounts == AccountInv /\ [Next]_vars => AccountInv'
<1>1. SUFFICES ASSUME AccountInv, [Next]_vars PROVE AccountInv'
  OBVIOUS
<1>2. SignInv /\ SignInv' /\ TypeOK /\ TypeOK' /\ Accounted
  <2>1. SignInv /\ Accounted
    BY <1>1 DEF AccountInv
  <2>2. SignInv'
    BY <1>1, <2>1, NextKeepsSigns
  <2>3. QED
    BY <2>1, <2>2 DEF SignInv
<1>3. CASE UNCHANGED vars
  <2>1. UNCHANGED <<req, total, tranches, orphaned>>
    BY <1>3 DEF vars, payout
  <2>2. Recorded' = Recorded
    BY <1>2, <2>1, RecordedStays
  <2>3. InFlight' = InFlight
    <3>1. Raised(NULL)' = Raised(NULL)
      BY <2>1 DEF Raised
    <3>2. QED
      BY <1>2, <2>1, <3>1, InFlightMoves
  <2>4. QED
    BY <1>2, <2>1, <2>2, <2>3 DEF Accounted, AccountInv
<1>4. ASSUME NEW r \in Requests, StepOf(r)
      PROVE  Accounted'
  <2>1. \A q \in Requests \ {r} : req'[q] = req[q]
    BY <1>2, <1>4, ArrivesOrMoves DEF Arrive, TypeOK
  <2>2. /\ InFlight \in Int /\ Raised(r) \in Int
        /\ InFlight' = InFlight + (Raised(r)' - Raised(r))
    BY <1>2, <2>1, InFlightMoves
  <2>3. req \in [Requests -> RequestType]
    BY <1>2 DEF TypeOK
  <2>4. ASSUME UNCHANGED payout, req[r].pc # "raised", req'[r].pc # "raised"
        PROVE  Accounted'
    <3>1. UNCHANGED <<total, orphaned>> /\ Recorded' = Recorded
      BY <1>2, <2>4, RecordedStays DEF payout
    <3>2. Raised(r)' = Raised(r)
      BY <2>4 DEF Raised
    <3>3. QED
      BY <1>2, <2>2, <3>1, <3>2 DEF Accounted
  <2>5. CASE LegalStep(r) \/ ChecklistStep(r) \/ SubmitBankAccount(r)
    <3>1. UNCHANGED payout
      BY <2>5 DEF LegalStep, CreateAgreement, ReadSendToSign, ReadMarkSigned,
         ReadUploadSigned, SendToSign, MarkSigned, UploadSigned, ChecklistStep,
         ReadAddCondition, AddCondition, ReadUpdateCondition, UpdateCondition,
         SubmitBankAccount
    <3>2. req[r].pc # "raised" /\ req'[r].pc # "raised"
      BY <2>3, <2>5 DEF LegalStep, CreateAgreement, ReadSendToSign,
         ReadMarkSigned, ReadUploadSigned, SendToSign, MarkSigned,
         UploadSigned, ChecklistStep, ReadAddCondition, AddCondition,
         ReadUpdateCondition, UpdateCondition, SubmitBankAccount, Served,
         Arrive, Return, Idle, At
    <3>3. QED
      BY <2>4, <3>1, <3>2
  <2>6. CASE ReadBankAccount(r) \/ ReadAgreement(r) \/ ReadConditions(r)
    <3>1. UNCHANGED payout
      BY <2>6 DEF ReadBankAccount, ReadAgreement, ReadConditions
    <3>2. req[r].pc # "raised" /\ req'[r].pc # "raised"
      BY <2>3, <2>6 DEF ReadBankAccount, ReadAgreement, ReadConditions, Arrive,
         Goto, Idle, At
    <3>3. QED
      BY <2>4, <3>1, <3>2
  <2>7. CASE UpsertDisbursement(r)
    <3>1. PICK amount \in Amounts :
            /\ total' = total + amount
            /\ req' = [req EXCEPT ![r] = At("raised", amount)]
      BY <2>7 DEF UpsertDisbursement
    <3>2. Raised(r) = 0 /\ Raised(r)' = amount /\ amount \in Int
      BY <2>3, <2>7, <3>1, AmountsAssumption DEF UpsertDisbursement, Raised, At
    <3>3. orphaned' = orphaned /\ Recorded' = Recorded
      BY <1>2, <2>7, RecordedStays DEF UpsertDisbursement
    <3>4. total \in Int /\ orphaned \in Int
      BY <1>2 DEF TypeOK
    <3>5. Recorded \in Int
      BY <1>2, RecordedIsNumber
    <3>6. QED
      BY <1>2, <2>2, <3>1, <3>2, <3>3, <3>4, <3>5 DEF Accounted
  <2>8. CASE CreateTranche(r)
    <3>1. /\ tranches' = Append(tranches, Raised(r))
          /\ UNCHANGED <<total, orphaned>>
          /\ Raised(r)' = 0
      BY <2>3, <2>8 DEF CreateTranche, Return, Raised, Idle, At
    <3>2. Recorded \in Int /\ Recorded' = Recorded + Raised(r)
      BY <1>2, <2>2, <3>1, RecordedGrows
    <3>3. orphaned \in Int
      BY <1>2 DEF TypeOK
    <3>4. QED
      BY <1>2, <2>2, <3>1, <3>2, <3>3 DEF Accounted
  <2>9. CASE Fail(r)
    <3>1. /\ orphaned' = orphaned + Raised(r)
          /\ UNCHANGED <<total, tranches>>
          /\ Raised(r)' = 0
      BY <2>3, <2>9 DEF Fail, Raised, Idle, At
    <3>2. Recorded' = Recorded
      BY <1>2, <3>1, RecordedStays
    <3>3. orphaned \in Int /\ Recorded \in Int
      BY <1>2, RecordedIsNumber DEF TypeOK
    <3>4. QED
      BY <1>2, <2>2, <3>1, <3>2, <3>3 DEF Accounted
  <2>10. QED
    BY <1>4, <2>5, <2>6, <2>7, <2>8, <2>9 DEF StepOf, ConfirmStep
<1>5. QED
  BY <1>1, <1>2, <1>3, <1>4 DEF Next, StepOf, AccountInv

(* Whatever confirms overlap and wherever they die, the total is what the  *)
(* tranches add up to, the payouts still being recorded and those whose    *)
(* request died before recording them (the increment of confirm()).        *)
THEOREM TotalIsAccounted == Spec => []TotalAccounted
<1>1. Accounted => TotalAccounted
  BY Zenon DEF Accounted, TotalAccounted, Recorded, InFlight
<1>2. QED
  BY InitAccounts, NextKeepsAccounts, <1>1, PTL DEF Spec, AccountInv

===============================================================================
