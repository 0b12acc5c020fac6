---------------------------- MODULE ApprovalProofs ----------------------------
(***************************************************************************)
(* Theorems about the approval workflow, for every set of users and of     *)
(* concurrent requests: its state is well typed, no interleaving skips a   *)
(* sign-off (SignOffChain), and the handlers implement LoanGrant.  And     *)
(* about what the tracker shows of it (ApplicationTracker): it points at   *)
(* the reviewer who can act, and takes back nothing it has shown.          *)
(***************************************************************************)
EXTENDS ApplicationTracker, TLAPS

USE NullAssumption

(* Every reachable state of the approval workflow is well typed.           *)
THEOREM TypeCorrect == Spec => []TypeOK
<1>1. Init => TypeOK
  BY DEF Init, TypeOK, Request, Idle
<1>2. TypeOK /\ [Next]_vars => TypeOK'
  <2> SUFFICES ASSUME TypeOK, [Next]_vars PROVE TypeOK'
    OBVIOUS
  <2>1. ASSUME NEW r \in Requests, NEW u \in Staff, Read(r, u) PROVE TypeOK'
    <3>1. ASSUME NEW op \in Op, NEW b \in BOOLEAN,
                 NEW to \in Stage \cup {NULL}, Begin(r, u, op, b, to)
          PROVE  TypeOK'
      BY <3>1 DEF TypeOK, Begin, row, signOffs, Request
    <3>2. CASE \E to \in ToStages : Begin(r, u, "sendBack", FALSE, to)
      BY <3>1, <3>2, StagesAssumption DEF Op
    <3>3. QED
      BY <2>1, <3>1, <3>2 DEF Read, ReadResubmit, ReadSupport, ReadCheck,
         ReadApprove, ReadReject, ReadSendBack, ReadUpdate, Op, TypeOK
  <2>2. ASSUME NEW r \in Requests, Write(r) PROVE TypeOK'
    <3> USE DEF TypeOK, Request, Idle, Reply, Column
    <3>1. req[r] \in Request
      OBVIOUS
    <3>2. CASE Resubmit(r)
      BY <3>2 DEF Resubmit, SpendShortcut, signOffs, Stage
    <3>3. CASE Support(r)
      BY <3>3 DEF Support, SignOff, SpendShortcut, Stage, EntryStatus
    <3>4. CASE Check(r)
      BY <3>4 DEF Check, SignOff, SpendShortcut, Stage, EntryStatus
    <3>5. CASE Approve(r)
      BY <3>5 DEF Approve, SignOff, Stage, EntryStatus
    <3>6. CASE ApproveConflict(r)
      BY <3>6 DEF ApproveConflict, row, signOffs
    <3>7. CASE Reject(r)
      BY <3>7 DEF Reject, StampVerdict, Stage, EntryStatus
    <3>8. CASE SendBack(r)
      <4>1. /\ sentBackByApprover' \in BOOLEAN
            /\ approverSentBack' \in BOOLEAN
        BY <3>8 DEF SendBack
      <4>2. req' \in [Requests -> Request]
        BY <3>8 DEF SendBack
      <4>3. /\ stage' \in Stage \cup {NULL}
            /\ sentBackToStage' \in Stage \cup {NULL}
            /\ loanAccount' \in BOOLEAN
        BY <3>8 DEF SendBack, Stage
      <4>4. /\ userId' \in [Column -> Staff \cup {NULL}]
            /\ dated' \in [Column -> BOOLEAN]
            /\ entryStatus' \in [Column -> EntryStatus \cup {NULL}]
        BY <3>8 DEF SendBack, StampVerdict, EntryStatus
      <4>5. overlapped' \in BOOLEAN
        BY <3>8 DEF SendBack
      <4>6. QED
        BY <4>1, <4>2, <4>3, <4>4, <4>5
    <3>9. CASE UpdateInitiatorApplication(r)
      <4>1. PICK p \in Approvals : /\ dated' = Overlay(p.date, dated)
                                   /\ entryStatus' = Overlay(p.status, entryStatus)
        BY <3>9 DEF UpdateInitiatorApplication
      <4>2. dated' \in [Column -> BOOLEAN]
        BY <4>1, SectionsAssumption DEF Overlay
      <4>3. entryStatus' \in [Column -> EntryStatus \cup {NULL}]
        BY <4>1, SectionsAssumption DEF Overlay
      <4>4. QED
        BY <3>9, <4>2, <4>3 DEF UpdateInitiatorApplication
    <3>10. QED
      BY <2>2, <3>2, <3>3, <3>4, <3>5, <3>6, <3>7, <3>8, <3>9 DEF Write
  <2>3. CASE UNCHANGED vars
    BY <2>3 DEF vars, row, signOffs, TypeOK
  <2>4. QED
    BY <2>1, <2>2, <2>3 DEF Next
<1>3. QED
  BY <1>1, <1>2, PTL DEF Spec

-------------------------------------------------------------------------------
(* A read changes no column; what it adds to ChainInv is the request's own *)
(* snapshot, taken from a row that satisfies SignOffChain.                 *)
LEMMA ReadKeepsChain ==
    ASSUME NEW r \in Requests, NEW u \in Staff,
           TypeOK, ChainInv, TypeOK', Read(r, u)
    PROVE  ChainInv'
<1> USE DEF ChainInv, SignOffChain, SendBackIsMarked, InFlightChain
<1>1. /\ UNCHANGED <<stage, sentBackToStage, sentBackByApprover, userId,
                     approverSentBack>>
      /\ \A q \in Requests : q # r => req'[q] = req[q]
      /\ req'[r].shortcut => sentBackByApprover
      /\ req'[r].op = "sendBack" => req'[r].toStage # NULL
      /\ req'[r].op = "resubmit" => stage = "SENT_BACK"
      /\ req'[r].op = "check" => stage \in {"SUPPORTED", "SENT_BACK"}
      /\ req'[r].op = "approve" => stage = "CHECKING"
  <2> USE DEF Begin, row, signOffs, TypeOK
  <2>1. CASE ReadResubmit(r, u)  BY <2>1 DEF ReadResubmit
  <2>2. CASE ReadSupport(r, u)   BY <2>2 DEF ReadSupport
  <2>3. CASE ReadCheck(r, u)     BY <2>3 DEF ReadCheck, AllowedFromStage
  <2>4. CASE ReadApprove(r, u)   BY <2>4 DEF ReadApprove, AllowedFromStage
  <2>5. CASE ReadReject(r, u)    BY <2>5 DEF ReadReject
  <2>6. CASE ReadSendBack(r, u)
    BY <2>6, StagesAssumption DEF ReadSendBack
  <2>7. CASE ReadUpdate(r, u)    BY <2>7 DEF ReadUpdate
  <2>8. QED
    BY <2>1, <2>2, <2>3, <2>4, <2>5, <2>6, <2>7 DEF Read
<1>2. SignOffChain'
  BY <1>1
<1>3. SendBackIsMarked'
  BY <1>1
<1>4. InFlightChain'
  BY <1>1
<1>5. QED
  BY <1>2, <1>3, <1>4

(* Every write keeps ChainInv: it signs, or it relies on what its request  *)
(* carries, and no write takes a signature or a send-back mark away.       *)
LEMMA WriteKeepsChain ==
    ASSUME NEW r \in Requests, TypeOK, ChainInv, TypeOK', Write(r)
    PROVE  ChainInv'
<1> USE DEF ChainInv, SignOffChain, SendBackIsMarked, InFlightChain
<1>1. /\ \A q \in Requests : q # r => req'[q] = req[q]
      /\ req'[r] = Idle
      /\ req[r] \in Request
  BY DEF Write, Resubmit, Support, Check, Approve, ApproveConflict, Reject,
         SendBack, UpdateInitiatorApplication, Reply, TypeOK
<1>2. req[r].op # "idle" => req[r].user \in Staff
  BY <1>1 DEF Request, Idle
<1>3. /\ sentBackToStage # NULL => sentBackToStage' # NULL
      /\ approverSentBack => approverSentBack'
      /\ \A c \in Column : userId[c] # NULL => userId'[c] # NULL
      /\ sentBackByApprover' => sentBackByApprover \/ approverSentBack'
      /\ stage' = "SENT_BACK" => stage = "SENT_BACK" \/ sentBackToStage' # NULL
      /\ stage' \in {"SUPPORTED", "CHECKING", "APPROVED"} =>
            \/ userId'["supporter"] # NULL
            \/ sentBackToStage' # NULL
      /\ stage' \in {"CHECKING", "APPROVED"} =>
            \/ userId'["checker"] # NULL
            \/ approverSentBack'
  <2> USE <1>1, <1>2 DEF Column, TypeOK
  <2>1. CASE Resubmit(r)
    BY <2>1 DEF Resubmit, SpendShortcut, signOffs
  <2>2. CASE Support(r)
    BY <2>2 DEF Support, SignOff, SpendShortcut
  <2>3. CASE Check(r)
    BY <2>3 DEF Check, SignOff, SpendShortcut
  <2>4. CASE Approve(r)
    BY <2>4 DEF Approve, SignOff
  <2>5. CASE ApproveConflict(r)
    BY <2>5 DEF ApproveConflict, row, signOffs
  <2>6. CASE Reject(r)
    BY <2>6 DEF Reject, StampVerdict
  <2>7. CASE SendBack(r)
    BY <2>7 DEF SendBack, StampVerdict
  <2>8. CASE UpdateInitiatorApplication(r)
    BY <2>8 DEF UpdateInitiatorApplication
  <2>9. QED
    BY <2>1, <2>2, <2>3, <2>4, <2>5, <2>6, <2>7, <2>8 DEF Write
<1>4. SignOffChain'
  BY <1>3
<1>5. SendBackIsMarked'
  BY <1>1, <1>3 DEF Idle
<1>6. InFlightChain'
  BY <1>1, <1>3 DEF Idle, Column
<1>7. QED
  BY <1>4, <1>5, <1>6

LEMMA ChainHolds == Spec => []ChainInv
<1>1. Init => ChainInv
  <2> SUFFICES ASSUME Init PROVE ChainInv
    OBVIOUS
  <2>1. stage \notin Stage
    BY DEF Init
  <2>2. TypeOK
    BY DEF Init, TypeOK, Request, Idle
  <2>3. SignOffChain
    BY <2>1 DEF SignOffChain, Stage
  <2>4. SendBackIsMarked /\ InFlightChain
    BY <2>1 DEF Init, SendBackIsMarked, InFlightChain, Stage, Idle
  <2>5. QED
    BY <2>2, <2>3, <2>4 DEF ChainInv
<1>2. TypeOK /\ TypeOK' /\ ChainInv /\ [Next]_vars => ChainInv'
  <2> SUFFICES ASSUME TypeOK, TypeOK', ChainInv, [Next]_vars PROVE ChainInv'
    OBVIOUS
  <2>1. CASE UNCHANGED vars
    BY <2>1 DEF vars, row, signOffs, ChainInv, TypeOK, SignOffChain,
                SendBackIsMarked, InFlightChain
  <2>2. CASE Next
    BY <2>2, ReadKeepsChain, WriteKeepsChain DEF Next
  <2>3. QED
    BY <2>1, <2>2
<1>3. QED
  BY <1>1, <1>2, TypeCorrect, PTL DEF Spec

(* A reviewer is missing from the sign-offs only if a send-back explains   *)
(* it, whatever handlers overlap (support, check, approve, resubmit,       *)
(* sendBack of DashboardApprovalService and the Initiator's PATCH).        *)
THEOREM NoSkippedSignOff == Spec => []SignOffChain
<1>1. ChainInv => SignOffChain
  BY DEF ChainInv
<1>2. QED
  BY <1>1, ChainHolds, PTL

-------------------------------------------------------------------------------
(* The handlers, however they overlap, implement LoanGrant: the account is *)
(* created once, with the step that approves, and a later approve() leaves *)
(* it and its approver alone.                                              *)
THEOREM ApprovalImplementsLoanGrant == Spec => ImplementsLoanGrant
<1>1. Init => Promise!Init
  BY DEF Init, Promise!Init, Stage
<1>2. TypeOK /\ [Next]_vars => [Promise!Next]_Promise!vars
  <2> SUFFICES ASSUME TypeOK, [Next]_vars
               PROVE  [Promise!Next]_Promise!vars
    OBVIOUS
  <2> USE DEF Promise!Next, Promise!vars, Promise!Grant, Promise!Withdraw
  <2>1. CASE UNCHANGED vars
    BY <2>1 DEF vars, row, signOffs
  <2>2. ASSUME NEW r \in Requests, NEW u \in Staff, Read(r, u)
        PROVE  [Promise!Next]_Promise!vars
    BY <2>2 DEF Read, ReadResubmit, ReadSupport, ReadCheck, ReadApprove,
       ReadReject, ReadSendBack, ReadUpdate, Begin, row, signOffs
  <2>3. ASSUME NEW r \in Requests, Write(r)
        PROVE  [Promise!Next]_Promise!vars
    <3>1. req[r] \in Request
      BY DEF TypeOK
    <3>2. CASE Approve(r)
      <4>1. req[r].user \in Staff
        BY <3>1, <3>2 DEF Approve, Request, Idle
      <4>2. Promise!Grant(req[r].user)
        BY <3>2, <4>1 DEF Approve, SignOff, TypeOK, Column
      <4>3. QED
        BY <4>1, <4>2
    <3>3. CASE ApproveConflict(r)
      BY <3>3 DEF ApproveConflict, row, signOffs
    <3>4. CASE Resubmit(r) \/ Support(r) \/ Check(r) \/ Reject(r) \/ SendBack(r)
      <4>1. /\ stage' # "APPROVED"
            /\ userId'["approver"] = userId["approver"]
            /\ loanAccount' = loanAccount
        BY <3>4 DEF Resubmit, Support, Check, Reject, SendBack, SignOff,
           StampVerdict, signOffs, TypeOK, Column
      <4>2. QED
        BY <4>1
    <3>5. CASE UpdateInitiatorApplication(r)
      BY <3>5 DEF UpdateInitiatorApplication
    <3>6. QED
      BY <2>3, <3>2, <3>3, <3>4, <3>5 DEF Write
  <2>4. QED
    BY <2>1, <2>2, <2>3 DEF Next
<1>3. QED
  BY <1>1, <1>2, TypeCorrect, PTL DEF Spec, ImplementsLoanGrant, Promise!Spec

-------------------------------------------------------------------------------
(* As long as no handlers overlap, what a request in flight has read still *)
(* holds when it writes; and whoever rejects has a role that is stamped.   *)
ReadStillHolds ==
    /\ \A r \in Requests :
          req[r].op = "reject" =>
             RoleOf[req[r].user] \in {"CREDIT_MANAGER", "CHECKER", "APPROVER"}
    /\ ~overlapped =>
          /\ \A q, r \in Requests : q # r => req[q] = Idle \/ req[r] = Idle
          /\ \A r \in Requests :
                /\ req[r].op \in {"resubmit", "support", "check"}
                      => req[r].shortcut = sentBackByApprover
                /\ req[r].op = "approve" => stage = "CHECKING"
                /\ req[r].op = "update" => StillWithInitiator

AloneInv == ReadStillHolds /\ ShortcutOnlyWhileSentBack /\ DecisionIsOnRecord

(* A read takes its snapshot from the row, and is alone or sets overlapped.*)
LEMMA ReadKeepsAlone ==
    ASSUME NEW r \in Requests, NEW u \in Staff, TypeOK, AloneInv, Read(r, u)
    PROVE  AloneInv'
<1> USE DEF AloneInv, ReadStillHolds
<1>1. /\ UNCHANGED row
      /\ req[r] = Idle
      /\ \A q \in Requests \ {r} : req'[q] = req[q]
      /\ overlapped' = (overlapped \/ \E q \in Requests : req[q] # Idle)
  BY DEF Read, ReadResubmit, ReadSupport, ReadCheck, ReadApprove, ReadReject,
     ReadSendBack, ReadUpdate, Begin, TypeOK
<1>2. /\ req'[r].op = "reject" =>
            RoleOf[req'[r].user] \in {"CREDIT_MANAGER", "CHECKER", "APPROVER"}
      /\ req'[r].op \in {"resubmit", "support", "check"}
            => req'[r].shortcut = sentBackByApprover
      /\ req'[r].op = "approve" => stage = "CHECKING"
      /\ req'[r].op = "update" => StillWithInitiator
  <2> USE DEF Begin, TypeOK
  <2>1. CASE ReadResubmit(r, u)  BY <2>1 DEF ReadResubmit
  <2>2. CASE ReadSupport(r, u)   BY <2>2 DEF ReadSupport
  <2>3. CASE ReadCheck(r, u)     BY <2>3 DEF ReadCheck
  <2>4. CASE ReadApprove(r, u)   BY <2>4 DEF ReadApprove, AllowedFromStage
  <2>5. CASE ReadReject(r, u)    BY <2>5 DEF ReadReject, Callers
  <2>6. CASE ReadSendBack(r, u)  BY <2>6 DEF ReadSendBack, Callers
  <2>7. CASE ReadUpdate(r, u)    BY <2>7 DEF ReadUpdate
  <2>8. QED
    BY <2>1, <2>2, <2>3, <2>4, <2>5, <2>6, <2>7 DEF Read
<1>3. ~overlapped' => ~overlapped /\ \A q \in Requests \ {r} : req'[q] = Idle
  BY <1>1 DEF TypeOK
<1>4. ReadStillHolds'
  BY <1>1, <1>2, <1>3 DEF row, Idle, StillWithInitiator
<1>5. ShortcutOnlyWhileSentBack' /\ DecisionIsOnRecord'
  BY <1>1, <1>3 DEF row, signOffs, ShortcutOnlyWhileSentBack,
     DecisionIsOnRecord
<1>6. QED
  BY <1>4, <1>5

(* A write of a request that was alone writes what it read.                *)
LEMMA WriteKeepsAlone ==
    ASSUME NEW r \in Requests, TypeOK, AloneInv, Write(r)
    PROVE  AloneInv'
<1> USE DEF AloneInv, ReadStillHolds
<1>1. /\ \A q \in Requests \ {r} : req'[q] = req[q]
      /\ req'[r] = Idle /\ req[r] # Idle /\ req[r] \in Request
      /\ UNCHANGED overlapped
  <2>1. Reply(r) /\ req[r].op # "idle"
    BY DEF Write, Resubmit, Support, Check, Approve, ApproveConflict, Reject,
       SendBack, UpdateInitiatorApplication
  <2>2. QED
    BY <2>1 DEF Reply, TypeOK, Idle
<1>2. ~overlapped => \A q \in Requests : req'[q] = Idle
  BY <1>1
<1>3. ReadStillHolds'
  BY <1>1, <1>2 DEF Idle
<1>4. ASSUME ~overlapped
      PROVE  ShortcutOnlyWhileSentBack' /\ DecisionIsOnRecord'
  <2> USE <1>1, <1>4 DEF ShortcutOnlyWhileSentBack, DecisionIsOnRecord,
          TypeOK, Column
  <2>1. CASE Resubmit(r)
    BY <2>1 DEF Resubmit, SpendShortcut
  <2>2. CASE Support(r)
    BY <2>2 DEF Support, SpendShortcut
  <2>3. CASE Check(r)
    BY <2>3 DEF Check, SpendShortcut
  <2>4. CASE Approve(r)
    BY <2>4 DEF Approve, SignOff
  <2>5. CASE ApproveConflict(r)
    BY <2>5 DEF ApproveConflict, row, signOffs
  <2>6. CASE Reject(r)
    <3>1. ColumnFor(RoleOf[req[r].user]) \in {"checker", "approver"}
      BY <2>6 DEF Reject, ColumnFor
    <3>2. QED
      BY <2>6, <3>1 DEF Reject, StampVerdict
  <2>7. CASE SendBack(r)
    BY <2>7 DEF SendBack
  <2>8. CASE UpdateInitiatorApplication(r)
    <3>1. stage \notin {"APPROVED", "REJECTED"}
      BY <2>8 DEF UpdateInitiatorApplication, StillWithInitiator, Stage
    <3>2. QED
      BY <2>8, <3>1 DEF UpdateInitiatorApplication
  <2>9. QED
    BY <2>1, <2>2, <2>3, <2>4, <2>5, <2>6, <2>7, <2>8 DEF Write
<1>5. QED
  BY <1>1, <1>3, <1>4 DEF ShortcutOnlyWhileSentBack, DecisionIsOnRecord

(* The invariant behind the two theorems that follow.                      *)
LEMMA AloneHolds == Spec => []AloneInv
<1>1. Init => AloneInv
  <2> SUFFICES ASSUME Init PROVE AloneInv
    OBVIOUS
  <2>1. stage \notin Stage
    BY DEF Init
  <2>2. \A r \in Requests : req[r] = Idle /\ req[r].op = "idle"
    BY DEF Init, Idle
  <2>3. ReadStillHolds
    BY <2>2 DEF ReadStillHolds
  <2>4. ShortcutOnlyWhileSentBack /\ DecisionIsOnRecord
    BY <2>1 DEF Init, ShortcutOnlyWhileSentBack, DecisionIsOnRecord, Stage
  <2>5. QED
    BY <2>3, <2>4 DEF AloneInv
<1>2. TypeOK /\ AloneInv /\ [Next]_vars => AloneInv'
  <2> SUFFICES ASSUME TypeOK, AloneInv, [Next]_vars PROVE AloneInv'
    OBVIOUS
  <2>1. CASE UNCHANGED vars
    BY <2>1 DEF vars, row, signOffs, AloneInv, ReadStillHolds,
       ShortcutOnlyWhileSentBack, DecisionIsOnRecord, StillWithInitiator
  <2>2. CASE Next
    BY <2>2, ReadKeepsAlone, WriteKeepsAlone DEF Next
  <2>3. QED
    BY <2>1, <2>2
<1>3. QED
  BY <1>1, <1>2, TypeCorrect, PTL DEF Spec

(* As long as no handlers overlap, the shortcut is spent by the handler    *)
(* that routes on it.                                                      *)
THEOREM ShortcutIsSpent == Spec => []ShortcutOnlyWhileSentBack
<1>1. AloneInv => ShortcutOnlyWhileSentBack
  BY DEF AloneInv
<1>2. QED
  BY <1>1, AloneHolds, PTL

(* As long as no handlers overlap, the Initiator's PATCH cannot take a     *)
(* decision off the record.                                                *)
THEOREM DecisionStaysOnRecord == Spec => []DecisionIsOnRecord
<1>1. AloneInv => DecisionIsOnRecord
  BY DEF AloneInv
<1>2. QED
  BY <1>1, AloneHolds, PTL

-------------------------------------------------------------------------------
(* The tracker (ApplicationTracker).                                       *)

(* The journey's approval is Approval's.                                   *)
LEMMA JourneyIsApproval == JourneySpec => Spec
<1>1. JourneyInit => Init
  BY DEF JourneyInit
<1>2. [JourneyNext]_journey => [Next]_vars
  BY DEF JourneyNext, journey, Review, CreateInitiatorApplication, Submit,
     SubmitParentProfile, SubmitCollegeForm, Verified, CompleteForApplication,
     ConfirmDisbursement, ConfigureServicing
<1>3. QED
  BY <1>1, <1>2, PTL DEF JourneySpec, Spec

LEMMA Keys ==
    /\ TrackerStageKey = {"STUDENT", "PARENT", "COLLEGE", "BANK_ACCOUNT",
                          "INITIATOR", "SUPPORTER", "CREDIT_MANAGER_REVIEW",
                          "APPROVER", "CREDIT_MANAGER_SETUP", "DISBURSEMENT"}
    /\ \A i \in 1..10 : Position[STAGE_DEFINITIONS[i]] = i
<1>1. DOMAIN STAGE_DEFINITIONS = 1..10
  BY DEF STAGE_DEFINITIONS
<1>2. TrackerStageKey = {STAGE_DEFINITIONS[i] : i \in 1..10}
  BY <1>1 DEF TrackerStageKey, Range
<1>3. TrackerStageKey = {"STUDENT", "PARENT", "COLLEGE", "BANK_ACCOUNT",
                         "INITIATOR", "SUPPORTER", "CREDIT_MANAGER_REVIEW",
                         "APPROVER", "CREDIT_MANAGER_SETUP", "DISBURSEMENT"}
  BY <1>2 DEF STAGE_DEFINITIONS
<1>4. \A i, j \in 1..10 : STAGE_DEFINITIONS[i] = STAGE_DEFINITIONS[j] => i = j
  BY DEF STAGE_DEFINITIONS
<1>5. ASSUME NEW i \in 1..10
      PROVE  Position[STAGE_DEFINITIONS[i]] = i
  <2>1. STAGE_DEFINITIONS[i] \in TrackerStageKey
    BY <1>2
  <2>2. Position[STAGE_DEFINITIONS[i]] =
          CHOOSE j \in 1..10 : STAGE_DEFINITIONS[j] = STAGE_DEFINITIONS[i]
    BY <1>1, <2>1 DEF Position
  <2>3. QED
    BY <1>4, <2>2
<1>6. QED
  BY <1>3, <1>5

LEMMA Positions ==
    /\ Position["STUDENT"] = 1 /\ Position["PARENT"] = 2
    /\ Position["COLLEGE"] = 3 /\ Position["BANK_ACCOUNT"] = 4
    /\ Position["INITIATOR"] = 5 /\ Position["SUPPORTER"] = 6
    /\ Position["CREDIT_MANAGER_REVIEW"] = 7 /\ Position["APPROVER"] = 8
    /\ Position["CREDIT_MANAGER_SETUP"] = 9 /\ Position["DISBURSEMENT"] = 10
<1>1. \A i \in 1..10 : Position[STAGE_DEFINITIONS[i]] = i
  BY Keys
<1>2. /\ Position[STAGE_DEFINITIONS[1]] = 1 /\ Position[STAGE_DEFINITIONS[2]] = 2
      /\ Position[STAGE_DEFINITIONS[3]] = 3 /\ Position[STAGE_DEFINITIONS[4]] = 4
      /\ Position[STAGE_DEFINITIONS[5]] = 5 /\ Position[STAGE_DEFINITIONS[6]] = 6
      /\ Position[STAGE_DEFINITIONS[7]] = 7 /\ Position[STAGE_DEFINITIONS[8]] = 8
      /\ Position[STAGE_DEFINITIONS[9]] = 9
      /\ Position[STAGE_DEFINITIONS[10]] = 10
  BY <1>1
<1>3. QED
  BY <1>2 DEF STAGE_DEFINITIONS

(* The stage shown is the first that is not completed.                     *)
LEMMA FirstIsShown ==
    ASSUME NEW key \in Incomplete,
           \A other \in Incomplete : Position[key] <= Position[other]
    PROVE  CurrentStageKey = key
<1> DEFINE First(k) == \A other \in Incomplete : Position[k] <= Position[other]
<1>1. \A j, k \in TrackerStageKey :
        /\ Position[j] \in Nat
        /\ Position[j] = Position[k] => j = k
  BY Keys, Positions
<1>2. Incomplete \subseteq TrackerStageKey
  BY DEF Incomplete
<1>3. \A k \in Incomplete : First(k) <=> k = key
  BY <1>1, <1>2
<1>4. CurrentStageKey = CHOOSE k \in Incomplete : First(k)
  BY DEF CurrentStageKey
<1>5. QED
  BY <1>3, <1>4

(* The reviews before the one that is shown are completed, and those of    *)
(* the forms: so a reviewer is shown.                                      *)
LEMMA ReviewerShown ==
    ASSUME ReadyForReview, NEW key \in SUB_PIPELINE_KEYS, key \notin Completed,
           \A other \in SUB_PIPELINE_KEYS :
              Position[other] < Position[key] => other \in Completed
    PROVE  CurrentStageKey = key /\ CurrentStageKey # NULL /\ submitted
<1>1. key \in Incomplete
  BY Keys DEF Incomplete, SUB_PIPELINE_KEYS
<1>2. ASSUME NEW other \in Incomplete
      PROVE  Position[key] <= Position[other]
  <2>1. other \in TrackerStageKey /\ other \notin Completed
    BY DEF Incomplete
  <2>2. other \notin {"STUDENT", "PARENT", "COLLEGE", "BANK_ACCOUNT",
                      "INITIATOR"}
    BY <2>1 DEF ReadyForReview
  <2>3. other \in SUB_PIPELINE_KEYS =>
          ~(Position[other] < Position[key])
    BY <2>1
  <2>4. QED
    BY <2>1, <2>2, <2>3, Keys, Positions DEF SUB_PIPELINE_KEYS
<1>3. CurrentStageKey = key
  BY <1>1, <1>2, FirstIsShown
<1>4. key # NULL
  BY <1>1, KeysAssumption DEF Incomplete
<1>5. submitted
  <2>1. "STUDENT" \in Completed
    BY DEF ReadyForReview
  <2>2. Resolve("STUDENT")
    BY <2>1 DEF Completed, SUB_PIPELINE_KEYS
  <2>3. QED
    BY <2>2 DEF Resolve
<1>6. QED
  BY <1>3, <1>4, <1>5

(* Sent back, an application shows the reviewer at whom it re-enters, and  *)
(* this reviewer's handler takes it: a fact of the two tables alone.       *)
LEMMA ReEntryCanAct == SentBackPointsAtReviewer
<1> SUFFICES ASSUME ReadyForReview, stage = "SENT_BACK",
                    sentBackToStage \in {"INITIATED", "SUPPORTED"}
             PROVE  Timeline[ReEntry] = "SENT_BACK" /\ Accepts(ReEntry)
  BY DEF SentBackPointsAtReviewer
<1>1. /\ ReEntry \in {"SUPPORTER", "CREDIT_MANAGER_REVIEW"}
      /\ sentBackToStage = "INITIATED" => ReEntry = "SUPPORTER"
      /\ sentBackToStage = "SUPPORTED" => ReEntry = "CREDIT_MANAGER_REVIEW"
  BY DEF ReEntry, RE_ENTRY_STAGE_FOR_TO_STAGE
<1>2. ReEntry \in SUB_PIPELINE_KEYS /\ ReEntry \in TrackerStageKey
  BY <1>1, Keys DEF SUB_PIPELINE_KEYS
<1>3. \A key \in SUB_PIPELINE_KEYS :
        key \in Completed <=> Position[key] < Position[ReEntry]
  BY Keys DEF Completed, SUB_PIPELINE_KEYS
<1>4. ReEntry \notin Completed
  BY <1>1, <1>2, <1>3, Positions
<1>5. CurrentStageKey = ReEntry
  BY <1>2, <1>3, <1>4, ReviewerShown
<1>6. Timeline[ReEntry] = "SENT_BACK"
  BY <1>2, <1>4, <1>5 DEF Timeline
<1>7. Accepts(ReEntry)
  BY <1>1 DEF Accepts, AllowedFromStage
<1>8. QED
  BY <1>6, <1>7

(* The first round of an application: nobody has seen a send-back; and     *)
(* until handlers overlap or a PATCH rewrites a date, a request in flight  *)
(* is the one the stage waits for, and those who are dated are those whose *)
(* stages are passed.                                                      *)
NoShortcutYet ==
    /\ stage # "INITIATED"
    /\ sentBackByApprover => sentBackToStage # NULL
    /\ \A r \in Requests : req[r].shortcut => sentBackToStage # NULL

WaitedFor ==
    ~overlapped /\ sentBackToStage = NULL =>
        \A r \in Requests :
           /\ req[r].op = "support" => stage = NULL
           /\ req[r].op = "check" => stage = "SUPPORTED"

DatedBy(s) ==
    CASE s = NULL        -> {}
      [] s = "SUPPORTED" -> {"supporter"}
      [] s = "CHECKING"  -> {"supporter", "checker"}
      [] s = "APPROVED"  -> Column

DatedSoFar ==
    (~overlapped /\ sentBackToStage = NULL /\ ~rewritten) =>
        (stage # "REJECTED" => \A c \in Column : dated[c] <=> c \in DatedBy(stage))

FirstRound == NoShortcutYet /\ WaitedFor /\ DatedSoFar

FirstRoundInv == FirstRound /\ rewritten \in BOOLEAN

Grounds == TypeOK /\ ChainInv /\ AloneInv

LEMMA GroundsHold == JourneySpec => []Grounds
<1>1. TypeOK /\ ChainInv /\ AloneInv => Grounds
  BY DEF Grounds
<1>2. QED
  BY <1>1, JourneyIsApproval, TypeCorrect, ChainHolds, AloneHolds, PTL

LEMMA ReadKeepsFirstRound ==
    ASSUME Grounds, FirstRound, NEW r \in Requests, NEW u \in Staff, Read(r, u),
           rewritten' = FALSE => rewritten = FALSE,
           rewritten \in BOOLEAN, rewritten' \in BOOLEAN
    PROVE  FirstRound'
<1>1. /\ UNCHANGED <<stage, sentBackToStage, sentBackByApprover, dated>>
      /\ \A q \in Requests : q # r => req'[q] = req[q]
      /\ ~overlapped' => ~overlapped
  BY DEF Read, ReadResubmit, ReadSupport, ReadCheck, ReadApprove, ReadReject,
     ReadSendBack, ReadUpdate, Begin, row, signOffs, Grounds, TypeOK
<1>2. /\ req'[r].shortcut => sentBackByApprover
      /\ req'[r].op = "support" => stage \in {NULL, "INITIATED", "SENT_BACK"}
      /\ req'[r].op = "check" => stage \in {"SUPPORTED", "SENT_BACK"}
  <2> USE DEF Begin, TypeOK, Grounds
  <2>1. CASE ReadResubmit(r, u)  BY <2>1 DEF ReadResubmit
  <2>2. CASE ReadSupport(r, u)   BY <2>2 DEF ReadSupport, AllowedFromStage
  <2>3. CASE ReadCheck(r, u)     BY <2>3 DEF ReadCheck, AllowedFromStage
  <2>4. CASE ReadApprove(r, u)   BY <2>4 DEF ReadApprove
  <2>5. CASE ReadReject(r, u)    BY <2>5 DEF ReadReject
  <2>6. CASE ReadSendBack(r, u)  BY <2>6 DEF ReadSendBack
  <2>7. CASE ReadUpdate(r, u)    BY <2>7 DEF ReadUpdate
  <2>8. QED
    BY <2>1, <2>2, <2>3, <2>4, <2>5, <2>6, <2>7 DEF Read
<1>3. stage = "SENT_BACK" => sentBackToStage # NULL
  BY DEF Grounds, ChainInv, SendBackIsMarked
<1>4. NoShortcutYet'
  BY <1>1, <1>2 DEF FirstRound, NoShortcutYet
<1>5. WaitedFor'
  BY <1>1, <1>2, <1>3 DEF FirstRound, NoShortcutYet, WaitedFor
<1>6. DatedSoFar'
  BY <1>1 DEF FirstRound, DatedSoFar, DatedBy
<1>7. QED
  BY <1>4, <1>5, <1>6 DEF FirstRound

LEMMA WriteKeepsFirstRound ==
    ASSUME Grounds, FirstRound, NEW r \in Requests, Write(r),
           rewritten \in BOOLEAN,
           rewritten' = (rewritten \/ (req[r].op = "update" /\ dated' # dated))
    PROVE  FirstRound'
<1>1. /\ req'[r] = Idle /\ req[r] \in Request /\ UNCHANGED overlapped
      /\ \A q \in Requests : q # r => req'[q] = req[q]
      /\ req[r] # Idle
  <2>1. Reply(r) /\ req[r].op # "idle"
    BY DEF Write, Resubmit, Support, Check, Approve, ApproveConflict, Reject,
       SendBack, UpdateInitiatorApplication
  <2>2. QED
    BY <2>1 DEF Reply, Grounds, TypeOK, Idle
<1>2. /\ ~overlapped => \A q \in Requests : req'[q] = Idle
      /\ ~overlapped /\ req[r].op = "approve" => stage = "CHECKING"
      /\ req[r].op = "resubmit" => sentBackToStage # NULL
      /\ req[r].op = "sendBack" => req[r].toStage # NULL
  BY <1>1 DEF Grounds, AloneInv, ReadStillHolds, ChainInv, SendBackIsMarked
<1>3. WaitedFor'
  BY <1>1, <1>2 DEF WaitedFor, Idle
<1>4. /\ stage' # "INITIATED"
      /\ sentBackByApprover' => sentBackToStage' # NULL
      /\ sentBackToStage # NULL => sentBackToStage' # NULL
  <2> USE <1>1, <1>2 DEF FirstRound, NoShortcutYet
  <2>1. CASE Resubmit(r)
    BY <2>1 DEF Resubmit, SpendShortcut
  <2>2. CASE Support(r)
    BY <2>2 DEF Support, SpendShortcut
  <2>3. CASE Check(r)
    BY <2>3 DEF Check, SpendShortcut
  <2>4. CASE Approve(r)
    BY <2>4 DEF Approve
  <2>5. CASE ApproveConflict(r)
    BY <2>5 DEF ApproveConflict, row
  <2>6. CASE Reject(r)
    BY <2>6 DEF Reject
  <2>7. CASE SendBack(r)
    BY <2>7 DEF SendBack
  <2>8. CASE UpdateInitiatorApplication(r)
    BY <2>8 DEF UpdateInitiatorApplication
  <2>9. QED
    BY <2>1, <2>2, <2>3, <2>4, <2>5, <2>6, <2>7, <2>8 DEF Write
<1>5. NoShortcutYet'
  BY <1>1, <1>4 DEF FirstRound, NoShortcutYet, Idle
<1>6. DatedSoFar'
  <2> SUFFICES ASSUME ~overlapped', sentBackToStage' = NULL, ~rewritten',
                      stage' # "REJECTED", NEW c \in Column
               PROVE  dated'[c] <=> c \in DatedBy(stage')
    BY DEF DatedSoFar
  <2>1. ~overlapped /\ sentBackToStage = NULL /\ ~rewritten
    BY <1>1, <1>4
  <2>2. /\ stage # "REJECTED" => (dated[c] <=> c \in DatedBy(stage))
        /\ req[r].op = "support" => stage = NULL
        /\ req[r].op = "check" => stage = "SUPPORTED"
        /\ ~req[r].shortcut
        /\ dated \in [Column -> BOOLEAN]
    BY <2>1 DEF FirstRound, DatedSoFar, WaitedFor, NoShortcutYet, Grounds,
       TypeOK
  <2> USE <2>1, <2>2 DEF Column, Stage
  <2>3. CASE Resubmit(r)
    BY <1>2, <2>3 DEF Resubmit
  <2>4. CASE Support(r)
    <3>1. stage = NULL /\ stage' = "SUPPORTED"
      BY <2>4 DEF Support
    <3>2. dated' = [dated EXCEPT !["supporter"] = TRUE]
      BY <2>4 DEF Support, SignOff
    <3>3. QED
      BY <3>1, <3>2 DEF DatedBy
  <2>5. CASE Check(r)
    <3>1. stage = "SUPPORTED" /\ stage' = "CHECKING"
      BY <2>5 DEF Check
    <3>2. dated' = [dated EXCEPT !["checker"] = TRUE]
      BY <2>5 DEF Check, SignOff
    <3>3. QED
      BY <3>1, <3>2 DEF DatedBy
  <2>6. CASE Approve(r)
    <3>1. stage = "CHECKING" /\ stage' = "APPROVED"
      BY <1>2, <2>6 DEF Approve
    <3>2. dated' = [dated EXCEPT !["approver"] = TRUE]
      BY <2>6 DEF Approve, SignOff
    <3>3. QED
      BY <3>1, <3>2 DEF DatedBy
  <2>7. CASE ApproveConflict(r)
    BY <2>7 DEF ApproveConflict, row, signOffs
  <2>8. CASE Reject(r)
    BY <2>8 DEF Reject
  <2>9. CASE SendBack(r)
    BY <1>2, <2>9 DEF SendBack
  <2>10. CASE UpdateInitiatorApplication(r)
    BY <2>10 DEF UpdateInitiatorApplication
  <2>11. QED
    BY <2>3, <2>4, <2>5, <2>6, <2>7, <2>8, <2>9, <2>10 DEF Write
<1>7. QED
  BY <1>3, <1>5, <1>6 DEF FirstRound

LEMMA FirstRoundHolds == JourneySpec => []FirstRoundInv
<1>1. JourneyInit => FirstRoundInv
  <2> SUFFICES ASSUME JourneyInit PROVE FirstRoundInv
    OBVIOUS
  <2>1. \A r \in Requests : req[r].op = "idle" /\ ~req[r].shortcut
    BY DEF JourneyInit, Init, Idle
  <2>2. stage = NULL /\ ~sentBackByApprover /\ rewritten = FALSE
    BY DEF JourneyInit, Init
  <2>3. \A c \in Column : ~dated[c]
    BY DEF JourneyInit, Init
  <2>4. NoShortcutYet /\ WaitedFor
    BY <2>1, <2>2 DEF NoShortcutYet, WaitedFor, Stage
  <2>5. DatedSoFar
    BY <2>2, <2>3 DEF DatedSoFar, DatedBy, Stage
  <2>6. QED
    BY <2>2, <2>4, <2>5 DEF FirstRoundInv, FirstRound
<1>2. Grounds /\ FirstRoundInv /\ [JourneyNext]_journey => FirstRoundInv'
  <2> SUFFICES ASSUME Grounds, FirstRound, rewritten \in BOOLEAN,
                      [JourneyNext]_journey
               PROVE  FirstRound' /\ rewritten' \in BOOLEAN
    BY DEF FirstRoundInv
  <2>1. CASE Review
    <3> DEFINE updated == \E r \in Requests : req[r].op = "update" /\ req'[r] = Idle
    <3>1. Next /\ rewritten' = (rewritten \/ (updated /\ dated' # dated))
      BY <2>1 DEF Review
    <3>2. rewritten' \in BOOLEAN
      BY <3>1
    <3>3. ASSUME NEW r \in Requests, NEW u \in Staff, Read(r, u)
          PROVE  FirstRound'
      BY <3>1, <3>2, <3>3, ReadKeepsFirstRound
    <3>4. ASSUME NEW r \in Requests, Write(r)
          PROVE  FirstRound'
      <4>1. /\ req'[r] = Idle /\ req[r].op # "idle"
            /\ \A q \in Requests : q # r => req'[q] = req[q]
        BY <3>4 DEF Write, Resubmit, Support, Check, Approve,
           ApproveConflict, Reject, SendBack, UpdateInitiatorApplication,
           Reply, Grounds, TypeOK
      <4>2. updated <=> req[r].op = "update"
        BY <4>1 DEF Idle
      <4>3. rewritten' = (rewritten \/ (req[r].op = "update" /\ dated' # dated))
        BY <3>1, <4>2
      <4>4. QED
        BY <3>4, <4>3, WriteKeepsFirstRound
    <3>5. QED
      BY <3>1, <3>2, <3>3, <3>4 DEF Next
  <2>2. CASE ~Review
    <3>1. UNCHANGED <<vars, rewritten>>
      BY <2>2 DEF JourneyNext, journey, CreateInitiatorApplication
    <3>2. QED
      BY <3>1 DEF vars, row, signOffs, FirstRound, NoShortcutYet,
         WaitedFor, DatedSoFar, DatedBy
  <2>3. QED
    BY <2>1, <2>2
<1>3. QED
  BY <1>1, <1>2, GroundsHold, PTL DEF JourneySpec

(* Whoever reviews and whatever the forms, the account, the Initiator and  *)
(* the disbursement do meanwhile: the reviewer a student is shown is one   *)
(* whose handler takes the application (the tracker's tables against       *)
(* ALLOWED_FROM_STAGE).                                                    *)
THEOREM StudentSeesWhoActs == JourneySpec => []ShownReviewerCanAct
<1>1. Grounds /\ FirstRound => FollowsPipeline
  <2> SUFFICES ASSUME Grounds, FirstRound, ReadyForReview, ~overlapped,
                      sentBackToStage = NULL, ~rewritten, stage # "REJECTED"
               PROVE  IF stage = "APPROVED"
                        THEN SUB_PIPELINE_KEYS \subseteq Completed
                        ELSE /\ Accepts(CurrentStageKey)
                             /\ CurrentStatus = "IN_PROGRESS"
    BY DEF FollowsPipeline
  <2>1. stage # "SENT_BACK" /\ stage # "INITIATED"
    BY DEF Grounds, ChainInv, SendBackIsMarked, FirstRound, NoShortcutYet
  <2>2. stage \in {NULL, "SUPPORTED", "CHECKING", "APPROVED"}
    BY <2>1 DEF Grounds, TypeOK, Stage
  <2>3. \A c \in Column : dated[c] <=> c \in DatedBy(stage)
    BY DEF FirstRound, DatedSoFar
  <2>4. /\ "SUPPORTER" \in Completed <=> "supporter" \in DatedBy(stage)
        /\ "CREDIT_MANAGER_REVIEW" \in Completed <=> "checker" \in DatedBy(stage)
        /\ "APPROVER" \in Completed <=> "approver" \in DatedBy(stage)
    <3>1. \A key \in TrackerStageKey : key \in Completed <=> Resolve(key)
      BY <2>1 DEF Completed
    <3>2. /\ Resolve("SUPPORTER") <=> dated["supporter"]
          /\ Resolve("CREDIT_MANAGER_REVIEW") <=> dated["checker"]
          /\ Resolve("APPROVER") <=> dated["approver"]
      BY DEF Resolve
    <3>3. {"supporter", "checker", "approver"} \subseteq Column
      BY DEF Column
    <3>4. {"SUPPORTER", "CREDIT_MANAGER_REVIEW", "APPROVER"}
             \subseteq TrackerStageKey
      BY Keys
    <3>5. QED
      BY <2>3, <3>1, <3>2, <3>3, <3>4
  <2>5. ASSUME NEW key \in SUB_PIPELINE_KEYS, key \notin Completed,
               \A other \in SUB_PIPELINE_KEYS :
                  Position[other] < Position[key] => other \in Completed,
               Accepts(key), stage # "APPROVED"
        PROVE  /\ Accepts(CurrentStageKey)
               /\ CurrentStatus = "IN_PROGRESS"
    <3>1. CurrentStageKey = key /\ CurrentStageKey # NULL /\ submitted
      BY <2>5, ReviewerShown
    <3>2. QED
      BY <2>1, <2>5, <3>1 DEF CurrentStatus
  <2>6. CASE stage = NULL
    <3>1. /\ "SUPPORTER" \notin Completed /\ "SUPPORTER" \in SUB_PIPELINE_KEYS
          /\ stage # "APPROVED"
      BY <2>4, <2>6 DEF DatedBy, SUB_PIPELINE_KEYS, Stage
    <3>2. \A other \in SUB_PIPELINE_KEYS :
            Position[other] < Position["SUPPORTER"] => other \in Completed
      BY Positions DEF SUB_PIPELINE_KEYS
    <3>3. Accepts("SUPPORTER")
      BY <2>6 DEF Accepts, AllowedFromStage
    <3>4. QED
      BY <2>5, <3>1, <3>2, <3>3
  <2>7. CASE stage = "SUPPORTED"
    <3>1. /\ "SUPPORTER" \in Completed
          /\ "CREDIT_MANAGER_REVIEW" \notin Completed
          /\ "CREDIT_MANAGER_REVIEW" \in SUB_PIPELINE_KEYS
      BY <2>4, <2>7 DEF DatedBy, SUB_PIPELINE_KEYS, Stage
    <3>2. \A other \in SUB_PIPELINE_KEYS :
            Position[other] < Position["CREDIT_MANAGER_REVIEW"] =>
              other \in Completed
      BY <3>1, Positions DEF SUB_PIPELINE_KEYS
    <3>3. Accepts("CREDIT_MANAGER_REVIEW")
      BY <2>7 DEF Accepts, AllowedFromStage
    <3>4. QED
      BY <2>5, <2>7, <3>1, <3>2, <3>3
  <2>8. CASE stage = "CHECKING"
    <3>1. /\ "SUPPORTER" \in Completed
          /\ "CREDIT_MANAGER_REVIEW" \in Completed
          /\ "APPROVER" \notin Completed /\ "APPROVER" \in SUB_PIPELINE_KEYS
      BY <2>4, <2>8 DEF DatedBy, SUB_PIPELINE_KEYS, Stage
    <3>2. \A other \in SUB_PIPELINE_KEYS :
            Position[other] < Position["APPROVER"] => other \in Completed
      BY <3>1, Positions DEF SUB_PIPELINE_KEYS
    <3>3. Accepts("APPROVER")
      BY <2>8 DEF Accepts, AllowedFromStage
    <3>4. QED
      BY <2>5, <2>8, <3>1, <3>2, <3>3
  <2>9. CASE stage = "APPROVED"
    <3>1. DatedBy(stage) = {"supporter", "checker", "approver"}
      BY <2>9 DEF DatedBy, Column, Stage
    <3>2. QED
      BY <2>4, <2>9, <3>1 DEF SUB_PIPELINE_KEYS
  <2>10. QED
    BY <2>2, <2>6, <2>7, <2>8, <2>9
<1>2. Grounds /\ FirstRoundInv => ShownReviewerCanAct
  BY <1>1, ReEntryCanAct DEF ShownReviewerCanAct, FirstRoundInv
<1>3. QED
  BY <1>2, GroundsHold, FirstRoundHolds, PTL

(* The disbursed total is a number, of either sign.                        *)
TotalIsInt == disbursed \in Int

LEMMA TotalStaysInt == JourneySpec => []TotalIsInt
<1>1. JourneyInit => TotalIsInt
  BY DEF JourneyInit, TotalIsInt
<1>2. TotalIsInt /\ [JourneyNext]_journey => TotalIsInt'
  <2> SUFFICES ASSUME TotalIsInt, [JourneyNext]_journey PROVE disbursed' \in Int
    BY DEF TotalIsInt
  <2>1. CASE ConfirmDisbursement
    BY <2>1, AmountsAssumption DEF ConfirmDisbursement, TotalIsInt
  <2>2. CASE ~ConfirmDisbursement
    BY <2>2 DEF JourneyNext, Review, CreateInitiatorApplication, Submit,
       SubmitParentProfile, SubmitCollegeForm, Verified, CompleteForApplication,
       ConfigureServicing, journey, others, TotalIsInt
  <2>3. QED
    BY <2>1, <2>2
<1>3. QED
  BY <1>1, <1>2, PTL DEF JourneySpec

(* What a stage shows completed is not taken back by a step that neither   *)
(* sends back nor patches, nor does a payout of a negative amount take the *)
(* disbursement back.                                                      *)
LEMMA ResolvedStays ==
    ASSUME TypeOK, TotalIsInt, [JourneyNext]_journey, NEW key \in TrackerStageKey,
           Resolve(key),
           ~ \E r \in Requests : /\ req[r].op \in {"sendBack", "update"}
                                 /\ req'[r] = Idle,
           disbursed' < disbursed => key # "DISBURSEMENT"
    PROVE  Resolve(key)' /\ (stage' = "SENT_BACK" => stage = "SENT_BACK")
<1>1. /\ \A c \in Column : dated[c] => dated'[c]
      /\ stage' = "SENT_BACK" => stage = "SENT_BACK"
  <2>1. CASE Review
    <3>1. ASSUME NEW r \in Requests, NEW u \in Staff, Read(r, u)
          PROVE  UNCHANGED <<stage, dated>>
      BY <3>1 DEF Read, ReadResubmit, ReadSupport, ReadCheck, ReadApprove,
         ReadReject, ReadSendBack, ReadUpdate, Begin, row, signOffs
    <3>2. ASSUME NEW r \in Requests, Write(r)
          PROVE  /\ \A c \in Column : dated[c] => dated'[c]
                 /\ stage' = "SENT_BACK" => stage = "SENT_BACK"
      <4>1. req'[r] = Idle
        BY <3>2 DEF Write, Resubmit, Support, Check, Approve,
           ApproveConflict, Reject, SendBack, UpdateInitiatorApplication,
           Reply, TypeOK
      <4>2. CASE Resubmit(r)
        BY <4>2 DEF Resubmit, signOffs
      <4>3. CASE Support(r)
        BY <4>3 DEF Support, SignOff, TypeOK
      <4>4. CASE Check(r)
        BY <4>4 DEF Check, SignOff, TypeOK
      <4>5. CASE Approve(r)
        BY <4>5 DEF Approve, SignOff, TypeOK
      <4>6. CASE ApproveConflict(r)
        BY <4>6 DEF ApproveConflict, row, signOffs
      <4>7. CASE Reject(r)
        BY <4>7 DEF Reject, StampVerdict
      <4>8. CASE SendBack(r) \/ UpdateInitiatorApplication(r)
        BY <4>1, <4>8 DEF SendBack, UpdateInitiatorApplication
      <4>9. QED
        BY <3>2, <4>2, <4>3, <4>4, <4>5, <4>6, <4>7, <4>8 DEF Write
    <3>3. QED
      BY <2>1, <3>1, <3>2 DEF Review, Next
  <2>2. CASE ~Review
    BY <2>2 DEF JourneyNext, journey, CreateInitiatorApplication, vars, row,
       signOffs
  <2>3. QED
    BY <2>1, <2>2
<1>2. /\ submitted => submitted'
      /\ parent => parent'
      /\ college # "NONE" => college' # "NONE"
      /\ opening = "COMPLETED" => opening' = "COMPLETED"
      /\ initiated => initiated'
      /\ configured => configured'
      /\ key = "DISBURSEMENT" => disbursed' > 0
  <2>1. key = "DISBURSEMENT" /\ disbursed' = disbursed => disbursed' > 0
    BY DEF Resolve
  <2>2. CASE Review
    BY <2>2, <2>1 DEF Review, others
  <2>3. CASE CreateInitiatorApplication
    <3>1. submitted => submitted'
      <4>1. submitted' = submitted \/ submitted' = TRUE
        BY <2>3 DEF CreateInitiatorApplication
      <4>2. QED
        BY <4>1
    <3>2. QED
      BY <2>3, <2>1, <3>1 DEF CreateInitiatorApplication
  <2>4. CASE /\ Submit \/ CompleteForApplication \/ ConfigureServicing
             /\ UNCHANGED <<vars, initiated, rewritten>>
    BY <2>4, <2>1 DEF Submit, CompleteForApplication, ConfigureServicing
  <2>5. CASE /\ SubmitParentProfile \/ SubmitCollegeForm
             /\ UNCHANGED <<vars, initiated, rewritten>>
    BY <2>5, <2>1 DEF SubmitParentProfile, SubmitCollegeForm, Verified
  <2>6. CASE UNCHANGED journey
    BY <2>6, <2>1 DEF journey, others
  <2>7. CASE /\ ConfirmDisbursement
             /\ UNCHANGED <<vars, initiated, rewritten>>
    <3>1. disbursed \in Int /\ disbursed' \in Int
      BY <2>7, AmountsAssumption DEF ConfirmDisbursement, TotalIsInt
    <3>2. key = "DISBURSEMENT" => disbursed > 0 /\ ~(disbursed' < disbursed)
      BY DEF Resolve
    <3>3. QED
      BY <2>7, <3>1, <3>2 DEF ConfirmDisbursement
  <2>8. QED
    BY <2>2, <2>3, <2>4, <2>5, <2>6, <2>7 DEF JourneyNext
<1>3. CASE key \in {"STUDENT", "PARENT", "COLLEGE", "BANK_ACCOUNT"}
  BY <1>1, <1>2, <1>3 DEF Resolve
<1>4. CASE key \in {"INITIATOR", "CREDIT_MANAGER_SETUP", "DISBURSEMENT"}
  BY <1>1, <1>2, <1>4 DEF Resolve
<1>5. CASE key \in {"SUPPORTER", "CREDIT_MANAGER_REVIEW", "APPROVER"}
  BY <1>1, <1>5 DEF Resolve, Column
<1>6. QED
  BY <1>3, <1>4, <1>5, Keys

(* A stage once shown to the student as completed is taken back by a       *)
(* reviewer's send-back or the Initiator's PATCH, or on an application     *)
(* sent back already, and by nothing else but a payout of a negative       *)
(* amount, which can undo the disbursement alone (the tracker's resolve()  *)
(* over the rows of the other components).                                 *)
THEOREM ProgressStays == JourneySpec => ProgressIsKept
<1> DEFINE Kept ==
        \/ Completed \subseteq Completed'
        \/ /\ disbursed' < disbursed
           /\ Completed \ {"DISBURSEMENT"} \subseteq Completed'
        \/ stage = "SENT_BACK"
        \/ \E r \in Requests : /\ req[r].op \in {"sendBack", "update"}
                                /\ req'[r] = Idle
<1>1. TypeOK /\ TotalIsInt /\ [JourneyNext]_journey => Kept
  <2>1. SUFFICES ASSUME TypeOK, TotalIsInt, [JourneyNext]_journey,
                        stage # "SENT_BACK",
                        ~ \E r \in Requests :
                            /\ req[r].op \in {"sendBack", "update"}
                            /\ req'[r] = Idle
                 PROVE  IF disbursed' < disbursed
                          THEN Completed \ {"DISBURSEMENT"} \subseteq Completed'
                          ELSE Completed \subseteq Completed'
    OBVIOUS
  <2>2. ASSUME NEW key \in Completed,
               disbursed' < disbursed => key # "DISBURSEMENT"
        PROVE  key \in Completed'
    <3>1. key \in TrackerStageKey /\ Resolve(key)
      BY <2>1, <2>2 DEF Completed
    <3>2. Resolve(key)' /\ stage' # "SENT_BACK"
      BY <2>1, <2>2, <3>1, ResolvedStays
    <3>3. QED
      BY <3>1, <3>2 DEF Completed
  <2>3. QED
    BY <2>2
<1>2. JourneySpec => []TypeOK
  BY JourneyIsApproval, TypeCorrect, PTL
<1>3. QED
  BY <1>1, <1>2, TotalStaysInt, PTL DEF JourneySpec, ProgressIsKept

===============================================================================
