------------------------ MODULE ApplicationDraftProofs ------------------------
(***************************************************************************)
(* Theorems about an application until it is submitted, for any number of  *)
(* requests, documents, courses and fees: the rows are well typed, the fee *)
(* is one the course has had, a document that is listed has its object,    *)
(* and until requests overlap a type has one document and what was         *)
(* submitted stays as it was.                                              *)
(***************************************************************************)
EXTENDS ApplicationDraft, FiniteSetTheorems, TLAPS

USE CatalogueAssumption, DraftAssumption

(* The requests on their way to a row or an object.                        *)
Naming == {"create", "remove", "unlink"}

(* What the type invariant needs to be inductive: the uploads that requests *)
(* name have happened, and a request that reads the catalogue names a      *)
(* course.                                                                 *)
RequestsSound ==
    \A r \in Requests :
      /\ req[r].pc \in Naming => req[r].upload \in 1 .. uploads
      /\ req[r].pc = "course" => req[r].courseId \in Courses

TypeInv == TypeOK /\ RequestsSound

-------------------------------------------------------------------------------
(* A request's place determines what it remembers.                         *)
LEMMA RequestShape ==
    ASSUME NEW q \in Request
    PROVE  /\ q.pc \in {"course", "step1"} =>
                q \in [pc : {q.pc}, courseId : Step1Dto, fee : Fees \cup {NULL}]
           /\ q.pc = "submit" => q.identityType \in BOOLEAN
           /\ q.pc \in {"find", "put", "create"} => q.type \in DocumentType
           /\ q.pc \in Naming => q.upload \in Upload
           /\ q.pc \in {"remove", "unlink"} =>
                q \in [pc : {q.pc}, upload : Upload, type : DocumentType \cup {NULL}]
           /\ q = Idle <=> q.pc = "idle"
  BY DEF Request, Idle, Naming

(* The other requests stay where they are.                                 *)
LEMMA GotoMoves ==
    ASSUME req \in [Requests -> Request], NEW r \in Requests,
           NEW q \in Request, Goto(r, q)
    PROVE  /\ req' \in [Requests -> Request]
           /\ req'[r] = q
           /\ \A s \in Requests \ {r} : req'[s] = req[s]
  BY DEF Goto

(* The catalogue is edited within its type.                                *)
LEMMA CatalogueTyped ==
    ASSUME CatalogueType, EditCatalogue
    PROVE  CatalogueType'
<1> USE DEF CatalogueType, Edit
<1>1. ASSUME NEW c \in Courses, NEW row \in CourseRow, WriteCourse(c, row)
      PROVE  CatalogueType'
  BY <1>1 DEF WriteCourse, CourseRow
<1>2. ASSUME NEW c \in Courses, NEW row \in CourseRow, CreateCourse(c, row)
      PROVE  CatalogueType'
  BY <1>1, <1>2 DEF CreateCourse
<1>3. ASSUME NEW c \in Courses, RemoveCourse(c) PROVE CatalogueType'
  <2>1. course[c] \in CourseRow
    BY <1>3 DEF RemoveCourse
  <2>2. [course[c] EXCEPT !.active = FALSE] \in CourseRow
    BY <2>1 DEF CourseRow
  <2>3. QED
    BY <1>1, <1>3, <2>2 DEF RemoveCourse
<1>4. ASSUME NEW k \in Colleges, NEW s \in {"active", "inactive"},
             WriteCollege(k, s)
      PROVE  CatalogueType'
  BY <1>4 DEF WriteCollege
<1>5. QED
  BY <1>1, <1>2, <1>3, <1>4
     DEF EditCatalogue, UpdateCourse, CreateCollege, UpdateCollege,
         RemoveCollege

(* A request moves to a place it may be in, and names what exists.         *)
MovesTo(r, q) ==
    /\ Goto(r, q) /\ q \in Request
    /\ q.pc \in Naming => q.upload \in 1 .. uploads'
    /\ q.pc = "course" => q.courseId \in Courses

(* Of the two ways to move, those that write nothing else.                 *)
Reads(r) ==
    \/ ReadStep1(r) \/ ReadCourse(r) \/ ReadStep2Or3(r) \/ ReadSubmit(r)
    \/ ReadIdentityDocuments(r) \/ ReadDeleteDraft(r)
    \/ \E type \in DocumentType : ReadUpload(r, type)
    \/ \E d \in DOMAIN rows : ReadDelete(r, d)
    \/ FindExisting(r)

(* A request that reads writes nothing.                                    *)
LEMMA ReadsOnly ==
    ASSUME NEW r \in Requests, Reads(r)
    PROVE  UNCHANGED <<app, rows, objects, uploads, halfGone>>
  BY DEF Reads, Start, ReadStep1, ReadCourse, ReadStep2Or3, ReadSubmit,
     ReadIdentityDocuments, ReadDeleteDraft, ReadUpload, ReadDelete,
     FindExisting

(* A request that reads remembers what it may.                             *)
LEMMA ReadsTyped ==
    ASSUME TypeInv, NEW r \in Requests, Reads(r)
    PROVE  \E q \in Request : MovesTo(r, q)
<1> USE DEF MovesTo, Naming
<1>0. req[r] \in Request /\ uploads' = uploads
  BY ReadsOnly DEF TypeInv, TypeOK
<1>1. CASE ReadStep1(r)
  <2>1. PICK c \in Step1Dto :
          Goto(r, [pc |-> IF c = NULL THEN "step1" ELSE "course",
                   courseId |-> c, fee |-> NULL])
    BY <1>1 DEF ReadStep1, Start
  <2>2. [pc |-> IF c = NULL THEN "step1" ELSE "course",
         courseId |-> c, fee |-> NULL] \in Request
    BY DEF Request
  <2>3. QED
    BY <2>1, <2>2 DEF Step1Dto
<1>2. CASE ReadCourse(r)
  <2> DEFINE q == [req[r] EXCEPT !.pc = "step1",
                                 !.fee = course[req[r].courseId].fee]
  <2>1. /\ req[r].courseId \in Courses
        /\ course[req[r].courseId] \in CourseRow
    BY <1>2 DEF ReadCourse, Selectable, TypeInv, TypeOK, RequestsSound,
       CatalogueType
  <2>2. course[req[r].courseId].fee \in Fees
    BY <2>1 DEF CourseRow
  <2>3. q \in [pc : {"step1"}, courseId : Courses, fee : Fees]
    <3>1. req[r] \in [pc : {"course"}, courseId : Courses,
                      fee : Fees \cup {NULL}]
      BY <1>0, <1>2, <2>1, RequestShape DEF ReadCourse
    <3>2. QED
      BY <2>2, <3>1
  <2>4. q \in Request
    BY <2>3 DEF Request, Step1Dto
  <2>5. QED
    BY <1>2, <2>3, <2>4 DEF ReadCourse
<1>3. CASE ReadStep2Or3(r) \/ ReadDeleteDraft(r) \/ ReadIdentityDocuments(r)
  <2>1. \A pc \in {"form", "declared", "deleteDraft"} : [pc |-> pc] \in Request
    BY DEF Request
  <2>2. QED
    BY <1>3, <2>1
       DEF ReadStep2Or3, ReadDeleteDraft, ReadIdentityDocuments, Start
<1>4. CASE ReadSubmit(r)
  <2>1. app.identityType \in BOOLEAN
    BY <1>4 DEF ReadSubmit, Editable, IsDraft, TypeInv, TypeOK, Application
  <2>2. [pc |-> "submit", identityType |-> app.identityType] \in Request
    BY <2>1 DEF Request
  <2>3. QED
    BY <1>4, <2>2 DEF ReadSubmit, Start
<1>5. ASSUME NEW type \in DocumentType, ReadUpload(r, type)
      PROVE  \E q \in Request : MovesTo(r, q)
  <2>1. [pc |-> IF type = "ACADEMIC_RECORD" THEN "put" ELSE "find",
         type |-> type] \in Request
    BY DEF Request
  <2>2. QED
    BY <1>5, <2>1 DEF ReadUpload
<1>6. ASSUME NEW d \in DOMAIN rows, ReadDelete(r, d)
      PROVE  \E q \in Request : MovesTo(r, q)
  <2>1. d \in 1 .. uploads /\ d \in Upload
    BY DEF TypeInv, TypeOK, Upload
  <2>2. [pc |-> "remove", upload |-> d, type |-> NULL] \in Request
    BY <2>1 DEF Request
  <2>3. QED
    BY <1>0, <1>6, <2>1, <2>2 DEF ReadDelete
<1>7. CASE FindExisting(r)
  <2>1. req[r].type \in DocumentType
    BY <1>0, <1>7, RequestShape DEF FindExisting
  <2>2. [pc |-> "put", type |-> req[r].type] \in Request
    BY <2>1 DEF Request
  <2>3. ASSUME NEW d \in DOMAIN rows
        PROVE  /\ d \in 1 .. uploads
               /\ [pc |-> "remove", upload |-> d, type |-> req[r].type]
                    \in Request
    <3>1. d \in 1 .. uploads /\ d \in Upload
      BY DEF TypeInv, TypeOK, Upload
    <3>2. QED
      BY <2>1, <3>1 DEF Request
  <2>4. QED
    BY <1>0, <1>7, <2>2, <2>3 DEF FindExisting
<1>8. QED
  BY <1>1, <1>2, <1>3, <1>4, <1>5, <1>6, <1>7 DEF Reads

Writes(r) ==
    \/ SaveStep1(r) \/ SaveStep2Or3(r) \/ Submit(r) \/ DeleteDraft(r)
    \/ RemoveObject(r) \/ DeleteRow(r) \/ PutObject(r) \/ CreateRow(r)
    \/ Fail(r)

(* A request that writes remembers what it may.                            *)
LEMMA WritesMove ==
    ASSUME TypeInv, NEW r \in Requests, Writes(r)
    PROVE  /\ \E q \in Request : MovesTo(r, q)
           /\ uploads' \in uploads .. MaxUploads
<1> USE DEF MovesTo, Naming
<1>0. req[r] \in Request /\ uploads \in 0 .. MaxUploads
  BY DEF TypeInv, TypeOK
<1>1. Idle \in Request
  BY DEF Request
<1>2. CASE \/ SaveStep1(r) \/ SaveStep2Or3(r) \/ Submit(r) \/ DeleteDraft(r)
           \/ CreateRow(r) \/ Fail(r)
  BY <1>0, <1>1, <1>2 DEF SaveStep1, SaveStep2Or3, Submit, DeleteDraft,
     CreateRow, Fail, Return, Idle
<1>3. CASE RemoveObject(r)
  <2>1. req[r] \in [pc : {"remove"}, upload : Upload,
                    type : DocumentType \cup {NULL}]
    BY <1>0, <1>3, RequestShape DEF RemoveObject
  <2>2. /\ [req[r] EXCEPT !.pc = "unlink"] \in
             [pc : {"unlink"}, upload : Upload, type : DocumentType \cup {NULL}]
        /\ [req[r] EXCEPT !.pc = "unlink"].upload = req[r].upload
    BY <2>1
  <2>3. [req[r] EXCEPT !.pc = "unlink"] \in Request
    BY <2>2 DEF Request
  <2>4. req[r].upload \in 1 .. uploads
    BY <1>3 DEF RemoveObject, TypeInv, RequestsSound
  <2>5. QED
    BY <1>0, <1>3, <2>2, <2>3, <2>4 DEF RemoveObject
<1>4. CASE DeleteRow(r)
  <2>1. req[r].type # NULL =>
          [pc |-> "put", type |-> req[r].type] \in Request
    BY <1>0, <1>4, RequestShape DEF DeleteRow, Request
  <2>2. QED
    BY <1>0, <1>1, <1>4, <2>1 DEF DeleteRow, Idle
<1>5. CASE PutObject(r)
  <2>1. /\ uploads' = uploads + 1 /\ uploads' \in Upload
        /\ uploads' \in 1 .. uploads'
    BY <1>0, <1>5 DEF PutObject, Upload
  <2>2. req[r].type \in DocumentType
    BY <1>0, <1>5, RequestShape DEF PutObject
  <2>3. [pc |-> "create", type |-> req[r].type, upload |-> uploads'] \in Request
    BY <2>1, <2>2 DEF Request
  <2>4. QED
    BY <1>0, <1>5, <2>1, <2>3 DEF PutObject, Upload
<1>6. QED
  BY <1>2, <1>3, <1>4, <1>5 DEF Writes

(* A request that writes keeps the rows and objects typed.                 *)
LEMMA WritesTyped ==
    ASSUME TypeInv, NEW r \in Requests, Writes(r)
    PROVE  /\ app' \in Application \cup {NULL}
           /\ objects' \subseteq 1 .. uploads'
           /\ DOMAIN rows' \subseteq 1 .. uploads'
           /\ \A d \in DOMAIN rows' : rows'[d] \in DocumentType
           /\ halfGone' \subseteq 1 .. uploads'
<1> USE DEF TypeInv, TypeOK
<1>0. req[r] \in Request
  OBVIOUS
<1>1. CASE SaveStep1(r)
  <2>1. /\ req[r].courseId \in Courses \cup {NULL}
        /\ req[r].fee \in Fees \cup {NULL}
    BY <1>0, <1>1, RequestShape DEF SaveStep1, Step1Dto
  <2>2. QED
    BY <1>1, <2>1 DEF SaveStep1, Given, Application
<1>2. CASE SaveStep2Or3(r) \/ Submit(r)
  BY <1>2 DEF SaveStep2Or3, Submit, Application
<1>3. CASE DeleteDraft(r)
  BY <1>3 DEF DeleteDraft
<1>4. CASE RemoveObject(r)
  BY <1>4 DEF RemoveObject, Removed
<1>5. CASE DeleteRow(r)
  BY <1>5 DEF DeleteRow
<1>6. CASE PutObject(r)
  BY <1>6 DEF PutObject
<1>7. CASE CreateRow(r)
  <2>1. req[r].type \in DocumentType /\ req[r].upload \in 1 .. uploads
    BY <1>0, <1>7, RequestShape DEF CreateRow, RequestsSound, Naming
  <2>2. QED
    BY <1>7, <2>1 DEF CreateRow
<1>8. CASE Fail(r)
  BY <1>8 DEF Fail, RequestsSound, Naming
<1>9. QED
  BY <1>1, <1>2, <1>3, <1>4, <1>5, <1>6, <1>7, <1>8 DEF Writes

(* Every handler is one of the two.                                        *)
LEMMA HandleReadsOrWrites ==
    ASSUME NEW r \in Requests, Handle(r)
    PROVE  Reads(r) \/ Writes(r)
  BY DEF Handle, Reads, Writes

(* The steps of the model, for the proofs below.                           *)
HandlerStep(r) == (Reads(r) \/ Writes(r)) /\ UNCHANGED catalogue

Overlaps ==
    overlapped' = (overlapped \/ Cardinality({r \in Requests :
                                       req'[r] # Idle}) > 1)

LEMMA NextSteps ==
    ASSUME [Next]_vars
    PROVE  \/ \E r \in Requests : HandlerStep(r) /\ Overlaps
           \/ Create /\ Overlaps /\ UNCHANGED catalogue
           \/ EditCatalogue /\ UNCHANGED <<draft, overlapped>>
           \/ UNCHANGED vars
<1>1. CASE Next
  BY <1>1, HandleReadsOrWrites DEF Next, HandlerStep, Overlaps
<1>2. QED
  BY <1>1

(* Every step keeps the types.                                             *)
LEMMA TypeInvKept == TypeInv /\ [Next]_vars => TypeInv'
<1> SUFFICES ASSUME TypeInv, [Next]_vars PROVE TypeInv'
  OBVIOUS
<1>1. ASSUME NEW r \in Requests, HandlerStep(r), Overlaps PROVE TypeInv'
  <2>1. /\ \E q \in Request : MovesTo(r, q)
        /\ uploads' \in uploads .. MaxUploads
    BY <1>1, ReadsTyped, WritesMove, ReadsOnly
       DEF HandlerStep, TypeInv, TypeOK
  <2>2. PICK q \in Request : MovesTo(r, q)
    BY <2>1
  <2>3. /\ req' \in [Requests -> Request]
        /\ req'[r] = q
        /\ \A s \in Requests \ {r} : req'[s] = req[s]
    BY <2>2, GotoMoves DEF MovesTo, TypeInv, TypeOK
  <2>4. RequestsSound'
    BY <2>1, <2>2, <2>3 DEF MovesTo, RequestsSound, TypeInv, TypeOK
  <2>5. /\ app' \in Application \cup {NULL}
        /\ objects' \subseteq 1 .. uploads'
        /\ DOMAIN rows' \subseteq 1 .. uploads'
        /\ \A d \in DOMAIN rows' : rows'[d] \in DocumentType
        /\ halfGone' \subseteq 1 .. uploads'
    BY <1>1, WritesTyped, ReadsOnly DEF HandlerStep, TypeInv, TypeOK
  <2>6. overlapped' \in BOOLEAN
    BY <1>1 DEF Overlaps, TypeInv, TypeOK
  <2>7. uploads' \in 0 .. MaxUploads
    BY <2>1 DEF TypeInv, TypeOK
  <2>8. CatalogueType'
    BY <1>1 DEF HandlerStep, catalogue, CatalogueType, TypeInv, TypeOK
  <2>9. QED
    BY <2>3, <2>4, <2>5, <2>6, <2>7, <2>8 DEF TypeInv, TypeOK
<1>2. CASE Create /\ Overlaps /\ UNCHANGED catalogue
  <2>1. app' \in Application
    <3>1. \A source \in {"STUDENT", "INITIATOR"}, given \in BOOLEAN :
            NewApplication(source, given) \in Application
      BY DEF NewApplication, Application
    <3>2. QED
      BY <1>2, <3>1 DEF Create
  <2>2. CatalogueType'
    BY <1>2 DEF catalogue, CatalogueType, TypeInv, TypeOK
  <2>3. QED
    BY <1>2, <2>1, <2>2 DEF Create, Overlaps, RequestsSound, TypeInv, TypeOK
<1>3. CASE EditCatalogue /\ UNCHANGED <<draft, overlapped>>
  BY <1>3, CatalogueTyped DEF draft, RequestsSound, TypeInv, TypeOK
<1>4. CASE UNCHANGED vars
  BY <1>4 DEF vars, draft, catalogue, CatalogueType, RequestsSound, TypeInv,
     TypeOK
<1>5. QED
  BY <1>1, <1>2, <1>3, <1>4, NextSteps

(* At first there is nothing but the catalogue.                            *)
LEMMA InitTyped == Init => TypeInv
<1> SUFFICES ASSUME Init PROVE TypeInv
  OBVIOUS
<1>1. CatalogueType
  <2>1. course \in [Courses -> CourseRow \cup {NULL}]
    BY DEF Init, CatalogueInit, CourseRow
  <2>2. /\ college \in [Colleges -> {"absent", "active", "inactive"}]
        /\ edits \in 0 .. MaxEdits
    BY CatalogueAssumption DEF Init, CatalogueInit
  <2>3. \A c \in Courses : course[c] # NULL => course[c].fee \in Fees
    BY <2>1 DEF CourseRow
  <2>4. priced = {<<c, course[c].fee>> : c \in {c \in Courses : course[c] # NULL}}
    BY DEF Init, CatalogueInit
  <2>5. priced \subseteq Courses \X Fees
    BY <2>3, <2>4
  <2>6. QED
    BY <2>1, <2>2, <2>5 DEF CatalogueType
<1>2. req \in [Requests -> Request] /\ RequestsSound
  BY DEF Init, Request, RequestsSound, Naming, Idle
<1>3. /\ DOMAIN rows = {} /\ objects = {} /\ halfGone = {}
      /\ app = NULL /\ uploads = 0 /\ overlapped = FALSE
  BY DEF Init
<1>4. app \in Application \cup {NULL} /\ overlapped \in BOOLEAN
  BY <1>3
<1>5. uploads \in 0 .. MaxUploads
  BY <1>3
<1>6. /\ objects \subseteq 1 .. uploads
      /\ DOMAIN rows \subseteq 1 .. uploads
      /\ \A d \in DOMAIN rows : rows[d] \in DocumentType
      /\ halfGone \subseteq 1 .. uploads
  BY <1>3
<1>7. QED
  BY <1>1, <1>2, <1>4, <1>5, <1>6, Zenon DEF TypeInv, TypeOK

(* The columns, the objects and what requests remember keep their types.   *)
THEOREM DraftTypeCorrect == Spec => []TypeOK
<1>1. TypeInv => TypeOK
  BY DEF TypeInv
<1>2. QED
  BY <1>1, InitTyped, TypeInvKept, PTL DEF Spec

-------------------------------------------------------------------------------
(* The fee.  What is stored came from a request, and a request took it from *)
(* the catalogue as it was then; the history of prices only grows.         *)

PricesKnown ==
    \A c \in Courses : course[c] # NULL => <<c, course[c].fee>> \in priced

StepsPriced ==
    \A r \in Requests : req[r].pc = "step1" =>
        IF req[r].courseId = NULL THEN req[r].fee = NULL
        ELSE <<req[r].courseId, req[r].fee>> \in priced

FeeInv == PricesKnown /\ StepsPriced /\ FeeIsOfTheCourse

(* A price in the history is never forgotten, and a new one is entered.    *)
LEMMA CataloguePriced ==
    ASSUME TypeInv, PricesKnown, EditCatalogue
    PROVE  PricesKnown' /\ priced \subseteq priced'
<1> USE DEF TypeInv, TypeOK, CatalogueType, PricesKnown
<1>1. ASSUME NEW c \in Courses, NEW row \in CourseRow, WriteCourse(c, row)
      PROVE  PricesKnown' /\ priced \subseteq priced'
  BY <1>1 DEF WriteCourse
<1>2. ASSUME NEW c \in Courses, NEW row \in CourseRow, CreateCourse(c, row)
      PROVE  PricesKnown' /\ priced \subseteq priced'
  BY <1>1, <1>2 DEF CreateCourse
<1>3. ASSUME NEW c \in Courses, RemoveCourse(c)
      PROVE  PricesKnown' /\ priced \subseteq priced'
  <2>1. [course[c] EXCEPT !.active = FALSE] \in CourseRow
    BY <1>3 DEF RemoveCourse, CourseRow
  <2>2. QED
    BY <1>1, <1>3, <2>1 DEF RemoveCourse
<1>4. ASSUME NEW k \in Colleges, NEW s, WriteCollege(k, s)
      PROVE  PricesKnown' /\ priced \subseteq priced'
  BY <1>4 DEF WriteCollege
<1>5. QED
  BY <1>1, <1>2, <1>3, <1>4
     DEF EditCatalogue, UpdateCourse, CreateCollege, UpdateCollege,
         RemoveCollege

(* A request reaches the write of step 1 with a price of the course.       *)
LEMMA StepOnePriced ==
    ASSUME TypeInv, PricesKnown, NEW r \in Requests, HandlerStep(r),
           req'[r].pc = "step1"
    PROVE  IF req'[r].courseId = NULL THEN req'[r].fee = NULL
           ELSE <<req'[r].courseId, req'[r].fee>> \in priced
<1>1. req[r] \in Request /\ r \in DOMAIN req
  BY DEF TypeInv, TypeOK
<1>2. CASE ReadStep1(r)
  BY <1>1, <1>2 DEF ReadStep1, Start, Goto
<1>3. CASE ReadCourse(r)
  <2>1. /\ req[r].courseId \in Courses
        /\ course[req[r].courseId] # NULL
    BY <1>3 DEF ReadCourse, Selectable, TypeInv, RequestsSound
  <2>2. req[r] \in [pc : {"course"}, courseId : Step1Dto,
                    fee : Fees \cup {NULL}]
    BY <1>1, <1>3, RequestShape DEF ReadCourse
  <2>3. /\ req'[r].courseId = req[r].courseId
        /\ req'[r].fee = course[req[r].courseId].fee
    BY <1>1, <1>3, <2>2 DEF ReadCourse, Goto
  <2>4. QED
    BY <2>1, <2>3 DEF PricesKnown
<1>4. CASE ~ReadStep1(r) /\ ~ReadCourse(r)
  <2>1. CASE Reads(r)
    BY <1>1, <1>4, <2>1 DEF Reads, ReadStep2Or3, ReadSubmit,
       ReadIdentityDocuments, ReadDeleteDraft, ReadUpload, ReadDelete,
       FindExisting, Start, Goto
  <2>2. CASE RemoveObject(r)
    <3>1. req[r] \in [pc : {"remove"}, upload : Upload,
                      type : DocumentType \cup {NULL}]
      BY <1>1, <2>2, RequestShape DEF RemoveObject
    <3>2. req'[r].pc = "unlink"
      BY <1>1, <2>2, <3>1 DEF RemoveObject, Goto
    <3>3. QED
      BY <3>2
  <2>3. CASE Writes(r) /\ ~RemoveObject(r)
    BY <1>1, <2>3 DEF Writes, SaveStep1, SaveStep2Or3, Submit, DeleteDraft,
       DeleteRow, PutObject, CreateRow, Fail, Return, Goto, Idle
  <2>4. QED
    BY <2>1, <2>2, <2>3 DEF HandlerStep
<1>5. QED
  BY <1>2, <1>3, <1>4

(* No handler stores a fee that is not the course's.                       *)
LEMMA StoredFeePriced ==
    ASSUME TypeInv, FeeInv, NEW r \in Requests, HandlerStep(r)
    PROVE  FeeIsOfTheCourse'
<1> USE DEF FeeInv, FeeIsOfTheCourse
<1>0. priced' = priced /\ priced \subseteq Courses \X Fees
  BY DEF HandlerStep, catalogue, TypeInv, TypeOK, CatalogueType
<1>1. CASE Reads(r)
  BY <1>0, <1>1, ReadsOnly
<1>2. CASE SaveStep1(r)
  <2>1. /\ req[r].courseId = NULL => req[r].fee = NULL
        /\ req[r].courseId # NULL =>
             <<req[r].courseId, req[r].fee>> \in priced /\ req[r].fee # NULL
    BY <1>0, <1>2 DEF SaveStep1, StepsPriced
  <2>2. app \in Application
    BY <1>2 DEF SaveStep1, TypeInv, TypeOK
  <2>3. /\ app'.courseId = Given(req[r].courseId, app.courseId)
        /\ app'.tuitionFee = Given(req[r].fee, app.tuitionFee)
    BY <1>2, <2>2 DEF SaveStep1, Application
  <2>4. QED
    BY <1>0, <1>2, <2>1, <2>3 DEF SaveStep1, Given
<1>3. CASE SaveStep2Or3(r) \/ Submit(r)
  BY <1>0, <1>3 DEF SaveStep2Or3, Submit, Application, TypeInv, TypeOK
<1>4. CASE Writes(r) /\ ~SaveStep1(r) /\ ~SaveStep2Or3(r) /\ ~Submit(r)
  BY <1>0, <1>4 DEF Writes, DeleteDraft, RemoveObject, DeleteRow, PutObject,
     CreateRow, Fail
<1>5. QED
  BY <1>1, <1>2, <1>3, <1>4 DEF HandlerStep

(* Each step keeps the history, the requests and the column in line.       *)
LEMMA FeeInvKept == TypeInv /\ FeeInv /\ [Next]_vars => FeeInv'
<1> SUFFICES ASSUME TypeInv, FeeInv, [Next]_vars PROVE FeeInv'
  OBVIOUS
<1> USE DEF FeeInv
<1>1. ASSUME NEW r \in Requests, HandlerStep(r) PROVE FeeInv'
  <2>1. UNCHANGED <<course, priced>>
    BY <1>1 DEF HandlerStep, catalogue
  <2>2. PICK q \in Request : MovesTo(r, q)
    BY <1>1, ReadsTyped, WritesMove DEF HandlerStep
  <2>3. \A s \in Requests \ {r} : req'[s] = req[s]
    BY <2>2, GotoMoves DEF MovesTo, TypeInv, TypeOK
  <2>4. StepsPriced'
    BY <1>1, <2>1, <2>3, StepOnePriced DEF StepsPriced
  <2>5. QED
    BY <1>1, <2>1, <2>4, StoredFeePriced DEF PricesKnown
<1>2. CASE Create /\ UNCHANGED catalogue
  <2>1. app'.courseId = NULL
    BY <1>2 DEF Create, NewApplication
  <2>2. QED
    BY <1>2, <2>1 DEF Create, catalogue, PricesKnown, StepsPriced,
       FeeIsOfTheCourse
<1>3. CASE EditCatalogue /\ UNCHANGED draft
  <2>1. PricesKnown' /\ priced \subseteq priced'
    BY <1>3, CataloguePriced
  <2>2. StepsPriced'
    BY <1>3, <2>1 DEF draft, StepsPriced
  <2>3. FeeIsOfTheCourse'
    BY <1>3, <2>1 DEF draft, FeeIsOfTheCourse
  <2>4. QED
    BY <2>1, <2>2, <2>3
<1>4. CASE UNCHANGED vars
  BY <1>4 DEF vars, draft, catalogue, PricesKnown, StepsPriced,
     FeeIsOfTheCourse
<1>5. QED
  BY <1>1, <1>2, <1>3, <1>4, NextSteps

(* Whatever steps are saved at once and however often the catalogue is     *)
(* edited between reading a course and writing it, the fee on record is    *)
(* one the course on record has had (saveStep1).                           *)
THEOREM FeeStaysOfTheCourse == Spec => []FeeIsOfTheCourse
<1>1. Init => TypeInv /\ FeeInv
  <2> SUFFICES ASSUME Init PROVE FeeInv
    BY InitTyped
  <2>1. PricesKnown
    BY DEF Init, CatalogueInit, PricesKnown
  <2>2. StepsPriced /\ FeeIsOfTheCourse
    BY DEF Init, Idle, StepsPriced, FeeIsOfTheCourse
  <2>3. QED
    BY <2>1, <2>2 DEF FeeInv
<1>2. FeeInv => FeeIsOfTheCourse
  BY DEF FeeInv
<1>3. QED
  BY <1>1, <1>2, TypeInvKept, FeeInvKept, PTL DEF Spec

-------------------------------------------------------------------------------
(* Rows and objects.  A request that is to create a row has stored an      *)
(* object nobody else knows of, so that nobody removes it meanwhile.       *)

FreshUploads ==
    \A r \in Requests : req[r].pc = "create" =>
      /\ req[r].upload \in objects \ DOMAIN rows
      /\ \A q \in Requests \ {r} :
           req[q].pc \in Naming => req[q].upload # req[r].upload

ObjectInv == FreshUploads /\ RowsHaveObjects

(* A request that starts to remove a document has found its row.           *)
LEMMA ReadsNameRows ==
    ASSUME TypeInv, NEW r \in Requests, Reads(r), req'[r].pc \in Naming
    PROVE  req'[r].pc = "remove" /\ req'[r].upload \in DOMAIN rows
<1>1. r \in DOMAIN req
  BY DEF TypeInv, TypeOK
<1>2. CASE ReadCourse(r)
  <2>1. req[r] \in [pc : {"course"}, courseId : Step1Dto,
                    fee : Fees \cup {NULL}]
    BY <1>2, RequestShape DEF ReadCourse, TypeInv, TypeOK
  <2>2. req'[r].pc = "step1"
    BY <1>1, <1>2, <2>1 DEF ReadCourse, Goto
  <2>3. QED
    BY <2>2 DEF Naming
<1>3. CASE ~ReadCourse(r)
  BY <1>1, <1>3 DEF Reads, ReadStep1, ReadStep2Or3, ReadSubmit,
     ReadIdentityDocuments, ReadDeleteDraft, ReadUpload, ReadDelete,
     FindExisting, Start, Goto, Naming
<1>4. QED
  BY <1>2, <1>3

(* Removing an object takes the request to its row.                        *)
LEMMA RemoveObjectMoves ==
    ASSUME TypeInv, NEW r \in Requests, RemoveObject(r)
    PROVE  /\ req'[r].pc = "unlink" /\ req'[r].upload = req[r].upload
           /\ req'[r].type = req[r].type
<1>1. req[r] \in [pc : {"remove"}, upload : Upload,
                  type : DocumentType \cup {NULL}]
  BY RequestShape DEF RemoveObject, TypeInv, TypeOK
<1>2. QED
  BY <1>1 DEF RemoveObject, Goto, TypeInv, TypeOK

(* What is stored stays unknown until its row is created.                  *)
LEMMA FreshStaysFresh ==
    ASSUME TypeInv, FreshUploads, NEW r \in Requests, HandlerStep(r)
    PROVE  FreshUploads'
<1> USE DEF FreshUploads, Naming
<1>0. PICK p \in Request : MovesTo(r, p)
  BY ReadsTyped, WritesMove DEF HandlerStep
<1>1. /\ req'[r] = p
      /\ \A s \in Requests \ {r} : req'[s] = req[s]
  BY <1>0, GotoMoves DEF MovesTo, TypeInv, TypeOK
<1>2. CASE Reads(r)
  BY <1>1, <1>2, ReadsOnly, ReadsNameRows
<1>3. CASE RemoveObject(r)
  BY <1>1, <1>3, RemoveObjectMoves DEF RemoveObject, Removed
<1>4. CASE DeleteRow(r)
  <2>1. req'[r].pc \notin Naming
    BY <1>4 DEF DeleteRow, Goto, Idle, TypeInv, TypeOK
  <2>2. objects' = objects /\ DOMAIN rows' \subseteq DOMAIN rows
    BY <1>4 DEF DeleteRow
  <2>3. QED
    BY <1>1, <2>1, <2>2
<1>5. CASE PutObject(r)
  <2>1. /\ uploads \in Nat /\ uploads' = uploads + 1
        /\ objects' = objects \cup {uploads'} /\ rows' = rows
    BY <1>5 DEF PutObject, TypeInv, TypeOK
  <2>2. /\ req'[r].upload = uploads'
        /\ req'[r].pc = "create"
    BY <1>5 DEF PutObject, Goto, TypeInv, TypeOK
  <2>3. \A q \in Requests : req[q].pc \in Naming =>
          req[q].upload \in Nat /\ req[q].upload <= uploads
    BY <2>1 DEF TypeInv, RequestsSound
  <2>4. uploads' \notin DOMAIN rows
    BY <2>1 DEF TypeInv, TypeOK
  <2>5. QED
    BY <1>1, <2>1, <2>2, <2>3, <2>4
<1>6. CASE CreateRow(r)
  <2>1. req'[r].pc \notin Naming
    BY <1>6 DEF CreateRow, Return, Goto, Idle, TypeInv, TypeOK
  <2>2. objects' = objects /\ DOMAIN rows' = DOMAIN rows \cup {req[r].upload}
    BY <1>6 DEF CreateRow
  <2>3. req[r].pc \in Naming
    BY <1>6 DEF CreateRow
  <2>4. QED
    BY <1>1, <2>1, <2>2, <2>3
<1>7. CASE SaveStep1(r) \/ SaveStep2Or3(r) \/ Submit(r) \/ DeleteDraft(r)
           \/ Fail(r)
  <2>1. req'[r].pc \notin Naming
    BY <1>7 DEF SaveStep1, SaveStep2Or3, Submit, DeleteDraft, Fail, Return,
       Goto, Idle, TypeInv, TypeOK
  <2>2. objects' = objects /\ (rows' = rows \/ rows' = << >>)
    BY <1>7 DEF SaveStep1, SaveStep2Or3, Submit, DeleteDraft, Fail
  <2>3. QED
    BY <1>1, <2>1, <2>2
<1>8. QED
  BY <1>2, <1>3, <1>4, <1>5, <1>6, <1>7 DEF HandlerStep, Writes

(* A row loses its object only to a request that goes on to remove it, or  *)
(* dies trying.                                                            *)
LEMMA ObjectsStay ==
    ASSUME TypeInv, ObjectInv, NEW r \in Requests, HandlerStep(r)
    PROVE  RowsHaveObjects'
<1> USE DEF ObjectInv, RowsHaveObjects
<1>0. PICK p \in Request : MovesTo(r, p)
  BY ReadsTyped, WritesMove DEF HandlerStep
<1>1. /\ req'[r] = p
      /\ \A s \in Requests \ {r} : req'[s] = req[s]
  BY <1>0, GotoMoves DEF MovesTo, TypeInv, TypeOK
<1>2. CASE Reads(r)
  <2>1. req[r] = Idle \/ req[r].pc \in {"course", "submit", "find"}
    BY <1>2 DEF Reads, ReadStep1, ReadCourse, ReadStep2Or3, ReadSubmit,
       ReadIdentityDocuments, ReadDeleteDraft, ReadUpload, ReadDelete,
       FindExisting, Start
  <2>2. req[r].pc # "unlink"
    BY <2>1 DEF Idle
  <2>3. QED
    BY <1>1, <1>2, <2>2, ReadsOnly
<1>3. CASE RemoveObject(r)
  BY <1>1, <1>3, RemoveObjectMoves DEF RemoveObject, Removed
<1>4. CASE DeleteRow(r)
  BY <1>1, <1>4 DEF DeleteRow
<1>5. CASE PutObject(r)
  BY <1>1, <1>5 DEF PutObject
<1>6. CASE CreateRow(r)
  <2>1. req[r].upload \in objects
    BY <1>6 DEF CreateRow, FreshUploads
  <2>2. QED
    BY <1>1, <1>6, <2>1 DEF CreateRow
<1>7. CASE SaveStep1(r) \/ SaveStep2Or3(r) \/ Submit(r) \/ DeleteDraft(r)
  <2>1. req[r].pc # "unlink"
    BY <1>7 DEF SaveStep1, SaveStep2Or3, Submit, DeleteDraft
  <2>2. UNCHANGED <<objects, halfGone>> /\ (rows' = rows \/ DOMAIN rows' = {})
    BY <1>7 DEF SaveStep1, SaveStep2Or3, Submit, DeleteDraft
  <2>3. QED
    BY <1>1, <2>1, <2>2
<1>8. CASE Fail(r)
  BY <1>1, <1>8 DEF Fail
<1>9. QED
  BY <1>2, <1>3, <1>4, <1>5, <1>6, <1>7, <1>8 DEF HandlerStep, Writes

(* Nothing but a handler touches rows, objects or requests.                *)
LEMMA ObjectInvKept == TypeInv /\ ObjectInv /\ [Next]_vars => ObjectInv'
<1> SUFFICES ASSUME TypeInv, ObjectInv, [Next]_vars PROVE ObjectInv'
  OBVIOUS
<1>1. CASE \E r \in Requests : HandlerStep(r)
  BY <1>1, FreshStaysFresh, ObjectsStay DEF ObjectInv
<1>2. CASE UNCHANGED <<rows, objects, req, halfGone>>
  BY <1>2 DEF ObjectInv, FreshUploads, RowsHaveObjects
<1>3. QED
  BY <1>1, <1>2, NextSteps DEF Create, vars, draft

-------------------------------------------------------------------------------
(* Until requests overlap.  One request is in flight, on a draft, and what *)
(* it has read is still so.                                                *)

OneAtATime ==
    \A q, r \in Requests : req[q] # Idle /\ req[r] # Idle => q = r

SubmitReadLatest ==
    \A r \in Requests :
      /\ req[r].pc = "submit" => req[r].identityType = app.identityType
      /\ req[r].pc = "declared" => IdentityDocumentsComplete(app.identityType)

(* An upload that is not an academic record finds no other document of its *)
(* type, but the one it is about to remove.                                *)
UploadHasRoom ==
    \A r \in Requests :
      /\ req[r].pc = "find" => req[r].type # "ACADEMIC_RECORD"
      /\ req[r].pc \in {"put", "create"} /\ req[r].type # "ACADEMIC_RECORD" =>
           \A d \in DOMAIN rows : rows[d] # req[r].type
      /\ req[r].pc \in {"remove", "unlink"} /\ req[r].type # NULL =>
           \A d \in DOMAIN rows : rows[d] = req[r].type => d = req[r].upload

Alone ==
    /\ OneAtATime
    /\ \A r \in Requests : req[r] # Idle => IsDraft
    /\ SubmitReadLatest
    /\ UploadHasRoom

AloneInv ==
    /\ ~overlapped => Alone
    /\ OneDocumentPerType
    /\ SubmittedHasIdentity

(* Counting to one: fewer than two requests in flight are one at a time.   *)
LEMMA CountedOnce ==
    ASSUME NEW S \in SUBSET Requests, ~(Cardinality(S) > 1),
           NEW q \in S, NEW r \in S
    PROVE  q = r
<1>1. IsFiniteSet(S) /\ Cardinality(S) \in Nat
  BY FS_Subset, FS_CardinalityType
<1>2. IsFiniteSet({q}) /\ Cardinality({q}) = 1
  BY FS_Singleton
<1>3. Cardinality({q}) <= Cardinality(S)
       /\ (Cardinality(S) = Cardinality({q}) => S = {q})
  BY <1>1, FS_Subset
<1>4. QED
  BY <1>1, <1>2, <1>3

LEMMA NoOverlapNow ==
    ASSUME Overlaps, ~overlapped'
    PROVE  ~overlapped /\ OneAtATime'
<1>1. ~overlapped /\ ~(Cardinality({r \in Requests : req'[r] # Idle}) > 1)
  BY DEF Overlaps
<1>2. ASSUME NEW q \in Requests, NEW r \in Requests,
             req'[q] # Idle, req'[r] # Idle
      PROVE  q = r
  BY <1>1, <1>2, CountedOnce
<1>3. QED
  BY <1>1, <1>2 DEF OneAtATime, Idle

(* A request that moves without an overlap is the one in flight, or starts *)
(* when there is none.                                                     *)
LEMMA OthersIdle ==
    ASSUME TypeInv, AloneInv, NEW r \in Requests, HandlerStep(r), Overlaps,
           ~overlapped'
    PROVE  /\ Alone /\ OneAtATime'
           /\ \A s \in Requests \ {r} : req[s] = Idle /\ req'[s] = Idle
           /\ IsDraft
<1>1. ~overlapped /\ OneAtATime'
  BY NoOverlapNow
<1>2. Alone
  BY <1>1 DEF AloneInv
<1>3. PICK p \in Request : MovesTo(r, p)
  BY ReadsTyped, WritesMove DEF HandlerStep
<1>4. /\ req'[r] = p
      /\ \A s \in Requests \ {r} : req'[s] = req[s]
  BY <1>3, GotoMoves DEF MovesTo, TypeInv, TypeOK
<1>5. req[r] # Idle \/ (IsDraft /\ req'[r] # Idle)
  <2>1. CASE ReadStep1(r) \/ ReadStep2Or3(r) \/ ReadSubmit(r)
             \/ ReadDeleteDraft(r) \/ (\E t \in DocumentType : ReadUpload(r, t))
             \/ (\E d \in DOMAIN rows : ReadDelete(r, d))
    BY <2>1 DEF ReadStep1, ReadStep2Or3, ReadSubmit, ReadDeleteDraft,
       ReadUpload, ReadDelete, Start, Goto, Editable, Idle, TypeInv, TypeOK
  <2>2. CASE ReadCourse(r) \/ ReadIdentityDocuments(r) \/ FindExisting(r)
    BY <2>2 DEF ReadCourse, ReadIdentityDocuments, FindExisting, Idle
  <2>3. CASE Writes(r)
    BY <2>3 DEF Writes, SaveStep1, SaveStep2Or3, Submit, DeleteDraft,
       RemoveObject, DeleteRow, PutObject, CreateRow, Fail, Idle
  <2>4. QED
    BY <2>1, <2>2, <2>3 DEF HandlerStep, Reads
<1>6. \A s \in Requests \ {r} : req[s] = Idle
  BY <1>1, <1>2, <1>4, <1>5 DEF Alone, OneAtATime
<1>7. IsDraft
  BY <1>2, <1>5 DEF Alone
<1>8. QED
  BY <1>1, <1>2, <1>4, <1>6, <1>7

(* What a request alone leaves behind, if the others stay idle.            *)
LeftBy(r) ==
    /\ req'[r] # Idle => IsDraft'
    /\ req'[r].pc = "submit" => req'[r].identityType = app'.identityType
    /\ req'[r].pc = "declared" => IdentityDocumentsComplete(app.identityType)'
    /\ req'[r].pc = "find" => req'[r].type # "ACADEMIC_RECORD"
    /\ req'[r].pc \in {"put", "create"} /\ req'[r].type # "ACADEMIC_RECORD" =>
         \A d \in DOMAIN rows' : rows'[d] # req'[r].type
    /\ req'[r].pc \in {"remove", "unlink"} /\ req'[r].type # NULL =>
         \A d \in DOMAIN rows' : rows'[d] = req'[r].type => d = req'[r].upload
    /\ OneDocumentPerType'
    /\ SubmittedHasIdentity'

LEMMA LeftAlone ==
    ASSUME NEW r \in Requests, LeftBy(r), OneAtATime',
           \A s \in Requests \ {r} : req'[s] = Idle
    PROVE  Alone' /\ OneDocumentPerType' /\ SubmittedHasIdentity'
<1>1. \A s \in Requests : req'[s] # Idle => s = r
  OBVIOUS
<1>2. SubmitReadLatest' /\ UploadHasRoom'
  BY <1>1 DEF LeftBy, SubmitReadLatest, UploadHasRoom, Idle
<1>3. QED
  BY <1>1, <1>2 DEF LeftBy, Alone

(* A reading request finds what it remembers.                              *)
LEMMA ReadsLeave ==
    ASSUME TypeInv, Alone, OneDocumentPerType, SubmittedHasIdentity, ~overlapped,
           IsDraft, NEW r \in Requests, Reads(r)
    PROVE  LeftBy(r)
<1>0. /\ UNCHANGED <<app, rows>> /\ req \in [Requests -> Request]
      /\ \A q : Goto(r, q) => req'[r] = q
  BY ReadsOnly DEF TypeInv, TypeOK, Goto
<1>1. IsDraft' /\ OneDocumentPerType' /\ SubmittedHasIdentity'
  BY <1>0 DEF IsDraft, OneDocumentPerType, SubmittedHasIdentity
<1>2. CASE ReadStep1(r) \/ ReadStep2Or3(r) \/ ReadDeleteDraft(r)
  <2>1. req'[r].pc \in {"step1", "course", "form", "deleteDraft"}
    <3>1. CASE ReadStep1(r)
      BY <1>0, <3>1 DEF ReadStep1, Start
    <3>2. CASE ReadStep2Or3(r) \/ ReadDeleteDraft(r)
      BY <1>0, <3>2 DEF ReadStep2Or3, ReadDeleteDraft, Start
    <3>3. QED
      BY <1>2, <3>1, <3>2
  <2>2. QED
    BY <1>1, <2>1 DEF LeftBy
<1>3. CASE ReadCourse(r)
  <2>1. req[r] \in [pc : {"course"}, courseId : Step1Dto,
                    fee : Fees \cup {NULL}]
    BY <1>0, <1>3, RequestShape DEF ReadCourse
  <2>2. req'[r].pc = "step1"
    BY <1>0, <1>3, <2>1 DEF ReadCourse
  <2>3. QED
    BY <1>1, <2>2 DEF LeftBy
<1>4. CASE ReadSubmit(r)
  <2>1. req'[r] = [pc |-> "submit", identityType |-> app.identityType]
    BY <1>0, <1>4 DEF ReadSubmit, Start
  <2>2. QED
    BY <1>0, <1>1, <2>1 DEF LeftBy
<1>5. CASE ReadIdentityDocuments(r)
  <2>1. req'[r].pc = "declared"
    BY <1>0, <1>5 DEF ReadIdentityDocuments
  <2>2. IdentityDocumentsComplete(app.identityType)
    BY <1>5 DEF ReadIdentityDocuments, Alone, SubmitReadLatest
  <2>3. QED
    BY <1>0, <1>1, <2>1, <2>2 DEF LeftBy, IdentityDocumentsComplete
<1>6. ASSUME NEW type \in DocumentType, ReadUpload(r, type) PROVE LeftBy(r)
  <2>1. req'[r] = [pc |-> IF type = "ACADEMIC_RECORD" THEN "put" ELSE "find",
                   type |-> type]
    BY <1>0, <1>6 DEF ReadUpload
  <2>2. QED
    BY <1>1, <2>1 DEF LeftBy
<1>7. ASSUME NEW d \in DOMAIN rows, ReadDelete(r, d) PROVE LeftBy(r)
  <2>1. req'[r] = [pc |-> "remove", upload |-> d, type |-> NULL]
    BY <1>0, <1>7 DEF ReadDelete
  <2>2. QED
    BY <1>1, <2>1 DEF LeftBy
<1>8. CASE FindExisting(r)
  <2>1. req[r].type # "ACADEMIC_RECORD"
    BY <1>8 DEF FindExisting, Alone, UploadHasRoom
  <2>2. CASE \A d \in DOMAIN rows : rows[d] # req[r].type
    <3>1. req'[r] = [pc |-> "put", type |-> req[r].type]
      BY <1>0, <1>8, <2>2 DEF FindExisting
    <3>2. QED
      BY <1>0, <1>1, <2>2, <3>1 DEF LeftBy
  <2>3. CASE \E d \in DOMAIN rows : rows[d] = req[r].type
    <3>1. PICK d \in DOMAIN rows :
            /\ rows[d] = req[r].type
            /\ req'[r] = [pc |-> "remove", upload |-> d, type |-> req[r].type]
      BY <1>0, <1>8, <2>3 DEF FindExisting
    <3>2. \A e \in DOMAIN rows : rows[e] = req[r].type => e = d
      BY <2>1, <3>1 DEF OneDocumentPerType
    <3>3. QED
      BY <1>0, <1>1, <3>1, <3>2 DEF LeftBy
  <2>4. QED
    BY <2>2, <2>3
<1>9. QED
  BY <1>2, <1>3, <1>4, <1>5, <1>6, <1>7, <1>8 DEF Reads

(* A writing request makes room before it uses it, and submits what it     *)
(* has checked.                                                            *)
LEMMA WritesLeave ==
    ASSUME TypeInv, Alone, OneDocumentPerType, SubmittedHasIdentity, ~overlapped,
           IsDraft, NEW r \in Requests, Writes(r)
    PROVE  LeftBy(r)
<1>0. /\ app \in Application /\ app.status = "DRAFT"
      /\ req \in [Requests -> Request]
      /\ \A q : Goto(r, q) => req'[r] = q
  BY DEF TypeInv, TypeOK, IsDraft, Goto
<1>1. CASE SaveStep1(r) \/ SaveStep2Or3(r)
  <2>1. rows' = rows /\ app'.status = "DRAFT" /\ req'[r] = Idle
    BY <1>0, <1>1 DEF SaveStep1, SaveStep2Or3, Return, Application
  <2>2. QED
    BY <2>1 DEF LeftBy, Idle, OneDocumentPerType, SubmittedHasIdentity
<1>2. CASE Submit(r)
  <2>1. /\ rows' = rows /\ req'[r] = Idle
        /\ app'.identityType = app.identityType
    BY <1>0, <1>2 DEF Submit, Return, Application
  <2>2. IdentityDocumentsComplete(app.identityType)
    BY <1>2 DEF Submit, Alone, SubmitReadLatest
  <2>3. QED
    BY <2>1, <2>2 DEF LeftBy, Idle, OneDocumentPerType, SubmittedHasIdentity,
       IdentityDocumentsComplete
<1>3. CASE DeleteDraft(r)
  <2>1. app' = NULL /\ DOMAIN rows' = {} /\ req'[r] = Idle
    BY <1>0, <1>3 DEF DeleteDraft, Return
  <2>2. QED
    BY <2>1 DEF LeftBy, Idle, OneDocumentPerType, SubmittedHasIdentity
<1>4. CASE RemoveObject(r)
  <2>1. /\ req'[r].pc = "unlink" /\ req'[r].type = req[r].type
        /\ req'[r].upload = req[r].upload
    BY <1>4, RemoveObjectMoves
  <2>2. UNCHANGED <<app, rows>>
    BY <1>4 DEF RemoveObject
  <2>3. req[r].pc = "remove"
    BY <1>4 DEF RemoveObject
  <2>4. QED
    BY <1>0, <2>1, <2>2, <2>3 DEF LeftBy, IsDraft, Alone, UploadHasRoom,
       OneDocumentPerType, SubmittedHasIdentity
<1>5. CASE DeleteRow(r)
  <2>1. /\ app' = app
        /\ DOMAIN rows' = DOMAIN rows \ {req[r].upload}
        /\ \A d \in DOMAIN rows' : rows'[d] = rows[d]
        /\ req'[r] = IF req[r].type = NULL THEN Idle
                     ELSE [pc |-> "put", type |-> req[r].type]
    BY <1>0, <1>5 DEF DeleteRow
  <2>2. req[r].pc = "unlink"
    BY <1>5 DEF DeleteRow
  <2>3. req[r].type # NULL =>
          \A d \in DOMAIN rows' : rows'[d] # req[r].type
    BY <2>1, <2>2 DEF Alone, UploadHasRoom
  <2>4. OneDocumentPerType' /\ SubmittedHasIdentity' /\ IsDraft'
    BY <1>0, <2>1 DEF OneDocumentPerType, SubmittedHasIdentity, IsDraft
  <2>5. QED
    BY <2>1, <2>3, <2>4 DEF LeftBy, Idle
<1>6. CASE PutObject(r)
  <2>1. /\ req[r].pc = "put" /\ UNCHANGED <<app, rows>>
        /\ req'[r] = [pc |-> "create", type |-> req[r].type,
                      upload |-> uploads']
    BY <1>0, <1>6 DEF PutObject
  <2>2. QED
    BY <1>0, <2>1 DEF LeftBy, IsDraft, Alone, UploadHasRoom,
       OneDocumentPerType, SubmittedHasIdentity
<1>7. CASE CreateRow(r)
  <2>1. /\ req[r].pc = "create" /\ app' = app /\ req'[r] = Idle
        /\ DOMAIN rows' = DOMAIN rows \cup {req[r].upload}
        /\ \A d \in DOMAIN rows' :
             rows'[d] = IF d = req[r].upload THEN req[r].type ELSE rows[d]
    BY <1>0, <1>7 DEF CreateRow, Return
  <2>2. OneDocumentPerType'
    BY <2>1 DEF Alone, UploadHasRoom, OneDocumentPerType
  <2>3. QED
    BY <1>0, <2>1, <2>2 DEF LeftBy, Idle, SubmittedHasIdentity
<1>8. CASE Fail(r)
  <2>1. UNCHANGED <<app, rows>> /\ req'[r] = Idle
    BY <1>0, <1>8 DEF Fail, Return
  <2>2. QED
    BY <1>0, <2>1 DEF LeftBy, Idle, OneDocumentPerType, SubmittedHasIdentity
<1>9. QED
  BY <1>1, <1>2, <1>3, <1>4, <1>5, <1>6, <1>7, <1>8 DEF Writes

(* Every step keeps what holds until requests overlap.                     *)
LEMMA AloneInvKept == TypeInv /\ AloneInv /\ [Next]_vars => AloneInv'
<1> SUFFICES ASSUME TypeInv, AloneInv, [Next]_vars PROVE AloneInv'
  OBVIOUS
<1>1. CASE overlapped'
  BY <1>1 DEF AloneInv, OneDocumentPerType, SubmittedHasIdentity
<1>2. ASSUME ~overlapped', NEW r \in Requests, HandlerStep(r), Overlaps
      PROVE  AloneInv'
  <2>1. /\ Alone /\ OneAtATime' /\ IsDraft /\ ~overlapped
        /\ \A s \in Requests \ {r} : req[s] = Idle /\ req'[s] = Idle
    BY <1>2, OthersIdle, NoOverlapNow
  <2>2. LeftBy(r)
    BY <1>2, <2>1, ReadsLeave, WritesLeave DEF HandlerStep, AloneInv
  <2>3. QED
    BY <2>1, <2>2, LeftAlone DEF AloneInv
<1>3. CASE ~overlapped' /\ Create /\ Overlaps
  <2>1. ~overlapped /\ Alone
    BY <1>3, NoOverlapNow DEF AloneInv
  <2>2. app = NULL /\ UNCHANGED <<rows, req>> /\ app'.status = "DRAFT"
    BY <1>3 DEF Create, NewApplication
  <2>3. \A r \in Requests : req[r] = Idle
    BY <2>1, <2>2 DEF Alone, IsDraft
  <2>4. Alone'
    BY <2>2, <2>3 DEF Alone, OneAtATime, SubmitReadLatest, UploadHasRoom, Idle
  <2>5. OneDocumentPerType' /\ SubmittedHasIdentity'
    BY <2>1, <2>2 DEF AloneInv, OneDocumentPerType, SubmittedHasIdentity
  <2>6. QED
    BY <2>4, <2>5 DEF AloneInv
<1>4. CASE UNCHANGED <<draft, overlapped>>
  BY <1>4 DEF draft, AloneInv, Alone, OneAtATime, IsDraft, SubmitReadLatest,
     UploadHasRoom, IdentityDocumentsComplete, OneDocumentPerType,
     SubmittedHasIdentity
<1>5. QED
  BY <1>1, <1>2, <1>3, <1>4, NextSteps DEF vars

(* A listed document can be opened, whatever replacements, deletions and   *)
(* deaths of the process interleave; and until requests overlap a type has *)
(* one document, and an application submitted with an identity type keeps  *)
(* the document submit() asked for.                                        *)
THEOREM DocumentsStaySound == Spec => []DocumentsSound
<1>1. Init => ObjectInv /\ AloneInv
  <2> SUFFICES ASSUME Init PROVE ObjectInv /\ AloneInv
    OBVIOUS
  <2>1. /\ \A r \in Requests : req[r] = Idle
        /\ app = NULL /\ DOMAIN rows = {}
    BY DEF Init
  <2>2. ObjectInv
    BY <2>1 DEF ObjectInv, FreshUploads, RowsHaveObjects, Idle
  <2>3. AloneInv
    BY <2>1 DEF AloneInv, Alone, OneAtATime, SubmitReadLatest, UploadHasRoom,
       OneDocumentPerType, SubmittedHasIdentity, Idle
  <2>4. QED
    BY <2>2, <2>3
<1>2. ObjectInv /\ AloneInv => DocumentsSound
  BY DEF ObjectInv, AloneInv, DocumentsSound
<1>3. QED
  BY <1>1, <1>2, InitTyped, TypeInvKept, ObjectInvKept, AloneInvKept, PTL
     DEF Spec

(* Until requests overlap, no handler gets past the check for a draft: what *)
(* was submitted, and its documents, stay as they are (IsDraft).           *)
THEOREM SubmittedStaysFrozen == Spec => SubmittedIsFrozen
<1>1. Init => AloneInv
  BY DEF Init, AloneInv, Alone, OneAtATime, SubmitReadLatest, UploadHasRoom,
     OneDocumentPerType, SubmittedHasIdentity, Idle
<1>2. TypeInv /\ AloneInv /\ [Next]_vars
        => ((app # NULL /\ ~overlapped') =>
              (app.status = "SUBMITTED" => UNCHANGED <<app, rows>>))
  <2> SUFFICES ASSUME TypeInv, AloneInv, [Next]_vars, app # NULL, ~overlapped',
                      app.status = "SUBMITTED"
               PROVE  UNCHANGED <<app, rows>>
    OBVIOUS
  <2>1. ASSUME NEW r \in Requests, HandlerStep(r), Overlaps PROVE FALSE
    BY <2>1, OthersIdle DEF IsDraft
  <2>2. CASE UNCHANGED draft
    BY <2>2 DEF draft
  <2>3. QED
    BY <2>1, <2>2, NextSteps DEF Create, vars
<1>3. QED
  BY <1>1, <1>2, InitTyped, TypeInvKept, AloneInvKept, PTL
     DEF Spec, SubmittedIsFrozen

===============================================================================
