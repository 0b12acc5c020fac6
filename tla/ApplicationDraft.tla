--------------------------- MODULE ApplicationDraft ---------------------------
(***************************************************************************)
(* One application until it is submitted (applications/applications.       *)
(* service.ts), its documents (documents/documents.service.ts) and the     *)
(* bucket objects they name (storage/storage.service.ts).                  *)
(*                                                                         *)
(* Every handler first reads the application and refuses one that is not a *)
(* draft, awaits, and writes without looking again.  A document is a row   *)
(* and an object, written and removed by separate calls, and an upload     *)
(* removes the document it replaces before it stores the new one.  Rows    *)
(* and objects are numbered by the upload that made them.  deleteFile()    *)
(* swallows the provider's error, so a removal may leave the object.       *)
(***************************************************************************)
EXTENDS Catalogue

CONSTANTS DocumentType,     \* the document types of the instance
          Requests,         \* the HTTP requests that may be in flight at once
          MaxUploads        \* bound: objects ever stored

ASSUME DraftAssumption == IsFiniteSet(Requests) /\ MaxUploads \in Nat

IdentityDocumentTypes == {"IDENTITY_FRONT", "IDENTITY_BACK",
                          "IDENTITY_DOCUMENT"}
Upload == 1 .. MaxUploads

VARIABLES
    app,        \* the LoanApplication and its StudyInformation; NULL: no row
    rows,       \* the Document rows: upload -> document type
    objects,    \* the objects in the bucket
    uploads,    \* how many objects were ever stored
    req,        \* per request: where it is and what it remembers
    halfGone,   \* history: uploads a request died removing
    overlapped  \* history: two requests have been in flight at once

draft == <<app, rows, objects, uploads, req, halfGone>>
vars == <<draft, overlapped, catalogue>>

Application ==
    [status : {"DRAFT", "SUBMITTED"}, source : {"STUDENT", "INITIATOR"},
     identityType : BOOLEAN,
     courseId : Courses \cup {NULL}, tuitionFee : Fees \cup {NULL}]

Idle == [pc |-> "idle"]
(* What step 1 sends, of which the course matters here.                    *)
Step1Dto == Courses \cup {NULL}
Request ==
    {Idle}
    \cup [pc : {"course", "step1"}, courseId : Step1Dto,
          fee : Fees \cup {NULL}]
    \cup [pc : {"form", "declared", "deleteDraft"}]
    \cup [pc : {"submit"}, identityType : BOOLEAN]
    \cup [pc : {"find", "put"}, type : DocumentType]
    \cup [pc : {"create"}, type : DocumentType, upload : Upload]
    \cup [pc : {"remove", "unlink"}, upload : Upload,
          type : DocumentType \cup {NULL}]

NewApplication(source, identityType) ==
    [status |-> "DRAFT", source |-> source, identityType |-> identityType,
     courseId |-> NULL, tuitionFee |-> NULL]

Init ==
    /\ CatalogueInit
    /\ app = NULL
    /\ rows = << >>
    /\ objects = {}
    /\ uploads = 0
    /\ req = [r \in Requests |-> Idle]
    /\ halfGone = {}
    /\ overlapped = FALSE

Goto(r, next) == req' = [req EXCEPT ![r] = next]
Return(r) == Goto(r, Idle)

-------------------------------------------------------------------------------
(* create() makes the student's empty draft; createComplete() makes one    *)
(* with its steps filled, which belongs to no student.                 *)
Create ==
    /\ app = NULL /\ uploads = 0
    /\ \/ app' = NewApplication("STUDENT", FALSE)
       \/ \E given \in BOOLEAN :
            app' = NewApplication("INITIATOR", given)
    /\ UNCHANGED <<rows, objects, uploads, req, halfGone>>

IsDraft == app # NULL /\ app.status = "DRAFT"

(* Mutant: the steps forget to ask for a draft.                            *)
OwnedByStudent == app # NULL /\ app.source = "STUDENT"

(* assertEditableByUser(): the student's own draft.                        *)
Editable == IsDraft /\ app.source = "STUDENT"

Start(r, next) ==
    /\ req[r] = Idle
    /\ Editable
    /\ Goto(r, next)
    /\ UNCHANGED <<app, rows, objects, uploads, halfGone>>

(* The form may name a course of the marketplace.                          *)
ReadStep1(r) ==
    \E c \in Step1Dto :
      Start(r, [pc |-> IF c = NULL THEN "step1" ELSE "course",
                courseId |-> c, fee |-> NULL])

(* The catalogue's word replaces the client's: the fee is today's.  A      *)
(* college in the form that does not teach the course refuses the request. *)
ReadCourse(r) ==
    /\ req[r].pc = "course"
    /\ Selectable(req[r].courseId)
    /\ Goto(r, [req[r] EXCEPT !.pc = "step1",
                              !.fee = course[req[r].courseId].fee])
    /\ UNCHANGED <<app, rows, objects, uploads, halfGone>>

(* A field the request leaves undefined keeps its column.                  *)
Given(value, column) == IF value = NULL THEN column ELSE value

(* Mutant: the fee is taken with the first course only.                    *)
SaveStep1KeepingFee(r) ==
    /\ req[r].pc = "step1"
    /\ app # NULL
    /\ app' = [app EXCEPT !.courseId = Given(req[r].courseId, @),
                          !.tuitionFee = Given(@, req[r].fee)]
    /\ Return(r)
    /\ UNCHANGED <<rows, objects, uploads, halfGone>>

(* One transaction writes the application, its study and its loan rows.    *)
SaveStep1(r) ==
    /\ req[r].pc = "step1"
    /\ app # NULL
    /\ app' = [app EXCEPT !.courseId = Given(req[r].courseId, @),
                          !.tuitionFee = Given(req[r].fee, @)]
    /\ Return(r)
    /\ UNCHANGED <<rows, objects, uploads, halfGone>>

ReadStep2Or3(r) == Start(r, [pc |-> "form"])

(* Steps 2 and 3 write columns of the form.  Only step 2 may give the type *)
(* of the identity document; the other columns are text.                   *)
SaveStep2Or3(r) ==
    /\ req[r].pc = "form"
    /\ app # NULL
    /\ \E given \in BOOLEAN :
         app' = [app EXCEPT !.identityType = @ \/ given]
    /\ Return(r)
    /\ UNCHANGED <<rows, objects, uploads, halfGone>>

-------------------------------------------------------------------------------
(* submit(): the draft, then its identity documents, then the write.       *)

ReadSubmit(r) ==
    /\ Editable
    /\ Start(r, [pc |-> "submit", identityType |-> app.identityType])

(* One of the three, whichever, if an identity type was given.             *)
IdentityDocumentsComplete(identityType) ==
    identityType => \E d \in DOMAIN rows : rows[d] \in IdentityDocumentTypes

(* The type is the one of the application as submit() read it.             *)
ReadIdentityDocuments(r) ==
    /\ req[r].pc = "submit"
    /\ IdentityDocumentsComplete(req[r].identityType)
    /\ Goto(r, [pc |-> "declared"])
    /\ UNCHANGED <<app, rows, objects, uploads, halfGone>>

Submit(r) ==
    /\ req[r].pc = "declared"
    /\ app # NULL
    /\ app' = [app EXCEPT !.status = "SUBMITTED"]
    /\ Return(r)
    /\ UNCHANGED <<rows, objects, uploads, halfGone>>

ReadDeleteDraft(r) == Start(r, [pc |-> "deleteDraft"])

(* The rows of the documents go with the application; the objects stay.    *)
DeleteDraft(r) ==
    /\ req[r].pc = "deleteDraft"
    /\ app # NULL
    /\ app' = NULL
    /\ rows' = << >>
    /\ Return(r)
    /\ UNCHANGED <<objects, uploads, halfGone>>

-------------------------------------------------------------------------------
(* uploadDocument() and deleteDocument(), the student's or the Initiator's. *)

(* Academic records are kept side by side; any other type is replaced.     *)
ReadUpload(r, type) ==
    /\ req[r] = Idle
    /\ IsDraft
    /\ Goto(r, [pc |-> IF type = "ACADEMIC_RECORD" THEN "put" ELSE "find",
                type |-> type])
    /\ UNCHANGED <<app, rows, objects, uploads, halfGone>>

FindExisting(r) ==
    LET type == req[r].type
        existing == {d \in DOMAIN rows : rows[d] = type}
    IN /\ req[r].pc = "find"
       /\ IF existing = {}
            THEN Goto(r, [pc |-> "put", type |-> type])
            ELSE \E d \in existing :
                   Goto(r, [pc |-> "remove", upload |-> d, type |-> type])
       /\ UNCHANGED <<app, rows, objects, uploads, halfGone>>

ReadDelete(r, d) ==
    /\ req[r] = Idle
    /\ IsDraft
    /\ d \in DOMAIN rows
    /\ Goto(r, [pc |-> "remove", upload |-> d, type |-> NULL])
    /\ UNCHANGED <<app, rows, objects, uploads, halfGone>>

Removed(d) == objects' \in {objects, objects \ {d}}

(* Mutant: an upload overwrites the object and forgets the old row.        *)
RemoveWithoutRow(r) ==
    /\ req[r].pc = "remove"
    /\ Removed(req[r].upload)
    /\ Goto(r, IF req[r].type = NULL THEN Idle
               ELSE [pc |-> "put", type |-> req[r].type])
    /\ UNCHANGED <<app, rows, uploads, halfGone>>

(* deleteFile() returns whether or not the provider removed the object.    *)
RemoveObject(r) ==
    /\ req[r].pc = "remove"
    /\ Removed(req[r].upload)
    /\ Goto(r, [req[r] EXCEPT !.pc = "unlink"])
    /\ UNCHANGED <<app, rows, uploads, halfGone>>

(* Mutant: a deletion goes on like a replacement.                          *)
DeleteRowAndReplace(r) ==
    LET d == req[r].upload
    IN /\ req[r].pc = "unlink"
       /\ d \in DOMAIN rows
       /\ rows' = [e \in DOMAIN rows \ {d} |-> rows[e]]
       /\ Goto(r, [pc |-> "put", type |-> req[r].type])
       /\ UNCHANGED <<app, objects, uploads, halfGone>>

(* Deleting a row that is gone is an error, which ends the request.        *)
DeleteRow(r) ==
    LET d == req[r].upload
    IN /\ req[r].pc = "unlink"
       /\ d \in DOMAIN rows
       /\ rows' = [e \in DOMAIN rows \ {d} |-> rows[e]]
       /\ Goto(r, IF req[r].type = NULL THEN Idle
                  ELSE [pc |-> "put", type |-> req[r].type])
       /\ UNCHANGED <<app, objects, uploads, halfGone>>

(* uploadFile() refuses a wrong type or size only now: see Fail.           *)
PutObject(r) ==
    /\ req[r].pc = "put"
    /\ uploads < MaxUploads
    /\ uploads' = uploads + 1
    /\ objects' = objects \cup {uploads'}
    /\ Goto(r, [pc |-> "create", type |-> req[r].type, upload |-> uploads'])
    /\ UNCHANGED <<app, rows, halfGone>>

CreateRow(r) ==
    LET d == req[r].upload
    IN /\ req[r].pc = "create"
       /\ app # NULL
       /\ rows' = [e \in DOMAIN rows \cup {d} |->
                     IF e = d THEN req[r].type ELSE rows[e]]
       /\ Return(r)
       /\ UNCHANGED <<app, objects, uploads, halfGone>>

(* The request answers an error, or the process dies: whatever was written *)
(* stays, and a document may be left without its object, or the reverse.   *)
Fail(r) ==
    /\ req[r] # Idle
    /\ halfGone' = IF req[r].pc = "unlink" THEN halfGone \cup {req[r].upload}
                   ELSE halfGone
    /\ Return(r)
    /\ UNCHANGED <<app, rows, objects, uploads>>

Handle(r) ==
    \/ ReadStep1(r) \/ ReadCourse(r) \/ SaveStep1(r)
    \/ ReadStep2Or3(r) \/ SaveStep2Or3(r)
    \/ ReadSubmit(r) \/ ReadIdentityDocuments(r) \/ Submit(r)
    \/ ReadDeleteDraft(r) \/ DeleteDraft(r)
    \/ \E type \in DocumentType : ReadUpload(r, type)
    \/ \E d \in DOMAIN rows : ReadDelete(r, d)
    \/ FindExisting(r) \/ RemoveObject(r) \/ DeleteRow(r)
    \/ PutObject(r) \/ CreateRow(r) \/ Fail(r)

Next ==
    \/ /\ \/ Create
          \/ \E r \in Requests : Handle(r)
       /\ overlapped' = (overlapped \/ Cardinality({r \in Requests :
                                             req'[r] # Idle}) > 1)
       /\ UNCHANGED catalogue
    \/ EditCatalogue /\ UNCHANGED <<draft, overlapped>>

Spec == Init /\ [][Next]_vars

-------------------------------------------------------------------------------
(* Every row, object and request has the shape the code gives it, and the  *)
(* objects and documents are among those uploaded.                         *)
TypeOK ==
    /\ CatalogueType
    /\ app \in Application \cup {NULL}
    /\ uploads \in 0 .. MaxUploads
    /\ objects \subseteq 1 .. uploads
    /\ DOMAIN rows \subseteq 1 .. uploads
    /\ \A d \in DOMAIN rows : rows[d] \in DocumentType
    /\ req \in [Requests -> Request]
    /\ halfGone \subseteq 1 .. uploads
    /\ overlapped \in BOOLEAN

(* A document that can be listed can be opened: its object is in the       *)
(* bucket, unless a request is between removing the object and the row, or *)
(* died there.  No race of replacements and deletions leaves a row behind. *)
RowsHaveObjects ==
    \A d \in DOMAIN rows :
      \/ d \in objects \cup halfGone
      \/ \E r \in Requests : req[r].pc = "unlink" /\ req[r].upload = d

(* Until requests overlap, uploading a type again leaves one document of   *)
(* that type, whatever failed before; academic records are exempt.         *)
OneDocumentPerType ==
    ~overlapped =>
      \A d, e \in DOMAIN rows :
        rows[d] = rows[e] /\ rows[d] # "ACADEMIC_RECORD" => d = e

(* Until requests overlap, an application that was submitted with an       *)
(* identity type still has the identity document that submit() asked for.  *)
SubmittedHasIdentity ==
    ~overlapped /\ app # NULL =>
      (app.status = "SUBMITTED" /\ app.identityType =>
         \E d \in DOMAIN rows : rows[d] \in IdentityDocumentTypes)

(* What documents promise, in the bucket, in the table and of a submitted  *)
(* application (the three above).                                          *)
DocumentsSound ==
    RowsHaveObjects /\ OneDocumentPerType /\ SubmittedHasIdentity

(* The stored fee is one the stored course has had: a step saved without a *)
(* course, two steps saved at once and a change of price never mix the fee *)
(* of one course with the link to another.                                 *)
FeeIsOfTheCourse ==
    app # NULL /\ app.courseId # NULL => <<app.courseId, app.tuitionFee>> \in priced

(* Until requests overlap, nothing of a submitted application changes: no  *)
(* step, document or deletion gets past the check for a draft.             *)
SubmittedIsFrozen ==
    [][(app # NULL /\ ~overlapped') =>
         (app.status = "SUBMITTED" => UNCHANGED <<app, rows>>)]_vars

===============================================================================
