----------------------------- MODULE StudentConsent ----------------------------
(***************************************************************************)
(* The Approver's terms and the student's consent to them                  *)
(* (sendStudentConsent in dashboard/approval/dashboard-approval.service.ts,*)
(* getMyConsent and acceptMyConsent in                                     *)
(* applications/applications.service.ts).                                  *)
(*                                                                         *)
(* One row per application holds the terms and whether the student has     *)
(* consented.  Sending terms, again or anew, overwrites both; consenting   *)
(* names the application, and not the terms that were read.                *)
(***************************************************************************)
EXTENDS HttpServer

CONSTANT TermsText      \* the texts an Approver may send

(* A row of student_consents: the text, and whether consentedAt is set.    *)
ConsentRow == [terms : TermsText, consented : BOOLEAN]

ASSUME TermsTextAssumption == NULL \notin TermsText /\ NULL \notin ConsentRow

VARIABLES
    consent,        \* the StudentConsent row, NULL: none
    termsShown,     \* the terms on the student's open page, NULL: none
    consenting,     \* what each request remembers between its statements
    agreedTo,       \* history: the terms shown when the student last agreed
    stalePage,      \* history: those were no longer the terms of the row
    informed,       \* history: the student was told since terms were last sent
    silent          \* history: since then a request died before telling him

studentConsent ==
    <<consent, termsShown, consenting, agreedTo, stalePage, informed, silent>>

NotConsenting == [pc |-> "idle"]

ConsentInit ==
    /\ consent = NULL
    /\ termsShown = NULL
    /\ consenting = [r \in Requests |-> NotConsenting]
    /\ agreedTo = NULL
    /\ stalePage = FALSE
    /\ informed = FALSE
    /\ silent = FALSE

-------------------------------------------------------------------------------
(* Mutant: sending terms again keeps the consent there was.                *)
KeepConsent(text) ==
    [terms |-> text, consented |-> consent # NULL /\ consent.consented]

(* The upsert: a consent there was is taken back.                          *)
UpsertConsent(text) == [terms |-> text, consented |-> FALSE]

SendStudentConsent(r, text) ==
    /\ consenting[r] = NotConsenting
    /\ consent' = UpsertConsent(text)
    /\ consenting' =
          [consenting EXCEPT ![r] = [pc |-> "notify", terms |-> text]]
    /\ informed' = FALSE
    /\ silent' = FALSE
    /\ UNCHANGED <<termsShown, agreedTo, stalePage>>

(* The message names the application and not the terms.                    *)
NotifyStudentConsentRequested(r) ==
    /\ consenting[r].pc = "notify"
    /\ consenting' = [consenting EXCEPT ![r] = NotConsenting]
    /\ informed' = TRUE
    /\ UNCHANGED <<consent, termsShown, agreedTo, stalePage, silent>>

(* The student opens the application, or reloads it.                       *)
GetMyConsent ==
    /\ consent # NULL
    /\ termsShown' = consent.terms
    /\ UNCHANGED <<consent, consenting, agreedTo, stalePage, informed, silent>>

(* The row is looked for, and then updated by its application's id.        *)
ReadAcceptMyConsent(r) ==
    /\ consenting[r] = NotConsenting
    /\ consent # NULL
    /\ termsShown # NULL
    /\ consenting' =
          [consenting EXCEPT ![r] = [pc |-> "accept", terms |-> termsShown]]
    /\ UNCHANGED <<consent, termsShown, agreedTo, stalePage, informed, silent>>

AcceptMyConsent(r) ==
    /\ consenting[r].pc = "accept"
    /\ consent' = [consent EXCEPT !.consented = TRUE]
    /\ agreedTo' = consenting[r].terms
    /\ stalePage' = (consenting[r].terms # consent.terms)
    /\ consenting' = [consenting EXCEPT ![r] = NotConsenting]
    /\ UNCHANGED <<termsShown, informed, silent>>

(* A statement rejects, or the process dies between two of them.           *)
LoseConsentRequest(r) ==
    /\ consenting[r] # NotConsenting
    /\ silent' = (silent \/ consenting[r].pc = "notify")
    /\ consenting' = [consenting EXCEPT ![r] = NotConsenting]
    /\ UNCHANGED <<consent, termsShown, agreedTo, stalePage, informed>>

ConsentNext ==
    \/ GetMyConsent
    \/ \E r \in Requests :
          \/ \E text \in TermsText : SendStudentConsent(r, text)
          \/ NotifyStudentConsentRequested(r)
          \/ ReadAcceptMyConsent(r) \/ AcceptMyConsent(r)
          \/ LoseConsentRequest(r)

ConsentSpec == ConsentInit /\ [][ConsentNext]_studentConsent

-------------------------------------------------------------------------------
(* Properties.                                                             *)

ConsentTypeOK ==
    /\ consent \in ConsentRow \cup {NULL}
    /\ {termsShown, agreedTo} \subseteq TermsText \cup {NULL}
    /\ consenting \in [Requests ->
          {NotConsenting} \cup [pc : {"notify", "accept"}, terms : TermsText]]
    /\ {stalePage, informed, silent} \subseteq BOOLEAN

(* A consent on record is to the terms on record, however often they were  *)
(* sent and whatever ran in between, unless the student agreed from a page *)
(* that was out of date ("A freshly (re)sent consent must be re-accepted", *)
(* sendStudentConsent).                                                    *)
ConsentIsToTheTerms ==
    ~stalePage /\ consent # NULL /\ consent.consented
        => agreedTo = consent.terms

(* Of terms that were sent the student has been told, or is about to be,   *)
(* unless a request died in between (sendStudentConsent).                  *)
TermsAreAnnounced ==
    consent # NULL =>
        informed \/ silent \/ \E r \in Requests : consenting[r].pc = "notify"

(* What a consent on record means (the two above).                         *)
ConsentSound == ConsentIsToTheTerms /\ TermsAreAnnounced

===============================================================================
