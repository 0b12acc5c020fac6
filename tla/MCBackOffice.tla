------------------------------ MODULE MCBackOffice ------------------------------
(***************************************************************************)
(* An instance of the back office for TLC: components that share neither   *)
(* state nor constants but the requests, side by side.  They never act on  *)
(* one another, so each behaviour belongs to one component, and the others *)
(* stand still.                                                            *)
(***************************************************************************)
EXTENDS InitiatorSection, Appraisal, Permissions, Accounts, Notifications,
        Amortization, StudentConsent, MCLoanServicing, MCCollections, TLC

CONSTANTS staff, page, key1,    \* one role, with one item and one key by default
          s1, u1, u2            \* the student and two of the staff

VARIABLE part   \* the component this behaviour belongs to

Parts == {"initiator", "appraisal", "permissions", "accounts", "notifications",
          "amortization", "servicing", "collections", "consent"}

-------------------------------------------------------------------------------
(* Values of the constants.                                                *)

(* A limit between two bands and one beyond any college's; years of        *)
(* operation within a band and below nothing: the engine takes any whole   *)
(* number.                                                                 *)
MCSamples == [creditLimit |-> {Hundredths(999999) + 50, Hundredths(20000000)},
              operationOfInstitution |-> {Hundredths(10), Hundredths(-7)}]

MCDefaultMenu == staff :> {page}
MCDefaultKeys == staff :> {key1}

(* A user may fill two slots, and holders of a role are participants too.  *)
MCAddresses ==
    [student : {NULL, s1}, initiator : {u1}, supporter : {NULL, u2},
     checker : {u1}, approver : {NULL},
     email : BOOLEAN, phone : BOOLEAN, parentPhone : BOOLEAN,
     holders : {{}, {u1, u2}}]

(* Principals around a rupee and ten, and too small for their installments; *)
(* up to eight of these, periodic rates from one in a hundred to one in    *)
(* one: in paisa, so that every way of rounding happens.                   *)
Rate(n, d) == [num |-> n, den |-> d]
Principals == {1, 2, 7} \cup 100..160 \cup {999, 1000}
TermsOf(tenures, freq, rates) ==
    [principal : Principals, tenureMonths : tenures, frequency : {freq}, rate : rates]
MCTerms ==
    TermsOf(1..3, "MONTHLY", {Rate(1, 100), Rate(1, 12)})
    \cup TermsOf({4, 5}, "MONTHLY", {Rate(1, 12)})
    \cup TermsOf({1, 12, 18, 24}, "QUARTERLY", {Rate(1, 4)})
    \cup TermsOf({12, 36, 60}, "YEARLY", {Rate(1, 1), Rate(1, 10)})

-------------------------------------------------------------------------------
(* Only the component of the behaviour starts in every way it can.         *)
Only(p, choice) == part = p \/ choice

Init ==
    /\ part \in Parts
    /\ InitiatorInit
    /\ Only("initiator", source = "STUDENT" /\ status = "DRAFT")
    /\ AppraisalInit /\ PermissionsInit /\ AccountsInit
    /\ NotificationsInit
    /\ Only("notifications", /\ ~twilio /\ message = "link"
                             /\ addressees = CHOOSE a \in Addresses : TRUE)
    /\ AmortizationInit
    /\ Only("amortization", /\ loan.installments = 1
                            /\ loan.principal = 100
                            /\ loan.rate = Rate(1, 12))
    /\ ServicingInit /\ CollectionsInit /\ ConsentInit

Others(p) ==
    /\ UNCHANGED part
    /\ p # "initiator"     => UNCHANGED initiatorSection
    /\ p # "appraisal"     => UNCHANGED appraisal
    /\ p # "permissions"   => UNCHANGED permissions
    /\ p # "accounts"      => UNCHANGED accounts
    /\ p # "notifications" => UNCHANGED notifications
    /\ p # "amortization"  => UNCHANGED amortization
    /\ p # "servicing"     => UNCHANGED loanServicing
    /\ p # "collections"   => UNCHANGED collections
    /\ p # "consent"       => UNCHANGED studentConsent

Next ==
    \/ part = "initiator"     /\ InitiatorNext     /\ Others("initiator")
    \/ part = "appraisal"     /\ AppraisalNext     /\ Others("appraisal")
    \/ part = "permissions"   /\ PermissionsNext   /\ Others("permissions")
    \/ part = "accounts"      /\ AccountsNext      /\ Others("accounts")
    \/ part = "notifications" /\ NotificationsNext /\ Others("notifications")
    \/ part = "amortization"  /\ AmortizationNext  /\ Others("amortization")
    \/ part = "servicing"     /\ ServicingNext     /\ Others("servicing")
    \/ part = "collections"   /\ CollectionsNext   /\ Others("collections")
    \/ part = "consent"       /\ ConsentNext       /\ Others("consent")

vars == <<part, initiatorSection, appraisal, permissions, accounts, notifications,
          amortization, loanServicing, collections, studentConsent>>

Spec == Init /\ [][Next]_vars

(* The type invariants of the modules.                                     *)
BackOfficeTypeOK ==
    /\ InitiatorTypeOK /\ AppraisalTypeOK /\ PermissionsTypeOK /\ AccountsTypeOK
    /\ NotificationsTypeOK /\ AmortizationTypeOK /\ ServicingTypeOK
    /\ CollectionsTypeOK /\ ConsentTypeOK

===============================================================================
