--------------------------- MODULE InitiatorSection ---------------------------
(***************************************************************************)
(* The Initiator's section of one application                              *)
(* (applicationInitiator/application-initiator.service.ts): the POST that  *)
(* finalizes it once and stamps who did, and the PATCH that edits it while *)
(* the application is with the Initiator and keeps the blacklist fields    *)
(* consistent.  The sign-off columns the same PATCH may rewrite are in     *)
(* Approval; the plain data fields of the section are left out.            *)
(*                                                                         *)
(* Each handler checks the row it read and writes later, by id: a PATCH    *)
(* carries its payload, already validated against what it read.            *)
(***************************************************************************)
EXTENDS Naturals, HttpServer

CONSTANTS Users,        \* who may call: any role but the student's
          Detail        \* the columns a blacklisting needs, treated alike:
                        \* its reason, its date, its reference number

BlacklistStatus == {"NOT_BLACKLISTED", "BLACKLISTED"}

ASSUME NullAssumption == NULL \notin Users \cup BlacklistStatus

(* The columns: a status, and the details that are filled in.              *)
Section == [status : BlacklistStatus \cup {NULL}, filled : SUBSET Detail]

(* A PATCH keeps the status or sets it (null passes its IsOptional), and   *)
(* carries some details: those it fills in, the others it clears.          *)
Payload == {p \in [status  : BlacklistStatus \cup {NULL, "KEEP"},
                   carried : SUBSET Detail, filled : SUBSET Detail] :
               p.filled \subseteq p.carried}
Nothing == [status |-> "KEEP", carried |-> {}, filled |-> {}]

VARIABLES
    source,             \* LoanApplication.source
    status,             \* LoanApplication.status
    withInitiator,      \* the stage lets the wizard edit (see Approval)
    initiatorUserId,
    blacklist,          \* the four blacklist columns
    req,                \* requests between their read and their write
    overlapped          \* history: two requests have been in flight at once

initiatorSection == <<source, status, withInitiator, initiatorUserId, blacklist,
                      req, overlapped>>

Idle == [op |-> "idle", user |-> NULL, payload |-> Nothing]

InitiatorInit ==
    /\ source \in {"STUDENT", "INITIATOR"}
    /\ status \in IF source = "STUDENT" THEN {"DRAFT", "SUBMITTED"} ELSE {"DRAFT"}
    /\ withInitiator = TRUE
    /\ initiatorUserId = NULL
    /\ blacklist = [status |-> NULL, filled |-> {}]
    /\ req = [r \in Requests |-> Idle]
    /\ overlapped = FALSE

Begin(r, op, u, payload) ==
    /\ req[r] = Idle
    /\ req' = [req EXCEPT ![r] = [op |-> op, user |-> u, payload |-> payload]]
    /\ overlapped' = (overlapped \/ \E q \in Requests : req[q] # Idle)
    /\ UNCHANGED <<source, status, withInitiator, initiatorUserId, blacklist>>

Reply(r) ==
    /\ req' = [req EXCEPT ![r] = Idle]
    /\ UNCHANGED overlapped

-------------------------------------------------------------------------------
(* createInitiatorApplication() (POST), at any stage.                      *)

ReadCreate(r, u) ==
    /\ initiatorUserId = NULL
    /\ Begin(r, "create", u, Nothing)

(* An application of the bank's own is submitted by the stamp.             *)
Create(r) ==
    /\ req[r].op = "create"
    /\ initiatorUserId' = req[r].user
    /\ status' = IF source = "INITIATOR" THEN "SUBMITTED" ELSE status
    /\ Reply(r)
    /\ UNCHANGED <<source, withInitiator, blacklist>>

-------------------------------------------------------------------------------
(* updateInitiatorApplication() (PATCH).                                   *)

Merge(p, old) ==
    [status |-> IF p.status = "KEEP" THEN old.status ELSE p.status,
     filled |-> (old.filled \ p.carried) \cup p.filled]

Consistent(section) ==
    /\ section.status = "NOT_BLACKLISTED" => section.filled = {}
    /\ section.status = "BLACKLISTED"     => section.filled = Detail

(* Mutant: the incoming payload alone is validated.                        *)
ResolvePayload(p) ==
    p.status # "KEEP" => Consistent([status |-> p.status, filled |-> p.filled])

(* resolveBlacklistUpdate(): the merged section is validated, unless the   *)
(* payload says nothing about it.                                          *)
ResolveBlacklistUpdate(p) == p # Nothing => Consistent(Merge(p, blacklist))

ReadUpdate(r, u) ==
    /\ withInitiator
    /\ \E p \in Payload : /\ ResolveBlacklistUpdate(p)
                          /\ Begin(r, "update", u, p)

Update(r) ==
    /\ req[r].op = "update"
    /\ blacklist' = Merge(req[r].payload, blacklist)
    /\ Reply(r)
    /\ UNCHANGED <<source, status, withInitiator, initiatorUserId>>

-------------------------------------------------------------------------------
(* The approval workflow takes the application and gives it back.          *)
ChangeHands ==
    /\ withInitiator' = ~withInitiator
    /\ UNCHANGED <<source, status, initiatorUserId, blacklist, req, overlapped>>

InitiatorNext ==
    \/ \E r \in Requests :
          \/ Create(r) \/ Update(r)
          \/ \E u \in Users : ReadCreate(r, u) \/ ReadUpdate(r, u)
    \/ ChangeHands

InitiatorSpec == InitiatorInit /\ [][InitiatorNext]_initiatorSection

-------------------------------------------------------------------------------
(* Properties.                                                             *)

InitiatorTypeOK ==
    /\ source \in {"STUDENT", "INITIATOR"}
    /\ status \in {"DRAFT", "SUBMITTED"}
    /\ withInitiator \in BOOLEAN
    /\ initiatorUserId \in Users \cup {NULL}
    /\ blacklist \in Section
    /\ req \in [Requests -> [op : {"idle", "create", "update"},
                            user : Users \cup {NULL}, payload : Payload]]
    /\ overlapped \in BOOLEAN

(* As long as no handlers overlap, no sequence of partial PATCHes leaves   *)
(* the section half filled: a blacklisted customer has every detail, one   *)
(* who is not has none (resolveBlacklistUpdate).                           *)
BlacklistConsistent == ~overlapped => Consistent(blacklist)

===============================================================================
