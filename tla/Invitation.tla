------------------------------ MODULE Invitation ------------------------------
(***************************************************************************)
(* The verification invitations of one application and one recipient type  *)
(* (verification/verification-invitation.service.ts): the student sends    *)
(* and resends them, the recipient opens a link and submits through it.    *)
(*                                                                         *)
(* links holds the application_links rows in createdAt order.  Every       *)
(* handler reads a row, awaits, and later writes by the row's id what it   *)
(* decided from that read, so a row may be written from a state it is no   *)
(* longer in.  The mail may reach the recipient even when the provider     *)
(* reports an error, so any link may be followed.                          *)
(***************************************************************************)
EXTENDS Naturals, Sequences, FiniteSets

CONSTANTS Emails,       \* recipient addresses, normalized
          Requests,     \* the HTTP requests that may be in flight at once
          MaxLinks,     \* bound: invitations created
          NULL

ASSUME BoundAssumption == MaxLinks \in Nat
ASSUME NullAssumption  == NULL \notin Emails

Status == {"SENT", "OPENED", "VERIFIED", "REVOKED", "FAILED"}
Link == [status : Status, email : Emails, expired : BOOLEAN,
         accessed : BOOLEAN]
Pc == {"idle", "revoking", "creating", "mailing", "opening", "resolved"}

VARIABLES
    links,      \* the ApplicationLink rows
    req,        \* per request: where it is, the row it works on, what it read
    abandoned,  \* a request revoked a link and failed to create the next
    overlapped  \* history: two requests have been in flight at once

rows == <<links, req, abandoned>>
vars == <<rows, overlapped>>

At(pc, i, saw) == [pc |-> pc, link |-> i, email |-> NULL, saw |-> saw]

Idle == At("idle", 0, "SENT")

Request == [pc : Pc, link : Nat, email : Emails \cup {NULL}, saw : Status]

Init ==
    /\ links = << >>
    /\ req = [r \in Requests |-> Idle]
    /\ abandoned = FALSE
    /\ overlapped = FALSE

Return(r) == req' = [req EXCEPT ![r] = Idle]

-------------------------------------------------------------------------------
(* The student's side: send() and resend().                                *)

IsActive(i) == links[i].status \in {"SENT", "OPENED"} /\ ~links[i].expired

(* findActive(): the latest live link, in a set of at most one.            *)
FindActive == {i \in DOMAIN links :
                 IsActive(i) /\ \A j \in DOMAIN links : j > i => ~IsActive(j)}

(* A request goes on to revoke link i, or to create when i = 0.            *)
Supersede(r, i, email) ==
    /\ req[r] = Idle
    /\ Len(links) < MaxLinks
    /\ req' = [req EXCEPT ![r] =
                 [pc |-> IF i = 0 THEN "creating" ELSE "revoking",
                  link |-> i, email |-> email, saw |-> "SENT"]]
    /\ UNCHANGED <<links, abandoned>>

(* A second invitation to the address of a live one is refused.            *)
ReadSend(r, email) ==
    IF FindActive = {}
      THEN Supersede(r, 0, email)
      ELSE \E i \in FindActive : /\ links[i].email # email
                                 /\ Supersede(r, i, email)

(* resend() looks at the latest row, live or not.                          *)
ReadResend(r) ==
    LET latest == Len(links)
    IN /\ latest > 0
       /\ Supersede(r,
                    IF links[latest].status \in {"SENT", "OPENED"}
                      THEN latest ELSE 0,
                    links[latest].email)

Revoke(r) ==
    /\ req[r].pc = "revoking"
    /\ links' = [links EXCEPT ![req[r].link].status = "REVOKED"]
    /\ req' = [req EXCEPT ![r] = [pc |-> "creating", link |-> 0,
                                  email |-> req[r].email, saw |-> "SENT"]]
    /\ UNCHANGED abandoned

(* Mutant: a new row is made by copying the last one's status.             *)
CreateLikeLast(r) ==
    /\ req[r].pc = "creating"
    /\ links' = Append(links, [status |-> IF links = << >> THEN "SENT"
                                          ELSE links[Len(links)].status,
                               email |-> req[r].email, expired |-> FALSE,
                               accessed |-> FALSE])
    /\ req' = [req EXCEPT ![r] = At("mailing", Len(links) + 1, "SENT")]
    /\ abandoned' = FALSE

(* createAndSend(): the row first, then the mail.                          *)
Create(r) ==
    /\ req[r].pc = "creating"
    /\ links' = Append(links, [status |-> "SENT", email |-> req[r].email,
                               expired |-> FALSE, accessed |-> FALSE])
    /\ req' = [req EXCEPT ![r] = At("mailing", Len(links) + 1, "SENT")]
    /\ abandoned' = FALSE

MailSent(r) ==
    /\ req[r].pc = "mailing"
    /\ Return(r)
    /\ UNCHANGED <<links, abandoned>>

(* Mutant: a status VerificationStatus does not have.                      *)
MailBounced(r) ==
    /\ req[r].pc = "mailing"
    /\ links' = [links EXCEPT ![req[r].link].status = "BOUNCED"]
    /\ Return(r)
    /\ UNCHANGED abandoned

MailFailed(r) ==
    /\ req[r].pc = "mailing"
    /\ links' = [links EXCEPT ![req[r].link].status = "FAILED"]
    /\ Return(r)
    /\ UNCHANGED abandoned

-------------------------------------------------------------------------------
(* The recipient's side: resolveInvitation(), then the form or an upload.  *)

(* Mutant: the revoked status is not looked at.                            *)
Unexpired(i) == ~links[i].expired

Resolves(i) == links[i].status # "REVOKED" /\ ~links[i].expired

(* The first access goes on to stamp the row with what it read.            *)
Resolve(r, i) ==
    /\ req[r] = Idle
    /\ Resolves(i)
    /\ req' = [req EXCEPT ![r] =
                 IF links[i].accessed
                   THEN At("resolved", i, "SENT")
                   ELSE At("opening", i, links[i].status)]
    /\ UNCHANGED <<links, abandoned>>

Open(r) ==
    /\ req[r].pc = "opening"
    /\ links' = [links EXCEPT
         ![req[r].link].accessed = TRUE,
         ![req[r].link].status = IF req[r].saw = "SENT" THEN "OPENED"
                                 ELSE req[r].saw]
    /\ req' = [req EXCEPT ![r] = At("resolved", req[r].link, "SENT")]
    /\ UNCHANGED abandoned

(* A form submission marks the link; a visit or an upload leaves it.       *)
MarkVerified(r) ==
    /\ req[r].pc = "resolved"
    /\ links' = [links EXCEPT ![req[r].link].status = "VERIFIED"]
    /\ Return(r)
    /\ UNCHANGED abandoned

Served(r) ==
    /\ req[r].pc = "resolved"
    /\ Return(r)
    /\ UNCHANGED <<links, abandoned>>

-------------------------------------------------------------------------------
Expire(i) ==
    /\ ~links[i].expired
    /\ links' = [links EXCEPT ![i].expired = TRUE]
    /\ UNCHANGED <<req, abandoned>>

(* A statement fails, or the process dies.                                 *)
Fail(r) ==
    /\ req[r].pc # "idle"
    /\ abandoned' = (abandoned \/ req[r].pc = "creating")
    /\ Return(r)
    /\ UNCHANGED links

Start(r) ==
    \/ \E email \in Emails : ReadSend(r, email)
    \/ ReadResend(r)
    \/ \E i \in DOMAIN links : Resolve(r, i)

Proceed(r) ==
    \/ Revoke(r) \/ Create(r) \/ MailSent(r) \/ MailFailed(r)
    \/ Open(r)   \/ MarkVerified(r) \/ Served(r)

Step ==
    \/ \E r \in Requests : Start(r) \/ Proceed(r) \/ Fail(r)
    \/ \E i \in DOMAIN links : Expire(i)

Overlap == \E q, r \in Requests : q # r /\ req[q] # Idle /\ req[r] # Idle

Next == Step /\ overlapped' = (overlapped \/ Overlap')

Spec == Init /\ [][Next]_vars

(* The event loop resumes every handler whose await has answered.          *)
FairSpec == Spec /\ \A r \in Requests : WF_rows(Proceed(r) \/ Fail(r))

-------------------------------------------------------------------------------
(* Properties.                                                             *)

TypeOK ==
    /\ links \in Seq(Link)
    /\ req \in [Requests -> Request]
    /\ \A r \in Requests :
          /\ req[r].pc \in {"revoking", "mailing", "opening", "resolved"}
                => req[r].link \in DOMAIN links
          /\ req[r].pc \in {"revoking", "creating"} => req[r].email \in Emails
    /\ abandoned \in BOOLEAN
    /\ overlapped \in BOOLEAN

LatestRevoked == links # << >> /\ links[Len(links)].status = "REVOKED"

(* However sends, resends, visits and submissions overlap, the recipient   *)
(* is not left with a revoked invitation and nothing after it: while the   *)
(* latest link is revoked, a request is about to create its successor,     *)
(* unless one died in between (send() and resend() revoke, then create).   *)
RecipientNotLockedOut ==
    LatestRevoked =>
        abandoned \/ \E r \in Requests : req[r].pc = "creating"

(* The same as progress: a revoked latest invitation is superseded.        *)
RevokedIsSuperseded ==
    LatestRevoked ~> (abandoned \/ ~LatestRevoked)

(* As long as no handlers overlap, a verified or revoked invitation stays  *)
(* so: no later visit, submission, mail error or resend reopens it.        *)
SettledIsFinal ==
    [][\A i \in DOMAIN links :
          ~overlapped' /\ links[i].status \in {"VERIFIED", "REVOKED"}
              => links'[i].status = links[i].status]_vars

-------------------------------------------------------------------------------
(* What the documentation says and the code does not do.                   *)

(* verification-invitation.service.ts:376-377, 233: a link is invalidated  *)
(* the moment a resend or an email change supersedes it, so only the       *)
(* latest resolves.  A superseded VERIFIED or FAILED link is not revoked.  *)
SupersededIsInvalid ==
    \A i \in DOMAIN links : i < Len(links) => ~Resolves(i)

===============================================================================
