--------------------------- MODULE InvitationProofs ---------------------------
(***************************************************************************)
(* Theorems about the verification invitations, for every set of addresses *)
(* and of concurrent requests and any number of links: the state is well   *)
(* typed, no interleaving of sends, resends, visits, submissions, mail     *)
(* errors and failures locks the recipient out (RecipientNotLockedOut),    *)
(* and until requests overlap verified and revoked are final               *)
(* (SettledIsFinal).                                                       *)
(***************************************************************************)
EXTENDS Invitation, SequenceTheorems, TLAPS

USE NullAssumption, BoundAssumption DEF At

(* A row written by its id changes that row only.                          *)
LEMMA RowUpdate ==
    ASSUME links \in Seq(Link), NEW i \in DOMAIN links, NEW l \in Link,
           links' = [links EXCEPT ![i] = l]
    PROVE  /\ links' \in Seq(Link)
           /\ Len(links') = Len(links)
           /\ DOMAIN links' = DOMAIN links
           /\ \A j \in DOMAIN links : links'[j] = IF j = i THEN l ELSE links[j]
<1>1. i \in 1 .. Len(links)
  BY LenProperties
<1>2. QED
  BY <1>1, ExceptSeq, LenProperties

(* The step rewrites row i to l.                                           *)
RowRewritten(i, l) ==
    /\ i \in DOMAIN links
    /\ l \in Link
    /\ links' = [links EXCEPT ![i] = l]

(* The steps that write a row rewrite the request's own, and only Revoke   *)
(* revokes it, unless a visit saw it revoked.                              *)
LEMMA ProceedRewrites ==
    ASSUME TypeOK, NEW r \in Requests,
           Revoke(r) \/ MailFailed(r) \/ Open(r) \/ MarkVerified(r)
    PROVE  \E l \in Link : /\ RowRewritten(req[r].link, l)
                           /\ l.status = "REVOKED"
                                => Revoke(r) \/ req[r].saw = "REVOKED"
<1> USE DEF TypeOK, RowRewritten
<1>1. req[r] \in Request
  OBVIOUS
<1>2. req[r].link \in DOMAIN links
  BY DEF Revoke, MailFailed, Open, MarkVerified
<1>3. links[req[r].link] \in Link
  BY <1>2, LenProperties
<1>4. CASE Revoke(r)
  <2> DEFINE l == [links[req[r].link] EXCEPT !.status = "REVOKED"]
  <2>1. l \in Link
    BY <1>3 DEF Link, Status
  <2>2. links' = [links EXCEPT ![req[r].link] = l]
    BY <1>4, <1>2, <1>3 DEF Revoke, Link
  <2>3. QED
    BY <2>1, <2>2, <1>2, <1>4
<1>5. CASE MailFailed(r)
  <2> DEFINE l == [links[req[r].link] EXCEPT !.status = "FAILED"]
  <2>1. l \in Link /\ l.status = "FAILED"
    BY <1>3 DEF Link, Status
  <2>2. links' = [links EXCEPT ![req[r].link] = l]
    BY <1>5, <1>2, <1>3 DEF MailFailed, Link
  <2>3. QED
    BY <2>1, <2>2, <1>2
<1>6. CASE Open(r)
  <2> DEFINE s == IF req[r].saw = "SENT" THEN "OPENED" ELSE req[r].saw
             l == [links[req[r].link] EXCEPT !.accessed = TRUE, !.status = s]
  <2>1. s \in Status
    BY <1>1 DEF Request, Status
  <2>2. l \in Link
    BY <1>3, <2>1 DEF Link
  <2>3. links' = [links EXCEPT ![req[r].link] = l]
    BY <1>6, <1>2, <1>3 DEF Open, Link
  <2>4. l.status = s
    BY <1>3 DEF Link
  <2>5. s = "REVOKED" => req[r].saw = "REVOKED"
    OBVIOUS
  <2> HIDE DEF l, s
  <2>6. QED
    BY <2>2, <2>3, <2>4, <2>5, <1>2
<1>7. CASE MarkVerified(r)
  <2> DEFINE l == [links[req[r].link] EXCEPT !.status = "VERIFIED"]
  <2>1. l \in Link /\ l.status = "VERIFIED"
    BY <1>3 DEF Link, Status
  <2>2. links' = [links EXCEPT ![req[r].link] = l]
    BY <1>7, <1>2, <1>3 DEF MarkVerified, Link
  <2>3. QED
    BY <2>1, <2>2, <1>2
<1>8. QED
  BY <1>4, <1>5, <1>6, <1>7

(* A created row goes to the end, SENT, and the others stay.               *)
LEMMA CreateAppends ==
    ASSUME TypeOK, NEW r \in Requests, Create(r)
    PROVE  /\ links' \in Seq(Link)
           /\ links' # << >>
           /\ Len(links') = Len(links) + 1
           /\ DOMAIN links \subseteq DOMAIN links'
           /\ links'[Len(links')].status = "SENT"
<1> DEFINE l == [status |-> "SENT", email |-> req[r].email, expired |-> FALSE,
                 accessed |-> FALSE]
<1>1. l \in Link
  BY DEF Create, TypeOK, Link, Status
<1>2. links' = Append(links, l)
  BY DEF Create
<1>3. Len(links) \in Nat /\ DOMAIN links = 1 .. Len(links)
  BY LenProperties DEF TypeOK
<1>4. /\ links' \in Seq(Link)
      /\ links' # << >>
      /\ Len(links') = Len(links) + 1
      /\ links'[Len(links) + 1] = l
  BY <1>1, <1>2, AppendProperties DEF TypeOK
<1>5. DOMAIN links' = 1 .. Len(links')
  BY <1>4, LenProperties
<1>6. QED
  BY <1>3, <1>4, <1>5

(* An expiry rewrites one row and keeps its status.                        *)
LEMMA ExpireRewrites ==
    ASSUME TypeOK, NEW i \in DOMAIN links, Expire(i)
    PROVE  \E l \in Link : RowRewritten(i, l) /\ l.status = links[i].status
<1> DEFINE l == [links[i] EXCEPT !.expired = TRUE]
<1>1. links[i] \in Link
  BY LenProperties DEF TypeOK
<1>2. l \in Link /\ l.status = links[i].status
  BY <1>1 DEF Link
<1>3. links' = [links EXCEPT ![i] = l]
  BY <1>1 DEF Expire, Link
<1>4. QED
  BY <1>2, <1>3 DEF RowRewritten

(* A step that moves one request, and loses no row, keeps the typing if    *)
(* that request is left in a typed place.                                  *)
LEMMA RequestMoves ==
    ASSUME TypeOK, NEW r \in Requests, NEW q \in Request,
           req' = [req EXCEPT ![r] = q],
           q.pc \in {"revoking", "mailing", "opening", "resolved"}
               => q.link \in DOMAIN links',
           q.pc \in {"revoking", "creating"} => q.email \in Emails,
           links' \in Seq(Link), DOMAIN links \subseteq DOMAIN links',
           abandoned' \in BOOLEAN, overlapped' \in BOOLEAN
    PROVE  TypeOK'
<1>1. req' \in [Requests -> Request]
  BY DEF TypeOK
<1>2. \A s \in Requests : req'[s] = IF s = r THEN q ELSE req[s]
  BY DEF TypeOK
<1>3. QED
  BY <1>1, <1>2 DEF TypeOK

-------------------------------------------------------------------------------
(* Every reachable state of the invitations is well typed, and a request   *)
(* in flight works on a row that exists.                                   *)
THEOREM TypeCorrect == Spec => []TypeOK
<1>1. Init => TypeOK
  <2> SUFFICES ASSUME Init PROVE TypeOK
    OBVIOUS
  <2>1. links \in Seq(Link)
    BY DEF Init
  <2>2. QED
    BY <2>1 DEF Init, TypeOK, Request, Idle, Pc, Status
<1>2. TypeOK /\ [Next]_vars => TypeOK'
  <2> SUFFICES ASSUME TypeOK, [Next]_vars PROVE TypeOK'
    OBVIOUS
  <2>0. overlapped' \in BOOLEAN
    BY DEF Next, vars, TypeOK
  <2>1. Len(links) \in Nat /\ DOMAIN links = 1 .. Len(links)
    BY LenProperties DEF TypeOK
  <2>2. \A i \in DOMAIN links : links[i] \in Link
    BY LenProperties DEF TypeOK
  <2>3. ASSUME NEW r \in Requests, Start(r) PROVE TypeOK'
    <3>1. ASSUME NEW i \in Nat, i = 0 \/ i \in DOMAIN links,
                 NEW email \in Emails, Supersede(r, i, email)
          PROVE  TypeOK'
      BY <2>0, <3>1 DEF Supersede, TypeOK, Request, Pc, Status
    <3>2. ASSUME NEW email \in Emails, ReadSend(r, email) PROVE TypeOK'
      BY <2>1, <3>1, <3>2 DEF ReadSend, FindActive
    <3>3. CASE ReadResend(r)
      <4>1. Len(links) \in DOMAIN links
        BY <2>1, <3>3 DEF ReadResend
      <4>2. links[Len(links)].email \in Emails
        BY <2>2, <4>1 DEF Link
      <4>3. QED
        BY <2>1, <3>1, <3>3, <4>1, <4>2 DEF ReadResend
    <3>4. ASSUME NEW i \in DOMAIN links, Resolve(r, i) PROVE TypeOK'
      <4>1. i \in Nat /\ links[i].status \in Status
        BY <2>1, <2>2 DEF Link
      <4>2. QED
        BY <2>0, <3>4, <4>1 DEF Resolve, TypeOK, Request, Idle, Pc, Status
    <3>5. QED
      BY <2>3, <3>2, <3>3, <3>4 DEF Start
  <2>4. ASSUME NEW r \in Requests, Proceed(r) PROVE TypeOK'
    <3>1. req[r] \in Request /\ Idle \in Request
      BY DEF TypeOK, Request, Idle, Pc, Status
    <3>2. CASE Revoke(r) \/ MailFailed(r) \/ Open(r) \/ MarkVerified(r)
      <4>1. links' \in Seq(Link) /\ DOMAIN links' = DOMAIN links
        BY <3>2, ProceedRewrites, RowUpdate DEF RowRewritten, TypeOK
      <4>2. CASE Revoke(r)
        <5> DEFINE q == [pc |-> "creating", link |-> 0,
                         email |-> req[r].email, saw |-> "SENT"]
        <5>1. /\ q \in Request
              /\ q.pc = "creating"
              /\ q.email \in Emails
          BY <3>1, <4>2 DEF Request, Pc, Status, Revoke, TypeOK
        <5>2. req' = [req EXCEPT ![r] = q] /\ abandoned' \in BOOLEAN
          BY <3>1, <4>2 DEF Revoke, TypeOK, Request
        <5>3. QED
          BY <4>1, <5>1, <5>2, <2>0, RequestMoves
      <4>3. CASE Open(r)
        <5> DEFINE q == At("resolved", req[r].link, "SENT")
        <5>1. /\ q \in Request
              /\ q.pc = "resolved"
              /\ q.link \in DOMAIN links'
          BY <3>1, <4>1, <4>3 DEF Request, Pc, Status, Open, TypeOK
        <5>2. req' = [req EXCEPT ![r] = q] /\ abandoned' \in BOOLEAN
          BY <3>1, <4>3 DEF Open, TypeOK, Request
        <5>3. QED
          BY <4>1, <5>1, <5>2, <2>0, RequestMoves
      <4>4. CASE MailFailed(r) \/ MarkVerified(r)
        <5>1. req' = [req EXCEPT ![r] = Idle] /\ abandoned' \in BOOLEAN
          BY <4>4 DEF MailFailed, MarkVerified, Return, TypeOK
        <5>2. QED
          BY <3>1, <4>1, <5>1, <2>0, RequestMoves DEF Idle
      <4>5. QED
        BY <3>2, <4>2, <4>3, <4>4
    <3>3. CASE Create(r)
      <4> DEFINE q == At("mailing", Len(links) + 1, "SENT")
      <4>1. /\ links' \in Seq(Link)
            /\ DOMAIN links \subseteq DOMAIN links'
            /\ Len(links) + 1 \in DOMAIN links'
        BY <2>1, <3>3, CreateAppends, LenProperties
      <4>2. /\ q \in Request
            /\ q.pc = "mailing"
            /\ q.link \in DOMAIN links'
        BY <2>1, <4>1 DEF Request, Pc, Status
      <4>3. req' = [req EXCEPT ![r] = q] /\ abandoned' \in BOOLEAN
        BY <3>3 DEF Create
      <4>4. QED
        BY <4>1, <4>2, <4>3, <2>0, RequestMoves
    <3>4. CASE MailSent(r) \/ Served(r)
      <4>1. /\ req' = [req EXCEPT ![r] = Idle]
            /\ links' = links /\ abandoned' = abandoned
        BY <3>4 DEF MailSent, Served, Return
      <4>2. QED
        BY <3>1, <4>1, <2>0, RequestMoves DEF Idle, TypeOK
    <3>5. QED
      BY <2>4, <3>2, <3>3, <3>4 DEF Proceed
  <2>5. ASSUME NEW r \in Requests, Fail(r) PROVE TypeOK'
    <3>1. /\ req' = [req EXCEPT ![r] = Idle] /\ Idle \in Request
          /\ links' = links /\ abandoned' \in BOOLEAN
      BY <2>5 DEF Fail, Return, TypeOK, Idle, Request, Pc, Status
    <3>2. QED
      BY <3>1, <2>0, RequestMoves DEF Idle, TypeOK
  <2>6. ASSUME NEW i \in DOMAIN links, Expire(i) PROVE TypeOK'
    <3>1. links' \in Seq(Link) /\ DOMAIN links' = DOMAIN links
      BY <2>6, ExpireRewrites, RowUpdate DEF RowRewritten, TypeOK
    <3>2. QED
      BY <2>0, <2>6, <3>1 DEF Expire, TypeOK
  <2>7. CASE UNCHANGED vars
    BY <2>7 DEF vars, rows, TypeOK
  <2>8. QED
    BY <2>3, <2>4, <2>5, <2>6, <2>7 DEF Next, Step
<1>3. QED
  BY <1>1, <1>2, PTL DEF Spec

-------------------------------------------------------------------------------
(* What makes RecipientNotLockedOut inductive: what a visit saw was not a  *)
(* revoked link, so Open never writes REVOKED and only Revoke does.        *)
SawUsable == \A r \in Requests : req[r].saw # "REVOKED"

LockInv == TypeOK /\ SawUsable /\ RecipientNotLockedOut

(* A row rewritten to a status other than REVOKED revokes nothing.         *)
LEMMA RewriteRevokesNothing ==
    ASSUME TypeOK, NEW i, NEW l, RowRewritten(i, l),
           l.status # "REVOKED" \/ l.status = links[i].status,
           LatestRevoked'
    PROVE  LatestRevoked
<1>1. /\ links' \in Seq(Link)
      /\ Len(links') = Len(links)
      /\ \A j \in DOMAIN links : links'[j] = IF j = i THEN l ELSE links[j]
  BY RowUpdate DEF RowRewritten, TypeOK
<1>2. links # << >> /\ Len(links) \in DOMAIN links
  BY LenProperties DEF RowRewritten, TypeOK
<1>3. links'[Len(links)].status = "REVOKED"
  BY <1>1 DEF LatestRevoked
<1>4. QED
  BY <1>1, <1>2, <1>3 DEF LatestRevoked

(* The invariant behind NeverLockedOut.                                    *)
LEMMA LockHolds == Spec => []LockInv
<1>1. Init => SawUsable /\ RecipientNotLockedOut
  BY DEF Init, SawUsable, Idle, RecipientNotLockedOut, LatestRevoked
<1>2. LockInv /\ TypeOK' /\ [Next]_vars => LockInv'
  <2> SUFFICES ASSUME LockInv, TypeOK', [Next]_vars
               PROVE  SawUsable' /\ RecipientNotLockedOut'
    BY DEF LockInv
  <2> USE DEF LockInv
  <2>1. Len(links) \in Nat /\ DOMAIN links = 1 .. Len(links)
    BY LenProperties DEF TypeOK
  <2>2. ASSUME NEW r \in Requests, Start(r)
        PROVE  SawUsable' /\ RecipientNotLockedOut'
    <3> DEFINE Begun == /\ req[r].pc = "idle"
                        /\ links' = links /\ abandoned' = abandoned
                        /\ \E q : /\ q.saw # "REVOKED"
                                  /\ req' = [req EXCEPT ![r] = q]
    <3>1. Begun
      <4>1. ASSUME NEW i, NEW email, Supersede(r, i, email)
            PROVE  Begun
        <5> DEFINE q == [pc |-> IF i = 0 THEN "creating" ELSE "revoking",
                         link |-> i, email |-> email, saw |-> "SENT"]
        <5>1. q.saw # "REVOKED" /\ req' = [req EXCEPT ![r] = q]
          BY <4>1 DEF Supersede
        <5>2. req[r].pc = "idle" /\ links' = links /\ abandoned' = abandoned
          BY <4>1 DEF Supersede, Idle
        <5>3. QED
          BY <5>1, <5>2
      <4>2. ASSUME NEW i \in DOMAIN links, Resolve(r, i)
            PROVE  Begun
        <5> DEFINE q == IF links[i].accessed THEN At("resolved", i, "SENT")
                        ELSE At("opening", i, links[i].status)
        <5>1. q.saw # "REVOKED" /\ req' = [req EXCEPT ![r] = q]
          BY <4>2 DEF Resolve, Resolves
        <5>2. req[r].pc = "idle" /\ links' = links /\ abandoned' = abandoned
          BY <4>2 DEF Resolve, Idle
        <5>3. QED
          BY <5>1, <5>2
      <4>3. QED
        BY <2>2, <4>1, <4>2 DEF Start, ReadSend, ReadResend
    <3>2. \A s \in Requests : s # r => req'[s] = req[s]
      BY <3>1 DEF TypeOK
    <3>3. SawUsable'
      BY <3>1, <3>2 DEF SawUsable, TypeOK
    <3>4. RecipientNotLockedOut'
      BY <3>1, <3>2 DEF RecipientNotLockedOut, LatestRevoked
    <3>5. QED
      BY <3>3, <3>4
  <2>3. ASSUME NEW r \in Requests, Proceed(r)
        PROVE  SawUsable' /\ RecipientNotLockedOut'
    <3>1. /\ \A s \in Requests : s # r => req'[s] = req[s]
          /\ req'[r].saw # "REVOKED"
      BY <2>3 DEF Proceed, Revoke, Create, MailSent, MailFailed, Open,
         MarkVerified, Served, Return, Idle, SawUsable, TypeOK, Request
    <3>2. SawUsable'
      BY <3>1 DEF SawUsable
    <3>3. CASE Revoke(r)
      <4>1. req'[r].pc = "creating"
        BY <3>3 DEF Revoke, TypeOK, Request
      <4>2. QED
        BY <3>2, <4>1 DEF RecipientNotLockedOut
    <3>4. CASE Create(r)
      <4>1. ~LatestRevoked'
        BY <3>4, CreateAppends DEF LatestRevoked
      <4>2. QED
        BY <3>2, <4>1 DEF RecipientNotLockedOut
    <3>5. CASE MailFailed(r) \/ Open(r) \/ MarkVerified(r)
      <4>1. LatestRevoked' => LatestRevoked
        <5>1. PICK l \in Link : /\ RowRewritten(req[r].link, l)
                                /\ l.status = "REVOKED"
                                     => Revoke(r) \/ req[r].saw = "REVOKED"
          BY <3>5, ProceedRewrites
        <5>2. l.status # "REVOKED"
          BY <3>5, <5>1 DEF Revoke, MailFailed, Open, MarkVerified, SawUsable
        <5>3. QED
          BY <5>1, <5>2, RewriteRevokesNothing
      <4>2. req[r].pc # "creating" /\ abandoned' = abandoned
        BY <3>5 DEF MailFailed, Open, MarkVerified
      <4>3. QED
        BY <3>1, <3>2, <4>1, <4>2 DEF RecipientNotLockedOut
    <3>6. CASE MailSent(r) \/ Served(r)
      BY <3>1, <3>2, <3>6
         DEF MailSent, Served, RecipientNotLockedOut, LatestRevoked
    <3>7. QED
      BY <2>3, <3>3, <3>4, <3>5, <3>6 DEF Proceed
  <2>4. ASSUME NEW r \in Requests, Fail(r)
        PROVE  SawUsable' /\ RecipientNotLockedOut'
    BY <2>4 DEF Fail, Return, Idle, SawUsable, RecipientNotLockedOut,
       LatestRevoked, TypeOK
  <2>5. ASSUME NEW i \in DOMAIN links, Expire(i)
        PROVE  SawUsable' /\ RecipientNotLockedOut'
    <3>1. LatestRevoked' => LatestRevoked
      BY <2>5, ExpireRewrites, RewriteRevokesNothing
    <3>2. QED
      BY <2>5, <3>1 DEF Expire, SawUsable, RecipientNotLockedOut
  <2>6. CASE UNCHANGED vars
    BY <2>6 DEF vars, rows, SawUsable, RecipientNotLockedOut, LatestRevoked
  <2>7. QED
    BY <2>2, <2>3, <2>4, <2>5, <2>6 DEF Next, Step
<1>3. Init /\ TypeOK => LockInv
  BY <1>1 DEF LockInv
<1>4. QED
  BY <1>2, <1>3, TypeCorrect, PTL DEF Spec

(* However sends, resends, visits and submissions overlap, the recipient   *)
(* is left with a revoked latest invitation only while its successor is    *)
(* on its way, or after the request that owed it has died.                 *)
THEOREM NeverLockedOut == Spec => []RecipientNotLockedOut
<1>1. LockInv => RecipientNotLockedOut
  BY DEF LockInv
<1>2. QED
  BY <1>1, LockHolds, PTL

-------------------------------------------------------------------------------
(* What makes SettledIsFinal inductive: until requests overlap at most one *)
(* is in flight, and the row it will write is still as it read it.         *)
RowIsAsRead(r) ==
    LET status == links[req[r].link].status
    IN /\ req[r].pc \in {"revoking", "mailing"}
             => status \notin {"VERIFIED", "REVOKED"}
       /\ req[r].pc = "opening" => status = req[r].saw
       /\ req[r].pc \in {"opening", "resolved"} => status # "REVOKED"

AloneInv ==
    ~overlapped =>
        /\ \A q, r \in Requests : q # r => req[q] = Idle \/ req[r] = Idle
        /\ \A r \in Requests : RowIsAsRead(r)

SettledStays ==
    \A i \in DOMAIN links :
        links[i].status \in {"VERIFIED", "REVOKED"}
            => links'[i].status = links[i].status

(* A request that begins takes its row as it is; no row changes.           *)
LEMMA StartIsAsRead ==
    ASSUME TypeOK, NEW r \in Requests, Start(r)
    PROVE  /\ RowIsAsRead(r)'
           /\ links' = links
           /\ \A q \in Requests : q # r => req'[q] = req[q]
<1> USE DEF TypeOK, RowIsAsRead
<1>1. Len(links) \in Nat /\ DOMAIN links = 1 .. Len(links)
  BY LenProperties
<1>2. ASSUME NEW i, NEW email, Supersede(r, i, email),
             i # 0 => links[i].status \in {"SENT", "OPENED"}
      PROVE  RowIsAsRead(r)' /\ links' = links
  <2>1. /\ links' = links
        /\ req'[r].pc = IF i = 0 THEN "creating" ELSE "revoking"
        /\ req'[r].link = i
    BY <1>2 DEF Supersede
  <2>2. QED
    BY <1>2, <2>1
<1>3. ASSUME NEW i \in DOMAIN links, Resolve(r, i)
      PROVE  RowIsAsRead(r)' /\ links' = links
  <2>1. /\ links' = links
        /\ req'[r] = IF links[i].accessed THEN At("resolved", i, "SENT")
                     ELSE At("opening", i, links[i].status)
        /\ links[i].status # "REVOKED"
    BY <1>3 DEF Resolve, Resolves
  <2>2. QED
    BY <2>1
<1>4. ASSUME NEW email \in Emails, ReadSend(r, email)
      PROVE  RowIsAsRead(r)' /\ links' = links
  BY <1>2, <1>4 DEF ReadSend, FindActive, IsActive
<1>5. ASSUME ReadResend(r)
      PROVE  RowIsAsRead(r)' /\ links' = links
  BY <1>2, <1>5 DEF ReadResend
<1>6. \A q \in Requests : q # r => req'[q] = req[q]
  BY DEF Start, ReadSend, ReadResend, Supersede, Resolve
<1>7. QED
  BY <1>3, <1>4, <1>5, <1>6 DEF Start

(* A request whose row is as it read it reopens nothing, and leaves itself *)
(* a row that is as it knows it.                                           *)
LEMMA ProceedKeepsSettled ==
    ASSUME TypeOK, SawUsable, NEW r \in Requests, RowIsAsRead(r),
           Proceed(r) \/ Fail(r)
    PROVE  RowIsAsRead(r)' /\ SettledStays
<1> USE DEF TypeOK, SawUsable
<1>1. /\ req[r] \in Request
      /\ \A q : (req' = [req EXCEPT ![r] = q]) => req'[r] = q
  OBVIOUS
<1>2. ASSUME NEW l \in Link, RowRewritten(req[r].link, l)
      PROVE  /\ req[r].link \in DOMAIN links
             /\ DOMAIN links' = DOMAIN links
             /\ links'[req[r].link] = l
             /\ \A j \in DOMAIN links :
                   j # req[r].link => links'[j] = links[j]
  BY <1>2, RowUpdate DEF RowRewritten
<1>3. CASE req'[r] = Idle /\ UNCHANGED links
  BY <1>3 DEF SettledStays, RowIsAsRead, Idle
<1>4. CASE Revoke(r) \/ MailFailed(r) \/ MarkVerified(r)
  <2>1. req'[r].pc \in {"creating", "idle"}
    BY <1>4 DEF Revoke, MailFailed, MarkVerified, Return, Idle
  <2>2. req[r].link \in DOMAIN links /\ links[req[r].link] \in Link
    BY <1>4, LenProperties DEF Revoke, MailFailed, MarkVerified
  <2>3. \A j \in DOMAIN links :
           j # req[r].link => links'[j].status = links[j].status
    BY <1>2, <1>4, ProceedRewrites
  <2>4. ASSUME links[req[r].link].status \in {"VERIFIED", "REVOKED"}
        PROVE  links'[req[r].link].status = links[req[r].link].status
    BY <1>4, <2>2, <2>4
       DEF Revoke, MailFailed, MarkVerified, RowIsAsRead, Link
  <2>5. QED
    BY <2>1, <2>3, <2>4 DEF RowIsAsRead, SettledStays
<1>5. CASE Open(r)
  <2> DEFINE i == req[r].link
             s == IF req[r].saw = "SENT" THEN "OPENED" ELSE req[r].saw
  <2>1. i \in DOMAIN links /\ links[i] \in Link
    BY <1>5, LenProperties DEF Open
  <2>2. links'[i].status = s
    BY <1>5, <2>1 DEF Open, Link
  <2>3. req'[r] = At("resolved", i, "SENT")
    BY <1>5, <1>1 DEF Open
  <2>4. s # "REVOKED" /\ (links[i].status = "VERIFIED" => s = "VERIFIED")
        /\ links[i].status # "REVOKED"
    BY <1>5 DEF Open, RowIsAsRead
  <2>5. \A j \in DOMAIN links : j # i => links'[j].status = links[j].status
    BY <1>2, <1>5, ProceedRewrites
  <2>6. RowIsAsRead(r)'
    BY <2>2, <2>3, <2>4 DEF RowIsAsRead
  <2>7. SettledStays
    BY <2>2, <2>4, <2>5 DEF SettledStays
  <2>8. QED
    BY <2>6, <2>7
<1>6. CASE Create(r)
  <2> DEFINE l == [status |-> "SENT", email |-> req[r].email,
                   expired |-> FALSE, accessed |-> FALSE]
  <2>1. l \in Link /\ links' = Append(links, l)
    BY <1>6 DEF Create, Link, Status
  <2>2. /\ \A j \in 1 .. Len(links) : links'[j] = links[j]
        /\ links'[Len(links) + 1] = l
    BY <2>1, AppendProperties
  <2>3. SettledStays
    BY <2>2, LenProperties DEF SettledStays
  <2>4. req'[r] = At("mailing", Len(links) + 1, "SENT")
    BY <1>6, <1>1 DEF Create
  <2>5. QED
    BY <2>2, <2>3, <2>4 DEF RowIsAsRead
<1>7. CASE MailSent(r) \/ Served(r) \/ Fail(r)
  <2>1. req'[r] = Idle /\ UNCHANGED links
    BY <1>7 DEF MailSent, Served, Fail, Return
  <2>2. QED
    BY <2>1, <1>3
<1>8. QED
  BY <1>4, <1>5, <1>6, <1>7 DEF Proceed

(* As long as no handlers overlap, no later visit, submission, mail error  *)
(* or resend reopens a verified or revoked invitation.                     *)
THEOREM SettledStaysSettled == Spec => SettledIsFinal
<1>1. Init => SawUsable /\ AloneInv
  BY DEF Init, SawUsable, AloneInv, RowIsAsRead, Idle
<1>2. TypeOK /\ SawUsable /\ AloneInv /\ [Next]_vars
        => AloneInv' /\ (~overlapped' => SettledStays)
  <2> SUFFICES ASSUME TypeOK, SawUsable, AloneInv, [Next]_vars
               PROVE  AloneInv' /\ (~overlapped' => SettledStays)
    OBVIOUS
  <2>1. CASE UNCHANGED vars
    BY <2>1 DEF vars, rows, AloneInv, RowIsAsRead, SettledStays
  <2>2. CASE Next
    <3> SUFFICES ASSUME ~overlapped'
                 PROVE  AloneInv' /\ SettledStays
      BY DEF AloneInv
    <3>1. /\ ~overlapped
          /\ \A q, r \in Requests : q # r => req'[q] = Idle \/ req'[r] = Idle
      BY <2>2 DEF Next, Overlap
    <3>2. ASSUME NEW r \in Requests, Start(r) \/ Proceed(r) \/ Fail(r)
          PROVE  AloneInv' /\ SettledStays
      <4>1. RowIsAsRead(r)
        BY <3>1 DEF AloneInv
      <4>2. RowIsAsRead(r)' /\ SettledStays
        BY <3>2, <4>1, StartIsAsRead, ProceedKeepsSettled DEF SettledStays
      <4>3. \A q \in Requests : q # r => req'[q] = req[q]
        BY <3>2, StartIsAsRead DEF Proceed, Revoke, Create, MailSent,
           MailFailed, Open, MarkVerified, Served, Fail, Return, TypeOK
      <4>4. \A q \in Requests : q # r => req'[q] = Idle
        <5>1. req[r] # Idle \/ req'[r] # Idle
          BY <3>2 DEF Start, ReadSend, ReadResend, Supersede, Resolve, Proceed,
             Revoke, Create, MailSent, MailFailed, Open, MarkVerified, Served,
             Fail, Idle, TypeOK
        <5>2. QED
          BY <3>1, <4>3, <5>1 DEF AloneInv
      <4>5. \A q \in Requests : RowIsAsRead(q)'
        BY <4>2, <4>4 DEF RowIsAsRead, Idle
      <4>6. QED
        BY <3>1, <4>2, <4>5 DEF AloneInv
    <3>3. ASSUME NEW i \in DOMAIN links, Expire(i)
          PROVE  AloneInv' /\ SettledStays
      <4>1. PICK l \in Link : RowRewritten(i, l) /\ l.status = links[i].status
        BY <3>3, ExpireRewrites
      <4>2. \A j \in DOMAIN links : links'[j].status = links[j].status
        BY <4>1, RowUpdate DEF RowRewritten, TypeOK
      <4>3. req' = req
        BY <3>3 DEF Expire
      <4>4. \A r \in Requests : RowIsAsRead(r)'
        BY <3>1, <4>2, <4>3 DEF AloneInv, RowIsAsRead, TypeOK
      <4>5. QED
        BY <3>1, <4>2, <4>4 DEF AloneInv, SettledStays
    <3>4. QED
      BY <2>2, <3>2, <3>3 DEF Next, Step
  <2>3. QED
    BY <2>1, <2>2
<1>3. LockInv => SawUsable
  BY DEF LockInv
<1>4. (~overlapped' => SettledStays) =>
         \A i \in DOMAIN links :
            ~overlapped' /\ links[i].status \in {"VERIFIED", "REVOKED"}
               => links'[i].status = links[i].status
  BY DEF SettledStays
<1>5. QED
  BY <1>1, <1>2, <1>4, <1>3, TypeCorrect, LockHolds,
     PTL
     DEF Spec, SettledIsFinal

-------------------------------------------------------------------------------
(* What RevokedIsSuperseded rests on: the successor is one statement away. *)

Superseded == abandoned \/ ~LatestRevoked

AboutToCreate(r) == ~Superseded /\ req[r].pc = "creating"

(* While the latest link is revoked, a request that is to create its       *)
(* successor stays so whatever other requests, recipients and the clock    *)
(* do, and its own next statement creates it or dies.  That there is such  *)
(* a request is RecipientNotLockedOut, and that it goes on is the event    *)
(* loop's fairness: RevokedIsSuperseded (createAndSend).                   *)
THEOREM SuccessorIsNext ==
    Spec => [][\A r \in Requests : AboutToCreate(r) =>
                 \/ Superseded'
                 \/ AboutToCreate(r)' /\ ~Proceed(r) /\ ~Fail(r)]_vars
<1>1. ASSUME TypeOK, Next, NEW r \in Requests, AboutToCreate(r)
      PROVE  \/ Superseded'
             \/ AboutToCreate(r)' /\ ~Proceed(r) /\ ~Fail(r)
  <2>1. req[r].pc = "creating" /\ req[r] # Idle
    BY <1>1 DEF AboutToCreate, Idle, At
  <2>2. CASE Proceed(r)
    <3>1. Create(r)
      BY <2>1, <2>2 DEF Proceed, Revoke, MailSent, MailFailed, Open,
         MarkVerified, Served
    <3>2. /\ links' \in Seq(Link) /\ Len(links') = Len(links) + 1
          /\ links'[Len(links')].status = "SENT" /\ links' # << >>
      BY <1>1, <3>1 DEF Create, TypeOK, Link, Status
    <3>3. ~LatestRevoked'
      BY <3>2 DEF LatestRevoked
    <3>4. QED
      BY <2>2, <3>3 DEF Superseded
  <2>3. CASE Fail(r)
    BY <2>1, <2>3 DEF Fail, Superseded
  <2>4. CASE ~Proceed(r) /\ ~Fail(r)
    <3>1. ~Start(r)
      BY <2>1 DEF Start, ReadSend, ReadResend, Supersede, Resolve, FindActive
    <3>2. \/ \E q \in Requests \ {r} : Start(q) \/ Proceed(q) \/ Fail(q)
          \/ \E i \in DOMAIN links : Expire(i)
      BY <1>1, <2>4, <3>1 DEF Next, Step
    <3>3. req'[r] = req[r]
      <4>1. ASSUME NEW q \in Requests \ {r}, Start(q)
            PROVE  req'[r] = req[r]
        BY <1>1, <4>1 DEF Start, ReadSend, ReadResend, Supersede, Resolve,
           TypeOK
      <4>2. ASSUME NEW q \in Requests \ {r}, Proceed(q) \/ Fail(q)
            PROVE  req'[r] = req[r]
        BY <1>1, <4>2 DEF Proceed, Revoke, Create, MailSent, MailFailed, Open,
           MarkVerified, Served, Fail, Return, TypeOK
      <4>3. ASSUME NEW i \in DOMAIN links, Expire(i)
            PROVE  req'[r] = req[r]
        BY <4>3 DEF Expire
      <4>4. QED
        BY <3>2, <4>1, <4>2, <4>3
    <3>4. QED
      BY <2>1, <2>4, <3>3 DEF AboutToCreate
  <2>5. QED
    BY <2>2, <2>3, <2>4
<1>2. TypeOK /\ [Next]_vars =>
        [\A r \in Requests : AboutToCreate(r) =>
            \/ Superseded'
            \/ AboutToCreate(r)' /\ ~Proceed(r) /\ ~Fail(r)]_vars
  BY <1>1
<1>3. QED
  BY <1>2, TypeCorrect, PTL DEF Spec

===============================================================================
