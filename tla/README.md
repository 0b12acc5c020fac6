# Formal models of the loan back end

This directory holds a TLA+ verification project for the NestJS/Prisma back end
of an education-loan bank: modules that model the parts of the system whose
correctness depends on the order of requests, on boundaries or on arithmetic,
TLC configurations that check them on small instances, and theorems TLAPS
proves for every instance. Paths below are relative to the repository's root
(`src/modules/...`).

1. The system
2. The modules, and how they correspond to the code
3. Abstractions
4. What each run checks
5. Bounds, fairness, deadlock
6. What is proved
7. Known gaps of the code
8. What is not modelled, and the plan

## 1. The system

One student applies for one loan. The application is a single row,
`LoanApplication`, to which almost every component adds rows of its own.

| component | state it keeps | operations | module |
|---|---|---|---|
| Applications (`applications`) | the draft, its steps, `status` | create, three steps, submit, delete | `ApplicationDraft` |
| Application documents (`documents`, `storage`) | `Document` rows beside bucket objects | upload, replace, delete | `ApplicationDraft` |
| Marketplace (`marketplace`) | colleges and courses | create, edit, deactivate | `Catalogue` |
| Verification invitations (`verification`) | `ApplicationLink` rows: status, token, expiry | send, resend, resolve, mark verified | `Invitation` |
| Parent and college forms (`parent-public`, `college`) | the two verification rows, the bank account number | submit, through an invitation | `BankAccountOpening`, `Disbursement` |
| Bank account opening (`bank-account`) | one `BankAccountOpening` row | create when both forms are verified, complete | `BankAccountOpening` |
| Initiator's section (`applicationInitiator`) | the bank's columns and lists of the application | POST once, PATCH while with the Initiator, queue | `InitiatorSection`, `Appraisal`, `Approval` |
| Credit score (`creditScore`) | inputs, points and grade among the bank's columns | calculate, save | `CreditScore`, `Appraisal` |
| Approval workflow (`dashboard/approval`) | stage, send-back flags, sign-off columns, `LoanAccount` | resubmit, support, check, approve, reject, send back | `Approval`, `LoanGrant` |
| Student consent (`dashboard/approval`, `applications`) | one `StudentConsent` row | send terms, read, accept | `StudentConsent` |
| Application tracker (`applications`) | none: reads everybody's rows | build the timeline | `ApplicationTracker` |
| Legal documents (`dashboard/documents`) | `GeneratedAgreement` rows | create, send to sign, mark signed, upload signed | `Disbursement` |
| Disbursement (`dashboard/disbursement`) | conditions, `Disbursement`, tranches | add and update a condition, confirm a payout | `Disbursement` |
| Repayment (`dashboard/repayment`) | `EmiScheduleEntry` rows, `LoanAccount` | configure, generate schedule, mark paid, review, clear, list overdue | `LoanServicing`, `Amortization`, `Repayment`, `Collections` |
| Daily job (`dashboard/jobs`) | none of its own | mark overdue, remind, accrue penal interest, reclassify | `Repayment`, `Collections`, `Notifications` |
| Loan arithmetic (`common/utils`, `utils`) | none | effective terms, EMI | `Amortization`, `LoanServicing` |
| Notifications (`notifications`) | `Notification` rows | one message over its channels, fan-outs | `Notifications` |
| Authentication and users (`auth`, `users`) | `User` rows with their tokens | register, verify, log in, reset, change password | `Accounts` |
| Permissions (`permissions`, the RBAC seed) | roles, menu items, permissions and what joins them | two editors, the guard, the seed | `Permissions` |
| Admin, commission, insurance, student agreement, offer letter, enrollment certificate | single rows | create, read, update, delete | not modelled |
| Lists, overview, audit, templates | none, or append-only | read, append | not modelled |

**How they interact.** Everything is shared state in one PostgreSQL database.
A request handler is an `async` function that reads rows, decides, awaits
something else, and writes. The event loop runs another request at every
`await`. Few handlers use a transaction (`approve()`, the accrual of penal
interest, the two permission editors and step 1 of the draft are the main
ones), none locks a row or compares a version, and updates name a row by its id
only. Handlers call each other directly in few places: a form submission marks
its invitation and then ensures the bank-account requirement; `approve()`
creates the `LoanAccount` that repayment works on; `configureServicing()`
generates the schedule; the daily job calls into repayment and notifications.
Otherwise one component opens a gate for the next: submission, then both forms,
then the bank account, then the Initiator's queue, then the workflow, then a
signed Loan Agreement, then the conditions, then payouts, then a schedule.

**What is hard.** (a) A guard judges a row that has changed by the time the
handler writes. (b) Two requests both find something missing and both create
it. (c) A handler is interrupted between two statements, by an error or a
restart, and nothing finishes its work. (d) Long legal sequences: an
application sent back after its approval, a payment under review, terms
configured twice. (e) The daily job, and the deployment's seed, write to rows
that people write to. (f) Boundaries: buckets counted in whole days over due
dates with a time of day, paisa rounded row by row, validators wider than
columns, payouts of zero and of negative amounts. `PROJECT.json` lists these hazards at their lines.

**What makes each component correct.**

- *Draft and documents*: a listed document can be opened; one document per
  type; the stored fee is one the stored course has had; what was submitted
  stays as it was.
- *Invitations*: verified and revoked are final; the recipient is never left
  without a link.
- *Bank account opening*: required exactly when both sides have verified,
  whichever came second; announced once; completed once.
- *Initiator's section and credit score*: a partial update never leaves the
  blacklist fields contradicting each other, nor a score of inputs that are not
  stored; no step is lost to a number the column cannot hold; nothing moves
  while reviewers read.
- *Approval*: nobody's signature is skipped by an interleaving; a loan is
  granted once, by one approver; the Approver's shortcut past the Checker is
  used once; a decision is on record.
- *Consent*: it is to the terms on record, which the student was told of.
- *Tracker*: the reviewer it shows is one who can act; progress is kept.
- *Disbursement*: nothing happens before a signature; the total accounts for
  every payout; a payout meets its three gates.
- *Servicing*: a schedule repays the principal to the paisa, asks for no more
  than the borrower has been given, and is the one he was told of.
- *Repayment*: a loan that is fully paid is cleared; penal interest only for
  days late; cleared is final; an overdue installment is counted once, and the
  job's classification sees what is unpaid.
- *Notifications*: what failed is reported and what succeeded is not repeated.
- *Accounts*: a link works once; nobody logs in unverified, nobody is left
  without a link.
- *Permissions*: sidebar, matrix and guard agree with the Admin's last choice.

## 2. The modules, and how they correspond to the code

The unit of atomicity is the database statement (or the `$transaction`). A
handler that reads, awaits and writes is therefore two actions or more. An
action `ReadX` takes the snapshot on which the guard and the written data
depend, and the action named after the handler, or after the statement, is its
write. A variable (`req`, `request`, `editor`, `servicing`, `consenting`,
`patch`) says where each request in flight is and what it still remembers of
what it read; a request is a slot that is reused when its handler returns. A
request refused by its guard changes nothing and is not a step.

- **`LoanGrant`** is what the approval workflow promises: an application is
  granted a loan once, by one approver, in the step that approves it, and the
  grant outlives a withdrawal of the approval.
- **`Approval`** is `dashboard-approval.service.ts` and the part of the
  Initiator's PATCH that writes sign-off columns. `AllowedFromStage` is the
  table of the same name, `Callers` the controller's roles, `SpendShortcut` the reset of
  `sentBackByApprover`, `Approve` the transaction that also creates the
  account, `ApproveConflict` the same transaction when the account's unique
  `applicationId` rolls it back. `Promise == INSTANCE LoanGrant` is the
  refinement mapping: approved is `stage = "APPROVED"`, and the grant is the
  account with the approver's stamp.
  `MCApproval` gives it one user per role and three PATCH payloads.
- **`ApplicationTracker`** EXTENDS `Approval` with the columns of the other
  components the tracker reads (`submitted`, `parent`, `college`, `opening`,
  `initiated`, `disbursed`, `configured`), each written under the guard that
  decides when it may be; `disbursed` is a total, which payouts of any sign
  raise and lower. Its operators are the tracker:
  `STAGE_DEFINITIONS` with one `Resolve` per stage,
  `RE_ENTRY_STAGE_FOR_TO_STAGE`, and `Timeline`. `MCApplicationTracker` runs
  the whole journey.
- **`InitiatorSection`** is the one-time POST, and the PATCH whose merged
  blacklist fields are validated by `ResolveBlacklistUpdate`.
- **`CreditScore`** is the table of weighted parameters and bands (the outer
  ones open-ended: a rule has a lower bound, an upper bound, or both), the
  percentage and the grade, as operators over hundredths. **`Appraisal`** is
  the rest of the wizard's PATCH (basics, lists replaced as a whole, validated
  numbers that the column may refuse) and the engine that stores inputs and
  outcome in one update, with the columns it leaves out kept.
- **`Invitation`** is `verification-invitation.service.ts` for one
  application and one recipient type. `links` is the table in order of
  creation. `Supersede` is the common course of `send()` and `resend()`:
  revoke, create, mail, one statement each. `Resolve`, `Open` and
  `MarkVerified` are the recipient's side.
- **`BankAccountOpening`** follows a form submission from its own write
  through `markVerified()` to `ensureRequirementIfBothVerified()`, which
  reads, creates and notifies, and then the student's click.
- **`Catalogue`** is the marketplace as a draft sees it: colleges and courses
  seeded or yet to be created, never deleted; and
  **`ApplicationDraft`**, which EXTENDS it, the draft: `ReadCourse` takes the
  fee from the catalogue, `SaveStep1` writes it; `Submit` follows two reads;
  an upload finds the document it replaces, removes its object, deletes its
  row, stores the new object and creates the new row, one call each.
- **`StudentConsent`** is the Approver's upsert of terms, its notification, the
  student's page and his acceptance, which names the application only.
- **`Disbursement`** has the Loan Agreement's life, `assertSignedLoanAgreement()`
  (the gate `SignedLoanAgreement`), the checklist, and `confirm()`: three reads
  (`ReadBankAccount`, `ReadAgreement`, `ReadConditions`), the upsert that
  increments the total, the tranche. An amount is any number: the DTO asks for
  `@IsNumber` and `confirm()` checks neither sign nor size. `MCDisbursement`
  has a payout of each kind, and the symmetry of the run.
- **`LoanServicing`** is `configureServicing()`: the terms are stored, then the
  schedule is generated from what it reads back, or refused, then the borrower
  is told. `ResolvePrincipal` and its neighbours are the effective terms: each
  falls back where the one before is null (`??`), so that a total of zero or
  less is used as it is, and refused by `Amortizable`. An override may hold a
  null, which clears the column. Payouts go on meanwhile, of any sign; `peak`,
  a history, is the highest the total has been.
- **`RepaymentFrequency`** has the three frequencies of `FREQUENCY_CONFIG` and
  the multiples they ask of a tenure, for the two modules that schedule a loan.
- **`Amortization`** is the loop of `generateSchedule()`, one row per step, in
  paisa with exact rationals for the rates.
- **`Repayment`** has the schedule (deleted and created in two statements),
  `markPaid()` (read, write, count, clear), the review and the clearance of the
  account, and the daily job as a process of its own. `MCRepayment` adds the
  bounds of its two halves.
- **`Collections`** is the calendar: what the job marks overdue, whom it
  reminds, how it classifies the loan, and the buckets, tiles and monitoring
  status people see. Time is in half days, so that a due date has a time of
  day; the job is one step here and may miss nights.
- **`Notifications`** is one business message, from the call to its end: the
  read of its recipients where there is one (`ReadsFirst`), which may reject
  outside any `try`; channels in order with their own failures, fan-outs that
  settle, loops that stop, the death of the process (`Die`), and callers that
  call again.
- **`Accounts`** has the user rows and their two tokens, a number each; a mail
  arrives (`Mail`) or its request is lost.
- **`Permissions`** has the seed as a sequence of upserts, which may be run
  again in mid-course, and the two editors; the guard, the sidebar and the
  matrix are operators.
- **`HttpServer`** declares the constants that components handling requests
  share.
  **`MCBackOffice`** places the nine modules that share no state beside each
  other: the variable `part` names the component a behaviour belongs to, and
  the others stand still. It is a way to check nine specifications in one run,
  and composes nothing. `MCLoanServicing` and `MCCollections` hold the
  constants two of them also need in runs of their own.

Where a handler has more than one statement, `Fail`, `LoseRequest` and their
like are an error or a restart between two of them: they end the request where
it is and undo nothing. `Approval`, `InitiatorSection` and the PATCH of
`Appraisal` have none: their handlers read and then write once, so that a request
lost in between has done nothing, and no property counts on its write.
`Amortization` computes between two statements, `ApplicationTracker` only reads,
and the job of `Collections` is one step, which may be missed as a whole. The
editors of `Permissions` write in one transaction, which commits or has done
nothing; its seed may die between two upserts and be run again (`SeedAgain`).
The handlers of `Catalogue` write once. Everywhere, a statement that reports an error has not taken effect.

Each module ends with its properties: the type invariant, then what holds, then
what a document says and the code does not do. Several parts of one promise are
named on their own and joined in one property (`RequirementSound`,
`DocumentsSound`, `RoleTablesAgree`, `DeliveredOrReported`, `LinksAreSound`,
`ScheduleAddsUp`, `AgeingSound`, `ConsentSound`, `ShownReviewerCanAct`). An
operator whose comment begins with "Mutant" is a plausible bug of the
definition that follows it: it is used in no specification, and substituting it
for that definition must break the property it is listed with.

`overlapped` (`accountRaced`, `editsOverlapped`, `patchRaced`,
`servicingRaced`) is a history variable: two requests have been in flight at
once. A property that says "as long as no requests overlap" is conditional on
it. It is the strongest form in which the code keeps that promise, since it has
no locks; the other properties hold under every interleaving.

## 3. Abstractions

- One application, and in `Accounts` one or more users. No handler writes rows
  of two applications, except the daily job, whose bulk updates treat each
  application's rows alike.
- A `findUnique` that includes relations is one read, and an update by id is
  one statement that names only the columns it writes.
- A user's role is the one in the users table. The controllers' role guards are
  conjuncts of the `Read` actions where a handler's effect depends on them.
- The acting user read between a handler's guard and its write is not state
  here: it is why another request may run in between.
- Text, amounts that nothing compares, attestation fields and PEP notes are
  left out. In `Repayment` a payment covers its installment or does not, penal
  interest is the number of days it was accrued for, and installment n is due
  on day n - 1 counted from the first due date.
- The three details of a blacklisting are treated alike by the code and are a
  set, `Detail`. A validated number of the wizard is its rank among the bounds
  of validators and columns, and whether it has a fraction.
- In `Amortization` the rate per period is a fraction given as an input: the
  conversion between compounding periods takes roots. Powers (`Power`) are exact
  there and floating point in the code; amounts are rounded as the code rounds
  them.
- A mail may arrive although the provider reports an error, so any link may be
  followed; the raw token is left out, since handlers look a link up by its
  hash, which never changes. A random token is a new number.
- A provider's refusal to delete an object is swallowed by the code, so a
  removal may leave the object (`Removed`).
- Audit entries are state only where something reads or counts them (the
  completion of a bank account opening; the Initiator's stage of the tracker).
- Widgets are configured and seeded exactly like menu items, and enforced by no
  guard; `Permissions` has the menu only.
- `ChangeHands` in `InitiatorSection` and its like in `Appraisal` stand for the
  whole workflow, which those modules see only as "the wizard may edit" or not.
- In `LoanServicing` the loan account is open throughout; its clearance is
  `Repayment`'s subject. Of the terms it has principal, tenure and frequency:
  nothing compares rates and dates.
- A lower bound of a band alone matches every value from it on, as in the code;
  a score is computed over integers, hundredths of what the code is given.

## 4. What each run checks

A property is checked under every interleaving unless it says "until requests
overlap".

| run | properties | what it shows |
|---|---|---|
| `approval_race` | `TypeOK`, `SignOffChain`, `ImplementsLoanGrant`; until requests overlap `ShortcutOnlyWhileSentBack`, `DecisionIsOnRecord` | A handler may write over a stage it has not seen, yet past `support()` the Supporter's signature is missing only on an application somebody sent back, and past `check()` the Checker's only if an Approver did. The workflow refines `LoanGrant`. The shortcut is spent by the handler that routes on it, and a PATCH cannot change a decision already made. |
| `approval_reapprove` | `ApproveFromCheckingSucceeds`: violated | After a send-back and a second round, approval fails forever on the account that exists. |
| `invitation_race` | `TypeOK`, `RecipientNotLockedOut`, `RevokedIsSuperseded`; until requests overlap `SettledIsFinal` | While the latest link is revoked some request is about to create its successor, or died before it could; and it is created. |
| `invitation_superseded` | `SupersededIsInvalid`: violated | A resend after a verification leaves the verified link working. |
| `bank_race` | `TypeOK`, `NoMissedRequirement`, `RequirementSound`, `RequirementFollows` | Two racing submissions cannot each leave the requirement to the other, because each writes its form before it reads both. The requirement needs both forms, is announced once, and until requests overlap completed once. |
| `disbursement_race` | `TypeOK`, `NothingBeforeSigning`, `TotalAccounted`; until requests overlap `PaysOnlyWhenReady` | The gate reads a status that a racing `sendToSign()` may take back, but never opens before a signature was made. The increment loses and doubles nothing: the total is the tranches, those being recorded, and those whose request died, whether payouts are positive, zero or negative. |
| `repayment` | `TypeOK`, `NoMissedClearance`, `NoPenalBeforeDue`; until requests overlap `ClearedIsFinal` | Because `markPaid()` counts after it writes, of two last payments at least one sees the other, also while the job or a new schedule runs. Whatever payments, deletions and failures the job runs into, an installment never carries more days of penal interest than it is late. |
| `draft_race` | `TypeOK`, `DocumentsSound`, `FeeIsOfTheCourse`; until requests overlap `SubmittedIsFrozen` | No race of replacements and deletions leaves a document row without its object; fee and course are written together and never mixed; nothing gets past the check for a draft. |
| `tracker_journey` | `ShownReviewerCanAct`, `ProgressIsKept` | Over every row the workflow and the forms can produce, the tracker's own tables agree with the workflow's: after a send-back, and all along a journey without one in which requests do not overlap. What was shown completed stays so, but for the disbursement a negative payout takes back. |
| `backoffice` | `BackOfficeTypeOK`; `BlacklistConsistent`; `ScoreIsOfStoredInputs`, `OnlyYearsAreLost`, `FrozenUnderReview`; `RoleTablesAgree`; `DeliveredOrReported`; `LinksAreSound`; `ScheduleAddsUp`; `NewScheduleIsSound`; `AgeingSound`, `JobSeesWhatIsUnpaid`; `ConsentSound` | The nine components that share no state, one at a time: merging before validating keeps partial updates consistent; bands of a parameter exclude each other; the guard refuses what an edit left out; a call that threw delivered nothing, whether its row or the read of its recipients failed, so that calling again repeats only what calls that returned, or died with the process, had sent; a link works once; the rounded rows add up to the principal; a new schedule comes in whole installments and asks for no more than had been disbursed at some time; an installment is in one tile at every time of day; a consent is to the terms on record. |
| `servicing_told` | `ToldTenureIsScheduled`: violated | A borrower who repays quarterly, whose final tenure was left out, is told the number of installments as his months. |
| `collections_bucket` | `ListedByDaysOverdue`: violated | An installment some hours past the last day of a bucket is listed in no bucket. |

Action properties, the refinement and leads-to formulas are checked as temporal
properties, the others as invariants. Every property of a passing run has a
mutant under `mutants` in `PROJECT.json`.

## 5. Bounds, fairness, deadlock

**Requests.** Two requests in flight make every race in which one handler's
write falls between another's read and write. `bank_race` has three: two
submissions and a click, or a third submission that meets the loser of a
race. `tracker_journey` has one: the tracker is a function of the rows, and the
races of the workflow are `approval_race`'s. The theorems need no bound.

**Data.**

- Approval: one user per role, since a handler looks at the role and only
  stamps the user, and two send-back targets, since the code tells
  `INITIATED` apart and nothing else; the requests are interchangeable
  (`RequestSymmetry`; the run checks no liveness). The tracker also sees the
  two targets its table has a re-entry for that a handler accepts.
- Invitations: two addresses, the old and the changed one, and `MaxLinks` = 2,
  one link and its successor.
- Disbursement: two agreements (one signed, one not), two conditions, payouts
  of 2, 0 and -1, `MaxTotal` = 2 in either direction and `MaxTranches` = 2: a
  payout, one that takes back part of it, a total below zero, by one request or
  two. Requests, agreements and conditions are interchangeable (`Symmetry`; the
  run checks no liveness).
- Tracker: totals of 0 and 1, by payouts of 1 and -1: all that its `> 0` tells
  apart.
- Repayment (2.9 million states): two installments, so that there is a last one
  and another; `MaxSchedules` = 2, a schedule and its replacement. `focus`
  splits the run: "race" has two requests that overlap and one night
  (`RaceDays` = 1), enough for one run of the job to meet both; "days" has one
  request at a time and `MaxDay` = 3, enough to accrue on what an earlier run
  accrued.
- Draft (3.6 million states): two courses and two fees, any of them there at
  first or created later, with one edit of the catalogue, one document
  type of each behaviour (replaced, kept side by side), two uploads; requests,
  courses and fees are interchangeable.
- The back office (1.1 million states): two details of a blacklisting; a limit
  between two bands (999 999.50) and one beyond any college's (20 000 000),
  years of operation inside a band (10) and below zero (-7); one role, an item of each
  release and one permission; one account, two passwords, three tokens (one to
  verify, two to reset); recipients that coincide, are absent or fill two slots,
  and two calls of a message; principals of 1, 2, 7, 100 to 160 and about 1000
  paisa over up to eight installments at rates from 1/100 to 1/1, so that every
  way of rounding happens; one override at a time (a tenure of no whole year or
  quarter, a principal, a null, YEARLY) of an approved loan of 9 over 12 months,
  payouts of 2 and -2; two installments due at noon 27 days apart, until the
  first is over a year late, one missed night and one payment (`LastTime` = 745
  half days); two texts of terms.

**Fairness** is assumed in the two runs with a liveness property:
`WF(Proceed(r) \/ Fail(r))` for each request. The event loop resumes a handler
whose await has answered, and every await answers or rejects. Nothing is
assumed of people: no request has to be made, no form submitted, no payment
recorded. The job needs no fairness, as no property waits for it.

**Deadlock** is checked except where the model really stops: in the runs of
`Invitation` when `MaxLinks` links exist and all have expired; in `draft_race`
when the application is submitted or deleted and the catalogue's edit is used;
in `backoffice`, `servicing_told` and `collections_bucket` when a schedule is
complete, the calls of a message are used up, the total is disbursed, or the
clock has reached its bound.

## 6. What is proved

Fifty theorems, in eight modules. They hold for any number of users,
requests, links, documents, uploads, conditions, installments, days, roles,
tokens, courses and recipients, and for any amounts, dates and terms. Their
assumptions are the `ASSUME`s of the modules, which TLC evaluates on the runs:

- constants are of their types: roles, stages, PATCH payloads, approved terms
  and overrides, samples of a parameter (`SamplesAssumption`), due dates,
  bounds; what is paid out is any integer (`AmountsAssumption`,
  `TranchesAssumption`), and so is what a parameter is scored by; overridden
  terms are positive or null (`OverridesAssumption`), and principals and rates
  that are amortized are positive (`TermsAssumption`), which the code checks;
- `NULL` is none of the values it stands beside;
- the requests of the draft and of disbursement are finitely many
  (`DraftAssumption`, `RequestsAssumption`), so that those in flight can be
  counted and their amounts added: a process has accepted finitely many;
- a user is not the name of a place in an application (`AddressesAssumption`),
  since `Notifications` speaks of both as recipients.

Each argument is an inductive invariant; what makes the property inductive is
named here. Every invariant and every action property of the passing runs is
stated by a theorem; their two leads-to properties are not (see the end of this
section).

- **`ApplicationDraftProofs`**
  - `DraftTypeCorrect`: `TypeOK`, beside `RequestsSound`: a request that names
    an upload names one that has happened.
  - `FeeStaysOfTheCourse`: `FeeIsOfTheCourse`. `StepsPriced`: the fee a step
    carries is one its course has had when it was read, and `priced`, the
    history of prices, only grows; so a price that changes between the read and
    the write does no harm.
  - `DocumentsStaySound`: `DocumentsSound`. That a row has its object, under
    every interleaving, rests on `FreshUploads`: a request about to create a row
    has stored an object no other request knows of, so nobody removes it
    meanwhile. The two parts that hold until requests overlap rest on `Alone`:
    one request is in flight, on a draft, and what it has read is still so
    (`SubmitReadLatest`, `UploadHasRoom`). `LeftBy` says what a step leaves of
    this to the next.
  - `SubmittedStaysFrozen`: `SubmittedIsFrozen`, from the same invariant.
- **`ApprovalProofs`**
  - `TypeCorrect`: `TypeOK`.
  - `NoSkippedSignOff`: `SignOffChain`. It is not inductive: a `check()` in
    flight has seen SUPPORTED and will write CHECKING whatever the row is by
    then. `ChainInv` adds what the requests carry. `InFlightChain`: a check or
    approve in flight saw a stage whose earlier signatures were there, or were
    excused by a send-back, and neither a signature nor an excuse is ever taken
    back. `SendBackIsMarked`: a request that saw the shortcut, and a stage that
    is SENT_BACK, prove that there was a send-back.
  - `ApprovalImplementsLoanGrant`: the refinement. The initial state maps to
    the initial state; `Approve` is the grant, a reject or send-back of an
    approved application is the withdrawal, and every other step is a stutter;
    it uses `TypeOK` to know that whoever approves is somebody.
  - `ShortcutIsSpent` and `DecisionStaysOnRecord`, from `AloneInv`: until
    requests overlap at most one is in flight, and what it read is still so.
  - `StudentSeesWhoActs`: `ShownReviewerCanAct`, of the tracker. A journey is a
    behaviour of `Approval` (`JourneyIsApproval`), so what is proved of the
    workflow holds along it. The send-back part compares the two tables. The
    other part needs `FirstRoundInv`: until a send-back, a rewritten date or an
    overlap, the dates on record are exactly those of the stages passed
    (`DatedSoFar`). This proof showed that the condition `~overlapped` of
    `FollowsPipeline` is needed: with more than one request a `support()` that
    commits after a `check()` takes the stage back and leaves the date, and the
    student is shown the Approver while the Credit Manager has to act.
  - `ProgressStays`: `ProgressIsKept`. A stage's resolution depends on columns
    that are only ever set, but by the steps the property excepts
    (`ResolvedStays`); of a payout, a lowered total is one, and it can undo no
    stage but DISBURSEMENT. `TotalStaysInt`: the total is a number, of any sign.
- **`BackOfficeProofs`**, one section per component
  - `AppraisalTypeCorrect`: what `calculate()` stores, for any integer inputs,
    negative ones and ones beyond the outer bounds of the table included. A
    parameter scores no less than 0 and no more than it is worth (`TableRow`,
    `PointsOfRule`, `BestRule`), so the sum lies between 0 and the points in
    play (`ScoreSum`, `WorthSum`, `SumsInPlay`), and the rounded percentage
    between 0 and 100 (`PercentageIsOne`), where there is a grade.
  - `BlacklistStaysConsistent` and `SectionTypeCorrect`: `PatchStillValid`, the
    merge a lone PATCH has validated is still the merge with the stored row.
  - `ReviewersReadWhatStays`: `FrozenUnderReview`, from `PatchAllowed`.
  - `NothingElseIsLost`: `OnlyYearsAreLost`. `ValidatorsFit` compares every
    validator with its column, over the ranks of all bounds.
  - `ScoreStaysOfInputs`: `ScoreIsOfStoredInputs`. `BandsDisjoint`: the bands of
    each parameter, open-ended as the outer ones are, exclude each other, for
    every integer number of hundredths and not only for the samples of the run.
  - `PermissionsTypeCorrect`; `RolesMeanWhatWasChosen`: `RoleTablesAgree`.
    `LeftOutIsHidden`: what an edit left out has an explicit row, which only a
    default item's seeding overwrites; `EditedRolesExist`; `OneWriterOfGrants`:
    a lone editor has deleted exactly what is still granted.
  - `AccountsTypeCorrect`; `LinksWorkOnce`: `LinksAreSound`. `LinkInv`: a
    request that writes a password or token writes the row of an account that
    exists, and one that does not exist has left no trace. `OnceInv`: a reset
    token belongs to one account, and to none once it was used; a lone reset
    still holds its account's token.
  - `ConsentMeansTheTerms`: `ConsentSound`, and `ConsentTypeCorrect`; beside the
    types, `FoundStaysFound`.
  - `FailuresAreReported`: `DeliveredOrReported`. `NotYetRepeated`: what the
    call under way may yet reach was received only from earlier calls that
    returned or died (`spent`), and until its row is written so was everything
    else. `NothingWhileReading`: when the read of the recipients rejects, nothing
    has been sent. It rests on
    `ChannelsInOrder` (distinct channels, the row first) and on
    `RecipientsDiffer` (no two recipients of a fan-out are one address).
    `SettledOrPending`: a recipient of a fan-out is settled or waits.
  - `MessagesTypeCorrect`: nobody receives a message more often than it was
    called for. `Tallied`: within a call, what was received already and what the
    channels and recipients still to be tried may add come to one at most.
  - `BackOfficeTypeCorrect`: `BackOfficeTypeOK`, all nine type invariants at
    once. `EachPartRuns`: a step of `MCBackOffice` is a step of one part and a
    stutter of the others, so each part behaves as its own specification says
    and its own theorem applies.
- **`BankAccountOpeningProofs`**
  - `TypeCorrect`.
  - `RequirementNotMissed`: `NoMissedRequirement`, inductive beside the types.
  - `RequirementMeansBoth`: `RequirementSound`. `CreatorSawBoth`: a request
    about to create has seen both forms; `CreatorNotifies`: the one that
    created is the only one that will notify; `OneClickAtATime`.
  - `SubmissionsGetThere`: the steps `RequirementFollows` rests on. A submission
    that is to create the requirement stays so under whatever others do
    (`OnItsWay`), and each statement of its own, or its failure, takes it one
    step nearer (`StepsAhead`) or ends the matter (`Reached`).
- **`DisbursementProofs`**
  - `TypeCorrect`, for payouts of any sign and in any number.
  - `SigningComesFirst`: `NothingBeforeSigning`. `SignInv` adds
    `SignedHasDate`, a signed status comes with its date, and `GateHeld`,
    a request beyond the gate proves that some document was signed. The date is
    what makes it go through: the status can be taken back, the date cannot.
  - `PayoutWasReady`: `PaysOnlyWhenReady`. `ReadStillHolds`: what a lone
    `confirm()` has read so far is still so.
  - `TotalIsAccounted`: `TotalAccounted`, inductive beside `SignInv` once the
    two sums can be reasoned about; see below.
- **`InvitationProofs`**
  - `TypeCorrect`: also that a request in flight points at a row that exists.
  - `NeverLockedOut`: `RecipientNotLockedOut`. `LockInv` adds `SawUsable`: what
    a visit read was never REVOKED, so `Open`, which writes back the status it
    read, cannot be what revokes the latest link; only `Revoke` is, and that
    request goes on to create.
  - `SettledStaysSettled`: `SettledIsFinal`. `RowIsAsRead`: the row a lone
    request will revoke, or mark FAILED, is neither verified nor revoked, and
    the one it will open has the status it saw.
  - `SuccessorIsNext`: the steps `RevokedIsSuperseded` rests on. While the
    latest link is revoked, a request that is to create its successor stays so,
    and its own next statement creates it or dies.
- **`LoanProofs`**
  - `ScheduleIsPayable`: `NewScheduleIsSound`. What is disbursed may fall after a
    principal was checked against it, so the argument is about `peak`, which
    cannot: an override was no more than the total when it was checked, nor is
    a total that was read (`MoneyTyped`, `Remembered`). `Remembered` also has
    that the terms about to be written are positive and come in whole
    installments, since `generateSchedule()` refuses all others. `ReadAlone`:
    until requests overlap, the approved limit is asked only of a borrower who
    was given nothing yet.
  - `ServicingTypeCorrect`, with the tenure a borrower is told of.
  - `PrincipalComesBack`: `PrincipalIsRepaid`, a part of `ScheduleAddsUp`. With
    the row's principal taken off what is outstanding and added to what was
    repaid, the sum stays; the last row takes what is left. That the rows are
    numbers at all (`ScheduleTypeCorrect`) needs that the EMI's denominator is
    not zero: a power of 1 + r exceeds 1 (`PowerGrows`).
  - `ScheduleStaysSound`: `ScheduleAddsUp`, for every principal, rate and number
    of installments. `ScheduleInv` adds two parts. `DriftBounded`: after each
    row, what is outstanding is off the formula's balance, for the installment
    as rounded, by at most half a paisa per row, compounded since: the interest
    of a row is off by no more (`RoundIsNear`, `DriftOfRow`). The installment is
    off by half a paisa itself (`EmiIsNear`), which the last row pays for
    (`LastRowIsNear`). `NeverGrows`: what is outstanding never exceeds the
    principal. The part that no row is negative is conditional on
    `OutweighsRounding`: the installment exceeds the interest on the whole
    principal, and ((1+r)^n - 1)/r paisa, which is what all rounding can come to.
    At 12 % a year, paid monthly over 30 years, that is an installment above 35
    rupees. The condition is a sufficient one; below it the property can fail
    (section 7).
  - `CollectionsTypeCorrect`.
  - `AgesCountOnce`: `AgeingSound`. `OneTile` and `ListedIsInTile` are about
    whole days counted over dates with a time of day. `FiredOnce`: a reminder
    that was sent was sent on a day that is over when the job runs again.
  - `UnpaidIsSeen`: `JobSeesWhatIsUnpaid`. `OldestDecides`: among the due dates
    that are past there is a least one, and it decides the class.
- **`RepaymentProofs`**
  - `TypeCorrect`.
  - `LastPaymentClears`: `NoMissedClearance`, inductive beside the types: the
    step that makes the last row PAID leaves its request at "counting".
  - `PenalOnlyForDaysLate`: `NoPenalBeforeDue`. `PenalInv`:
    `PenalWithinRuns`, an installment has been accrued for no more days than
    the job has run since its due date; `RoomToAccrue`, what the job is about
    to accrue is late by more than it carries; `SeenMayBeWritten`, also for
    the copy the job read before its transaction.
  - `ClearedStaysCleared`: `ClearedIsFinal`. `ReviewerKnowsStatus`: a lone
    request about to write the account's status knows it.

**Sums and powers.** `TotalAccounted` adds up a sequence and a set of requests
with the folds of the community modules, a score adds up over parameters, and
the EMI is a quotient of powers; each is a recursive function under the hood.
The provers do not do induction with an operator as a parameter, so the proofs
do without: `SumExists` and `PowerExists` show from the least counterexample
(`LeastNumber`, well-founded induction over the numbers as a set) that the
recursive equation has a solution on the domain in question, so that `CHOOSE`
finds one and the fold satisfies its equation. From it come the few facts the
invariants use: `SameSum` (a sum does not change when no summand does),
`SumMoves` (one summand), `SumGrows` (one more row), `PowerMultiplies`,
`PowerGrows`. For this the power of `Amortization` is a recursive function,
`Power`, and its sum a fold. These lemmas are in `LoanProofs`;
`DisbursementProofs` and `BackOfficeProofs` extend it.

TLC checks the conjuncts of these invariants that are properties of a run.

**Only model-checked.**

- `RevokedIsSuperseded` and `RequirementFollows`: liveness, which rests on
  fairness and ENABLED. What else their proofs would use is there: somebody is
  on the way (`NeverLockedOut`, `RequirementNotMissed`), and stays on it with
  every statement bringing the end nearer (`SuccessorIsNext`,
  `SubmissionsGetThere`).

## 7. Known gaps of the code

Four disagreements between the code and what its documents say have a run each,
under `findings` in `PROJECT.json`. What follows are behaviours the models let
one follow and that no property here judges, or that a property excepts.

**What concurrency costs.** The properties that hold "until requests overlap"
have, without that condition, a counterexample with two requests.

- `DecisionIsOnRecord`, `FrozenUnderReview`: a PATCH that passed its check lands
  after the hand-over or the decision.
- `ShortcutOnlyWhileSentBack`: a send-back by an Approver lands under a check
  in flight, which does not know of it.
- `BlacklistConsistent`: two PATCHes merged with the same old row. Two POSTs
  that both find the stamp empty both stamp the section.
- `SettledIsFinal`: a visit, a submission or a mail error decided before a
  revocation and written after it. Two sends that both find no live invitation
  create two.
- The completion of a bank account is audited twice by two clicks that both
  read PENDING.
- `PaysOnlyWhenReady`: a condition added between `confirm()`'s reads and its
  payout. `sendToSign()` writes PENDING_SIGNATURE over a signature uploaded
  since its read (README of the dashboard, lines 388-389, has signing as the
  end).
- `ClearedIsFinal`: a review flag decided before the clearance. Two schedules
  generated at once both stay.
- `approve()` commits over a rejection written after its read (FLOW.md:49-50
  has approval from CHECKING only).
- `SubmittedIsFrozen`, and one document per type: an upload, a step or a
  deletion that found a draft lands on what was submitted, or uploaded,
  meanwhile.
- `LinksAreSound`: two resets with one token both set a password.
- `RoleTablesAgree`: two edits of a role's permissions can leave the union.

**Approval and Initiator.** An Approver may send back an application no Checker
has signed, and the shortcut then passes over the Checker. The college may
answer again with no while the application stays in the Initiator's queue
(`application-initiator.service.ts:358` trusts the requirement; 341-346 says the
queue enforces verification). The POST looks at no stage.

**Appraisal.** `operationOfInstitution` is validated as a percentage with
decimals and stored as a whole number: the PATCH is lost with a 500
(`OnlyYearsAreLost` excepts it). A limit of 999 999.50 matches no band and
counts neither in the score nor in its maximum; no parameter at all scores 0 %,
which is the grade of the lowest risk. The engine's own request asks whole
numbers of any size and sign of three of its inputs
(`credit-score.dto.ts:16-35`), which `OnlyYearsAreLost` does not cover: a negative
one is scored by an open-ended band, and one beyond the column fails. A request that omits a parameter keeps
its column though it was not scored. Score and grade may be typed through the
PATCH (`update-initiator-application.dto.ts:824-850`), although the comment at
`credit-score.service.ts:118-124` has the engine own them.

**Tracker.** A send-back to CHECKING shows the Approver, whose handler takes
CHECKING only (`application-tracker.service.ts:99-102` reads as if it took
SENT_BACK). A send-back shows the reviews before its re-entry as completed,
signed or not. Dates of an earlier round make a resubmitted application skip
ahead. A payout of a negative amount can take back a DISBURSEMENT the student
has seen completed. DISBURSEMENT is never shown as current, and a rejection with all stages
complete shows nothing as rejected.

**Consent.** A page that was out of date records a consent to terms the student
has not seen (`stalePage`).

**Invitations and requirement.** A failure between revoking and creating leaves
no link until somebody sends again; a requirement whose creator died is never
announced, since `notifiedAt` is written with the row.

**Disbursement.** `confirm()` looks at no stage and no limit, and at no sign:
an amount of zero is a tranche, a negative one lowers the total, below zero if
it comes first (`confirm-disbursement.dto.ts:9-11`). A caller who repeats a
request that timed out pays twice: nothing tells the two apart. A failure between
the payout and its tranche leaves the total raised. Nothing ever writes a
disbursement COMPLETED.

**Servicing and repayment.** Terms are stored even when the schedule they call
for is refused with a 400. A term omitted in a second configuration keeps the
earlier override, where `schema.prisma:1303-1306` and the DTO have it fall back
to the approved value. A principal overridden within what was disbursed
is kept when a negative payout takes that back, against the comment at
`dashboard-repayment.service.ts:258-261`; `NewScheduleIsSound` speaks of the
most that had been disbursed. A loan paid up while under review is cleared by nobody,
neither by the payment nor by resolving the review
(`dashboard-repayment.service.ts:591`, against `dashboard/README.md:314-316`).
The job may write OVERDUE over a payment recorded since its read. A tiny
principal over very many installments gives a negative last principal, because
every earlier one is rounded up; `NoRowIsNegative` excepts such loans.

**Collections.** A PARTIAL installment gets no reminder before its due date; a
payment in part takes an OVERDUE installment out of tiles and list until the
next midnight; a missed night loses that night's reminders.

**Notifications.** A reminder writes its row after its SMS and WhatsApp, so a
failing row logs FAILED for what was delivered, and a retry repeats it. The
loops over the holders of a role stop at the first error. The reads of whom a
message goes to stand outside any `try` (`notifications.service.ts:181`, `:298`,
`dashboard-jobs.service.ts:118`), so that a failing one fails an operation that
has been done. When the process dies in the middle of a message nobody knows how
far it got, and whoever repeats the operation repeats what was sent. The borrower counts
as notified even if no channel got through.

**Accounts.** The verification mail cannot be sent again. A new reset link
replaces the old even when its mail is lost; changing the password leaves the
reset token.

**Permissions.** Each deployment's seed shows again what an Admin has hidden.
A role without a row for an item is let through by the guard while its sidebar
hides it.

## 8. What is not modelled, and the plan

Left out for good: admin, commission, insurance, student agreement, offer letter
and enrollment certificate (single-row records with no protocol between them);
read-only lists, the overview apart from its tiles, audit entries and message
templates; universities and filters of the marketplace; the document vault's
listing and the eligibility calculator, which store nothing; attestation, PEP
and forwarding notes; PDF and text extraction; and the roots in the conversion
of interest rates, out of reach of integer arithmetic.

Within reach, in this order:

1. **`LoanLifecycle`**: approval, disbursement and repayment composed over one
   application, `LoanGrant` standing for the workflow: what may be paid out and
   serviced for an application that is not, or no longer, approved.
2. The recipients' document uploads, which share the documents' table with the
   student's and pass through an invitation.
3. The walk-in application an Initiator creates, with its validations.
4. **Proofs**: what composition with `LoanGrant` promises of payouts, once
   `LoanLifecycle` is there.
