------------------------------ MODULE LoanServicing ------------------------------
(***************************************************************************)
(* The Credit Manager's configuration of an approved loan's final terms    *)
(* (configureServicing, generateSchedule, notifyBorrower in                *)
(* dashboard/repayment/dashboard-repayment.service.ts), and the terms a    *)
(* schedule is amortized from (common/utils/loan-principal.util.ts).       *)
(*                                                                         *)
(* configureServicing() stores the terms, then generates a schedule from   *)
(* what it reads back, then tells the borrower from what it reads back     *)
(* again.  A schedule is kept as the terms its rows were made of: the rows *)
(* are a function of them (Amortization).  Terms not set are NULL; a       *)
(* request's override has the fields it sends, and no others.  That a loan *)
(* CLEARED is not configured again is Repayment's concern.                 *)
(***************************************************************************)
EXTENDS Integers, FiniteSets, HttpServer, RepaymentFrequency

CONSTANTS Approved,         \* the application's own terms: [principal, tenure]
          Tranches,         \* what may be disbursed at once: any numbers
          Totals,           \* bound: the totals the model follows
          Overrides         \* what a Credit Manager may ask for

ASSUME TranchesAssumption == Tranches \cup Totals \subseteq Int

TermFields == {"principal", "tenure", "frequency"}

ASSUME ApprovedAssumption ==
    Approved.principal \in Int /\ Approved.tenure \in Int

(* @IsOptional() lets a null through as well: it clears the column, where  *)
(* the column may be null (a frequency may not, and fails).                *)
ASSUME OverridesAssumption ==
    \A o \in Overrides :
        /\ DOMAIN o \subseteq TermFields
        /\ \A f \in DOMAIN o \ {"frequency"} : o[f] \in (Nat \ {0}) \cup {NULL}
        /\ "frequency" \in DOMAIN o => o.frequency \in Frequencies

VARIABLES
    disbursed,  \* Disbursement.totalDisbursedAmount; NULL: no row
    peak,       \* history: the highest it has been, no less than 0
    final,      \* the LoanAccount's final terms
    configured, \* LoanAccount.configuredAt is set
    schedule,   \* the terms of the schedules in the table; none, or one
    told,       \* what the borrower was last told, [tenure, scheduled]
    servicing,  \* what each request remembers between its statements
    servicingRaced \* history: two requests overlapped

money         == <<disbursed, peak>>
loanServicing == <<money, final, configured, schedule, told, servicing, servicingRaced>>

NotServicing == [pc |-> "idle"]

ServicingInit ==
    /\ disbursed = NULL
    /\ peak = 0
    /\ final = [f \in TermFields |-> NULL]
    /\ configured = FALSE
    /\ schedule = {}
    /\ told = NULL
    /\ servicing = [r \in Requests |-> NotServicing]
    /\ servicingRaced = FALSE

-------------------------------------------------------------------------------
(* Terms.                                                                  *)

Default(value, fallback) == IF value # NULL THEN value ELSE fallback

(* Mutant: the principal is the approved limit, disbursed or not.          *)
ApprovedPrincipal(account, total) == Default(account.principal, Approved.principal)

(* resolveFinalPrincipalAmount(): ?? passes over what is null, not over a  *)
(* total of zero or less.                                                  *)
ResolvePrincipal(account, total) ==
    Default(account.principal, Default(total, Approved.principal))

(* resolveEffectiveLoanTerms() of the rows read                            *)
EffectiveTerms(account, total) ==
    [principal |-> ResolvePrincipal(account, total),
     tenure |-> Default(account.tenure, Approved.tenure),
     frequency |-> Default(account.frequency, "MONTHLY")]

(* Anything else generateSchedule() refuses with a 400.                    *)
Amortizable(terms) ==
    terms.principal > 0 /\ WholeTenure(terms.tenure, terms.frequency)

Installments(terms) == terms.tenure \div PeriodMonths(terms.frequency)

-------------------------------------------------------------------------------
(* Requests.                                                               *)

StartServicing(r, state) ==
    /\ servicing[r] = NotServicing
    /\ servicing' = [servicing EXCEPT ![r] = state]
    /\ servicingRaced' = (servicingRaced \/ \E q \in Requests : servicing[q] # NotServicing)

Go(r, state) == servicing' = [servicing EXCEPT ![r] = state] /\ UNCHANGED servicingRaced

Reached(r, pc) == servicing[r].pc = pc

OverridesPrincipal(override) ==
    "principal" \in DOMAIN override /\ override.principal # NULL

WithinDisbursed(override) ==
    OverridesPrincipal(override) => override.principal <= disbursed

ReadConfigureServicing(r, override) ==
    /\ disbursed # NULL /\ disbursed > 0
    /\ WithinDisbursed(override)
    /\ StartServicing(r, [pc |-> "configure", override |-> override])
    /\ UNCHANGED <<money, final, configured, schedule, told>>

(* An omitted term keeps the one stored before.                            *)
ConfigureServicing(r) ==
    /\ Reached(r, "configure")
    /\ final' = [f \in TermFields |->
                    IF f \in DOMAIN servicing[r].override
                      THEN servicing[r].override[f] ELSE final[f]]
    /\ configured' = TRUE
    /\ Go(r, [pc |-> "generate", then |-> "notify"])
    /\ UNCHANGED <<money, schedule, told>>

(* POST generate-schedule, by any staff member, at any time.               *)
BeginGenerate(r) ==
    /\ StartServicing(r, [pc |-> "generate", then |-> "return"])
    /\ UNCHANGED <<money, final, configured, schedule, told>>

ReadApplication(r) ==
    /\ Reached(r, "generate")
    /\ Go(r, [pc |-> "account", then |-> servicing[r].then, total |-> disbursed])
    /\ UNCHANGED <<money, final, configured, schedule, told>>

(* The account is read, the terms resolved, and refused or amortized.      *)
ReadAccount(r) ==
    /\ Reached(r, "account")
    /\ LET terms == EffectiveTerms(final, servicing[r].total)
       IN  IF Amortizable(terms)
           THEN Go(r, [pc |-> "delete", then |-> servicing[r].then,
                       terms |-> terms])
           ELSE Go(r, NotServicing)
    /\ UNCHANGED <<money, final, configured, schedule, told>>

DeleteSchedule(r) ==
    /\ Reached(r, "delete")
    /\ schedule' = {}
    /\ Go(r, [servicing[r] EXCEPT !.pc = "create"])
    /\ UNCHANGED <<money, final, configured, told>>

CreateSchedule(r) ==
    /\ Reached(r, "create")
    /\ schedule' = schedule \cup {servicing[r].terms}
    /\ Go(r, IF servicing[r].then = "notify" THEN [pc |-> "notify"]
                                             ELSE NotServicing)
    /\ UNCHANGED <<money, final, configured, told>>

(* POST servicing/notify-borrower                                          *)
BeginNotify(r) ==
    /\ StartServicing(r, [pc |-> "notify"])
    /\ UNCHANGED <<money, final, configured, schedule, told>>

ReadForNotify(r) ==
    /\ Reached(r, "notify")
    /\ IF configured THEN Go(r, [pc |-> "tell", tenure |-> final.tenure])
                     ELSE Go(r, NotServicing)
    /\ UNCHANGED <<money, final, configured, schedule, told>>

(* The schedule is read and the message sent; without one, a 400.          *)
NotifyBorrower(r) ==
    /\ Reached(r, "tell")
    /\ \/ schedule = {} /\ UNCHANGED told
       \/ \E s \in schedule :
             told' = [tenure |-> Default(servicing[r].tenure, Installments(s)),
                      scheduled |-> s.tenure]
    /\ Go(r, NotServicing)
    /\ UNCHANGED <<money, final, configured, schedule>>

(* dashboard/disbursement: another tranche is confirmed, of any amount;    *)
(* the first one creates the row.                                          *)
ConfirmTranche(amount) ==
    /\ disbursed' = IF disbursed = NULL THEN amount ELSE disbursed + amount
    /\ disbursed' \in Totals
    /\ peak' = IF disbursed' > peak THEN disbursed' ELSE peak
    /\ servicingRaced' = (servicingRaced \/ \E q \in Requests : servicing[q] # NotServicing)
    /\ UNCHANGED <<final, configured, schedule, told, servicing>>

(* A statement rejects, or the process dies between two of them.           *)
FailServicing(r) ==
    /\ servicing[r] # NotServicing
    /\ Go(r, NotServicing)
    /\ UNCHANGED <<money, final, configured, schedule, told>>

ServicingNext ==
    \/ \E r \in Requests :
          \/ \E o \in Overrides : ReadConfigureServicing(r, o)
          \/ ConfigureServicing(r)
          \/ BeginGenerate(r) \/ ReadApplication(r) \/ ReadAccount(r)
          \/ DeleteSchedule(r) \/ CreateSchedule(r)
          \/ BeginNotify(r) \/ ReadForNotify(r) \/ NotifyBorrower(r)
          \/ FailServicing(r)
    \/ \E t \in Tranches : ConfirmTranche(t)

ServicingSpec == ServicingInit /\ [][ServicingNext]_loanServicing

-------------------------------------------------------------------------------
(* Properties.                                                             *)

TermsRecord == [principal : Nat \ {0}, tenure : Nat \ {0},
                frequency : Frequencies]

ServicingTypeOK ==
    /\ disbursed \in Int \cup {NULL}
    /\ peak \in Nat
    /\ final \in [principal : Nat \cup {NULL}, tenure : Nat \cup {NULL},
                  frequency : Frequencies \cup {NULL}]
    /\ configured \in BOOLEAN
    /\ schedule \subseteq TermsRecord
    /\ told # NULL => told \in [tenure : Nat, scheduled : Nat]
    /\ servicingRaced \in BOOLEAN

(* A schedule that comes into being can be paid in whole installments and  *)
(* asks the borrower to repay something, and no more than he had been      *)
(* given at some time, whichever terms were overridden, kept from an       *)
(* earlier configuration or left to their defaults and whatever was        *)
(* disbursed or taken back meanwhile.  Only before the first disbursement, *)
(* or by a request that overlapped it, is a schedule made of the approved  *)
(* limit (configureServicing, resolveFinalPrincipalAmount,                 *)
(* generateSchedule).                                                      *)
NewScheduleIsSound ==
    [][\A s \in schedule' \ schedule :
          /\ Installments(s) * PeriodMonths(s.frequency) = s.tenure
          /\ s.principal > 0
          /\ \/ s.principal <= peak
             \/ /\ s.principal = Approved.principal
                /\ disbursed = NULL \/ servicingRaced'
      ]_loanServicing

(* As long as no requests overlap, the tenure the borrower is told is that *)
(* of the schedule he is sent with it (notifyBorrower).                    *)
ToldTenureIsScheduled ==
    ~servicingRaced /\ told # NULL => told.tenure = told.scheduled

===============================================================================
