-------------------------------- MODULE Accounts --------------------------------
(***************************************************************************)
(* Accounts: registration and email verification, login, password reset    *)
(* and password change (auth/auth.service.ts, users/users.service.ts).     *)
(*                                                                         *)
(* Each handler reads the row, may spend a while hashing or comparing a    *)
(* password, and writes the row by id; requests interleave between the     *)
(* two.  A mail goes out after its token is stored and its loss is not     *)
(* noticed.  Tokens are random, so each is new; they expire by themselves. *)
(***************************************************************************)
EXTENDS Naturals, FiniteSets, HttpServer

CONSTANTS Emails,       \* addresses people register with
          Passwords,
          MaxTokens     \* bound: tokens ever drawn

ASSUME MaxTokensAssumption == MaxTokens \in Nat
ASSUME PasswordsAssumption == NULL \notin Passwords
ASSUME NoTokenAssumption == NULL \notin Nat

VARIABLES
    user,       \* the User rows, by email; password NULL: no such row
    tokens,     \* tokens drawn so far
    expired,    \* tokens past their expiry
    mailed,     \* tokens whose mail arrived
    request,    \* what each request remembers between its statements
    uses,       \* history: per token how often it set a password
    accountRaced, \* history: requests on one account overlapped
    loggedIn    \* history: accounts someone has logged in to

accounts == <<user, tokens, expired, mailed, request, uses, accountRaced, loggedIn>>

Token == 1..MaxTokens
NoRequest == [pc |-> "idle"]
NoUser == [password |-> NULL, verified |-> FALSE, verifyToken |-> NULL,
           resetToken |-> NULL]

Exists(e) == user[e].password # NULL

AccountsInit ==
    /\ user = [e \in Emails |-> NoUser]
    /\ tokens = 0 /\ expired = {} /\ mailed = {}
    /\ request = [r \in Requests |-> NoRequest]
    /\ uses = [t \in Token |-> 0]
    /\ accountRaced = FALSE
    /\ loggedIn = {}

(* A request starts, next to the others under way on the same account.     *)
Start(r, state) ==
    /\ request[r] = NoRequest
    /\ request' = [request EXCEPT ![r] = state]
    /\ accountRaced' = (accountRaced \/
                      \E q \in Requests :
                          request[q] # NoRequest /\ request[q].email = state.email)

Continue(r, state) == request' = [request EXCEPT ![r] = state]

Finish(r) == Continue(r, NoRequest)

DrawToken == tokens < MaxTokens /\ tokens' = tokens + 1

-------------------------------------------------------------------------------
(* register()                                                              *)

ReadRegister(r, e, p) ==
    /\ ~Exists(e)
    /\ Start(r, [pc |-> "register", email |-> e, password |-> p])
    /\ UNCHANGED <<user, tokens, expired, mailed, uses, loggedIn>>

(* The unique index on the email.                                          *)
EmailFree(e) == ~Exists(e)

Register(r) ==
    /\ request[r].pc = "register"
    /\ LET e == request[r].email
       IN  IF EmailFree(e)
           THEN /\ DrawToken
                /\ user' = [user EXCEPT ![e] =
                       [NoUser EXCEPT !.password = request[r].password,
                                      !.verifyToken = tokens']]
                /\ Continue(r, [pc |-> "mail", email |-> e, token |-> tokens'])
           ELSE Finish(r) /\ UNCHANGED <<user, tokens>>
    /\ UNCHANGED <<expired, mailed, uses, accountRaced, loggedIn>>

(* sendEmailVerification(), sendPasswordReset().                           *)
Mail(r) ==
    /\ request[r].pc = "mail"
    /\ mailed' = mailed \cup {request[r].token}
    /\ Finish(r)
    /\ UNCHANGED <<user, tokens, expired, uses, accountRaced, loggedIn>>

(* verifyEmail(): findFirst of the live token, then the update by id.      *)
ReadVerifyEmail(r, e, t) ==
    /\ t \in mailed \ expired
    /\ user[e].verifyToken = t
    /\ Start(r, [pc |-> "verify", email |-> e])
    /\ UNCHANGED <<user, tokens, expired, mailed, uses, loggedIn>>

VerifyEmail(r) ==
    /\ request[r].pc = "verify"
    /\ user' = [user EXCEPT ![request[r].email].verified = TRUE,
                            ![request[r].email].verifyToken = NULL]
    /\ Finish(r)
    /\ UNCHANGED <<tokens, expired, mailed, uses, accountRaced, loggedIn>>

(* login(): one read; what follows depends on that row alone.              *)
Login(e, p) ==
    /\ user[e].password = p
    /\ user[e].verified
    /\ loggedIn' = loggedIn \cup {e}
    /\ UNCHANGED <<user, tokens, expired, mailed, request, uses, accountRaced>>

-------------------------------------------------------------------------------
(* forgotPassword() and resetPassword()                                    *)

ReadForgotPassword(r, e) ==
    /\ Exists(e)
    /\ Start(r, [pc |-> "forgot", email |-> e])
    /\ UNCHANGED <<user, tokens, expired, mailed, uses, loggedIn>>

ForgotPassword(r) ==
    /\ request[r].pc = "forgot"
    /\ DrawToken
    /\ user' = [user EXCEPT ![request[r].email].resetToken = tokens']
    /\ Continue(r, [pc |-> "mail", email |-> request[r].email, token |-> tokens'])
    /\ UNCHANGED <<expired, mailed, uses, accountRaced, loggedIn>>

ReadResetPassword(r, e, t, p) ==
    /\ t \in mailed \ expired
    /\ user[e].resetToken = t
    /\ Start(r, [pc |-> "reset", email |-> e, token |-> t, password |-> p])
    /\ UNCHANGED <<user, tokens, expired, mailed, uses, loggedIn>>

(* Mutant: the token outlives its use.                                     *)
TokenKept(e) == user[e].resetToken

TokenSpent(e) == NULL

ResetPassword(r) ==
    /\ request[r].pc = "reset"
    /\ LET e == request[r].email
       IN  user' = [user EXCEPT ![e].password = request[r].password,
                                ![e].resetToken = TokenSpent(e)]
    /\ uses' = [uses EXCEPT ![request[r].token] = @ + 1]
    /\ Finish(r)
    /\ UNCHANGED <<tokens, expired, mailed, accountRaced, loggedIn>>

-------------------------------------------------------------------------------
(* changePassword(), by someone logged in                                  *)

KnowsPassword(e, current) == user[e].password = current

ReadChangePassword(r, e, current, new) ==
    /\ e \in loggedIn
    /\ KnowsPassword(e, current)
    /\ Start(r, [pc |-> "change", email |-> e, current |-> current,
                 password |-> new])
    /\ UNCHANGED <<user, tokens, expired, mailed, uses, loggedIn>>

ChangePassword(r) ==
    /\ request[r].pc = "change"
    /\ user' = [user EXCEPT ![request[r].email].password = request[r].password]
    /\ Finish(r)
    /\ UNCHANGED <<tokens, expired, mailed, uses, accountRaced, loggedIn>>

-------------------------------------------------------------------------------
(* The token's 24 hours, or its one hour, are over.                        *)
Expire(t) ==
    /\ t \in 1..tokens /\ t \notin expired
    /\ expired' = expired \cup {t}
    /\ UNCHANGED <<user, tokens, mailed, request, uses, accountRaced, loggedIn>>

(* A statement rejects, a mail is lost, or the process dies.               *)
LoseRequest(r) ==
    /\ request[r] # NoRequest
    /\ Finish(r)
    /\ UNCHANGED <<user, tokens, expired, mailed, uses, accountRaced, loggedIn>>

AccountsNext ==
    \/ \E r \in Requests :
          \/ Register(r) \/ Mail(r) \/ VerifyEmail(r) \/ ForgotPassword(r)
          \/ ResetPassword(r) \/ ChangePassword(r) \/ LoseRequest(r)
          \/ \E e \in Emails :
                \/ ReadForgotPassword(r, e)
                \/ \E t \in Token : ReadVerifyEmail(r, e, t)
                \/ \E p \in Passwords :
                      \/ ReadRegister(r, e, p)
                      \/ \E t \in Token : ReadResetPassword(r, e, t, p)
                      \/ \E new \in Passwords : ReadChangePassword(r, e, p, new)
    \/ \E e \in Emails, p \in Passwords : Login(e, p)
    \/ \E t \in Token : Expire(t)

AccountsSpec == AccountsInit /\ [][AccountsNext]_accounts

-------------------------------------------------------------------------------
(* Properties.                                                             *)

UserRow == [password : Passwords \cup {NULL}, verified : BOOLEAN,
         verifyToken : Token \cup {NULL}, resetToken : Token \cup {NULL}]

Request ==
    {NoRequest}
    \cup [pc : {"register"}, email : Emails, password : Passwords]
    \cup [pc : {"mail"}, email : Emails, token : Token]
    \cup [pc : {"verify", "forgot"}, email : Emails]
    \cup [pc : {"reset"}, email : Emails, token : Token, password : Passwords]
    \cup [pc : {"change"}, email : Emails, current : Passwords,
          password : Passwords]

AccountsTypeOK ==
    /\ user \in [Emails -> UserRow]
    /\ tokens \in 0..MaxTokens
    /\ expired \subseteq Token /\ mailed \subseteq Token
    /\ request \in [Requests -> Request]
    /\ uses \in [Token -> Nat]
    /\ accountRaced \in BOOLEAN
    /\ loggedIn \subseteq Emails

(* A reset link sets a password once, as long as requests on the account   *)
(* do not overlap: the update that sets it spends the token                *)
(* (resetPassword).                                                        *)
LinkSetsPasswordOnce == ~accountRaced => \A t \in Token : uses[t] <= 1

(* Whatever overlaps, nobody can log in to an account that has not         *)
(* followed a verification link, and an account not verified yet keeps the *)
(* token it was sent: there is no other way to get one (register,          *)
(* verifyEmail).                                                           *)
UnverifiedKeepsItsLink ==
    \A e \in Emails :
        Exists(e) /\ ~user[e].verified =>
            user[e].verifyToken # NULL /\ e \notin loggedIn

(* Links do what they were mailed for, once (the two above).               *)
LinksAreSound == LinkSetsPasswordOnce /\ UnverifiedKeepsItsLink

===============================================================================
