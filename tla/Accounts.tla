------------------------------ MODULE Accounts ------------------------------
(***************************************************************************)
(* The accounts of users (AuthService, UsersService, PlansService and      *)
(* WalletService.syncMissingWallets): sign-up locally and with Google, the *)
(* wallet that comes with it, the proof of the e-mail address, the change  *)
(* of a forgotten password.                                                *)
(*                                                                         *)
(* Every handler awaits between reading the user and saving it, and a save *)
(* writes the row as it was read, with what the handler set; undefined     *)
(* fields are left as they are.  A row removed meanwhile is inserted again.*)
(***************************************************************************)
EXTENDS Naturals, FiniteSets

CONSTANTS
  Users,        \* users; no other one takes an address that one of them has
                \* had (bound)
  Secrets,      \* passwords that users choose
  Codes,        \* verification codes and reset tokens, all different (bound)
  Requests,     \* slots for requests in progress
  Production,   \* whether NODE_ENV is production
  None,         \* no row, no password, no code
  MaxRequests,  \* bound on requests started
  MaxFaults     \* bound on crashes and failed calls

ASSUME AccountsAssumption ==
  /\ None \notin Users \cup Secrets \cup Codes
  /\ Production \in BOOLEAN /\ MaxRequests \in Nat /\ MaxFaults \in Nat

VARIABLES
  user,       \* rows of users
  wallets,    \* users that a row of wallets refers to
  freePlan,   \* the row of plans named Free
  expired,    \* codes whose time has run out
  mailed,     \* mailed[u]: codes that u was sent, with the address
  req,        \* the requests in progress and what they have read
  started, faults,  \* requests and faults so far, for the bounds
  gone,       \* history: users that were removed
  signedUp,   \* history: users saved by register or googleAuth
  proven,     \* history: pairs <<user, address>> proven to belong together
  readdressed,  \* history: users whose address was changed
  chosen,     \* history: the password last set of each user, and by which route
  spent,      \* history: tokens that have changed a password
  disturbed   \* history: users whose requests overlapped or broke off

rows    == <<user, wallets, freePlan>>
outside == <<expired, mailed>>
bounds  == <<started, faults>>
history == <<gone, signedUp, proven, readdressed, chosen, spent, disturbed>>
accounts == <<rows, outside, req, bounds, history>>

(* A password is stored as a hash, or as it came, by the routes of users.   *)
Password == Secrets \X {"hash", "plain"}

(* How it was chosen: through AuthService, or through the routes of users.  *)
Choice == Secrets \X {"auth", "users"}

(* The e-mail address a user signed up with, and one it is changed to.      *)
Email == {"first", "second"}

User == [email : Email, password : Password \cup {None},
         provider : {"local", "google"}, google : BOOLEAN, verified : BOOLEAN,
         code : Codes \cup {None}, token : Codes \cup {None}]

ASSUME AbsentAssumption == None \notin User \cup Password \cup Choice

Request == [phase : {"idle", "plan", "google", "signUp", "wallet", "save", "mail",
                     "reset", "savePlan", "sync"},
            user : Users \cup {None}, row : User \cup {None},
            email : Email, mail : Codes \cup {None},
            plan : {"none", "active", "inactive"},
            missing : SUBSET Users]

Idle == [phase |-> "idle", user |-> None, row |-> None, email |-> "first",
         mail |-> None, plan |-> "none", missing |-> {}]

AccountsTypeOK ==
  /\ user \in [Users -> User \cup {None}]
  /\ wallets \subseteq Users
  /\ freePlan \in {"none", "active", "inactive"}
  /\ expired \subseteq Codes
  /\ mailed \in [Users -> SUBSET (Codes \X Email)]
  /\ req \in [Requests -> Request]
  /\ started \in 0..MaxRequests /\ faults \in 0..MaxFaults
  /\ gone \subseteq Users /\ signedUp \subseteq Users
  /\ proven \subseteq Users \X Email /\ readdressed \subseteq Users
  /\ chosen \in [Users -> Choice \cup {None}]
  /\ spent \subseteq Codes /\ disturbed \subseteq Users

AccountsInit ==
  /\ user = [u \in Users |-> None]
  /\ wallets = {} /\ freePlan \in {"none", "active"}
  /\ expired = {} /\ mailed = [u \in Users |-> {}]
  /\ req = [r \in Requests |-> Idle]
  /\ started = 0 /\ faults = 0
  /\ gone = {} /\ signedUp = {} /\ proven = {} /\ readdressed = {}
  /\ spent = {} /\ disturbed = {}
  /\ chosen = [u \in Users |-> None]

------------------------------------------------------------------------------
Exists(u) == user[u] # None
Existing  == {u \in Users : Exists(u)}

Busy(q, u) == req[q].phase # "idle" /\ req[q].user = u

(* u itself when a request about it is in progress.                         *)
Overlapped(u) == {v \in {u} \cap Users : \E q \in Requests : Busy(q, v)}

(* A request about user u has done its reads and goes on with w.            *)
Start(r, u, w) ==
  /\ req[r].phase = "idle"
  /\ started < MaxRequests /\ started' = started + 1
  /\ req' = [req EXCEPT ![r] = [w EXCEPT !.user = u]]
  /\ disturbed' = disturbed \cup Overlapped(u)
  /\ UNCHANGED <<faults, outside, gone, readdressed>>

Finish(r) == req' = [req EXCEPT ![r] = Idle]

CodesIn(row) == IF row = None THEN {} ELSE {row.code, row.token}

Received(u) == {m[1] : m \in mailed[u]}

(* Codes never drawn before (generateVerificationCode, randomBytes): found  *)
(* in no row, in no copy of a row that is yet to be saved, and in no mail.  *)
Unused(c) ==
  /\ \A u \in Users : c \notin Received(u) \cup CodesIn(user[u])
  /\ \A r \in Requests : c \notin {req[r].mail} \cup CodesIn(req[r].row)
  /\ c \notin expired \cup spent

LocalUser(s) == [email |-> "first", password |-> <<s, "hash">>, provider |-> "local",
                 google |-> FALSE, verified |-> FALSE, code |-> None, token |-> None]

(* variant: provider is not one of the two                                  *)
GoogleUserUnnamed == [email |-> "first", password |-> None, provider |-> "",
                      google |-> TRUE, verified |-> TRUE, code |-> None, token |-> None]

GoogleUser == [email |-> "first", password |-> None, provider |-> "google",
               google |-> TRUE, verified |-> TRUE, code |-> None, token |-> None]

(* What findOrCreateFreePlan needs: an active plan, or leave to make one.   *)
MayHavePlan == freePlan = "active" \/ ~Production

(* register up to findOrCreateFreePlan, which reads the plan.               *)
Register(r, u, s) ==
  /\ user[u] = None /\ u \notin gone
  /\ MayHavePlan
  /\ Start(r, u, [Idle EXCEPT !.row = LocalUser(s),
                    !.phase = IF freePlan = "active" THEN "signUp" ELSE "plan"])
  /\ UNCHANGED <<rows, signedUp, proven, chosen, spent>>

(* What findOrCreateFreePlan returns: the plan, or none.                    *)
PlanFound(plan) == IF plan = "active" THEN "active" ELSE "none"

(* googleAuth up to findOrCreateFreePlan; Google has verified the token and *)
(* with it the address a.                                                   *)
GoogleAuth(r, u, a) ==
  /\ u \notin gone
  /\ IF Exists(u) THEN a = user[u].email ELSE a = "first"
  /\ Start(r, u, [Idle EXCEPT !.email = a, !.plan = PlanFound(freePlan),
                    !.phase = IF freePlan # "active" /\ ~Production
                              THEN "plan" ELSE "google"])
  /\ UNCHANGED <<rows, signedUp, proven, chosen, spent>>

(* The insertion that a unique name makes void, and the second reading: an  *)
(* inactive plan ends register.                                             *)
InsertFreePlan(r) ==
  /\ req[r].phase = "plan"
  /\ freePlan' = IF freePlan = "none" THEN "active" ELSE freePlan
  /\ IF req[r].row = None
     THEN req' = [req EXCEPT ![r].phase = "google", ![r].plan = PlanFound(freePlan')]
     ELSE IF freePlan' = "active" THEN req' = [req EXCEPT ![r].phase = "signUp"]
     ELSE Finish(r)
  /\ UNCHANGED <<user, wallets, outside, bounds, history>>

(* googleAuth reads the user by the address, and makes or updates it;       *)
(* without a plan it cannot make one.  Whom it would make for an address    *)
(* that u no longer has, or does not have yet, is another user.             *)
ReadGoogleUser(r) ==
  LET u == req[r].user
      a == req[r].email
      found == Exists(u) /\ user[u].email = a
  IN
  /\ req[r].phase = "google"
  /\ IF found
     THEN req' = [req EXCEPT ![r].phase = "save",
                    ![r].row = [user[u] EXCEPT !.google = TRUE, !.verified = TRUE]]
     ELSE IF ~Exists(u) /\ a = "first" /\ req[r].plan = "active"
     THEN req' = [req EXCEPT ![r].phase = "signUp", ![r].row = GoogleUser]
     ELSE Finish(r)
  /\ proven' = IF found THEN proven \cup {<<u, a>>} ELSE proven
  /\ UNCHANGED <<rows, outside, bounds, gone, signedUp, readdressed, chosen, spent,
                 disturbed>>

(* variant: only register makes a wallet                                    *)
AfterSignUpLocal(row) == IF row.provider = "local" THEN "wallet" ELSE "idle"

AfterSignUp(row) == "wallet"

(* usersRepository.save of a new user: users.email is unique.               *)
SaveNewUser(r) ==
  LET u == req[r].user IN
  /\ req[r].phase = "signUp" /\ u \notin gone
  /\ IF Exists(u)
     THEN Finish(r) /\ UNCHANGED <<user, signedUp, proven, chosen>>
     ELSE /\ user' = [user EXCEPT ![u] = req[r].row]
          /\ signedUp' = signedUp \cup {u}
          /\ proven' = IF req[r].row.verified
                       THEN proven \cup {<<u, req[r].row.email>>} ELSE proven
          /\ chosen' = [chosen EXCEPT ![u] =
                          IF req[r].row.password = None THEN None
                          ELSE <<req[r].row.password[1], "auth">>]
          /\ req' = [req EXCEPT ![r].phase = AfterSignUp(req[r].row), ![r].row = None]
  /\ UNCHANGED <<wallets, freePlan, outside, bounds, gone, readdressed, spent, disturbed>>

(* wallets."userId" is unique and refers to the user.                       *)
SaveWallet(r) ==
  LET u == req[r].user IN
  /\ req[r].phase = "wallet"
  /\ wallets' = IF Exists(u) THEN wallets \cup {u} ELSE wallets
  /\ Finish(r)
  /\ UNCHANGED <<user, freePlan, outside, bounds, history>>

------------------------------------------------------------------------------
(* usersRepository.save(user), the row as it was read and changed.          *)
SaveUser(r) ==
  LET u == req[r].user IN
  /\ req[r].phase = "save"
  /\ user' = [user EXCEPT ![u] = req[r].row]
  /\ IF req[r].mail = None THEN Finish(r)
     ELSE req' = [req EXCEPT ![r].phase = "mail", ![r].row = None]
  /\ UNCHANGED <<wallets, freePlan, outside, bounds, history>>

(* MailService, to the address as it was read; a failed call is a BreakOff. *)
SendMail(r) ==
  /\ req[r].phase = "mail"
  /\ mailed' = [mailed EXCEPT ![req[r].user] = @ \cup {<<req[r].mail, req[r].email>>}]
  /\ Finish(r)
  /\ UNCHANGED <<rows, expired, bounds, history>>

SendVerificationCode(r, u, c) ==
  /\ Exists(u) /\ ~user[u].verified /\ Unused(c)
  /\ Start(r, u, [Idle EXCEPT !.phase = "save", !.mail = c, !.email = user[u].email,
                              !.row = [user[u] EXCEPT !.code = c]])
  /\ UNCHANGED <<rows, signedUp, proven, chosen, spent>>

(* variant: a code is not compared with the one that was sent               *)
AnyCode(u, c) == user[u].code # None

ValidCode(u, c) == user[u].code = c /\ c \notin expired

(* verifyEmail with a code that was received.  The code is set to undefined *)
(* and so survives the save.                                                *)
VerifyEmail(r, u, c) ==
  /\ Exists(u) /\ c \in Received(u)
  /\ ValidCode(u, c)
  /\ Start(r, u, [Idle EXCEPT !.phase = "save",
                              !.row = [user[u] EXCEPT !.verified = TRUE]])
  /\ proven' = IF user[u].code # c THEN proven
               ELSE proven \cup {<<u, m[2]>> : m \in {n \in mailed[u] : n[1] = c}}
  /\ UNCHANGED <<rows, signedUp, chosen, spent>>

ForgotPassword(r, u, c) ==
  /\ Exists(u) /\ user[u].provider = "local" /\ Unused(c)
  /\ Start(r, u, [Idle EXCEPT !.phase = "save", !.mail = c, !.email = user[u].email,
                              !.row = [user[u] EXCEPT !.token = c]])
  /\ UNCHANGED <<rows, signedUp, proven, chosen, spent>>

(* variant: the token stays, as it would with save(undefined)               *)
ResetButKeeps(row, s) == [row EXCEPT !.password = <<s, "hash">>]

ResetRow(row, s) == [row EXCEPT !.password = <<s, "hash">>, !.token = None]

(* resetPassword finds the user by a token it received ...                  *)
ResetPassword(r, u, c, s) ==
  /\ Exists(u) /\ c \in Received(u)
  /\ user[u].token = c /\ c \notin expired
  /\ Start(r, u, [Idle EXCEPT !.phase = "reset", !.mail = c, !.row = LocalUser(s)])
  /\ UNCHANGED <<rows, signedUp, proven, chosen, spent>>

(* ... and updates only the password and the token.                         *)
UpdatePassword(r) ==
  LET u == req[r].user
      s == req[r].row.password[1]
  IN
  /\ req[r].phase = "reset"
  /\ user' = IF Exists(u) THEN [user EXCEPT ![u] = ResetRow(@, s)] ELSE user
  /\ chosen' = [chosen EXCEPT ![u] = <<s, "auth">>]
  /\ spent' = spent \cup {req[r].mail}
  /\ Finish(r)
  /\ UNCHANGED <<wallets, freePlan, outside, bounds, gone, signedUp, proven, readdressed,
                 disturbed>>

(* login, which changes nothing.                                            *)
CanLogin(u, s) ==
  Exists(u) /\ user[u].provider = "local" /\ user[u].password = <<s, "hash">>

------------------------------------------------------------------------------
(* UsersService, one query each: a user without wallet or plan, its columns *)
(* updated, and its removal, which takes the wallet along.                  *)
CreateUser(u, s) ==
  /\ user[u] = None /\ u \notin gone
  /\ started < MaxRequests /\ started' = started + 1
  /\ user' = [user EXCEPT ![u] = [LocalUser(s) EXCEPT !.password = <<s, "plain">>]]
  /\ chosen' = [chosen EXCEPT ![u] = <<s, "users">>]
  /\ UNCHANGED <<wallets, freePlan, outside, req, faults, gone, signedUp, proven,
                 readdressed, spent, disturbed>>

(* Open to anyone.  The address may change, the password may (s # None),    *)
(* and neither is proven or hashed.                                         *)
UpdateUser(u, a, s) ==
  /\ Exists(u) /\ (a # user[u].email \/ s # None)
  /\ started < MaxRequests /\ started' = started + 1
  /\ user' = [user EXCEPT ![u].email = a,
                          ![u].password = IF s = None THEN @ ELSE <<s, "plain">>]
  /\ readdressed' = IF a = user[u].email THEN readdressed ELSE readdressed \cup {u}
  /\ chosen' = IF s = None THEN chosen ELSE [chosen EXCEPT ![u] = <<s, "users">>]
  /\ disturbed' = disturbed \cup Overlapped(u)
  /\ UNCHANGED <<wallets, freePlan, outside, req, faults, gone, signedUp, proven,
                 spent>>

RemoveUser(u) ==
  /\ Exists(u) /\ gone' = gone \cup {u}
  /\ started < MaxRequests /\ started' = started + 1
  /\ user' = [user EXCEPT ![u] = None]
  /\ wallets' = wallets \ {u}
  /\ disturbed' = disturbed \cup Overlapped(u)
  /\ UNCHANGED <<freePlan, outside, req, faults, signedUp, proven, readdressed, chosen,
                 spent>>

(* PlansService, for the plan Free: made with a unique name; read, then     *)
(* saved with its new state.                                                *)
CreatePlan ==
  /\ freePlan = "none"
  /\ started < MaxRequests /\ started' = started + 1
  /\ freePlan' \in {"active", "inactive"}
  /\ UNCHANGED <<user, wallets, outside, req, faults, history>>

UpdatePlan(r) ==
  /\ freePlan # "none"
  /\ \E plan \in {"active", "inactive"} :
       Start(r, None, [Idle EXCEPT !.phase = "savePlan", !.plan = plan])
  /\ UNCHANGED <<rows, signedUp, proven, chosen, spent>>

SavePlan(r) ==
  /\ req[r].phase = "savePlan"
  /\ freePlan' = req[r].plan
  /\ Finish(r)
  /\ UNCHANGED <<user, wallets, outside, bounds, history>>

------------------------------------------------------------------------------
(* syncMissingWallets takes a user to have no wallet when users."walletId"  *)
(* is null, a column that nothing writes: it finds every user.              *)
WithoutWallet == Existing

SyncMissingWallets(r) ==
  /\ Start(r, None, [Idle EXCEPT !.phase = "sync", !.missing = WithoutWallet])
  /\ UNCHANGED <<rows, signedUp, proven, chosen, spent>>

(* All wallets are inserted, or none: wallets."userId" is unique.           *)
SaveMissingWallets(r) ==
  /\ req[r].phase = "sync"
  /\ wallets' = IF req[r].missing \cap wallets = {} /\ req[r].missing \subseteq Existing
                THEN wallets \cup req[r].missing ELSE wallets
  /\ Finish(r)
  /\ UNCHANGED <<user, freePlan, outside, bounds, history>>

(* External: ten minutes or an hour have passed.                            *)
CodeExpires(c) ==
  /\ c \notin expired /\ \E u \in Users : c \in Received(u)
  /\ expired' = expired \cup {c}
  /\ UNCHANGED <<rows, mailed, req, bounds, history>>

(* A crash or a failed call; what it leaves half done is a user without its *)
(* wallet, or an answer that was not recorded.                              *)
BreakOff(r) ==
  /\ req[r].phase # "idle"
  /\ faults < MaxFaults /\ faults' = faults + 1
  /\ disturbed' = IF req[r].phase \in {"wallet", "save"}
                THEN disturbed \cup {req[r].user} ELSE disturbed
  /\ Finish(r)
  /\ UNCHANGED <<rows, outside, started, gone, signedUp, proven, readdressed, chosen, spent>>

AccountStep(r) ==
  \/ \E u \in Users, s \in Secrets : Register(r, u, s)
  \/ \E u \in Users, a \in Email : GoogleAuth(r, u, a)
  \/ \E u \in Users, c \in Codes :
       SendVerificationCode(r, u, c) \/ VerifyEmail(r, u, c) \/ ForgotPassword(r, u, c)
  \/ \E u \in Users, c \in Codes, s \in Secrets : ResetPassword(r, u, c, s)
  \/ InsertFreePlan(r) \/ ReadGoogleUser(r) \/ SaveNewUser(r) \/ SaveWallet(r)
  \/ SaveUser(r) \/ SendMail(r) \/ UpdatePassword(r)
  \/ UpdatePlan(r) \/ SavePlan(r)
  \/ SyncMissingWallets(r) \/ SaveMissingWallets(r)
  \/ BreakOff(r)

AccountsNext ==
  \/ \E r \in Requests : AccountStep(r)
  \/ \E u \in Users, s \in Secrets : CreateUser(u, s)
  \/ \E u \in Users, a \in Email, s \in Secrets \cup {None} : UpdateUser(u, a, s)
  \/ \E u \in Users : RemoveUser(u)
  \/ CreatePlan
  \/ \E c \in Codes : CodeExpires(c)

------------------------------------------------------------------------------
(* Safety.                                                                  *)

Quiet(u) == u \notin disturbed /\ \A q \in Requests : ~Busy(q, u)

(* Through every copy of a row saved over another: an address counts as     *)
(* verified only if its owner presented the code mailed to it, or Google    *)
(* vouched for it (auth.service.ts:239, 389).  A change of the address is   *)
(* the exception: it keeps the mark, and the pending code                   *)
(* (users.service.ts:35), so that the address proven may be the other one.  *)
VerifiedWasProven ==
  \A u \in Existing : user[u].verified =>
    \E a \in Email : <<u, a>> \in proven /\ (a = user[u].email \/ u \in readdressed)

(* A user who signed up has a wallet, also when the wallets were            *)
(* synchronised between the save of the user and that of its wallet, and    *)
(* whichever of two sign-ups of one address came first.                     *)
QuietUserHasWallet ==
  \A u \in Existing \cap signedUp : Quiet(u) => u \in wallets

(* Where requests of a user did not overlap: the one password that works is *)
(* the one last chosen, none where that came through the routes of users    *)
(* (auth.service.ts:168), an address proven stays so, and a token that has  *)
(* changed the password cannot do so again (auth.service.ts:306).           *)
QuietAccountIsCurrent ==
  \A u \in Existing : Quiet(u) =>
    /\ \A s \in Secrets : CanLogin(u, s) <=> chosen[u] = <<s, "auth">>
    /\ \A a \in Email : <<u, a>> \in proven => user[u].verified
    /\ user[u].token \notin spent
==============================================================================
