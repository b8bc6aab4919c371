------------------------- MODULE UserDefaultsProofs -------------------------
(***************************************************************************)
(* Proofs about the accounts of users and the addresses and payment        *)
(* methods that hang on them.                                              *)
(*                                                                         *)
(* A save writes a whole row as it was read, so what is true of the rows   *)
(* has to be true of every copy in flight too.  The invariants follow the  *)
(* copies: Proven and TokensLocal hold of any row that will be saved,      *)
(* CodesApart says that no code is held for two users, and AccountInOrder  *)
(* says of a user whose requests never overlapped which of the two, the    *)
(* row or the copy that is about to replace it, is the current one.        *)
(* DefaultInOrder does the same for the mark of an address or a method.    *)
(***************************************************************************)
EXTENDS UserDefaults, TLAPS

USE AccountsAssumption, AbsentAssumption, DefaultsAssumption

------------------------------------------------------------------------------
(* The invariants.                                                          *)

(* What a request carries in each phase.                                    *)
RequestShape(q) ==
  /\ q.phase \in {"plan", "google", "signUp", "wallet", "save", "mail", "reset"} =>
       q.user \in Users
  /\ q.phase = "plan" => q.row = None \/ \E s \in Secrets : q.row = LocalUser(s)
  /\ q.phase = "signUp" =>
       q.row = GoogleUser \/ \E s \in Secrets : q.row = LocalUser(s)
  /\ q.phase = "save" => q.row \in User
  /\ q.phase = "mail" => q.mail \in Codes
  /\ q.phase = "reset" => q.mail \in Codes /\ \E s \in Secrets : q.row = LocalUser(s)

Shaped == \A r \in Requests : RequestShape(req[r])

(* Nothing is told of a user that never was.                                *)
Known == Existing \cup gone

ProvenOf(u) == \E a \in Email : <<u, a>> \in proven

KnownOnly ==
  /\ signedUp \subseteq Known /\ \A u \in Users : ProvenOf(u) => u \in Known
  /\ \A u \in Users : chosen[u] # None => u \in Known
  /\ \A r \in Requests : req[r].phase = "reset" => req[r].user \in Known

Saving(r) == req[r].phase = "save"

(* An address was proven that is the one in the row, or was changed.        *)
Vouched(u, row) ==
  \E a \in Email : <<u, a>> \in proven /\ (a = row.email \/ u \in readdressed)

Proven ==
  /\ VerifiedWasProven
  /\ \A r \in Requests :
       Saving(r) /\ req[r].row.verified => Vouched(req[r].user, req[r].row)

(* Of a user whose address was not changed: row, copies and mails know one. *)
AtFirst(u) ==
  /\ Exists(u) => user[u].email = "first"
  /\ \A m \in mailed[u] : m[2] = "first"
  /\ \A r \in Requests : req[r].user = u =>
       req[r].email = "first" /\ (req[r].row # None => req[r].row.email = "first")

Addressed == \A u \in Users : u \notin readdressed => AtFirst(u)

(* Only users with a password of their own receive tokens to change it.     *)
TokenLocal(row) == row.token # None => row.provider = "local"

TokensLocal ==
  /\ \A u \in Existing : TokenLocal(user[u])
  /\ \A r \in Requests : Saving(r) => TokenLocal(req[r].row)

(* Code c was sent to u, or is about to be, or sits in its row or a copy.   *)
Carries(r, u, c) ==
  req[r].user = u /\ (req[r].mail = c \/ (req[r].row # None /\ req[r].row.token = c))

Holds(u, c) ==
  \/ c \in Received(u)
  \/ Exists(u) /\ user[u].token = c
  \/ \E r \in Requests : Carries(r, u, c)

CodesApart ==
  \A c \in Codes, u, v \in Users : Holds(u, c) /\ Holds(v, c) => u = v

(* Row is that of a user whose password, proof and tokens are up to date.   *)
Current(u, row) ==
  /\ chosen[u] = None => row.password = None
  /\ \A s \in Secrets : chosen[u] = <<s, "auth">> =>
       row.provider = "local" /\ row.password = <<s, "hash">>
  /\ \A s \in Secrets : chosen[u] = <<s, "users">> => row.password = <<s, "plain">>
  /\ ProvenOf(u) => row.verified
  /\ row.token \notin spent

OneRequest(u) == \A q, r \in Requests : Busy(q, u) /\ Busy(r, u) => q = r

(* A request that changes u, the row it writes, and the row there is.       *)
RequestInOrder(r, u) ==
  /\ req[r].phase = "save" => Exists(u) /\ Current(u, req[r].row)
  /\ req[r].phase = "reset" => Exists(u) /\ user[u].provider = "local"

HasWallet(u) ==
  u \in wallets \/ \E r \in Requests : req[r].phase = "wallet" /\ req[r].user = u

AccountInOrder(u) ==
  /\ OneRequest(u)
  /\ \A r \in Requests : Busy(r, u) => RequestInOrder(r, u)
  /\ Exists(u) /\ (\A r \in Requests : Busy(r, u) => ~Saving(r)) => Current(u, user[u])
  /\ Exists(u) /\ u \in signedUp => HasWallet(u)

AccountsInOrder == \A u \in Users : u \notin disturbed => AccountInOrder(u)

(* Entries belong to users there are, and were made before they are picked. *)
EntriesKept ==
  /\ \A e \in Entries : entry[e] # None => Exists(OwnerOf[e]) /\ e \in made
  /\ \A e \in Entries : pick[e] # None => pick[e] \in made
  /\ \A j \in Requests : job[j].phase # "idle" => job[j].entry \in made
  /\ \A e \in Entries : \A f \in Alike(e) : pick[f] = pick[e]

Marked(e) == entry[e] = TRUE

JobInOrder(j, e) ==
  /\ Exists(OwnerOf[e])
  /\ job[j].phase = "clear" => job[j].mark = TRUE /\ pick[e] = job[j].entry
  /\ job[j].phase = "save" =>
       ((IF job[j].entry = e THEN job[j].mark = TRUE ELSE Marked(e)) <=> pick[e] = e)

DefaultInOrder(e) ==
  /\ \A j, k \in Requests : At(j, e) /\ At(k, e) => j = k
  /\ \A j \in Requests : At(j, e) => JobInOrder(j, e)
  /\ (\A j \in Requests : ~At(j, e)) => (Marked(e) <=> pick[e] = e)

DefaultsInOrder == \A e \in Entries : e \notin crossed => DefaultInOrder(e)

------------------------------------------------------------------------------
(* The actions by name, for the proofs that treat them one by one.          *)

Starting(r) ==
  \/ \E u \in Users, s \in Secrets : Register(r, u, s) \/ \E c \in Codes : ResetPassword(r, u, c, s)
  \/ \E u \in Users, a \in Email : GoogleAuth(r, u, a)
  \/ \E u \in Users, c \in Codes :
       SendVerificationCode(r, u, c) \/ VerifyEmail(r, u, c) \/ ForgotPassword(r, u, c)
  \/ UpdatePlan(r) \/ SyncMissingWallets(r)

(* What the requests of the two kinds and the steps around them are.        *)
LEMMA RowTypes ==
  /\ GoogleUser \in User /\ GoogleUser # None /\ GoogleUser.token = None
  /\ GoogleUser.email = "first" /\ GoogleUser.password = None
  /\ \A s \in Secrets : /\ LocalUser(s) \in User /\ LocalUser(s) # None
                        /\ LocalUser(s).password = <<s, "hash">>
                        /\ LocalUser(s).password # None
                        /\ LocalUser(s).password[1] = s
                        /\ LocalUser(s).provider = "local"
                        /\ LocalUser(s).token = None
                        /\ LocalUser(s).verified = FALSE
                        /\ LocalUser(s).email = "first"
  /\ Idle \in Request /\ Idle.phase = "idle" /\ Idle.email = "first"
<1>1. /\ GoogleUser \in User /\ GoogleUser.token = None
      /\ GoogleUser.email = "first" /\ GoogleUser.password = None
  BY DEF GoogleUser, User, Email
<1>2. ASSUME NEW s \in Secrets
      PROVE  /\ LocalUser(s) \in User
             /\ LocalUser(s).password = <<s, "hash">>
             /\ LocalUser(s).password \in Password
             /\ LocalUser(s).password[1] = s
             /\ LocalUser(s).provider = "local"
             /\ LocalUser(s).token = None
             /\ LocalUser(s).verified = FALSE
             /\ LocalUser(s).email = "first"
  BY DEF LocalUser, User, Password, Email
<1>3. Idle \in Request /\ Idle.phase = "idle" /\ Idle.email = "first"
  BY DEF Idle, Request, Email
<1> QED
  BY <1>1, <1>2, <1>3

LEMMA InitAccountsType == AccountsInit => AccountsTypeOK /\ Shaped
BY RowTypes DEF AccountsInit, AccountsTypeOK, Shaped, RequestShape, Idle

(* The request that a handler starts.                                       *)
LEMMA StartType ==
  ASSUME AccountsTypeOK, NEW r \in Requests, NEW u \in Users \cup {None}, NEW w \in Request,
         Start(r, u, w)
  PROVE  /\ req' \in [Requests -> Request] /\ started' \in 0..MaxRequests
         /\ disturbed' \subseteq Users
         /\ req' = [req EXCEPT ![r] = [w EXCEPT !.user = u]]
         /\ [w EXCEPT !.user = u] \in Request
<1>1. [w EXCEPT !.user = u] \in Request
  BY DEF Request
<1>2. req' = [req EXCEPT ![r] = [w EXCEPT !.user = u]]
  BY DEF Start
<1>3. req' \in [Requests -> Request]
  BY <1>1, <1>2 DEF AccountsTypeOK
<1>4. started' \in 0..MaxRequests
  BY DEF Start, AccountsTypeOK
<1>5. disturbed' \subseteq Users
  BY DEF Start, Overlapped, AccountsTypeOK
<1> QED
  BY <1>1, <1>2, <1>3, <1>4, <1>5

LEMMA FinishType ==
  ASSUME AccountsTypeOK, NEW r \in Requests, Finish(r)
  PROVE  req' \in [Requests -> Request]
BY RowTypes DEF Finish, AccountsTypeOK

(* A new request about a user is well shaped whenever what it carries is.   *)
LEMMA ShapedAfter ==
  ASSUME AccountsTypeOK, Shaped, NEW r \in Requests, NEW w \in Request, RequestShape(w),
         req' = [req EXCEPT ![r] = w]
  PROVE  Shaped'
BY DEF Shaped, AccountsTypeOK, RequestShape

LEMMA IdleShape == RequestShape(Idle)
BY DEF RequestShape, Idle

LEMMA StartingTypes ==
  ASSUME AccountsTypeOK, Shaped, NEW r \in Requests, Starting(r)
  PROVE  AccountsTypeOK' /\ Shaped'
<1>1. ASSUME NEW u \in Users, NEW s \in Secrets, Register(r, u, s)
      PROVE  AccountsTypeOK' /\ Shaped'
  <2> DEFINE p == IF freePlan = "active" THEN "signUp" ELSE "plan"
             w == [Idle EXCEPT !.row = LocalUser(s), !.phase = p]
             v == [w EXCEPT !.user = u]
  <2>1. w \in Request /\ RequestShape(v)
    <3>1. p \in {"signUp", "plan"}
      OBVIOUS
    <3> HIDE DEF p
    <3> QED
      BY <3>1, RowTypes DEF Idle, Request, RequestShape
  <2>2. Start(r, u, w)
    BY <1>1 DEF Register
  <2> HIDE DEF w
  <2>3. /\ req' \in [Requests -> Request] /\ started' \in 0..MaxRequests
        /\ disturbed' \subseteq Users /\ req' = [req EXCEPT ![r] = v] /\ v \in Request
    BY <2>1, <2>2, StartType
  <2>4. Shaped'
    BY <2>1, <2>3, ShapedAfter
  <2>5. AccountsTypeOK'
    BY <1>1, <2>2, <2>3 DEF Register, AccountsTypeOK, rows, outside, Start
  <2> QED
    BY <2>4, <2>5
<1>2. ASSUME NEW u \in Users, NEW c \in Codes, NEW s \in Secrets, ResetPassword(r, u, c, s)
      PROVE  AccountsTypeOK' /\ Shaped'
  <2> DEFINE w == [Idle EXCEPT !.phase = "reset", !.mail = c, !.row = LocalUser(s)]
             v == [w EXCEPT !.user = u]
  <2>1. w \in Request /\ RequestShape(v)
    BY RowTypes DEF Idle, Request, RequestShape
  <2>2. Start(r, u, w)
    BY <1>2 DEF ResetPassword
  <2> HIDE DEF w
  <2>3. /\ req' \in [Requests -> Request] /\ started' \in 0..MaxRequests
        /\ disturbed' \subseteq Users /\ req' = [req EXCEPT ![r] = v] /\ v \in Request
    BY <2>1, <2>2, StartType
  <2>4. Shaped'
    BY <2>1, <2>3, ShapedAfter
  <2>5. AccountsTypeOK'
    BY <1>2, <2>2, <2>3 DEF ResetPassword, AccountsTypeOK, rows, outside, Start
  <2> QED
    BY <2>4, <2>5
<1>3. ASSUME NEW u \in Users, NEW a \in Email, GoogleAuth(r, u, a)
      PROVE  AccountsTypeOK' /\ Shaped'
  <2> DEFINE p == IF freePlan # "active" /\ ~Production THEN "plan" ELSE "google"
             k == PlanFound(freePlan)
             w == [Idle EXCEPT !.email = a, !.plan = k, !.phase = p]
             v == [w EXCEPT !.user = u]
  <2>1. w \in Request /\ RequestShape(v)
    <3>1. p \in {"plan", "google"} /\ k \in {"none", "active"}
      BY DEF PlanFound
    <3> HIDE DEF p, k
    <3> QED
      BY <3>1 DEF Idle, Request, RequestShape
  <2>2. Start(r, u, w)
    BY <1>3 DEF GoogleAuth
  <2> HIDE DEF w
  <2>3. /\ req' \in [Requests -> Request] /\ started' \in 0..MaxRequests
        /\ disturbed' \subseteq Users /\ req' = [req EXCEPT ![r] = v] /\ v \in Request
    BY <2>1, <2>2, StartType
  <2>4. Shaped'
    BY <2>1, <2>3, ShapedAfter
  <2>5. AccountsTypeOK'
    BY <1>3, <2>2, <2>3 DEF GoogleAuth, AccountsTypeOK, rows, outside, Start
  <2> QED
    BY <2>4, <2>5
<1>4. ASSUME NEW u \in Users, NEW c \in Codes, SendVerificationCode(r, u, c)
      PROVE  AccountsTypeOK' /\ Shaped'
  <2> DEFINE w == [Idle EXCEPT !.phase = "save", !.mail = c, !.email = user[u].email,
                               !.row = [user[u] EXCEPT !.code = c]]
             v == [w EXCEPT !.user = u]
  <2>1. user[u] \in User
    BY <1>4 DEF SendVerificationCode, Exists, AccountsTypeOK
  <2>2. [user[u] EXCEPT !.code = c] \in User /\ user[u].email \in Email
    BY <2>1 DEF User
  <2>3. w \in Request /\ RequestShape(v)
    BY <2>2 DEF Idle, Request, RequestShape
  <2>4. Start(r, u, w)
    BY <1>4 DEF SendVerificationCode
  <2> HIDE DEF w
  <2>5. /\ req' \in [Requests -> Request] /\ started' \in 0..MaxRequests
        /\ disturbed' \subseteq Users /\ req' = [req EXCEPT ![r] = v] /\ v \in Request
    BY <2>3, <2>4, StartType
  <2>6. Shaped'
    BY <2>3, <2>5, ShapedAfter
  <2>7. AccountsTypeOK'
    BY <1>4, <2>4, <2>5 DEF SendVerificationCode, AccountsTypeOK, rows, outside, Start
  <2> QED
    BY <2>6, <2>7
<1>5. ASSUME NEW u \in Users, NEW c \in Codes, VerifyEmail(r, u, c)
      PROVE  AccountsTypeOK' /\ Shaped'
  <2> DEFINE w == [Idle EXCEPT !.phase = "save", !.row = [user[u] EXCEPT !.verified = TRUE]]
             v == [w EXCEPT !.user = u]
  <2>1. user[u] \in User
    BY <1>5 DEF VerifyEmail, Exists, AccountsTypeOK
  <2>2. [user[u] EXCEPT !.verified = TRUE] \in User
    BY <2>1 DEF User
  <2>3. w \in Request /\ RequestShape(v)
    BY <2>2 DEF Email, Idle, Request, RequestShape
  <2>4. Start(r, u, w)
    BY <1>5 DEF VerifyEmail
  <2> HIDE DEF w
  <2>5. /\ req' \in [Requests -> Request] /\ started' \in 0..MaxRequests
        /\ disturbed' \subseteq Users /\ req' = [req EXCEPT ![r] = v] /\ v \in Request
    BY <2>3, <2>4, StartType
  <2>6. Shaped'
    BY <2>3, <2>5, ShapedAfter
  <2>7. AccountsTypeOK'
    BY <1>5, <2>4, <2>5 DEF VerifyEmail, AccountsTypeOK, rows, outside, Start
  <2> QED
    BY <2>6, <2>7
<1>6. ASSUME NEW u \in Users, NEW c \in Codes, ForgotPassword(r, u, c)
      PROVE  AccountsTypeOK' /\ Shaped'
  <2> DEFINE w == [Idle EXCEPT !.phase = "save", !.mail = c, !.email = user[u].email,
                               !.row = [user[u] EXCEPT !.token = c]]
             v == [w EXCEPT !.user = u]
  <2>1. user[u] \in User
    BY <1>6 DEF ForgotPassword, Exists, AccountsTypeOK
  <2>2. [user[u] EXCEPT !.token = c] \in User /\ user[u].email \in Email
    BY <2>1 DEF User
  <2>3. w \in Request /\ RequestShape(v)
    BY <2>2 DEF Idle, Request, RequestShape
  <2>4. Start(r, u, w)
    BY <1>6 DEF ForgotPassword
  <2> HIDE DEF w
  <2>5. /\ req' \in [Requests -> Request] /\ started' \in 0..MaxRequests
        /\ disturbed' \subseteq Users /\ req' = [req EXCEPT ![r] = v] /\ v \in Request
    BY <2>3, <2>4, StartType
  <2>6. Shaped'
    BY <2>3, <2>5, ShapedAfter
  <2>7. AccountsTypeOK'
    BY <1>6, <2>4, <2>5 DEF ForgotPassword, AccountsTypeOK, rows, outside, Start
  <2> QED
    BY <2>6, <2>7
<1>7. ASSUME UpdatePlan(r)
      PROVE  AccountsTypeOK' /\ Shaped'
  <2>1. PICK plan \in {"active", "inactive"} :
          Start(r, None, [Idle EXCEPT !.phase = "savePlan", !.plan = plan])
    BY <1>7 DEF UpdatePlan
  <2> DEFINE w == [Idle EXCEPT !.phase = "savePlan", !.plan = plan]
             v == [w EXCEPT !.user = None]
  <2>2. w \in Request /\ RequestShape(v)
    BY DEF Email, Idle, Request, RequestShape
  <2>3. Start(r, None, w)
    BY <2>1
  <2> HIDE DEF w
  <2>4. /\ req' \in [Requests -> Request] /\ started' \in 0..MaxRequests
        /\ disturbed' \subseteq Users /\ req' = [req EXCEPT ![r] = v] /\ v \in Request
    BY <2>2, <2>3, StartType
  <2>5. Shaped'
    BY <2>2, <2>4, ShapedAfter
  <2>6. AccountsTypeOK'
    BY <1>7, <2>3, <2>4 DEF UpdatePlan, AccountsTypeOK, rows, outside, Start
  <2> QED
    BY <2>5, <2>6
<1>8. ASSUME SyncMissingWallets(r)
      PROVE  AccountsTypeOK' /\ Shaped'
  <2> DEFINE w == [Idle EXCEPT !.phase = "sync", !.missing = WithoutWallet]
             v == [w EXCEPT !.user = None]
  <2>1. w \in Request /\ RequestShape(v)
    BY DEF Email, Idle, Request, RequestShape, WithoutWallet, Existing
  <2>2. Start(r, None, w)
    BY <1>8 DEF SyncMissingWallets
  <2> HIDE DEF w
  <2>3. /\ req' \in [Requests -> Request] /\ started' \in 0..MaxRequests
        /\ disturbed' \subseteq Users /\ req' = [req EXCEPT ![r] = v] /\ v \in Request
    BY <2>1, <2>2, StartType
  <2>4. Shaped'
    BY <2>1, <2>3, ShapedAfter
  <2>5. AccountsTypeOK'
    BY <1>8, <2>2, <2>3 DEF SyncMissingWallets, AccountsTypeOK, rows, outside, Start
  <2> QED
    BY <2>4, <2>5
<1> QED
  BY <1>1, <1>2, <1>3, <1>4, <1>5, <1>6, <1>7, <1>8 DEF Starting

(* The later steps of a request: it moves on to another phase or ends.      *)
Moving(r) ==
  \/ InsertFreePlan(r) \/ ReadGoogleUser(r) \/ SaveNewUser(r) \/ SaveWallet(r)
  \/ SaveUser(r) \/ SendMail(r) \/ UpdatePassword(r) \/ SavePlan(r)
  \/ SaveMissingWallets(r) \/ BreakOff(r)

LEMMA FinishTypes ==
  ASSUME AccountsTypeOK, Shaped, NEW r \in Requests, Finish(r)
  PROVE  req' \in [Requests -> Request] /\ Shaped'
<1>1. req' \in [Requests -> Request]
  BY FinishType
<1>2. Shaped'
  BY ShapedAfter, IdleShape, RowTypes DEF Finish
<1> QED
  BY <1>1, <1>2

(* A request that moves to a phase and keeps or changes its row.            *)
LEMMA MoveTypes ==
  ASSUME AccountsTypeOK, Shaped, NEW r \in Requests,
         NEW w \in Request, RequestShape(w), req' = [req EXCEPT ![r] = w]
  PROVE  req' \in [Requests -> Request] /\ Shaped'
<1>1. req' \in [Requests -> Request]
  BY DEF AccountsTypeOK
<1>2. Shaped'
  BY ShapedAfter
<1> QED
  BY <1>1, <1>2

LEMMA MovingTypes ==
  ASSUME AccountsTypeOK, Shaped, NEW r \in Requests, Moving(r)
  PROVE  AccountsTypeOK' /\ Shaped'
<1> DEFINE q == req[r]
           u == q.user
<1>q. q \in Request /\ RequestShape(q)
  BY DEF AccountsTypeOK, Shaped
<1>1. CASE InsertFreePlan(r)
  <2>1. CASE q.row = None
    <3> DEFINE k == PlanFound(freePlan')
               w == [q EXCEPT !.phase = "google", !.plan = k]
    <3>0. k \in {"none", "active"}
      BY DEF PlanFound
    <3>1. req' = [req EXCEPT ![r] = w]
      BY <1>1, <2>1 DEF InsertFreePlan, AccountsTypeOK
    <3> HIDE DEF k
    <3>2. w \in Request /\ RequestShape(w)
      BY <1>1, <1>q, <2>1, <3>0 DEF InsertFreePlan, Request, RequestShape
    <3> HIDE DEF w
    <3>3. req' \in [Requests -> Request] /\ Shaped'
      BY <3>1, <3>2, MoveTypes
    <3> QED
      BY <1>1, <3>3 DEF InsertFreePlan, AccountsTypeOK, outside, bounds, history
  <2>2. CASE q.row # None /\ freePlan' = "active"
    <3>1. req' = [req EXCEPT ![r] = [q EXCEPT !.phase = "signUp"]]
      BY <1>1, <2>2 DEF InsertFreePlan
    <3>2. [q EXCEPT !.phase = "signUp"] \in Request /\ RequestShape([q EXCEPT !.phase = "signUp"])
      BY <1>1, <2>2, <1>q DEF InsertFreePlan, Request, RequestShape
    <3>3. req' \in [Requests -> Request] /\ Shaped'
      BY <3>1, <3>2, MoveTypes
    <3> QED
      BY <1>1, <3>3 DEF InsertFreePlan, AccountsTypeOK, outside, bounds, history
  <2>3. CASE q.row # None /\ freePlan' # "active"
    <3>1. req' \in [Requests -> Request] /\ Shaped'
      BY <1>1, <2>3, FinishTypes DEF InsertFreePlan
    <3> QED
      BY <1>1, <3>1 DEF InsertFreePlan, AccountsTypeOK, outside, bounds, history
  <2> QED
    BY <2>1, <2>2, <2>3
<1>2. CASE ReadGoogleUser(r)
  <2>u. u \in Users
    BY <1>2, <1>q DEF ReadGoogleUser, RequestShape
  <2>1. CASE Exists(u) /\ user[u].email = q.email
    <3> DEFINE row == [user[u] EXCEPT !.google = TRUE, !.verified = TRUE]
               w == [q EXCEPT !.phase = "save", !.row = row]
    <3>1. user[u] \in User
      BY <2>u, <2>1 DEF Exists, AccountsTypeOK
    <3>2. row \in User
      BY <3>1 DEF User
    <3>3. req' = [req EXCEPT ![r] = w]
      BY <1>2, <2>1, <1>q DEF ReadGoogleUser, Request, AccountsTypeOK
    <3> HIDE DEF row
    <3>4. w \in Request /\ RequestShape(w)
      BY <1>q, <2>u, <3>2 DEF Request, RequestShape
    <3>5. req' \in [Requests -> Request] /\ Shaped'
      BY <3>3, <3>4, MoveTypes
    <3>6. proven' \subseteq Users \X Email
      BY <1>2, <2>u, <1>q DEF ReadGoogleUser, AccountsTypeOK, Request
    <3> QED
      BY <1>2, <2>u, <3>5, <3>6 DEF ReadGoogleUser, AccountsTypeOK, rows, outside, bounds
  <2>2. CASE ~Exists(u) /\ q.email = "first" /\ q.plan = "active"
    <3> DEFINE w == [q EXCEPT !.phase = "signUp", !.row = GoogleUser]
    <3>1. req' = [req EXCEPT ![r] = w]
      BY <1>2, <2>2, <1>q DEF ReadGoogleUser, Request, AccountsTypeOK
    <3>2. w \in Request /\ RequestShape(w)
      BY <1>q, <2>u, RowTypes DEF Request, RequestShape
    <3>3. req' \in [Requests -> Request] /\ Shaped'
      BY <3>1, <3>2, MoveTypes
    <3> QED
      BY <1>2, <2>2, <3>3 DEF ReadGoogleUser, AccountsTypeOK, rows, outside, bounds
  <2>3. CASE /\ ~(Exists(u) /\ user[u].email = q.email)
             /\ ~(~Exists(u) /\ q.email = "first" /\ q.plan = "active")
    <3>1. req' \in [Requests -> Request] /\ Shaped'
      BY <1>2, <2>3, FinishTypes DEF ReadGoogleUser
    <3> QED
      BY <1>2, <2>3, <3>1 DEF ReadGoogleUser, AccountsTypeOK, rows, outside, bounds
  <2> QED
    BY <2>1, <2>2, <2>3
<1>3. CASE SaveNewUser(r)
  <2>u. u \in Users
    BY <1>3, <1>q DEF SaveNewUser, RequestShape
  <2>1. CASE Exists(u)
    <3>1. req' \in [Requests -> Request] /\ Shaped'
      BY <1>3, <2>1, FinishTypes DEF SaveNewUser
    <3> QED
      BY <1>3, <2>1, <3>1 DEF SaveNewUser, AccountsTypeOK, outside, bounds
  <2>2. CASE ~Exists(u)
    <3> DEFINE w == [q EXCEPT !.phase = "wallet", !.row = None]
    <3>1. req' = [req EXCEPT ![r] = w]
      BY <1>3, <2>2, <1>q DEF SaveNewUser, AfterSignUp, Request, AccountsTypeOK
    <3>2. w \in Request /\ RequestShape(w)
      BY <1>q, <2>u DEF Request, RequestShape
    <3>3. req' \in [Requests -> Request] /\ Shaped'
      BY <3>1, <3>2, MoveTypes
    <3>4. /\ q.row \in User /\ (q.row.password # None => q.row.password[1] \in Secrets)
          /\ q.row.email \in Email
      <4>1. q.row \in User
        BY <1>3, <1>q, RowTypes DEF SaveNewUser, RequestShape
      <4>2. q.row.password # None => q.row.password \in Password
        BY <4>1 DEF User
      <4> QED
        BY <4>1, <4>2 DEF Password, User
    <3>5. /\ user' \in [Users -> User \cup {None}] /\ proven' \subseteq Users \X Email
          /\ chosen' \in [Users -> Choice \cup {None}]
      <4>1. user' = [user EXCEPT ![u] = q.row]
        BY <1>3, <2>2 DEF SaveNewUser
      <4>2. chosen' = [chosen EXCEPT ![u] = IF q.row.password = None THEN None
                                            ELSE <<q.row.password[1], "auth">>]
        BY <1>3, <2>2 DEF SaveNewUser
      <4>3. proven' = IF q.row.verified THEN proven \cup {<<u, q.row.email>>} ELSE proven
        BY <1>3, <2>2 DEF SaveNewUser
      <4> QED
        BY <2>u, <3>4, <4>1, <4>2, <4>3 DEF AccountsTypeOK, Choice
    <3> QED
      BY <1>3, <2>2, <2>u, <3>3, <3>5 DEF SaveNewUser, AccountsTypeOK, outside, bounds
  <2> QED
    BY <2>1, <2>2
<1>4. CASE SaveWallet(r)
  <2>u. u \in Users
    BY <1>4, <1>q DEF SaveWallet, RequestShape
  <2>1. req' \in [Requests -> Request] /\ Shaped'
    BY <1>4, FinishTypes DEF SaveWallet
  <2> QED
    BY <1>4, <2>u, <2>1 DEF SaveWallet, AccountsTypeOK, outside, bounds, history
<1>5. CASE SaveUser(r)
  <2>u. u \in Users /\ q.row \in User
    BY <1>5, <1>q DEF SaveUser, RequestShape
  <2>1. user' \in [Users -> User \cup {None}]
    BY <1>5, <2>u DEF SaveUser, AccountsTypeOK
  <2>2. CASE q.mail = None
    <3>1. req' \in [Requests -> Request] /\ Shaped'
      BY <1>5, <2>2, FinishTypes DEF SaveUser
    <3> QED
      BY <1>5, <2>1, <3>1 DEF SaveUser, AccountsTypeOK, outside, bounds, history
  <2>3. CASE q.mail # None
    <3> DEFINE w == [q EXCEPT !.phase = "mail", !.row = None]
    <3>1. req' = [req EXCEPT ![r] = w]
      BY <1>5, <2>3, <1>q DEF SaveUser, Request, AccountsTypeOK
    <3>2. w \in Request /\ RequestShape(w)
      BY <1>q, <2>u, <2>3 DEF Request, RequestShape
    <3>3. req' \in [Requests -> Request] /\ Shaped'
      BY <3>1, <3>2, MoveTypes
    <3> QED
      BY <1>5, <2>1, <3>3 DEF SaveUser, AccountsTypeOK, outside, bounds, history
  <2> QED
    BY <2>2, <2>3
<1>6. CASE SendMail(r)
  <2>u. u \in Users /\ q.mail \in Codes
    BY <1>6, <1>q DEF SendMail, RequestShape
  <2>1. req' \in [Requests -> Request] /\ Shaped'
    BY <1>6, FinishTypes DEF SendMail
  <2>2. mailed' \in [Users -> SUBSET (Codes \X Email)]
    <3>1. <<q.mail, q.email>> \in Codes \X Email
      BY <1>q, <2>u DEF Request
    <3> QED
      BY <1>6, <2>u, <3>1 DEF SendMail, AccountsTypeOK
  <2> QED
    BY <1>6, <2>1, <2>2 DEF SendMail, AccountsTypeOK, rows, bounds, history
<1>7. CASE UpdatePassword(r)
  <2> DEFINE s == q.row.password[1]
  <2>u. u \in Users /\ q.mail \in Codes /\ s \in Secrets
    BY <1>7, <1>q, RowTypes DEF UpdatePassword, RequestShape
  <2>1. req' \in [Requests -> Request] /\ Shaped'
    BY <1>7, FinishTypes DEF UpdatePassword
  <2>2. Exists(u) => ResetRow(user[u], s) \in User
    <3>1. Exists(u) => user[u] \in User
      BY <2>u DEF Exists, AccountsTypeOK
    <3> HIDE DEF s
    <3> QED
      BY <3>1, <2>u DEF ResetRow, User, Password
  <2>3. user' = IF Exists(u) THEN [user EXCEPT ![u] = ResetRow(user[u], s)] ELSE user
    BY <1>7 DEF UpdatePassword
  <2>4. user' \in [Users -> User \cup {None}]
    <3> HIDE DEF s
    <3> QED
      BY <2>2, <2>3 DEF AccountsTypeOK
  <2>5. chosen' \in [Users -> Choice \cup {None}] /\ spent' \subseteq Codes
    BY <1>7, <2>u DEF UpdatePassword, AccountsTypeOK, Choice
  <2> QED
    BY <1>7, <2>1, <2>4, <2>5 DEF UpdatePassword, AccountsTypeOK, outside, bounds
<1>8. CASE SavePlan(r)
  <2>1. req' \in [Requests -> Request] /\ Shaped'
    BY <1>8, FinishTypes DEF SavePlan
  <2>2. freePlan' \in {"none", "active", "inactive"}
    BY <1>8, <1>q DEF SavePlan, Request
  <2> QED
    BY <1>8, <2>1, <2>2 DEF SavePlan, AccountsTypeOK, outside, bounds, history
<1>9. CASE SaveMissingWallets(r)
  <2>1. req' \in [Requests -> Request] /\ Shaped'
    BY <1>9, FinishTypes DEF SaveMissingWallets
  <2>2. wallets' \subseteq Users
    BY <1>9, <1>q DEF SaveMissingWallets, AccountsTypeOK, Request
  <2> QED
    BY <1>9, <2>1, <2>2 DEF SaveMissingWallets, AccountsTypeOK, outside, bounds, history
<1>10. CASE BreakOff(r)
  <2>1. req' \in [Requests -> Request] /\ Shaped'
    BY <1>10, FinishTypes DEF BreakOff
  <2>2. disturbed' \subseteq Users
    BY <1>10, <1>q DEF BreakOff, AccountsTypeOK, RequestShape
  <2>3. faults' \in 0..MaxFaults
    BY <1>10 DEF BreakOff, AccountsTypeOK
  <2> QED
    BY <1>10, <2>1, <2>2, <2>3 DEF BreakOff, AccountsTypeOK, rows, outside
<1> QED
  BY <1>1, <1>2, <1>3, <1>4, <1>5, <1>6, <1>7, <1>8, <1>9, <1>10 DEF Moving

(* What needs no request, being one query.                                  *)
Direct ==
  \/ \E u \in Users, s \in Secrets : CreateUser(u, s)
  \/ \E u \in Users, a \in Email, s \in Secrets \cup {None} : UpdateUser(u, a, s)
  \/ \E u \in Users : RemoveUser(u)
  \/ CreatePlan
  \/ \E c \in Codes : CodeExpires(c)

LEMMA AccountsCases ==
  AccountsNext => Direct \/ \E r \in Requests : Starting(r) \/ Moving(r)
BY DEF AccountsNext, AccountStep, Direct, Starting, Moving

LEMMA DirectTypes ==
  ASSUME AccountsTypeOK, Shaped, Direct
  PROVE  AccountsTypeOK' /\ Shaped'
<1>0. req' = req
  BY DEF Direct, CreateUser, UpdateUser, RemoveUser, CreatePlan, CodeExpires
<1>1. Shaped'
  BY <1>0 DEF Shaped
<1>2. ASSUME NEW u \in Users, NEW s \in Secrets, CreateUser(u, s)
      PROVE  AccountsTypeOK'
  <2> DEFINE row == [LocalUser(s) EXCEPT !.password = <<s, "plain">>]
  <2>1. row \in User
    BY RowTypes DEF User, Password
  <2>2. user' = [user EXCEPT ![u] = row]
    BY <1>2 DEF CreateUser
  <2> HIDE DEF row
  <2>3. user' \in [Users -> User \cup {None}] /\ chosen' \in [Users -> Choice \cup {None}]
    BY <1>2, <2>1, <2>2 DEF CreateUser, AccountsTypeOK, Choice
  <2> QED
    BY <1>2, <2>3 DEF CreateUser, AccountsTypeOK, outside
<1>3. ASSUME NEW u \in Users, NEW a \in Email, NEW s \in Secrets \cup {None},
             UpdateUser(u, a, s)
      PROVE  AccountsTypeOK'
  <2> DEFINE p == IF s = None THEN user[u].password ELSE <<s, "plain">>
             row == [user[u] EXCEPT !.email = a, !.password = p]
  <2>1. user[u] \in User
    BY <1>3 DEF UpdateUser, Exists, AccountsTypeOK
  <2>2. row \in User
    <3>1. p \in Password \cup {None}
      BY <2>1 DEF User, Password
    <3> HIDE DEF p
    <3> QED
      BY <2>1, <3>1 DEF User
  <2>3. user' = [user EXCEPT ![u] = row]
    BY <1>3 DEF UpdateUser, AccountsTypeOK
  <2>4. user' \in [Users -> User \cup {None}]
    <3> HIDE DEF row
    <3> QED
      BY <2>2, <2>3 DEF AccountsTypeOK
  <2>5. /\ disturbed' \subseteq Users /\ chosen' \in [Users -> Choice \cup {None}]
        /\ readdressed' \subseteq Users
    BY <1>3 DEF UpdateUser, Overlapped, AccountsTypeOK, Choice
  <2> QED
    BY <1>3, <2>4, <2>5 DEF UpdateUser, AccountsTypeOK, outside
<1>4. ASSUME NEW u \in Users, RemoveUser(u)
      PROVE  AccountsTypeOK'
  BY <1>4 DEF RemoveUser, AccountsTypeOK, outside, Overlapped
<1>5. CASE CreatePlan
  BY <1>1, <1>5 DEF CreatePlan, AccountsTypeOK, outside, history
<1>6. ASSUME NEW c \in Codes, CodeExpires(c)
      PROVE  AccountsTypeOK'
  BY <1>6 DEF CodeExpires, AccountsTypeOK, rows, bounds, history
<1> QED
  BY <1>1, <1>2, <1>3, <1>4, <1>5, <1>6 DEF Direct

LEMMA AccountsTypes ==
  ASSUME AccountsTypeOK, Shaped, AccountsNext
  PROVE  AccountsTypeOK' /\ Shaped'
<1>1. CASE Direct
  BY <1>1, DirectTypes
<1>2. ASSUME NEW r \in Requests, Starting(r) \/ Moving(r)
      PROVE  AccountsTypeOK' /\ Shaped'
  BY <1>2, StartingTypes, MovingTypes
<1> QED
  BY <1>1, <1>2, AccountsCases

(* The requests about entries, which leave the accounts alone.              *)
Hanging ==
  \/ \E j \in Requests : \/ AddressStep(j) \/ PaymentMethodStep(j)
                         \/ ClearDefault(j) \/ SaveEntry(j) \/ BreakOffJob(j)
  \/ \E e \in Entries : Remove(e)

(* The start of one: a row is made, or updated, or set as the default.      *)
Opening(j, e) ==
  \/ \E mark \in BOOLEAN : Create(j, e, mark)
  \/ Update(j, e)
  \/ SetDefault(j, e)

LEMMA HangingCases ==
  Hanging => \/ \E j \in Requests, e \in Entries : Opening(j, e)
             \/ \E j \in Requests : ClearDefault(j) \/ SaveEntry(j) \/ BreakOffJob(j)
             \/ \E e \in Entries : Remove(e)
BY DEF Hanging, AddressStep, PaymentMethodStep, Opening, Entries

LEMMA NextCases == Next <=> (AccountsNext /\ Cascade) \/ Hanging
BY DEF Next, Hanging

LEMMA OpeningBegins ==
  ASSUME NEW j \in Requests, NEW e \in Entries, Opening(j, e)
  PROVE  \E mark, phase : Begin(j, e, mark, phase)
BY DEF Opening, Create, Update, SetDefault

(* They touch no state of the accounts but the bounds.                      *)
LEMMA HangingLeaves ==
  ASSUME Hanging
  PROVE  UNCHANGED <<rows, outside, req, history>>
<1>1. ASSUME NEW j \in Requests, NEW e \in Entries, Opening(j, e)
      PROVE  UNCHANGED <<rows, outside, req, history>>
  BY <1>1, OpeningBegins DEF Begin
<1>2. ASSUME NEW j \in Requests, ClearDefault(j) \/ SaveEntry(j)
      PROVE  UNCHANGED <<rows, outside, req, history>>
  BY <1>2 DEF ClearDefault, SaveEntry, accounts
<1>3. ASSUME NEW j \in Requests, BreakOffJob(j)
      PROVE  UNCHANGED <<rows, outside, req, history>>
  BY <1>3 DEF BreakOffJob
<1>4. ASSUME NEW e \in Entries, Remove(e)
      PROVE  UNCHANGED <<rows, outside, req, history>>
  BY <1>4 DEF Remove
<1> QED
  BY <1>1, <1>2, <1>3, <1>4, HangingCases

LEMMA HangingBounds ==
  ASSUME AccountsTypeOK, Hanging
  PROVE  started' \in 0..MaxRequests /\ faults' \in 0..MaxFaults
<1>1. ASSUME NEW j \in Requests, NEW e \in Entries, Opening(j, e)
      PROVE  started' \in 0..MaxRequests /\ faults' \in 0..MaxFaults
  BY <1>1, OpeningBegins DEF Begin, AccountsTypeOK
<1>2. ASSUME NEW j \in Requests, ClearDefault(j) \/ SaveEntry(j)
      PROVE  started' \in 0..MaxRequests /\ faults' \in 0..MaxFaults
  BY <1>2 DEF ClearDefault, SaveEntry, accounts, bounds, AccountsTypeOK
<1>3. ASSUME NEW j \in Requests, BreakOffJob(j)
      PROVE  started' \in 0..MaxRequests /\ faults' \in 0..MaxFaults
  BY <1>3 DEF BreakOffJob, AccountsTypeOK
<1>4. ASSUME NEW e \in Entries, Remove(e)
      PROVE  started' \in 0..MaxRequests /\ faults' \in 0..MaxFaults
  BY <1>4 DEF Remove, AccountsTypeOK
<1> QED
  BY <1>1, <1>2, <1>3, <1>4, HangingCases

DefaultsTypeOK ==
  /\ entry \in [Entries -> BOOLEAN \cup {None}]
  /\ job \in [Requests -> Job]
  /\ made \subseteq Entries /\ crossed \subseteq Entries
  /\ pick \in [Entries -> Entries \cup {None}]

LEMMA AlikeEntries == \A e : Alike(e) \subseteq Entries
BY DEF Alike, Entries

LEMMA PickedType ==
  ASSUME DefaultsTypeOK, NEW e \in Entries, NEW p \in Entries \cup {None},
         Picked(e, p) \/ UNCHANGED pick
  PROVE  pick' \in [Entries -> Entries \cup {None}]
BY DEF Picked, DefaultsTypeOK

LEMMA OpeningTypes ==
  ASSUME DefaultsTypeOK, NEW j \in Requests, NEW e \in Entries, Opening(j, e)
  PROVE  DefaultsTypeOK'
<1>1. ASSUME NEW mark \in BOOLEAN, NEW phase \in {"clear", "save"}, Begin(j, e, mark, phase)
      PROVE  /\ job' \in [Requests -> Job] /\ crossed' \subseteq Entries
             /\ entry' \in [Entries -> BOOLEAN \cup {None}]
  <2>1. [phase |-> phase, entry |-> e, mark |-> mark] \in Job
    BY DEF Job
  <2>2. job' \in [Requests -> Job]
    BY <1>1, <2>1 DEF Begin, DefaultsTypeOK
  <2>3. crossed' \subseteq Entries
    BY <1>1, AlikeEntries DEF Begin, DefaultsTypeOK
  <2> QED
    BY <1>1, <2>2, <2>3 DEF Begin, DefaultsTypeOK
<1>2. ASSUME NEW mark \in BOOLEAN, Create(j, e, mark)
      PROVE  DefaultsTypeOK'
  <2>1. PICK phase \in {"clear", "save"} : Begin(j, e, mark, phase)
    BY <1>2 DEF Create
  <2>2. pick' \in [Entries -> Entries \cup {None}]
    BY <1>2, PickedType DEF Create
  <2>3. made' \subseteq Entries
    BY <1>2 DEF Create, DefaultsTypeOK
  <2> QED
    BY <1>1, <2>1, <2>2, <2>3 DEF DefaultsTypeOK
<1>3. CASE Update(j, e)
  <2>0. entry[e] \in BOOLEAN
    BY <1>3 DEF Update, DefaultsTypeOK
  <2>1. \E mark \in BOOLEAN, phase \in {"clear", "save"} : Begin(j, e, mark, phase)
    BY <1>3, <2>0 DEF Update
  <2>2. pick' \in [Entries -> Entries \cup {None}]
    BY <1>3, PickedType DEF Update, Unpicked
  <2> QED
    BY <1>1, <1>3, <2>1, <2>2 DEF Update, DefaultsTypeOK
<1>4. CASE SetDefault(j, e)
  <2>1. pick' \in [Entries -> Entries \cup {None}]
    BY <1>4, PickedType DEF SetDefault
  <2> QED
    BY <1>1, <1>4, <2>1 DEF SetDefault, DefaultsTypeOK
<1> QED
  BY <1>2, <1>3, <1>4 DEF Opening

LEMMA HangingTypes ==
  ASSUME DefaultsTypeOK, Hanging
  PROVE  DefaultsTypeOK'
<1>1. ASSUME NEW j \in Requests, ClearDefault(j)
      PROVE  DefaultsTypeOK'
  <2>1. entry' \in [Entries -> BOOLEAN \cup {None}]
    BY <1>1 DEF ClearDefault, DefaultsTypeOK
  <2>2. job' \in [Requests -> Job]
    BY <1>1 DEF ClearDefault, DefaultsTypeOK, Job
  <2> QED
    BY <1>1, <2>1, <2>2 DEF ClearDefault, DefaultsTypeOK
<1>2. ASSUME NEW j \in Requests, SaveEntry(j)
      PROVE  DefaultsTypeOK'
  <2>0. job[j].mark \in BOOLEAN /\ Rest \in Job
    BY DEF DefaultsTypeOK, Job, Rest
  <2>1. entry' \in [Entries -> BOOLEAN \cup {None}]
    BY <1>2, <2>0 DEF SaveEntry, DefaultsTypeOK
  <2>2. job' \in [Requests -> Job]
    BY <1>2, <2>0 DEF SaveEntry, DefaultsTypeOK
  <2> QED
    BY <1>2, <2>1, <2>2 DEF SaveEntry, DefaultsTypeOK
<1>3. ASSUME NEW j \in Requests, BreakOffJob(j)
      PROVE  DefaultsTypeOK'
  <2>1. job' \in [Requests -> Job]
    BY <1>3 DEF BreakOffJob, DefaultsTypeOK, Job, Rest
  <2>2. crossed' \subseteq Entries
    BY <1>3, AlikeEntries DEF BreakOffJob, DefaultsTypeOK
  <2> QED
    BY <1>3, <2>1, <2>2 DEF BreakOffJob, DefaultsTypeOK
<1>4. ASSUME NEW e \in Entries, Remove(e)
      PROVE  DefaultsTypeOK'
  <2>1. pick' \in [Entries -> Entries \cup {None}]
    BY <1>4, PickedType DEF Remove, Unpicked
  <2>2. crossed' \subseteq Entries
    BY <1>4, AlikeEntries DEF Remove, DefaultsTypeOK
  <2> QED
    BY <1>4, <2>1, <2>2 DEF Remove, DefaultsTypeOK
<1> QED
  BY <1>1, <1>2, <1>3, <1>4, OpeningTypes, HangingCases

LEMMA CascadeTypes ==
  ASSUME DefaultsTypeOK, Cascade
  PROVE  DefaultsTypeOK'
BY DEF Cascade, DefaultsTypeOK

LEMMA TypeStep ==
  ASSUME TypeOK, Shaped, [Next]_vars
  PROVE  TypeOK' /\ Shaped'
<1>1. AccountsTypeOK /\ DefaultsTypeOK
  BY DEF TypeOK, DefaultsTypeOK
<1>2. CASE AccountsNext /\ Cascade
  BY <1>1, <1>2, AccountsTypes, CascadeTypes DEF TypeOK, DefaultsTypeOK
<1>3. CASE Hanging
  <2>1. AccountsTypeOK' /\ Shaped'
    BY <1>1, <1>3, HangingLeaves, HangingBounds
    DEF AccountsTypeOK, Shaped, rows, outside, history
  <2> QED
    BY <1>1, <1>3, <2>1, HangingTypes DEF TypeOK, DefaultsTypeOK
<1>4. CASE UNCHANGED vars
  BY <1>4 DEF vars, accounts, rows, outside, bounds, history, defaults,
              TypeOK, AccountsTypeOK, Shaped
<1> QED
  BY <1>2, <1>3, <1>4, NextCases

LEMMA InitType == Init => TypeOK /\ Shaped
<1> SUFFICES ASSUME Init PROVE TypeOK /\ Shaped
  OBVIOUS
<1>1. AccountsTypeOK /\ Shaped
  BY InitAccountsType DEF Init
<1> QED
  BY <1>1 DEF Init, TypeOK, Job, Rest

(* Every row, mail, request and mark keeps its type, and every request      *)
(* carries what its phase needs: no row is saved that was never read.       *)
THEOREM TypesAndShapes == Spec => [](TypeOK /\ Shaped)
<1>1. TypeOK /\ Shaped /\ [Next]_vars => (TypeOK /\ Shaped)'
  BY TypeStep
<1> QED
  BY InitType, <1>1, PTL DEF Spec

(* Every row, code, request and mark keeps its type.                        *)
THEOREM TypeCorrect == Spec => []TypeOK
BY TypesAndShapes, PTL

(* How the request of r reads after a start.                                *)
LEMMA StartRow ==
  ASSUME AccountsTypeOK, NEW r \in Requests, NEW u \in Users \cup {None}, NEW w \in Request,
         Start(r, u, w)
  PROVE  /\ req'[r].user = u /\ req'[r].phase = w.phase /\ req'[r].row = w.row
         /\ req'[r].mail = w.mail
         /\ \A q \in Requests \ {r} : req'[q] = req[q]
         /\ req[r].phase = "idle"
BY DEF Start, AccountsTypeOK, Request

LEMMA FinishRow ==
  ASSUME AccountsTypeOK, NEW r \in Requests, Finish(r)
  PROVE  /\ req'[r] = Idle /\ req'[r].phase = "idle" /\ req'[r].row = None
         /\ req'[r].mail = None /\ req'[r].user = None
         /\ \A q \in Requests \ {r} : req'[q] = req[q]
BY DEF Finish, AccountsTypeOK, Idle

------------------------------------------------------------------------------
(* The one address of a user whose address was not changed.                 *)

(* A request of v, alone changed, knows the address v has.                  *)
LEMMA AddressedAfter ==
  ASSUME Addressed, NEW r \in Requests, \A q \in Requests \ {r} : req'[q] = req[q],
         readdressed \subseteq readdressed',
         \A v \in Users : v \notin readdressed =>
           /\ user'[v] # None => user'[v].email = "first"
           /\ \A m \in mailed'[v] : m[2] = "first"
           /\ req'[r].user = v => (req'[r].email = "first" /\
                 (req'[r].row # None => req'[r].row.email = "first"))
  PROVE  Addressed'
<1> SUFFICES ASSUME NEW v \in Users, v \notin readdressed', NEW q \in Requests
             PROVE  /\ user'[v] # None => user'[v].email = "first"
                    /\ \A m \in mailed'[v] : m[2] = "first"
                    /\ req'[q].user = v => (req'[q].email = "first" /\
                         (req'[q].row # None => req'[q].row.email = "first"))
  BY DEF Addressed, AtFirst, Exists
<1>1. v \notin readdressed
  OBVIOUS
<1>2. /\ user'[v] # None => user'[v].email = "first"
      /\ \A m \in mailed'[v] : m[2] = "first"
  BY <1>1
<1>3. req'[r].user = v => (req'[r].email = "first" /\
                 (req'[r].row # None => req'[r].row.email = "first"))
  BY <1>1
<1>4. q # r /\ req'[q].user = v => (req'[q].email = "first" /\
                 (req'[q].row # None => req'[q].row.email = "first"))
  BY <1>1 DEF Addressed, AtFirst
<1> QED
  BY <1>2, <1>3, <1>4

LEMMA AddressedRows ==
  ASSUME Addressed, NEW v \in Users, v \notin readdressed
  PROVE  /\ user[v] # None => user[v].email = "first"
         /\ \A m \in mailed[v] : m[2] = "first"
         /\ \A r \in Requests : req[r].user = v =>
              req[r].email = "first" /\ (req[r].row # None => req[r].row.email = "first")
BY DEF Addressed, AtFirst, Exists

(* A start with what w carries, read from the row of user u.                *)
LEMMA StartAddressed ==
  ASSUME AccountsTypeOK, Addressed, NEW r \in Requests, NEW u \in Users \cup {None},
         NEW w \in Request, Start(r, u, w), user' = user,
         u \in Users /\ u \notin readdressed =>
           w.email = "first" /\ (w.row # None => w.row.email = "first")
  PROVE  Addressed'
<1>1. /\ req'[r] = [w EXCEPT !.user = u] /\ readdressed' = readdressed /\ mailed' = mailed
      /\ \A q \in Requests \ {r} : req'[q] = req[q]
  BY DEF Start, AccountsTypeOK, outside
<1>2. req'[r].user = u /\ req'[r].email = w.email /\ req'[r].row = w.row
  BY <1>1 DEF Request
<1>3. ASSUME NEW v \in Users, v \notin readdressed
      PROVE  /\ user'[v] # None => user'[v].email = "first"
             /\ \A m \in mailed'[v] : m[2] = "first"
             /\ req'[r].user = v => (req'[r].email = "first" /\
                 (req'[r].row # None => req'[r].row.email = "first"))
  BY <1>1, <1>2, <1>3, AddressedRows
<1> QED
  BY <1>1, <1>3, AddressedAfter

LEMMA StartingAddressed ==
  ASSUME AccountsTypeOK, Addressed, NEW r \in Requests, Starting(r)
  PROVE  Addressed'
<1>u. user' = user
  BY DEF Starting, Register, ResetPassword, GoogleAuth, SendVerificationCode, VerifyEmail,
         ForgotPassword, UpdatePlan, SyncMissingWallets, rows
<1>1. ASSUME NEW u \in Users, NEW s \in Secrets, Register(r, u, s)
      PROVE  Addressed'
  <2> DEFINE p == IF freePlan = "active" THEN "signUp" ELSE "plan"
             w == [Idle EXCEPT !.row = LocalUser(s), !.phase = p]
  <2>0. p \in {"signUp", "plan"}
    OBVIOUS
  <2>1. Start(r, u, w)
    BY <1>1 DEF Register
  <2> HIDE DEF p
  <2>2. w \in Request /\ w.email = "first" /\ w.row = LocalUser(s)
    BY <2>0, RowTypes DEF Idle, Request
  <2> HIDE DEF w
  <2> QED
    BY <1>u, <2>1, <2>2, RowTypes, StartAddressed
<1>2. ASSUME NEW u \in Users, NEW a \in Email, GoogleAuth(r, u, a)
      PROVE  Addressed'
  <2> DEFINE p == IF freePlan # "active" /\ ~Production THEN "plan" ELSE "google"
             k == PlanFound(freePlan)
             w == [Idle EXCEPT !.email = a, !.plan = k, !.phase = p]
  <2>0. p \in {"google", "plan"} /\ k \in {"none", "active"}
    BY DEF PlanFound
  <2>1. Start(r, u, w)
    BY <1>2 DEF GoogleAuth
  <2> HIDE DEF p, k
  <2>2. w \in Request /\ w.email = a /\ w.row = None
    BY <2>0 DEF Idle, Request
  <2>3. u \notin readdressed => a = "first"
    BY <1>2, AddressedRows DEF GoogleAuth, Exists
  <2> HIDE DEF w
  <2> QED
    BY <1>u, <2>1, <2>2, <2>3, StartAddressed
<1>3. ASSUME NEW u \in Users, NEW c \in Codes, NEW s \in Secrets, ResetPassword(r, u, c, s)
      PROVE  Addressed'
  <2> DEFINE w == [Idle EXCEPT !.phase = "reset", !.mail = c, !.row = LocalUser(s)]
  <2>1. Start(r, u, w)
    BY <1>3 DEF ResetPassword
  <2>2. w \in Request /\ w.email = "first" /\ w.row = LocalUser(s)
    BY RowTypes DEF Idle, Request
  <2> HIDE DEF w
  <2> QED
    BY <1>u, <2>1, <2>2, RowTypes, StartAddressed
<1>4. ASSUME NEW u \in Users, NEW c \in Codes,
             SendVerificationCode(r, u, c) \/ ForgotPassword(r, u, c)
      PROVE  Addressed'
  <2>1. user[u] \in User
    BY <1>4 DEF SendVerificationCode, ForgotPassword, Exists, AccountsTypeOK
  <2>2. PICK e \in Email : e = user[u].email
    BY <2>1 DEF User
  <2>3. PICK row \in User : /\ row.email = e
                            /\ Start(r, u, [Idle EXCEPT !.phase = "save", !.mail = c,
                                              !.email = e, !.row = row])
    <3>1. [user[u] EXCEPT !.code = c] \in User /\ [user[u] EXCEPT !.token = c] \in User
      BY <2>1 DEF User
    <3>2. [user[u] EXCEPT !.code = c].email = e /\ [user[u] EXCEPT !.token = c].email = e
      BY <2>1, <2>2 DEF User
    <3> QED
      BY <1>4, <2>2, <3>1, <3>2 DEF SendVerificationCode, ForgotPassword
  <2> DEFINE w == [Idle EXCEPT !.phase = "save", !.mail = c, !.email = e, !.row = row]
  <2>4. Start(r, u, w)
    BY <2>3
  <2>5. w \in Request /\ w.email = e /\ w.row = row
    BY DEF Idle, Request
  <2>6. u \notin readdressed => e = "first"
    BY <2>1, <2>2, AddressedRows
  <2> HIDE DEF w
  <2> QED
    BY <1>u, <2>3, <2>4, <2>5, <2>6, StartAddressed
<1>5. ASSUME NEW u \in Users, NEW c \in Codes, VerifyEmail(r, u, c)
      PROVE  Addressed'
  <2>1. user[u] \in User
    BY <1>5 DEF VerifyEmail, Exists, AccountsTypeOK
  <2>2. PICK row \in User : row = [user[u] EXCEPT !.verified = TRUE]
    BY <2>1 DEF User
  <2> DEFINE w == [Idle EXCEPT !.phase = "save", !.row = row]
  <2>3. Start(r, u, w)
    BY <1>5, <2>2 DEF VerifyEmail
  <2>4. w \in Request /\ w.email = "first" /\ w.row = row
    BY DEF Idle, Request, Email
  <2>5. u \notin readdressed => row.email = "first"
    BY <2>1, <2>2, AddressedRows DEF User
  <2> HIDE DEF w
  <2> QED
    BY <1>u, <2>3, <2>4, <2>5, StartAddressed
<1>6. CASE UpdatePlan(r)
  <2>1. PICK plan \in {"active", "inactive"} :
          Start(r, None, [Idle EXCEPT !.phase = "savePlan", !.plan = plan])
    BY <1>6 DEF UpdatePlan
  <2>2. [Idle EXCEPT !.phase = "savePlan", !.plan = plan] \in Request
    BY DEF Idle, Request, Email
  <2> QED
    BY <1>u, <2>1, <2>2, StartAddressed
<1>7. CASE SyncMissingWallets(r)
  <2>1. [Idle EXCEPT !.phase = "sync", !.missing = WithoutWallet] \in Request
    BY DEF Idle, Request, Email, WithoutWallet, Existing
  <2> QED
    BY <1>7, <1>u, <2>1, StartAddressed DEF SyncMissingWallets
<1> QED
  BY <1>1, <1>2, <1>3, <1>4, <1>5, <1>6, <1>7 DEF Starting

(* A step of r that ends it, or keeps user and address, and takes no row    *)
(* but one known before.                                                    *)
LEMMA MoveAddressed ==
  ASSUME Addressed, NEW r \in Requests, \A q \in Requests \ {r} : req'[q] = req[q],
         readdressed' = readdressed, mailed' = mailed,
         \A v \in Users : user'[v] = user[v] \/ (v \notin readdressed /\ user'[v] # None
                                                => user'[v].email = "first"),
         \/ req'[r].user = None
         \/ /\ req'[r].user = req[r].user /\ req'[r].email = req[r].email
            /\ \/ req'[r].row \in {None, req[r].row}
               \/ req[r].user \notin readdressed => req'[r].row.email = "first"
  PROVE  Addressed'
BY AddressedAfter, AddressedRows

LEMMA MovingAddressed ==
  ASSUME AccountsTypeOK, Shaped, Addressed, NEW r \in Requests, Moving(r)
  PROVE  Addressed'
<1>h. readdressed' = readdressed /\ (mailed' = mailed \/ SendMail(r))
  BY DEF Moving, InsertFreePlan, ReadGoogleUser, SaveNewUser, SaveWallet, SaveUser,
         UpdatePassword, SavePlan, SaveMissingWallets, BreakOff, SendMail, outside, history
<1>i. req[r] \in Request /\ RequestShape(req[r])
  BY DEF AccountsTypeOK, Shaped
<1>1. CASE Finish(r) /\ user' = user /\ mailed' = mailed
  BY <1>1, <1>h, FinishRow, MoveAddressed
<1>2. CASE InsertFreePlan(r)
  <2>1. user' = user /\ mailed' = mailed
    BY <1>2 DEF InsertFreePlan, outside
  <2>2. CASE \/ req' = [req EXCEPT ![r].phase = "google", ![r].plan = PlanFound(freePlan')]
             \/ req' = [req EXCEPT ![r].phase = "signUp"]
    <3>1. /\ req'[r].user = req[r].user /\ req'[r].email = req[r].email
          /\ req'[r].row = req[r].row /\ \A q \in Requests \ {r} : req'[q] = req[q]
      BY <2>2 DEF AccountsTypeOK, Request
    <3> QED
      BY <1>h, <2>1, <3>1, MoveAddressed
  <2> QED
    BY <1>1, <1>2, <2>1, <2>2 DEF InsertFreePlan
<1>3. CASE ReadGoogleUser(r)
  <2>1. user' = user /\ mailed' = mailed
    BY <1>3 DEF ReadGoogleUser, rows, outside
  <2>2. PICK u \in Users : u = req[r].user
    BY <1>3, <1>i DEF ReadGoogleUser, RequestShape
  <2>3. CASE Exists(u) /\ user[u].email = req[r].email
    <3>1. user[u] \in User
      BY <2>3 DEF Exists, AccountsTypeOK
    <3>2. PICK row \in User : row = [user[u] EXCEPT !.google = TRUE, !.verified = TRUE]
      BY <3>1 DEF User
    <3>3. row.email = user[u].email
      BY <3>1, <3>2 DEF User
    <3>4. req' = [req EXCEPT ![r].phase = "save", ![r].row = row]
      BY <1>3, <2>2, <2>3, <3>2 DEF ReadGoogleUser
    <3>5. /\ req'[r].user = u /\ req'[r].email = req[r].email /\ req'[r].row = row
          /\ \A q \in Requests \ {r} : req'[q] = req[q]
      BY <2>2, <3>4 DEF AccountsTypeOK, Request
    <3>6. u \notin readdressed => row.email = "first"
      BY <3>1, <3>3, AddressedRows
    <3> QED
      BY <1>h, <2>1, <2>2, <3>5, <3>6, MoveAddressed
  <2>4. CASE ~Exists(u) /\ req[r].email = "first" /\ req[r].plan = "active"
    <3>1. req' = [req EXCEPT ![r].phase = "signUp", ![r].row = GoogleUser]
      BY <1>3, <2>2, <2>4 DEF ReadGoogleUser
    <3>2. /\ req'[r].user = u /\ req'[r].email = req[r].email /\ req'[r].row = GoogleUser
          /\ \A q \in Requests \ {r} : req'[q] = req[q]
      BY <2>2, <3>1 DEF AccountsTypeOK, Request
    <3> QED
      BY <1>h, <2>1, <2>2, <3>2, RowTypes, MoveAddressed
  <2> QED
    BY <1>1, <1>3, <2>1, <2>2, <2>3, <2>4 DEF ReadGoogleUser
<1>4. CASE SaveNewUser(r)
  <2>2. PICK u \in Users : u = req[r].user
    BY <1>4, <1>i DEF SaveNewUser, RequestShape
  <2>3. CASE Exists(u)
    BY <1>1, <1>4, <2>2, <2>3 DEF SaveNewUser, outside
  <2>4. CASE ~Exists(u)
    <3>1. req[r].row.email = "first"
      BY <1>4, <1>i, RowTypes DEF SaveNewUser, RequestShape
    <3>2. user' = [user EXCEPT ![u] = req[r].row] /\ mailed' = mailed
      BY <1>4, <2>2, <2>4 DEF SaveNewUser, outside
    <3>3. /\ req'[r].user = req[r].user /\ req'[r].email = req[r].email /\ req'[r].row = None
          /\ \A q \in Requests \ {r} : req'[q] = req[q]
      BY <1>4, <2>2, <2>4 DEF SaveNewUser, AccountsTypeOK, Request
    <3>4. \A v \in Users : user'[v] = user[v] \/ user'[v].email = "first"
      BY <3>1, <3>2 DEF AccountsTypeOK
    <3> QED
      BY <1>h, <3>2, <3>3, <3>4, MoveAddressed
  <2> QED
    BY <2>3, <2>4
<1>5. CASE SaveUser(r)
  <2>2. PICK u \in Users : u = req[r].user
    BY <1>5, <1>i DEF SaveUser, RequestShape
  <2>3. req[r].row \in User
    BY <1>5, <1>i DEF SaveUser, RequestShape
  <2>4. u \notin readdressed => req[r].row.email = "first"
    BY <2>2, <2>3, AddressedRows
  <2>5. \A v \in Users : user'[v] = user[v] \/ (v \notin readdressed /\ user'[v] # None
                                               => user'[v].email = "first")
    BY <1>5, <2>2, <2>4 DEF SaveUser, AccountsTypeOK
  <2>6. /\ \/ req'[r].user = None
           \/ /\ req'[r].user = req[r].user /\ req'[r].email = req[r].email
              /\ req'[r].row = None
        /\ \A q \in Requests \ {r} : req'[q] = req[q]
    <3>1. CASE req[r].mail = None
      BY <1>5, <3>1, FinishRow DEF SaveUser
    <3>2. CASE req[r].mail # None
      <4>1. req' = [req EXCEPT ![r].phase = "mail", ![r].row = None]
        BY <1>5, <3>2 DEF SaveUser
      <4> QED
        BY <4>1 DEF AccountsTypeOK, Request
    <3> QED
      BY <3>1, <3>2
  <2>7. mailed' = mailed
    BY <1>5 DEF SaveUser, outside
  <2> QED
    BY <1>h, <2>5, <2>6, <2>7, MoveAddressed
<1>6. CASE SendMail(r)
  <2>2. PICK u \in Users : u = req[r].user
    BY <1>6, <1>i DEF SendMail, RequestShape
  <2>3. user' = user /\ req'[r].user = None /\ \A q \in Requests \ {r} : req'[q] = req[q]
    BY <1>6, FinishRow DEF SendMail, rows
  <2>4. /\ mailed'[u] = mailed[u] \cup {<<req[r].mail, req[r].email>>}
        /\ \A v \in Users \ {u} : mailed'[v] = mailed[v]
    BY <1>6, <2>2 DEF SendMail, AccountsTypeOK
  <2>5. ASSUME NEW v \in Users, v \notin readdressed
        PROVE  /\ user'[v] # None => user'[v].email = "first"
               /\ \A m \in mailed'[v] : m[2] = "first"
               /\ req'[r].user # v
    <3>1. CASE v = u
      BY <2>2, <2>3, <2>4, <2>5, <3>1, AddressedRows
    <3>2. CASE v # u
      BY <2>3, <2>4, <2>5, <3>2, AddressedRows
    <3> QED
      BY <3>1, <3>2
  <2> QED
    BY <1>h, <2>3, <2>5, AddressedAfter
<1>7. CASE UpdatePassword(r)
  <2>2. PICK u \in Users : u = req[r].user
    BY <1>7, <1>i DEF UpdatePassword, RequestShape
  <2>3. PICK s : s = req[r].row.password[1]
    OBVIOUS
  <2>4. user' = IF Exists(u) THEN [user EXCEPT ![u] = ResetRow(user[u], s)] ELSE user
    BY <1>7, <2>2, <2>3 DEF UpdatePassword
  <2>5. Exists(u) => ResetRow(user[u], s).email = user[u].email
    BY DEF ResetRow, Exists, AccountsTypeOK, User
  <2>6. \A v \in Users : user'[v] = user[v] \/ (v \notin readdressed /\ user'[v] # None
                                               => user'[v].email = "first")
    BY <2>4, <2>5, AddressedRows DEF Exists, AccountsTypeOK
  <2> QED
    BY <1>7, <1>h, <2>6, FinishRow, MoveAddressed DEF UpdatePassword, outside
<1>8. CASE SaveWallet(r) \/ SavePlan(r) \/ SaveMissingWallets(r) \/ BreakOff(r)
  BY <1>1, <1>8 DEF SaveWallet, SavePlan, SaveMissingWallets, BreakOff, rows, outside
<1> QED
  BY <1>2, <1>3, <1>4, <1>5, <1>6, <1>7, <1>8 DEF Moving

LEMMA DirectAddressed ==
  ASSUME AccountsTypeOK, Addressed, Direct
  PROVE  Addressed'
<1> SUFFICES /\ req' = req /\ mailed' = mailed /\ readdressed \subseteq readdressed'
             /\ \A v \in Users : v \notin readdressed' /\ user'[v] # None =>
                  user'[v] = user[v] \/ user'[v].email = "first"
  BY DEF Addressed, AtFirst, Exists
<1>1. ASSUME NEW u \in Users, NEW s \in Secrets, CreateUser(u, s)
      PROVE  /\ req' = req /\ mailed' = mailed /\ readdressed' = readdressed
             /\ \A v \in Users : user'[v] = user[v] \/ user'[v].email = "first"
  <2>1. [LocalUser(s) EXCEPT !.password = <<s, "plain">>].email = "first"
    BY DEF LocalUser
  <2> QED
    BY <1>1, <2>1 DEF CreateUser, AccountsTypeOK, outside
<1>2. ASSUME NEW u \in Users, NEW a \in Email, NEW s \in Secrets \cup {None},
             UpdateUser(u, a, s)
      PROVE  /\ req' = req /\ mailed' = mailed /\ readdressed \subseteq readdressed'
             /\ \A v \in Users : v \notin readdressed' /\ user'[v] # None =>
                  user'[v] = user[v] \/ user'[v].email = "first"
  <2>1. user[u] \in User /\ Exists(u)
    BY <1>2 DEF UpdateUser, Exists, AccountsTypeOK
  <2>2. PICK p : p = IF s = None THEN user[u].password ELSE <<s, "plain">>
    OBVIOUS
  <2>3. user'[u] = [user[u] EXCEPT !.email = a, !.password = p]
    BY <1>2, <2>2 DEF UpdateUser, AccountsTypeOK
  <2>4. user'[u].email = a
    BY <2>1, <2>3 DEF User
  <2>5. u \notin readdressed' => a = "first"
    BY <1>2, <2>1, AddressedRows DEF UpdateUser, Exists
  <2>6. \A v \in Users \ {u} : user'[v] = user[v]
    BY <1>2 DEF UpdateUser, AccountsTypeOK
  <2> QED
    BY <1>2, <2>4, <2>5, <2>6 DEF UpdateUser, outside
<1>3. ASSUME NEW u \in Users, RemoveUser(u)
      PROVE  /\ req' = req /\ mailed' = mailed /\ readdressed' = readdressed
             /\ \A v \in Users : user'[v] \in {None, user[v]}
  BY <1>3 DEF RemoveUser, AccountsTypeOK, outside
<1>4. CASE CreatePlan \/ \E c \in Codes : CodeExpires(c)
  BY <1>4 DEF CreatePlan, CodeExpires, rows, outside, history
<1> QED
  BY <1>1, <1>2, <1>3, <1>4 DEF Direct

LEMMA AddressedStep ==
  ASSUME TypeOK, Shaped, Addressed, [Next]_vars
  PROVE  Addressed'
<1>0. AccountsTypeOK
  BY DEF TypeOK
<1>1. CASE AccountsNext
  BY <1>0, <1>1, AccountsCases, StartingAddressed, MovingAddressed, DirectAddressed
<1>2. CASE UNCHANGED <<rows, outside, req, history>>
  BY <1>2 DEF Addressed, AtFirst, Exists, rows, outside, history
<1>3. CASE Hanging
  BY <1>2, <1>3, HangingLeaves
<1>4. CASE UNCHANGED vars
  BY <1>2, <1>4 DEF vars, accounts
<1> QED
  BY <1>1, <1>3, <1>4, NextCases

(* Of a user whose address was never changed, the row, every copy of it and *)
(* every mail know one address only.                                        *)
THEOREM AlwaysAddressed == Spec => []Addressed
<1>1. Init => Addressed
  BY DEF Init, AccountsInit, Addressed, AtFirst, Exists, Idle
<1>2. TypeOK /\ Shaped /\ Addressed /\ [Next]_vars => Addressed'
  BY AddressedStep
<1> QED
  BY TypesAndShapes, <1>1, <1>2, PTL DEF Spec

------------------------------------------------------------------------------
(* What is known of users, proven of addresses, and held of codes.          *)

Sound == KnownOnly /\ Proven /\ TokensLocal /\ CodesApart

(* Something is proven of user u, or nothing.                               *)
ProvesFor(u) == proven \subseteq proven' /\ proven' \subseteq proven \cup ({u} \X Email)

LEMMA ProvesOnly ==
  ASSUME NEW u \in Users, ProvesFor(u), NEW v \in Users \ {u}
  PROVE  ProvenOf(v)' <=> ProvenOf(v)
BY DEF ProvesFor, ProvenOf

(* What a start leaves alone, and the kinds of request that it may leave.   *)
Begun(r) ==
  /\ rows' = rows /\ outside' = outside /\ gone' = gone /\ signedUp' = signedUp
  /\ chosen' = chosen /\ spent' = spent /\ readdressed' = readdressed
  /\ req[r].phase = "idle"
  /\ \A q \in Requests \ {r} : req'[q] = req[q]
  /\ disturbed' = disturbed \cup Overlapped(req'[r].user)

BegunSignUp(r) ==
  /\ req'[r].phase \in {"plan", "signUp", "google"}
  /\ req'[r].user \in Users /\ req'[r].mail = None
  /\ req'[r].row = None \/ \E s \in Secrets : req'[r].row = LocalUser(s)
  /\ proven' = proven

BegunReset(r, u) ==
  /\ req'[r].phase = "reset" /\ req'[r].user = u /\ Exists(u)
  /\ req'[r].mail \in Codes /\ req'[r].mail \in Received(u)
  /\ user[u].token = req'[r].mail
  /\ \E s \in Secrets : req'[r].row = LocalUser(s)
  /\ proven' = proven

BegunCode(r, u) ==
  /\ req'[r].phase = "save" /\ req'[r].user = u /\ Exists(u)
  /\ req'[r].mail \in Codes /\ Unused(req'[r].mail)
  /\ ~user[u].verified /\ req'[r].row = [user[u] EXCEPT !.code = req'[r].mail]
  /\ proven' = proven

BegunProof(r, u) ==
  /\ req'[r].phase = "save" /\ req'[r].user = u /\ Exists(u)
  /\ req'[r].mail = None /\ req'[r].row = [user[u] EXCEPT !.verified = TRUE]
  /\ ProvesFor(u) /\ \E m \in mailed[u] : m[2] \in Email /\ <<u, m[2]>> \in proven'

BegunToken(r, u) ==
  /\ req'[r].phase = "save" /\ req'[r].user = u /\ Exists(u)
  /\ req'[r].mail \in Codes /\ Unused(req'[r].mail)
  /\ user[u].provider = "local" /\ req'[r].row = [user[u] EXCEPT !.token = req'[r].mail]
  /\ proven' = proven

BegunOther(r) ==
  /\ req'[r].phase \in {"savePlan", "sync"} /\ req'[r].user = None
  /\ req'[r].row = None /\ req'[r].mail = None
  /\ proven' = proven

(* Each handler that starts, with what it read.                             *)
LEMMA StartingIs ==
  ASSUME AccountsTypeOK, Shaped, NEW r \in Requests, Starting(r)
  PROVE  /\ Begun(r)
         /\ \/ BegunSignUp(r) \/ BegunOther(r)
            \/ \E u \in Users : \/ BegunReset(r, u) \/ BegunCode(r, u)
                                 \/ BegunProof(r, u) \/ BegunToken(r, u)
<1> USE DEF rows, outside
<1>1. ASSUME NEW u \in Users, NEW s \in Secrets, Register(r, u, s)
      PROVE  Begun(r) /\ BegunSignUp(r)
  <2> DEFINE p == IF freePlan = "active" THEN "signUp" ELSE "plan"
             w == [Idle EXCEPT !.row = LocalUser(s), !.phase = p]
  <2>0. p \in {"signUp", "plan"}
    OBVIOUS
  <2>1. Start(r, u, w)
    BY <1>1 DEF Register
  <2> HIDE DEF p
  <2>2. w \in Request /\ w.phase = p /\ w.row = LocalUser(s) /\ w.mail = None
    BY <2>0, RowTypes DEF Idle, Request
  <2> HIDE DEF w
  <2>3. /\ req'[r].user = u /\ req'[r].phase = w.phase /\ req'[r].row = w.row
        /\ req'[r].mail = w.mail /\ req[r].phase = "idle"
        /\ \A q \in Requests \ {r} : req'[q] = req[q]
    BY <2>1, <2>2, StartRow
  <2> QED
    BY <1>1, <2>0, <2>1, <2>2, <2>3 DEF Begun, BegunSignUp, Register, Start
<1>2. ASSUME NEW u \in Users, NEW a \in Email, GoogleAuth(r, u, a)
      PROVE  Begun(r) /\ BegunSignUp(r)
  <2> DEFINE p == IF freePlan # "active" /\ ~Production THEN "plan" ELSE "google"
             k == PlanFound(freePlan)
             w == [Idle EXCEPT !.email = a, !.plan = k, !.phase = p]
  <2>0. p \in {"google", "plan"} /\ k \in {"none", "active"}
    BY DEF PlanFound
  <2>1. Start(r, u, w)
    BY <1>2 DEF GoogleAuth
  <2> HIDE DEF p, k
  <2>2. w \in Request /\ w.phase = p /\ w.row = None /\ w.mail = None
    BY <2>0 DEF Idle, Request
  <2> HIDE DEF w
  <2>3. /\ req'[r].user = u /\ req'[r].phase = w.phase /\ req'[r].row = w.row
        /\ req'[r].mail = w.mail /\ req[r].phase = "idle"
        /\ \A q \in Requests \ {r} : req'[q] = req[q]
    BY <2>1, <2>2, StartRow
  <2> QED
    BY <1>2, <2>0, <2>1, <2>2, <2>3 DEF Begun, BegunSignUp, GoogleAuth, Start
<1>3. ASSUME NEW u \in Users, NEW c \in Codes, NEW s \in Secrets, ResetPassword(r, u, c, s)
      PROVE  Begun(r) /\ BegunReset(r, u)
  <2> DEFINE w == [Idle EXCEPT !.phase = "reset", !.mail = c, !.row = LocalUser(s)]
  <2>1. Start(r, u, w)
    BY <1>3 DEF ResetPassword
  <2>2. w \in Request /\ w.phase = "reset" /\ w.row = LocalUser(s) /\ w.mail = c
    BY RowTypes DEF Idle, Request
  <2> HIDE DEF w
  <2>3. /\ req'[r].user = u /\ req'[r].phase = w.phase /\ req'[r].row = w.row
        /\ req'[r].mail = w.mail /\ req[r].phase = "idle"
        /\ \A q \in Requests \ {r} : req'[q] = req[q]
    BY <2>1, <2>2, StartRow
  <2> QED
    BY <1>3, <2>1, <2>2, <2>3 DEF Begun, BegunReset, ResetPassword, Start
<1>4. ASSUME NEW u \in Users, NEW c \in Codes, SendVerificationCode(r, u, c)
      PROVE  Begun(r) /\ BegunCode(r, u)
  <2> DEFINE row == [user[u] EXCEPT !.code = c]
             e == user[u].email
             w == [Idle EXCEPT !.phase = "save", !.mail = c, !.email = e, !.row = row]
  <2>1. Start(r, u, w)
    BY <1>4 DEF SendVerificationCode
  <2>2. row \in User /\ e \in Email
    BY <1>4 DEF SendVerificationCode, Exists, AccountsTypeOK, User
  <2> HIDE DEF row, e
  <2>3. w \in Request /\ w.phase = "save" /\ w.row = row /\ w.mail = c
    BY <2>2 DEF Idle, Request
  <2> HIDE DEF w
  <2>4. /\ req'[r].user = u /\ req'[r].phase = w.phase /\ req'[r].row = w.row
        /\ req'[r].mail = w.mail /\ req[r].phase = "idle"
        /\ \A q \in Requests \ {r} : req'[q] = req[q]
    BY <2>1, <2>3, StartRow
  <2> QED
    BY <1>4, <2>1, <2>3, <2>4 DEF Begun, BegunCode, SendVerificationCode, Start, row
<1>5. ASSUME NEW u \in Users, NEW c \in Codes, VerifyEmail(r, u, c)
      PROVE  Begun(r) /\ BegunProof(r, u)
  <2> DEFINE row == [user[u] EXCEPT !.verified = TRUE]
             w == [Idle EXCEPT !.phase = "save", !.row = row]
  <2>1. Start(r, u, w)
    BY <1>5 DEF VerifyEmail
  <2>2. row \in User
    <3>1. user[u] \in User
      BY <1>5 DEF VerifyEmail, Exists, AccountsTypeOK
    <3> QED
      BY <3>1 DEF User
  <2> HIDE DEF row
  <2>3. w \in Request /\ w.phase = "save" /\ w.row = row /\ w.mail = None
    BY <2>2 DEF Email, Idle, Request
  <2> HIDE DEF w
  <2>4. /\ req'[r].user = u /\ req'[r].phase = w.phase /\ req'[r].row = w.row
        /\ req'[r].mail = w.mail /\ req[r].phase = "idle"
        /\ \A q \in Requests \ {r} : req'[q] = req[q]
    BY <2>1, <2>3, StartRow
  <2>5. ProvesFor(u) /\ \E m \in mailed[u] : m[2] \in Email /\ <<u, m[2]>> \in proven'
    <3>1. mailed[u] \subseteq Codes \X Email
      BY DEF AccountsTypeOK
    <3>2. proven' = proven \cup {<<u, m[2]>> : m \in {n \in mailed[u] : n[1] = c}}
      BY <1>5 DEF VerifyEmail, ValidCode
    <3>3. PICK m \in mailed[u] : m[1] = c
      BY <1>5 DEF VerifyEmail, Received
    <3> QED
      BY <3>1, <3>2, <3>3 DEF ProvesFor
  <2> QED
    BY <1>5, <2>1, <2>3, <2>4, <2>5 DEF Begun, BegunProof, VerifyEmail, Start, row
<1>6. ASSUME NEW u \in Users, NEW c \in Codes, ForgotPassword(r, u, c)
      PROVE  Begun(r) /\ BegunToken(r, u)
  <2> DEFINE row == [user[u] EXCEPT !.token = c]
             e == user[u].email
             w == [Idle EXCEPT !.phase = "save", !.mail = c, !.email = e, !.row = row]
  <2>1. Start(r, u, w)
    BY <1>6 DEF ForgotPassword
  <2>2. row \in User /\ e \in Email
    BY <1>6 DEF ForgotPassword, Exists, AccountsTypeOK, User
  <2> HIDE DEF row, e
  <2>3. w \in Request /\ w.phase = "save" /\ w.row = row /\ w.mail = c
    BY <2>2 DEF Idle, Request
  <2> HIDE DEF w
  <2>4. /\ req'[r].user = u /\ req'[r].phase = w.phase /\ req'[r].row = w.row
        /\ req'[r].mail = w.mail /\ req[r].phase = "idle"
        /\ \A q \in Requests \ {r} : req'[q] = req[q]
    BY <2>1, <2>3, StartRow
  <2> QED
    BY <1>6, <2>1, <2>3, <2>4 DEF Begun, BegunToken, ForgotPassword, Start, row
<1>7. CASE UpdatePlan(r)
  <2> SUFFICES Begun(r) /\ BegunOther(r)
    OBVIOUS
  <2>1. PICK plan \in {"active", "inactive"} :
          Start(r, None, [Idle EXCEPT !.phase = "savePlan", !.plan = plan])
    BY <1>7 DEF UpdatePlan
  <2> DEFINE w == [Idle EXCEPT !.phase = "savePlan", !.plan = plan]
  <2>2. Start(r, None, w)
    BY <2>1
  <2>3. w \in Request /\ w.phase = "savePlan" /\ w.row = None /\ w.mail = None
    BY DEF Email, Idle, Request
  <2> HIDE DEF w
  <2>4. /\ req'[r].user = None /\ req'[r].phase = w.phase /\ req'[r].row = w.row
        /\ req'[r].mail = w.mail /\ req[r].phase = "idle"
        /\ \A q \in Requests \ {r} : req'[q] = req[q]
    BY <2>2, <2>3, StartRow
  <2> QED
    BY <1>7, <2>2, <2>3, <2>4 DEF Begun, BegunOther, UpdatePlan, Start
<1>8. CASE SyncMissingWallets(r)
  <2> SUFFICES Begun(r) /\ BegunOther(r)
    OBVIOUS
  <2> DEFINE w == [Idle EXCEPT !.phase = "sync", !.missing = WithoutWallet]
  <2>2. Start(r, None, w)
    BY <1>8 DEF SyncMissingWallets
  <2>3. w \in Request /\ w.phase = "sync" /\ w.row = None /\ w.mail = None
    BY DEF Email, Idle, Request, WithoutWallet, Existing
  <2> HIDE DEF w
  <2>4. /\ req'[r].user = None /\ req'[r].phase = w.phase /\ req'[r].row = w.row
        /\ req'[r].mail = w.mail /\ req[r].phase = "idle"
        /\ \A q \in Requests \ {r} : req'[q] = req[q]
    BY <2>2, <2>3, StartRow
  <2> QED
    BY <1>8, <2>2, <2>3, <2>4 DEF Begun, BegunOther, SyncMissingWallets, Start
<1> QED
  BY <1>1, <1>2, <1>3, <1>4, <1>5, <1>6, <1>7, <1>8 DEF Starting

LEMMA InitSound == Init => Sound
<1> SUFFICES ASSUME Init PROVE Sound
  OBVIOUS
<1>1. AccountsInit
  BY DEF Init
<1>2. KnownOnly /\ Proven /\ TokensLocal
  BY <1>1 DEF AccountsInit, KnownOnly, Known, Proven, VerifiedWasProven, TokensLocal,
              Existing, Exists, Saving, Idle, ProvenOf
<1>3. CodesApart
  BY <1>1 DEF AccountsInit, CodesApart, Holds, Carries, Exists, Idle, Received
<1> QED
  BY <1>2, <1>3 DEF Sound

LEMMA SameSound ==
  ASSUME Sound, UNCHANGED <<user, mailed, req, history>>
  PROVE  Sound'
<1>1. /\ user' = user /\ mailed' = mailed /\ gone' = gone /\ signedUp' = signedUp
      /\ proven' = proven /\ readdressed' = readdressed /\ chosen' = chosen
  BY DEF history
<1>2. KnownOnly'
  BY <1>1 DEF Sound, KnownOnly, Known, Existing, Exists, ProvenOf
<1>3. Proven' /\ TokensLocal'
  BY <1>1 DEF Sound, Proven, TokensLocal, VerifiedWasProven, Existing, Exists, Saving,
              TokenLocal, Vouched
<1>4. CodesApart'
  BY <1>1 DEF Sound, CodesApart, Holds, Carries, Exists, Received
<1> QED
  BY <1>2, <1>3, <1>4 DEF Sound

(* What is told of a user goes on being told of one there is or was.        *)
LEMMA KnownStays ==
  ASSUME KnownOnly, NEW r \in Requests, \A q \in Requests \ {r} : req'[q] = req[q],
         Known \subseteq Known',
         signedUp' \subseteq signedUp \cup Known',
         \A u \in Users : ProvenOf(u)' => ProvenOf(u) \/ u \in Known',
         \A u \in Users : chosen'[u] = chosen[u] \/ u \in Known',
         req'[r].phase = "reset" => req'[r].user \in Known'
  PROVE  KnownOnly'
BY DEF KnownOnly

(* Where each holding of a code is an earlier one, no two users share it.   *)
LEMMA HeldBefore ==
  ASSUME CodesApart, \A u \in Users, c \in Codes : Holds(u, c)' => Holds(u, c)
  PROVE  CodesApart'
BY DEF CodesApart

(* A code that is drawn was held for nobody.                                *)
LEMMA UnusedHeld ==
  ASSUME AccountsTypeOK, Shaped, NEW d \in Codes, Unused(d), NEW v \in Users
  PROVE  ~Holds(v, d)
<1>1. d \notin Received(v) \cup CodesIn(user[v])
  BY DEF Unused
<1>2. \A r \in Requests : d \notin {req[r].mail} \cup CodesIn(req[r].row)
  BY DEF Unused
<1>3. ~(Exists(v) /\ user[v].token = d)
  BY <1>1 DEF CodesIn, Exists
<1>4. \A r \in Requests : ~Carries(r, v, d)
  BY <1>2 DEF CodesIn, Carries
<1> QED
  BY <1>1, <1>3, <1>4 DEF Holds

LEMMA HeldOrDrawn ==
  ASSUME AccountsTypeOK, Shaped, CodesApart, NEW d \in Codes, Unused(d), NEW v \in Users,
         \A u \in Users, c \in Codes : Holds(u, c)' => Holds(u, c) \/ (u = v /\ c = d)
  PROVE  CodesApart'
BY UnusedHeld DEF CodesApart

(* A start holds what the row holds that it read, and the code it draws.    *)
LEMMA StartingHolds ==
  ASSUME NEW r \in Requests, Begun(r), NEW u \in Users, NEW c, Holds(u, c)'
  PROVE  Holds(u, c) \/ Carries(r, u, c)'
BY DEF Begun, Holds, Carries, Exists, Received, rows, outside

LEMMA StartingCodes ==
  ASSUME AccountsTypeOK, Shaped, CodesApart, NEW r \in Requests, Starting(r)
  PROVE  CodesApart'
<1>b. Begun(r)
  BY StartingIs
<1>1. CASE BegunSignUp(r)
  <2>1. \A u \in Users, c \in Codes : ~Carries(r, u, c)'
    BY <1>1, RowTypes DEF BegunSignUp, Carries
  <2> QED
    BY <1>b, <2>1, HeldBefore, StartingHolds
<1>2. CASE BegunOther(r)
  <2>1. \A u \in Users, c \in Codes : ~Carries(r, u, c)'
    BY <1>2 DEF BegunOther, Carries
  <2> QED
    BY <1>b, <2>1, HeldBefore, StartingHolds
<1>3. ASSUME NEW v \in Users, BegunReset(r, v)
      PROVE  CodesApart'
  <2>1. \A u \in Users, c \in Codes : Carries(r, u, c)' => u = v /\ c = req'[r].mail
    BY <1>3, RowTypes DEF BegunReset, Carries
  <2>2. \A u \in Users, c \in Codes : Carries(r, u, c)' => Holds(u, c)
    BY <1>3, <2>1 DEF BegunReset, Holds
  <2> QED
    BY <1>b, <2>2, HeldBefore, StartingHolds
<1>4. ASSUME NEW v \in Users, BegunCode(r, v)
      PROVE  CodesApart'
  <2>1. user[v] \in User
    BY <1>4 DEF BegunCode, Exists, AccountsTypeOK
  <2>2. req'[r].row.token = user[v].token
    BY <1>4, <2>1 DEF BegunCode, User
  <2>3. \A u \in Users, c \in Codes :
          Carries(r, u, c)' => Holds(u, c) \/ (u = v /\ c = req'[r].mail)
    BY <1>4, <2>2 DEF BegunCode, Holds, Carries
  <2>4. PICK d \in Codes : d = req'[r].mail /\ Unused(d)
    BY <1>4 DEF BegunCode
  <2> QED
    BY <1>b, <2>3, <2>4, HeldOrDrawn, StartingHolds
<1>5. ASSUME NEW v \in Users, BegunProof(r, v)
      PROVE  CodesApart'
  <2>1. user[v] \in User
    BY <1>5 DEF BegunProof, Exists, AccountsTypeOK
  <2>2. req'[r].row.token = user[v].token
    BY <1>5, <2>1 DEF BegunProof, User
  <2>3. \A u \in Users, c \in Codes : Carries(r, u, c)' => Holds(u, c)
    BY <1>5, <2>2 DEF BegunProof, Holds, Carries
  <2> QED
    BY <1>b, <2>3, HeldBefore, StartingHolds
<1>6. ASSUME NEW v \in Users, BegunToken(r, v)
      PROVE  CodesApart'
  <2>1. user[v] \in User
    BY <1>6 DEF BegunToken, Exists, AccountsTypeOK
  <2>2. req'[r].row.token = req'[r].mail
    BY <1>6, <2>1 DEF BegunToken, User
  <2>3. \A u \in Users, c \in Codes : Carries(r, u, c)' => u = v /\ c = req'[r].mail
    BY <1>6, <2>2 DEF BegunToken, Carries
  <2>4. PICK d \in Codes : d = req'[r].mail /\ Unused(d)
    BY <1>6 DEF BegunToken
  <2> QED
    BY <1>b, <2>3, <2>4, HeldOrDrawn, StartingHolds
<1> QED
  BY <1>1, <1>2, <1>3, <1>4, <1>5, <1>6, StartingIs

LEMMA StartingSound ==
  ASSUME AccountsTypeOK, Shaped, Addressed, Sound, NEW r \in Requests, Starting(r)
  PROVE  Sound'
<1>b. Begun(r)
  BY StartingIs
<1>0. KnownOnly /\ Proven /\ TokensLocal /\ CodesApart
  BY DEF Sound
<1>1. CodesApart'
  BY <1>0, StartingCodes
<1>2. Existing' = Existing /\ Known' = Known /\ user' = user
  BY <1>b DEF Begun, Existing, Exists, Known, rows
<1>3. proven' = proven \/ \E u \in Users : Exists(u) /\ ProvesFor(u)
  BY StartingIs DEF BegunSignUp, BegunOther, BegunReset, BegunCode, BegunProof, BegunToken
<1>4. proven \subseteq proven' /\ readdressed' = readdressed
  BY <1>3, <1>b DEF ProvesFor, Begun
<1>5. KnownOnly'
  <2>1. /\ \A u \in Users : ProvenOf(u)' => ProvenOf(u) \/ u \in Known'
        /\ chosen' = chosen /\ signedUp' = signedUp
    <3>1. CASE proven' = proven
      BY <1>b, <3>1 DEF Begun, ProvenOf
    <3>2. ASSUME NEW u \in Users, Exists(u), ProvesFor(u)
          PROVE  \A v \in Users : ProvenOf(v)' => ProvenOf(v) \/ v \in Known'
      BY <1>2, <3>2, ProvesOnly DEF Known, Existing
    <3> QED
      BY <1>3, <1>b, <3>1, <3>2 DEF Begun
  <2>2. req'[r].phase = "reset" => req'[r].user \in Known'
    BY <1>2, StartingIs
    DEF BegunSignUp, BegunOther, BegunReset, BegunCode, BegunProof, BegunToken, Known, Existing
  <2> QED
    BY <1>0, <1>2, <1>b, <2>1, <2>2, KnownStays DEF Begun
<1>6. VerifiedWasProven'
  BY <1>0, <1>2, <1>4 DEF Proven, VerifiedWasProven
<1> DEFINE CopySound == /\ Saving(r)' /\ req'[r].row.verified
                             => Vouched(req[r].user, req[r].row)'
                        /\ Saving(r)' => TokenLocal(req'[r].row)
<1>7. CopySound
  <2>1. CASE BegunSignUp(r) \/ BegunOther(r) \/ \E u \in Users : BegunReset(r, u)
    BY <2>1 DEF BegunSignUp, BegunOther, BegunReset, Saving
  <2>2. ASSUME NEW u \in Users, BegunCode(r, u) \/ BegunProof(r, u) \/ BegunToken(r, u)
        PROVE  CopySound
    <3>1. user[u] \in User /\ u \in Existing /\ req'[r].user = u
      BY <2>2 DEF BegunCode, BegunProof, BegunToken, Exists, Existing, AccountsTypeOK
    <3>2. TokenLocal(user[u]) /\ (user[u].verified => Vouched(u, user[u]))
      BY <1>0, <3>1 DEF TokensLocal, Proven, VerifiedWasProven, Vouched
    <3>3. CASE BegunCode(r, u)
      BY <3>1, <3>2, <3>3, <1>4 DEF BegunCode, User, TokenLocal, Vouched
    <3>4. CASE BegunProof(r, u)
      <4>1. /\ req'[r].row.email = user[u].email /\ req'[r].row.token = user[u].token
            /\ req'[r].row.provider = user[u].provider
        BY <3>1, <3>4 DEF BegunProof, User
      <4>2. PICK m \in mailed[u] : m[2] \in Email /\ <<u, m[2]>> \in proven'
        BY <3>4 DEF BegunProof
      <4>3. u \notin readdressed => user[u].email = "first" /\ m[2] = "first"
        BY <3>1, <4>2 DEF Addressed, AtFirst, Existing
      <4>4. Vouched(req[r].user, req[r].row)'
        BY <3>1, <4>1, <4>2, <4>3, <1>4 DEF Vouched
      <4> QED
        BY <3>2, <4>1, <4>4 DEF TokenLocal
    <3>5. CASE BegunToken(r, u)
      BY <3>1, <3>2, <3>5, <1>4 DEF BegunToken, User, TokenLocal, Vouched
    <3> QED
      BY <2>2, <3>3, <3>4, <3>5
  <2> QED
    BY <2>1, <2>2, StartingIs
<1>8. Proven'
  <2>1. \A q \in Requests \ {r} : Saving(q)' /\ req'[q].row.verified =>
          Vouched(req[q].user, req[q].row)'
    BY <1>0, <1>4, <1>b DEF Proven, Begun, Saving, Vouched
  <2> QED
    BY <1>6, <1>7, <2>1 DEF Proven
<1>9. TokensLocal'
  BY <1>0, <1>2, <1>7, <1>b DEF TokensLocal, Begun, Saving
<1> QED
  BY <1>1, <1>5, <1>8, <1>9 DEF Sound

(* No code gets a new holder where mails, rows and copies come from old ones. *)
LEMMA MovedHolds ==
  ASSUME CodesApart, NEW r \in Requests, \A q \in Requests \ {r} : req'[q] = req[q],
         \A u \in Users, c \in Codes :
           /\ Carries(r, u, c)' => Holds(u, c)
           /\ c \in Received(u)' => Holds(u, c)
           /\ user'[u] # None /\ user'[u].token = c => Holds(u, c)
  PROVE  CodesApart'
<1>1. ASSUME NEW u \in Users, NEW c \in Codes, Holds(u, c)'
      PROVE  Holds(u, c)
  <2>1. CASE c \in Received(u)'
    BY <2>1
  <2>2. CASE user'[u] # None /\ user'[u].token = c
    BY <2>2
  <2>3. ASSUME NEW q \in Requests, Carries(q, u, c)'
        PROVE  Holds(u, c)
    BY <2>3 DEF Carries, Holds
  <2> QED
    BY <1>1, <2>1, <2>2, <2>3 DEF Holds, Exists
<1> QED
  BY <1>1, HeldBefore

(* The copies of other requests are as sound as before, and so is r's.      *)
LEMMA MovedSound ==
  ASSUME Proven, TokensLocal, NEW r \in Requests, \A q \in Requests \ {r} : req'[q] = req[q],
         proven \subseteq proven', readdressed \subseteq readdressed',
         \A u \in Users : user'[u] # None =>
           (user'[u].verified => Vouched(u, user[u])') /\ TokenLocal(user'[u]),
         Saving(r)' => (req'[r].row.verified => Vouched(req[r].user, req[r].row)')
                       /\ TokenLocal(req'[r].row)
  PROVE  Proven' /\ TokensLocal'
<1>1. VerifiedWasProven' /\ TokensLocal'
  BY DEF VerifiedWasProven, TokensLocal, Existing, Exists, Saving, TokenLocal, Vouched
<1>2. \A q \in Requests : Saving(q)' /\ req'[q].row.verified =>
        Vouched(req[q].user, req[q].row)'
  BY DEF Proven, Saving, Vouched
<1> QED
  BY <1>1, <1>2 DEF Proven

LEMMA RowsSound ==
  ASSUME Proven, TokensLocal, NEW u \in Users, Exists(u)
  PROVE  (user[u].verified => Vouched(u, user[u])) /\ TokenLocal(user[u])
BY DEF Proven, VerifiedWasProven, TokensLocal, Existing, Vouched

(* A row that stays is as sound as before.                                  *)
LEMMA RowsStay ==
  ASSUME Proven, TokensLocal, NEW u \in Users, user'[u] = user[u],
         proven \subseteq proven', readdressed \subseteq readdressed'
  PROVE  user'[u] # None =>
           (user'[u].verified => Vouched(u, user[u])') /\ TokenLocal(user'[u])
BY RowsSound DEF Vouched, Exists

(* Steps of r that keep users, mails and history, and end r or change only  *)
(* its phase, to one in which it does not save.                             *)
LEMMA PlainSound ==
  ASSUME AccountsTypeOK, Sound, NEW r \in Requests, \A q \in Requests \ {r} : req'[q] = req[q],
         user' = user, mailed' = mailed, gone' = gone, signedUp' = signedUp,
         proven' = proven, chosen' = chosen, readdressed' = readdressed,
         \/ req'[r] = Idle
         \/ /\ req'[r].user = req[r].user /\ req'[r].mail = req[r].mail
            /\ req'[r].row = req[r].row /\ req'[r].phase \notin {"save", "reset"}
  PROVE  Sound'
<1>0. KnownOnly /\ Proven /\ TokensLocal /\ CodesApart
  BY DEF Sound
<1>1. KnownOnly'
  BY <1>0, KnownStays DEF Known, Existing, Exists, Idle, ProvenOf
<1>2. \A u \in Users, c \in Codes : Carries(r, u, c)' => Carries(r, u, c)
  BY DEF Carries, Idle
<1>3. CodesApart'
  BY <1>0, <1>2, MovedHolds DEF Holds, Exists, Received
<1>4. ~Saving(r)'
  BY DEF Saving, Idle
<1>5. Proven' /\ TokensLocal'
  BY <1>0, <1>4, MovedSound, RowsStay
<1> QED
  BY <1>1, <1>3, <1>5 DEF Sound

LEMMA InsertFreePlanSound ==
  ASSUME AccountsTypeOK, Shaped, Sound, NEW r \in Requests, InsertFreePlan(r)
  PROVE  Sound'
<1>1. /\ user' = user /\ mailed' = mailed /\ gone' = gone /\ signedUp' = signedUp
      /\ proven' = proven /\ chosen' = chosen /\ readdressed' = readdressed
  BY DEF InsertFreePlan, outside, history
<1>2. CASE Finish(r)
  BY <1>1, <1>2, FinishRow, PlainSound
<1>3. CASE \/ req' = [req EXCEPT ![r].phase = "google", ![r].plan = PlanFound(freePlan')]
           \/ req' = [req EXCEPT ![r].phase = "signUp"]
  <2>1. /\ \A q \in Requests \ {r} : req'[q] = req[q]
        /\ req'[r].user = req[r].user /\ req'[r].mail = req[r].mail
        /\ req'[r].row = req[r].row /\ req'[r].phase \notin {"save", "reset"}
    BY <1>3 DEF AccountsTypeOK, Request
  <2> QED
    BY <1>1, <2>1, PlainSound
<1> QED
  BY <1>2, <1>3 DEF InsertFreePlan

LEMMA ReadGoogleUserSound ==
  ASSUME AccountsTypeOK, Shaped, Sound, NEW r \in Requests, ReadGoogleUser(r)
  PROVE  Sound'
<1>0. KnownOnly /\ Proven /\ TokensLocal /\ CodesApart
  BY DEF Sound
<1>1. PICK u \in Users : u = req[r].user
  BY DEF ReadGoogleUser, Shaped, RequestShape
<1>2. /\ user' = user /\ mailed' = mailed /\ gone' = gone /\ signedUp' = signedUp
      /\ chosen' = chosen /\ readdressed' = readdressed
  BY DEF ReadGoogleUser, rows, outside
<1> DEFINE a == req[r].email
<1>3. CASE Exists(u) /\ user[u].email = a
  <2>1. user[u] \in User
    BY <1>3 DEF Exists, AccountsTypeOK
  <2>2. PICK row \in User : row = [user[u] EXCEPT !.google = TRUE, !.verified = TRUE]
    BY <2>1 DEF User
  <2>3. /\ row.token = user[u].token /\ row.provider = user[u].provider
        /\ row.email = a /\ a \in Email
    BY <1>3, <2>1, <2>2 DEF User
  <2>4. req' = [req EXCEPT ![r].phase = "save", ![r].row = row]
    BY <1>1, <1>3, <2>2 DEF ReadGoogleUser
  <2>5. /\ req'[r].user = u /\ req'[r].mail = req[r].mail /\ req'[r].row = row
        /\ req'[r].phase = "save"
        /\ \A q \in Requests \ {r} : req'[q] = req[q]
    BY <1>1, <2>4 DEF AccountsTypeOK, Request
  <2>6. proven' = proven \cup {<<u, a>>}
    BY <1>1, <1>3 DEF ReadGoogleUser
  <2>7. KnownOnly'
    <3>1. \A v \in Users : ProvenOf(v)' => ProvenOf(v) \/ v \in Known'
      BY <1>2, <1>3, <2>6 DEF ProvenOf, Known, Existing, Exists
    <3> QED
      BY <1>0, <1>2, <2>5, <3>1, KnownStays DEF Known, Existing, Exists
  <2>8. \A v \in Users, c \in Codes : Carries(r, v, c)' => Holds(v, c)
    BY <1>1, <1>3, <2>3, <2>5 DEF Carries, Holds
  <2>9. CodesApart'
    BY <1>0, <1>2, <2>5, <2>8, MovedHolds DEF Holds, Exists, Received
  <2>10. TokenLocal(row)
    BY <1>0, <1>3, <2>3, RowsSound DEF TokenLocal
  <2>11. Proven' /\ TokensLocal'
    <3>1. Vouched(req[r].user, req[r].row)'
      BY <2>3, <2>5, <2>6 DEF Vouched
    <3> QED
      BY <1>0, <1>2, <2>5, <2>6, <2>10, <3>1, MovedSound, RowsStay
  <2> QED
    BY <2>7, <2>9, <2>11 DEF Sound
<1>4. CASE ~Exists(u) /\ a = "first" /\ req[r].plan = "active"
  <2>1. req' = [req EXCEPT ![r].phase = "signUp", ![r].row = GoogleUser]
    BY <1>1, <1>4 DEF ReadGoogleUser
  <2>2. /\ req'[r].user = u /\ req'[r].mail = req[r].mail /\ req'[r].row = GoogleUser
        /\ req'[r].phase = "signUp"
        /\ \A q \in Requests \ {r} : req'[q] = req[q]
    BY <1>1, <2>1 DEF AccountsTypeOK, Request
  <2>3. proven' = proven
    BY <1>1, <1>4 DEF ReadGoogleUser
  <2>4. KnownOnly'
    BY <1>0, <1>2, <2>2, <2>3, KnownStays DEF Known, Existing, Exists, ProvenOf
  <2>5. \A v \in Users, c \in Codes : Carries(r, v, c)' => Holds(v, c)
    <3>1. \A v \in Users, c \in Codes : Carries(r, v, c)' => Carries(r, v, c)
      BY <1>1, <2>2, RowTypes DEF Carries
    <3> QED
      BY <3>1 DEF Holds
  <2>6. CodesApart'
    BY <1>0, <1>2, <2>2, <2>5, MovedHolds DEF Holds, Exists, Received
  <2>7. Proven' /\ TokensLocal'
    BY <1>0, <1>2, <2>2, <2>3, MovedSound, RowsStay DEF Saving
  <2> QED
    BY <2>4, <2>6, <2>7 DEF Sound
<1>5. CASE /\ ~(Exists(u) /\ user[u].email = a)
           /\ ~(~Exists(u) /\ a = "first" /\ req[r].plan = "active")
  <2>1. Finish(r) /\ proven' = proven
    BY <1>1, <1>5 DEF ReadGoogleUser
  <2> QED
    BY <1>2, <2>1, FinishRow, PlainSound
<1> QED
  BY <1>3, <1>4, <1>5

LEMMA SaveNewUserSound ==
  ASSUME AccountsTypeOK, Shaped, Sound, NEW r \in Requests, SaveNewUser(r)
  PROVE  Sound'
<1>0. KnownOnly /\ Proven /\ TokensLocal /\ CodesApart
  BY DEF Sound
<1>1. PICK u \in Users : u = req[r].user
  BY DEF SaveNewUser, Shaped, RequestShape
<1>2. mailed' = mailed /\ gone' = gone /\ readdressed' = readdressed
  BY DEF SaveNewUser, outside
<1>3. CASE Exists(u)
  <2>1. Finish(r) /\ UNCHANGED <<user, signedUp, proven, chosen>>
    BY <1>1, <1>3 DEF SaveNewUser
  <2> QED
    BY <1>2, <2>1, FinishRow, PlainSound
<1>4. CASE ~Exists(u)
  <2>1. PICK row \in User : row = req[r].row /\ row # None /\ row.token = None
    BY RowTypes DEF SaveNewUser, Shaped, RequestShape
  <2>2. /\ user' = [user EXCEPT ![u] = row] /\ signedUp' = signedUp \cup {u}
        /\ proven' = IF row.verified THEN proven \cup {<<u, row.email>>} ELSE proven
        /\ \A v \in Users \ {u} : chosen'[v] = chosen[v]
        /\ row.email \in Email
    BY <1>1, <1>4, <2>1 DEF SaveNewUser, AccountsTypeOK, User
  <2>3. req' = [req EXCEPT ![r].phase = "wallet", ![r].row = None]
    BY <1>1, <1>4 DEF SaveNewUser, AfterSignUp
  <2>4. /\ req'[r].user = u /\ req'[r].mail = req[r].mail /\ req'[r].row = None
        /\ req'[r].phase = "wallet"
        /\ \A q \in Requests \ {r} : req'[q] = req[q]
    BY <1>1, <2>3 DEF AccountsTypeOK, Request
  <2>5. user'[u] = row /\ \A v \in Users \ {u} : user'[v] = user[v]
    BY <2>2 DEF AccountsTypeOK
  <2>6. KnownOnly'
    <3>1. Known \subseteq Known' /\ u \in Known'
      BY <1>2, <2>1, <2>5 DEF Known, Existing, Exists
    <3>2. \A v \in Users : ProvenOf(v)' => ProvenOf(v) \/ v \in Known'
      BY <2>2, <3>1 DEF ProvenOf
    <3> QED
      BY <1>0, <2>2, <2>4, <3>1, <3>2, KnownStays
  <2>7. \A v \in Users, c \in Codes : Carries(r, v, c)' => Holds(v, c)
    BY <1>1, <2>4 DEF Carries, Holds
  <2>8. CodesApart'
    BY <1>0, <1>2, <2>1, <2>4, <2>5, <2>7, MovedHolds DEF Holds, Exists, Received
  <2>9. Proven' /\ TokensLocal'
    <3>1. (user'[u].verified => Vouched(u, user[u])') /\ TokenLocal(user'[u])
      BY <2>1, <2>2, <2>5 DEF Vouched, TokenLocal
    <3> QED
      BY <1>0, <1>2, <2>2, <2>4, <2>5, <3>1, MovedSound, RowsStay DEF Saving
  <2> QED
    BY <2>6, <2>8, <2>9 DEF Sound
<1> QED
  BY <1>3, <1>4

LEMMA SaveUserSound ==
  ASSUME AccountsTypeOK, Shaped, Sound, NEW r \in Requests, SaveUser(r)
  PROVE  Sound'
<1>0. KnownOnly /\ Proven /\ TokensLocal /\ CodesApart
  BY DEF Sound
<1>1. PICK u \in Users : u = req[r].user
  BY DEF SaveUser, Shaped, RequestShape
<1>2. PICK row \in User : row = req[r].row /\ row # None
  BY DEF SaveUser, Shaped, RequestShape
<1>3. /\ mailed' = mailed /\ gone' = gone /\ signedUp' = signedUp /\ proven' = proven
      /\ chosen' = chosen /\ readdressed' = readdressed
  BY DEF SaveUser, outside, history
<1>4. user'[u] = row /\ \A v \in Users \ {u} : user'[v] = user[v]
  BY <1>1, <1>2 DEF SaveUser, AccountsTypeOK
<1>5. /\ req'[r].mail \in {None, req[r].mail} /\ req'[r].row = None
      /\ req'[r].phase \in {"idle", "mail"} /\ (req'[r].mail # None => req'[r].user = u)
      /\ \A q \in Requests \ {r} : req'[q] = req[q]
  <2>1. CASE req[r].mail = None
    BY <2>1, FinishRow DEF SaveUser
  <2>2. CASE req[r].mail # None
    <3>1. req' = [req EXCEPT ![r].phase = "mail", ![r].row = None]
      BY <2>2 DEF SaveUser
    <3> QED
      BY <1>1, <3>1 DEF AccountsTypeOK, Request
  <2> QED
    BY <2>1, <2>2
<1>6. KnownOnly'
  <2>1. Known \subseteq Known'
    BY <1>2, <1>3, <1>4 DEF Known, Existing, Exists
  <2> QED
    BY <1>0, <1>3, <1>5, <2>1, KnownStays DEF ProvenOf
<1>7. \A v \in Users, c \in Codes : Carries(r, v, c)' => Carries(r, v, c)
  BY <1>1, <1>5 DEF Carries
<1>8. \A c \in Codes : row.token = c => Carries(r, u, c)
  BY <1>1, <1>2 DEF Carries
<1>9. CodesApart'
  BY <1>0, <1>3, <1>4, <1>5, <1>7, <1>8, MovedHolds DEF Holds, Exists, Received
<1>10. (row.verified => Vouched(u, row)) /\ TokenLocal(row)
  BY <1>0, <1>1, <1>2 DEF SaveUser, Proven, TokensLocal, Saving
<1>11. Proven' /\ TokensLocal'
  <2>1. (user'[u].verified => Vouched(u, user[u])') /\ TokenLocal(user'[u])
    BY <1>3, <1>4, <1>10 DEF Vouched
  <2> QED
    BY <1>0, <1>3, <1>4, <1>5, <2>1, MovedSound, RowsStay DEF Saving
<1> QED
  BY <1>6, <1>9, <1>11 DEF Sound

LEMMA SendMailSound ==
  ASSUME AccountsTypeOK, Shaped, Sound, NEW r \in Requests, SendMail(r)
  PROVE  Sound'
<1>0. KnownOnly /\ Proven /\ TokensLocal /\ CodesApart
  BY DEF Sound
<1>1. PICK u \in Users : u = req[r].user
  BY DEF SendMail, Shaped, RequestShape
<1>2. /\ user' = user /\ gone' = gone /\ signedUp' = signedUp /\ proven' = proven
      /\ chosen' = chosen /\ readdressed' = readdressed
  BY DEF SendMail, rows, history
<1>3. /\ Received(u)' = Received(u) \cup {req[r].mail}
      /\ \A v \in Users \ {u} : Received(v)' = Received(v)
  <2>1. /\ mailed'[u] = mailed[u] \cup {<<req[r].mail, req[r].email>>}
        /\ \A v \in Users \ {u} : mailed'[v] = mailed[v]
    BY <1>1 DEF SendMail, AccountsTypeOK
  <2>2. \A v \in Users \ {u} : Received(v)' = Received(v)
    BY <2>1 DEF Received
  <2>3. <<req[r].mail, req[r].email>>[1] = req[r].mail
    OBVIOUS
  <2>4. \A c : c \in Received(u)' <=> c \in Received(u) \/ c = req[r].mail
    <3>1. \A m : m \in mailed'[u] <=> m \in mailed[u] \/ m = <<req[r].mail, req[r].email>>
      BY <2>1
    <3> QED
      BY <2>3, <3>1 DEF Received
  <2>5. Received(u)' = Received(u) \cup {req[r].mail}
    BY <2>4
  <2> QED
    BY <2>2, <2>5
<1>4. /\ req'[r] = Idle /\ req'[r].phase = "idle" /\ req'[r].mail = None /\ req'[r].row = None
      /\ \A q \in Requests \ {r} : req'[q] = req[q]
  BY FinishRow DEF SendMail
<1>5. KnownOnly'
  BY <1>0, <1>2, <1>4, KnownStays DEF Known, Existing, Exists, ProvenOf
<1>6. \A v \in Users, c \in Codes : ~Carries(r, v, c)'
  BY <1>4 DEF Carries
<1>7. Carries(r, u, req[r].mail)
  BY <1>1 DEF Carries
<1>8. CodesApart'
  BY <1>0, <1>2, <1>3, <1>4, <1>6, <1>7, MovedHolds DEF Holds, Exists
<1>9. Proven' /\ TokensLocal'
  BY <1>0, <1>2, <1>4, MovedSound, RowsStay DEF Saving
<1> QED
  BY <1>5, <1>8, <1>9 DEF Sound

LEMMA UpdatePasswordSound ==
  ASSUME AccountsTypeOK, Shaped, Sound, NEW r \in Requests, UpdatePassword(r)
  PROVE  Sound'
<1>0. KnownOnly /\ Proven /\ TokensLocal /\ CodesApart
  BY DEF Sound
<1>1. PICK u \in Users : u = req[r].user
  BY DEF UpdatePassword, Shaped, RequestShape
<1>2. PICK s \in Secrets : s = req[r].row.password[1]
  BY RowTypes DEF UpdatePassword, Shaped, RequestShape
<1>3. /\ mailed' = mailed /\ gone' = gone /\ signedUp' = signedUp /\ proven' = proven
      /\ chosen' = [chosen EXCEPT ![u] = <<s, "auth">>] /\ readdressed' = readdressed
  BY <1>1, <1>2 DEF UpdatePassword, outside
<1>4. /\ req'[r] = Idle /\ req'[r].phase = "idle" /\ req'[r].mail = None /\ req'[r].row = None
      /\ \A q \in Requests \ {r} : req'[q] = req[q]
  BY FinishRow DEF UpdatePassword
<1>5. \A v \in Users \ {u} : user'[v] = user[v]
  BY <1>1 DEF UpdatePassword, AccountsTypeOK
<1>6. CASE Exists(u)
  <2>1. user[u] \in User
    BY <1>6 DEF Exists, AccountsTypeOK
  <2>2. PICK row \in User : row = ResetRow(user[u], s)
    BY <2>1 DEF ResetRow, User, Password
  <2>3. /\ row # None /\ row.token = None /\ row.verified = user[u].verified
        /\ row.email = user[u].email
    BY <2>1, <2>2 DEF ResetRow, User
  <2>4. user'[u] = row
    BY <1>1, <1>2, <1>6, <2>2 DEF UpdatePassword, AccountsTypeOK
  <2>5. KnownOnly'
    <3>1. Known \subseteq Known' /\ u \in Known
      BY <1>3, <1>5, <1>6, <2>3, <2>4 DEF Known, Existing, Exists
    <3> QED
      BY <1>0, <1>3, <1>4, <3>1, KnownStays DEF AccountsTypeOK, ProvenOf
  <2>6. \A v \in Users, c \in Codes : ~Carries(r, v, c)'
    BY <1>4 DEF Carries
  <2>7. CodesApart'
    BY <1>0, <1>3, <1>4, <1>5, <2>3, <2>4, <2>6, MovedHolds DEF Holds, Exists, Received
  <2>8. Proven' /\ TokensLocal'
    <3>1. (user'[u].verified => Vouched(u, user[u])') /\ TokenLocal(user'[u])
      BY <1>0, <1>3, <1>6, <2>3, <2>4, RowsSound DEF Vouched, TokenLocal
    <3> QED
      BY <1>0, <1>3, <1>4, <1>5, <3>1, MovedSound, RowsStay DEF Saving
  <2> QED
    BY <2>5, <2>7, <2>8 DEF Sound
<1>7. CASE ~Exists(u)
  <2>1. user' = user
    BY <1>1, <1>7 DEF UpdatePassword
  <2>2. KnownOnly'
    <3>1. Known' = Known /\ u \in Known
      BY <1>0, <1>1, <1>3, <2>1 DEF Known, Existing, Exists, KnownOnly, UpdatePassword
    <3> QED
      BY <1>0, <1>3, <1>4, <3>1 DEF KnownOnly, AccountsTypeOK, ProvenOf
  <2>3. \A v \in Users, c \in Codes : ~Carries(r, v, c)'
    BY <1>4 DEF Carries
  <2>4. CodesApart'
    BY <1>0, <1>3, <1>4, <2>1, <2>3, MovedHolds DEF Holds, Exists, Received
  <2>5. Proven' /\ TokensLocal'
    BY <1>0, <1>3, <1>4, <2>1, MovedSound, RowsStay DEF Saving
  <2> QED
    BY <2>2, <2>4, <2>5 DEF Sound
<1> QED
  BY <1>6, <1>7

LEMMA MovingSound ==
  ASSUME AccountsTypeOK, Shaped, Sound, NEW r \in Requests, Moving(r)
  PROVE  Sound'
<1>1. CASE SaveWallet(r) \/ SavePlan(r) \/ SaveMissingWallets(r) \/ BreakOff(r)
  <2>1. /\ user' = user /\ mailed' = mailed /\ gone' = gone /\ signedUp' = signedUp
        /\ proven' = proven /\ chosen' = chosen /\ readdressed' = readdressed /\ Finish(r)
    BY <1>1 DEF SaveWallet, SavePlan, SaveMissingWallets, BreakOff, rows, outside, history
  <2> QED
    BY <2>1, FinishRow, PlainSound
<1> QED
  BY <1>1, InsertFreePlanSound, ReadGoogleUserSound, SaveNewUserSound, SaveUserSound,
     SendMailSound, UpdatePasswordSound DEF Moving

(* A direct change of rows: only user u's may be another, and no more       *)
(* verified and with no other token than before; or its address was changed. *)
LEMMA DirectRowSound ==
  ASSUME AccountsTypeOK, Sound, req' = req, mailed' = mailed, signedUp' = signedUp,
         proven' = proven, readdressed \subseteq readdressed',
         NEW u \in Users, Known \subseteq Known',
         \A v \in Users : chosen'[v] # None => chosen[v] # None \/ v \in Known',
         \A v \in Users \ {u} : user'[v] = user[v],
         \/ user'[u] = None
         \/ (user'[u].token = None /\ ~user'[u].verified)
         \/ /\ Exists(u) /\ user'[u].token = user[u].token
            /\ user'[u].verified = user[u].verified /\ user'[u].provider = user[u].provider
            /\ user'[u].email = user[u].email \/ u \in readdressed'
  PROVE  Sound'
<1>0. KnownOnly /\ Proven /\ TokensLocal /\ CodesApart
  BY DEF Sound
<1>1. KnownOnly'
  BY <1>0 DEF KnownOnly, ProvenOf
<1>2. \A v \in Users, c \in Codes : Holds(v, c)' => Holds(v, c)
  BY DEF Holds, Carries, Exists, Received
<1>3. CodesApart'
  BY <1>0, <1>2, HeldBefore
<1>4. \A v \in Users : user'[v] # None =>
        (user'[v].verified => Vouched(v, user[v])') /\ TokenLocal(user'[v])
  <2> SUFFICES ASSUME NEW v \in Users, user'[v] # None
               PROVE  (user'[v].verified => Vouched(v, user[v])') /\ TokenLocal(user'[v])
    OBVIOUS
  <2>1. Exists(v) => (user[v].verified => Vouched(v, user[v])) /\ TokenLocal(user[v])
    BY <1>0, RowsSound
  <2>2. CASE v # u
    BY <1>0, <2>2, RowsStay
  <2>3. CASE v = u
    BY <2>1, <2>3 DEF TokenLocal, Vouched
  <2> QED
    BY <2>2, <2>3
<1>5. Proven'
  <2>1. \A q \in Requests : Saving(q)' /\ req'[q].row.verified =>
          Vouched(req[q].user, req[q].row)'
    BY <1>0 DEF Proven, Saving, Vouched
  <2>2. VerifiedWasProven'
    BY <1>4 DEF VerifiedWasProven, Vouched, Existing, Exists
  <2> QED
    BY <2>1, <2>2 DEF Proven
<1>6. TokensLocal'
  BY <1>0, <1>4 DEF TokensLocal, Existing, Exists, Saving, TokenLocal
<1> QED
  BY <1>1, <1>3, <1>5, <1>6 DEF Sound

LEMMA DirectSound ==
  ASSUME AccountsTypeOK, Shaped, Sound, Direct
  PROVE  Sound'
<1>1. ASSUME NEW u \in Users, NEW s \in Secrets, CreateUser(u, s)
      PROVE  Sound'
  <2>1. PICK row : row = [LocalUser(s) EXCEPT !.password = <<s, "plain">>]
    OBVIOUS
  <2>2. row.token = None /\ row.verified = FALSE /\ row \in User
    BY <2>1, RowTypes DEF User, Password
  <2>3. user'[u] = row /\ \A v \in Users \ {u} : user'[v] = user[v]
    BY <1>1, <2>1 DEF CreateUser, AccountsTypeOK
  <2>4. /\ req' = req /\ mailed' = mailed /\ signedUp' = signedUp /\ proven' = proven
        /\ gone' = gone /\ readdressed' = readdressed
        /\ \A v \in Users \ {u} : chosen'[v] = chosen[v]
    BY <1>1 DEF CreateUser, outside, AccountsTypeOK
  <2>5. Known \subseteq Known' /\ u \in Known'
    BY <2>2, <2>3, <2>4 DEF Known, Existing, Exists
  <2> QED
    BY <2>2, <2>3, <2>4, <2>5, DirectRowSound
<1>2. ASSUME NEW u \in Users, NEW a \in Email, NEW s \in Secrets \cup {None},
             UpdateUser(u, a, s)
      PROVE  Sound'
  <2>1. user[u] \in User /\ Exists(u)
    BY <1>2 DEF UpdateUser, Exists, AccountsTypeOK
  <2>i. PICK p : p = IF s = None THEN user[u].password ELSE <<s, "plain">>
    OBVIOUS
  <2>2. PICK row : row = [user[u] EXCEPT !.email = a, !.password = p]
    OBVIOUS
  <2>p. p \in Password \cup {None}
    BY <2>1, <2>i DEF User, Password
  <2>3. /\ row.token = user[u].token /\ row.verified = user[u].verified
        /\ row.provider = user[u].provider /\ row \in User /\ row.email = a
    BY <2>1, <2>2, <2>p DEF User
  <2>4. user'[u] = row /\ \A v \in Users \ {u} : user'[v] = user[v]
    BY <1>2, <2>i, <2>2 DEF UpdateUser, AccountsTypeOK
  <2>5. /\ req' = req /\ mailed' = mailed /\ signedUp' = signedUp /\ proven' = proven
        /\ \A v \in Users \ {u} : chosen'[v] = chosen[v]
        /\ readdressed \subseteq readdressed' /\ (a # user[u].email => u \in readdressed')
    BY <1>2 DEF UpdateUser, outside, AccountsTypeOK
  <2>6. gone' = gone
    BY <1>2 DEF UpdateUser
  <2>7. Known \subseteq Known' /\ u \in Known'
    BY <2>3, <2>4, <2>6 DEF Known, Existing, Exists
  <2> QED
    BY <2>1, <2>3, <2>4, <2>5, <2>7, DirectRowSound
<1>3. ASSUME NEW u \in Users, RemoveUser(u)
      PROVE  Sound'
  <2>1. user'[u] = None /\ \A v \in Users \ {u} : user'[v] = user[v]
    BY <1>3 DEF RemoveUser, AccountsTypeOK
  <2>2. /\ req' = req /\ mailed' = mailed /\ signedUp' = signedUp /\ proven' = proven
        /\ chosen' = chosen /\ readdressed' = readdressed
    BY <1>3 DEF RemoveUser, outside
  <2>3. Known \subseteq Known'
    BY <1>3, <2>1 DEF RemoveUser, Known, Existing, Exists
  <2>4. \A v \in Users : chosen'[v] # None => chosen[v] # None
    BY <2>2
  <2>5. \/ user'[u] = None
        \/ (user'[u].token = None /\ ~user'[u].verified)
        \/ /\ Exists(u) /\ user'[u].token = user[u].token
           /\ user'[u].verified = user[u].verified /\ user'[u].provider = user[u].provider
           /\ user'[u].email = user[u].email \/ u \in readdressed'
    BY <2>1
  <2> QED
    BY <2>1, <2>2, <2>3, <2>4, <2>5, DirectRowSound
<1>4. ASSUME CreatePlan \/ \E c \in Codes : CodeExpires(c)
      PROVE  Sound'
  <2>1. user' = user /\ mailed' = mailed /\ req' = req /\ UNCHANGED history
    BY <1>4 DEF CreatePlan, CodeExpires, rows, outside
  <2> QED
    BY <2>1, SameSound DEF history
<1> QED
  BY <1>1, <1>2, <1>3, <1>4 DEF Direct

LEMMA SoundStep ==
  ASSUME TypeOK, Shaped, Addressed, Sound, [Next]_vars
  PROVE  Sound'
<1>0. AccountsTypeOK
  BY DEF TypeOK
<1>1. CASE AccountsNext
  BY <1>0, <1>1, AccountsCases, StartingSound, MovingSound, DirectSound
<1>2. CASE Hanging
  BY <1>2, HangingLeaves, SameSound DEF rows, outside
<1>3. CASE UNCHANGED vars
  <2>1. UNCHANGED <<user, mailed, req, history>>
    BY <1>3 DEF vars, accounts, rows, outside
  <2> QED
    BY <2>1, SameSound
<1> QED
  BY <1>1, <1>2, <1>3, NextCases

(* What is known of users, and of every copy of a row and every code that   *)
(* is still on its way, holds in every state.                               *)
THEOREM AlwaysSound == Spec => []Sound
<1>1. TypeOK /\ Shaped /\ Addressed /\ Sound /\ [Next]_vars => Sound'
  BY SoundStep
<1> QED
  BY InitSound, TypesAndShapes, AlwaysAddressed, <1>1, PTL DEF Spec

(* An address counts as verified only if its owner presented the code       *)
(* mailed to it, or Google vouched for it, through every copy of a row that *)
(* is saved over another; where the routes of users changed the address, it *)
(* may be the other one of the user that was proven.                        *)
THEOREM VerifiedProven == Spec => []VerifiedWasProven
<1>1. Sound => VerifiedWasProven
  BY DEF Sound, Proven
<1> QED
  BY AlwaysSound, <1>1, PTL

------------------------------------------------------------------------------
(* A user whose requests never overlapped.                                  *)

InOrder(u) == u \notin disturbed => AccountInOrder(u)

(* A step that does not concern u, and spends no code that is held for u.   *)
LEMMA AsideInOrder ==
  ASSUME Shaped, NEW u \in Users, InOrder(u), NEW r \in Requests,
         \A q \in Requests \ {r} : req'[q] = req[q],
         req'[r] = req[r] \/ (~Busy(r, u) /\ ~Busy(r, u)'),
         user'[u] = user[u], chosen'[u] = chosen[u], ProvenOf(u)' <=> ProvenOf(u),
         u \in signedUp' => u \in signedUp, u \in wallets => u \in wallets',
         u \in disturbed => u \in disturbed',
         \A c \in spent' : c \in spent \/ ~Holds(u, c)
  PROVE  InOrder(u)'
<1> SUFFICES ASSUME u \notin disturbed' PROVE AccountInOrder(u)'
  BY DEF InOrder
<1>0. AccountInOrder(u)
  BY DEF InOrder
<1>1. \A q \in Requests : Busy(q, u)' => Busy(q, u) /\ req'[q] = req[q]
  BY DEF Busy
<1>2. \A q \in Requests : Busy(q, u) => Busy(q, u)' /\ req'[q] = req[q]
  BY DEF Busy
<1>3. OneRequest(u)'
  BY <1>0, <1>1 DEF AccountInOrder, OneRequest
<1>4. Exists(u)' <=> Exists(u)
  BY DEF Exists
<1>5. ASSUME NEW q \in Requests, Busy(q, u)'
      PROVE  RequestInOrder(q, u)'
  <2>1. Busy(q, u) /\ req'[q] = req[q] /\ RequestInOrder(q, u) /\ RequestShape(req[q])
    BY <1>0, <1>1, <1>5 DEF AccountInOrder, Shaped
  <2>2. ASSUME req[q].phase = "save"
        PROVE  Current(u, req[q].row)'
    <3>1. Carries(q, u, req[q].row.token)
      BY <2>1, <2>2 DEF Carries, Busy, RequestShape
    <3>2. req[q].row.token \notin spent'
      BY <2>1, <2>2, <3>1 DEF RequestInOrder, Current, Holds
    <3> QED
      BY <2>1, <2>2, <3>2 DEF RequestInOrder, Current
  <2> QED
    BY <2>1, <2>2, <1>4 DEF RequestInOrder
<1>6. ASSUME Exists(u)', \A q \in Requests : Busy(q, u)' => ~Saving(q)'
      PROVE  Current(u, user[u])'
  <2>1. \A q \in Requests : Busy(q, u) => ~Saving(q)
    BY <1>2, <1>6 DEF Saving
  <2>2. Current(u, user[u])
    BY <1>0, <1>4, <1>6, <2>1 DEF AccountInOrder
  <2>3. user[u].token \notin spent'
    BY <1>4, <1>6, <2>2 DEF Current, Holds
  <2> QED
    BY <2>2, <2>3 DEF Current
<1>7. ASSUME Exists(u)', u \in signedUp'
      PROVE  HasWallet(u)'
  <2>1. HasWallet(u)
    BY <1>0, <1>4, <1>7 DEF AccountInOrder
  <2>2. ASSUME NEW q \in Requests, req[q].phase = "wallet", req[q].user = u
        PROVE  req'[q] = req[q]
    BY <1>2, <2>2 DEF Busy
  <2> QED
    BY <2>1, <2>2 DEF HasWallet
<1> QED
  BY <1>3, <1>5, <1>6, <1>7 DEF AccountInOrder

(* A step that ends r, or moves it on before it has read or after it has    *)
(* written, and changes no row of u.                                        *)
LEMMA QuietMove ==
  ASSUME Shaped, NEW u \in Users, InOrder(u), NEW r \in Requests,
         \A q \in Requests \ {r} : req'[q] = req[q],
         Busy(r, u) => ~Saving(r), Busy(r, u)' => Busy(r, u),
         Busy(r, u)' => req'[r].phase \notin {"save", "reset"},
         Busy(r, u) /\ req[r].phase = "wallet" /\ Exists(u) =>
           u \in wallets' \/ u \in disturbed',
         user'[u] = user[u], chosen'[u] = chosen[u], ProvenOf(u)' <=> ProvenOf(u),
         u \in signedUp' => u \in signedUp, u \in wallets => u \in wallets',
         u \in disturbed => u \in disturbed', spent' = spent
  PROVE  InOrder(u)'
<1> SUFFICES ASSUME u \notin disturbed' PROVE AccountInOrder(u)'
  BY DEF InOrder
<1>0. AccountInOrder(u)
  BY DEF InOrder
<1>1. \A q \in Requests : Busy(q, u)' => Busy(q, u)
  BY DEF Busy
<1>2. \A q \in Requests \ {r} : req'[q] = req[q] /\ (Busy(q, u) => Busy(q, u)')
  BY DEF Busy
<1>3. OneRequest(u)'
  BY <1>0, <1>1 DEF AccountInOrder, OneRequest
<1>4. Exists(u)' <=> Exists(u)
  BY DEF Exists
<1>5. ASSUME NEW q \in Requests, Busy(q, u)'
      PROVE  RequestInOrder(q, u)'
  <2>1. CASE q = r
    BY <1>5, <2>1 DEF RequestInOrder
  <2>2. CASE q # r
    BY <1>0, <1>1, <1>2, <1>4, <1>5, <2>2 DEF AccountInOrder, RequestInOrder, Current
  <2> QED
    BY <2>1, <2>2
<1>6. ASSUME Exists(u)', \A q \in Requests : Busy(q, u)' => ~Saving(q)'
      PROVE  Current(u, user[u])'
  <2>1. \A q \in Requests : Busy(q, u) => ~Saving(q)
    BY <1>2, <1>6 DEF Saving
  <2> QED
    BY <1>0, <1>4, <1>6, <2>1 DEF AccountInOrder, Current
<1>7. ASSUME Exists(u)', u \in signedUp'
      PROVE  HasWallet(u)'
  <2>1. HasWallet(u)
    BY <1>0, <1>4, <1>7 DEF AccountInOrder
  <2>2. CASE u \in wallets
    BY <2>2 DEF HasWallet
  <2>3. ASSUME NEW q \in Requests, req[q].phase = "wallet", req[q].user = u
        PROVE  HasWallet(u)'
    <3>1. CASE q = r
      BY <2>3, <3>1, <1>4, <1>7 DEF Busy, HasWallet
    <3>2. CASE q # r
      BY <2>3, <3>2, <1>2 DEF HasWallet
    <3> QED
      BY <3>1, <3>2
  <2> QED
    BY <2>1, <2>2, <2>3 DEF HasWallet
<1> QED
  BY <1>3, <1>5, <1>6, <1>7 DEF AccountInOrder

LEMMA StartingInOrder ==
  ASSUME AccountsTypeOK, Shaped, Sound, NEW r \in Requests, Starting(r),
         NEW u \in Users, InOrder(u)
  PROVE  InOrder(u)'
<1>b. Begun(r)
  BY StartingIs
<1>0. /\ user' = user /\ wallets' = wallets /\ chosen' = chosen /\ signedUp' = signedUp
      /\ spent' = spent /\ disturbed \subseteq disturbed' /\ ~Busy(r, u)
      /\ \A q \in Requests \ {r} : req'[q] = req[q]
  BY <1>b DEF Begun, rows, Busy
<1>1. CASE req'[r].user # u
  <2>1. ProvenOf(u)' <=> ProvenOf(u)
    <3>1. proven' = proven \/ \E v \in Users : BegunProof(r, v)
      BY StartingIs DEF BegunSignUp, BegunOther, BegunReset, BegunCode, BegunToken
    <3>2. CASE proven' = proven
      BY <3>2 DEF ProvenOf
    <3>3. ASSUME NEW v \in Users, BegunProof(r, v)
          PROVE  ProvenOf(u)' <=> ProvenOf(u)
      BY <1>1, <3>3, ProvesOnly DEF BegunProof
    <3> QED
      BY <3>1, <3>2, <3>3
  <2>2. ~Busy(r, u)'
    BY <1>1 DEF Busy
  <2> QED
    BY <1>0, <2>1, <2>2, AsideInOrder
<1>2. CASE req'[r].user = u /\ \E q \in Requests : Busy(q, u)
  <2>1. u \in disturbed'
    BY <1>2, <1>b DEF Begun, Overlapped
  <2> QED
    BY <2>1 DEF InOrder
<1>3. CASE req'[r].user = u /\ \A q \in Requests : ~Busy(q, u)
  <2> SUFFICES ASSUME u \notin disturbed' PROVE AccountInOrder(u)'
    BY DEF InOrder
  <2>0. AccountInOrder(u)
    BY <1>0 DEF InOrder
  <2>1. \A q \in Requests : Busy(q, u)' => q = r
    BY <1>0, <1>3 DEF Busy
  <2>2. OneRequest(u)'
    BY <2>1 DEF OneRequest
  <2>3. Exists(u) => Current(u, user[u])
    BY <2>0, <1>3 DEF AccountInOrder
  <2>4. Exists(u) => TokenLocal(user[u]) /\ user[u] \in User
    BY RowsSound DEF Sound, Exists, AccountsTypeOK
  <2>5. BegunSignUp(r) \/ BegunReset(r, u) \/ BegunCode(r, u) \/ BegunProof(r, u)
        \/ BegunToken(r, u)
    BY <1>3, StartingIs DEF BegunReset, BegunCode, BegunProof, BegunToken, BegunOther
  <2>6. RequestInOrder(r, u)' /\ (~Saving(r)' => proven' = proven)
    <3>1. CASE BegunSignUp(r)
      BY <3>1 DEF BegunSignUp, RequestInOrder
    <3>2. CASE BegunReset(r, u)
      BY <3>2, <2>4, <1>0 DEF BegunReset, RequestInOrder, TokenLocal, Exists
    <3>3. CASE BegunCode(r, u)
      <4>1. Exists(u)' /\ Current(u, req'[r].row)
        BY <3>3, <2>3, <2>4, <1>0 DEF BegunCode, Exists, Current, User
      <4> QED
        BY <3>3, <4>1, <1>0 DEF BegunCode, RequestInOrder, Current, Saving, ProvenOf
    <3>4. CASE BegunProof(r, u)
      <4>1. /\ Exists(u)' /\ req'[r].row.provider = user[u].provider
            /\ req'[r].row.password = user[u].password
            /\ req'[r].row.token = user[u].token /\ req'[r].row.verified = TRUE
        BY <3>4, <2>4, <1>0 DEF BegunProof, Exists, User
      <4>2. Current(u, user[u])
        BY <3>4, <2>3 DEF BegunProof
      <4> QED
        BY <3>4, <4>1, <4>2, <1>0 DEF BegunProof, RequestInOrder, Current, Saving
    <3>5. CASE BegunToken(r, u)
      <4>1. /\ Exists(u)' /\ req'[r].row.provider = user[u].provider
            /\ req'[r].row.password = user[u].password
            /\ req'[r].row.token = req'[r].mail /\ req'[r].row.verified = user[u].verified
        BY <3>5, <2>4, <1>0 DEF BegunToken, Exists, User
      <4>2. Current(u, user[u]) /\ req'[r].mail \notin spent
        BY <3>5, <2>3 DEF BegunToken, Unused
      <4> QED
        BY <3>5, <4>1, <4>2, <1>0 DEF BegunToken, RequestInOrder, Current, Saving, ProvenOf
    <3> QED
      BY <2>5, <3>1, <3>2, <3>3, <3>4, <3>5
  <2>7. ASSUME Exists(u)', \A q \in Requests : Busy(q, u)' => ~Saving(q)'
        PROVE  Current(u, user[u])'
    <3>1. Busy(r, u)'
      BY <1>3, <2>5 DEF Busy, BegunSignUp, BegunReset, BegunCode, BegunProof, BegunToken
    <3>2. proven' = proven
      BY <2>6, <2>7, <3>1
    <3> QED
      BY <2>3, <2>7, <3>2, <1>0 DEF Current, Exists, ProvenOf
  <2>8. ASSUME Exists(u)', u \in signedUp'
        PROVE  HasWallet(u)'
    BY <2>0, <2>8, <1>0, <1>3 DEF AccountInOrder, HasWallet, Exists, Busy
  <2> QED
    BY <2>1, <2>2, <2>6, <2>7, <2>8 DEF AccountInOrder
<1> QED
  BY <1>1, <1>2, <1>3

LEMMA InsertFreePlanInOrder ==
  ASSUME AccountsTypeOK, Shaped, NEW r \in Requests, InsertFreePlan(r),
         NEW u \in Users, InOrder(u)
  PROVE  InOrder(u)'
<1>1. /\ user' = user /\ wallets' = wallets /\ UNCHANGED history /\ req[r].phase = "plan"
  BY DEF InsertFreePlan
<1>2. CASE Finish(r)
  BY <1>1, <1>2, FinishRow, QuietMove DEF Busy, Saving, ProvenOf, history
<1>3. CASE \/ req' = [req EXCEPT ![r].phase = "google", ![r].plan = PlanFound(freePlan')]
           \/ req' = [req EXCEPT ![r].phase = "signUp"]
  <2>1. /\ \A q \in Requests \ {r} : req'[q] = req[q]
        /\ req'[r].user = req[r].user /\ req'[r].phase \notin {"save", "reset"}
    BY <1>3 DEF AccountsTypeOK, Request
  <2> QED
    BY <1>1, <2>1, QuietMove DEF Busy, Saving, ProvenOf, history
<1> QED
  BY <1>2, <1>3 DEF InsertFreePlan

(* The only request of a user in order.                                     *)
LEMMA OnlyRequest ==
  ASSUME NEW u \in Users, AccountInOrder(u), NEW r \in Requests, Busy(r, u),
         \A q \in Requests \ {r} : req'[q] = req[q]
  PROVE  \A q \in Requests : (Busy(q, u) => q = r) /\ (Busy(q, u)' => q = r)
BY DEF AccountInOrder, OneRequest, Busy

LEMMA ReadGoogleUserInOrder ==
  ASSUME AccountsTypeOK, Shaped, NEW r \in Requests, ReadGoogleUser(r),
         NEW u \in Users, InOrder(u)
  PROVE  InOrder(u)'
<1>1. PICK v \in Users : v = req[r].user
  BY DEF ReadGoogleUser, Shaped, RequestShape
<1>2. /\ user' = user /\ wallets' = wallets /\ chosen' = chosen /\ signedUp' = signedUp
      /\ spent' = spent /\ disturbed' = disturbed /\ req[r].phase = "google"
  BY DEF ReadGoogleUser, rows
<1> DEFINE a == req[r].email
<1>3. CASE Exists(v) /\ user[v].email = a
  <2>1. user[v] \in User
    BY <1>3 DEF Exists, AccountsTypeOK
  <2>2. PICK row \in User : row = [user[v] EXCEPT !.google = TRUE, !.verified = TRUE]
    BY <2>1 DEF User
  <2>3. /\ row.token = user[v].token /\ row.provider = user[v].provider
        /\ row.password = user[v].password /\ row.verified = TRUE
    BY <2>1, <2>2 DEF User
  <2>4. req' = [req EXCEPT ![r].phase = "save", ![r].row = row]
    BY <1>1, <1>3, <2>2 DEF ReadGoogleUser
  <2>5. /\ req'[r].user = v /\ req'[r].phase = "save" /\ req'[r].row = row
        /\ \A q \in Requests \ {r} : req'[q] = req[q]
    BY <1>1, <2>4 DEF AccountsTypeOK, Request
  <2>6. proven' = proven \cup {<<v, a>>}
    BY <1>1, <1>3 DEF ReadGoogleUser
  <2>7. CASE u # v
    BY <1>1, <1>2, <2>5, <2>6, <2>7, AsideInOrder DEF Busy, ProvenOf
  <2>8. CASE u = v
    <3> SUFFICES ASSUME u \notin disturbed PROVE AccountInOrder(u)'
      BY <1>2 DEF InOrder
    <3>1. AccountInOrder(u) /\ Busy(r, u)
      BY <1>1, <1>2, <2>8 DEF InOrder, Busy
    <3>2. \A q \in Requests : (Busy(q, u) => q = r) /\ (Busy(q, u)' => q = r)
      BY <2>5, <3>1, OnlyRequest
    <3>3. Current(u, user[u])
      BY <1>2, <1>3, <2>8, <3>1, <3>2 DEF AccountInOrder, Saving
    <3>4. RequestInOrder(r, u)'
      BY <1>2, <1>3, <2>3, <2>5, <2>8, <3>3 DEF RequestInOrder, Current, Exists
    <3>5. Busy(r, u)' /\ Saving(r)'
      BY <2>5, <2>8 DEF Busy, Saving
    <3>6. u \in signedUp => u \in wallets
      BY <1>2, <1>3, <2>8, <3>1, <3>2 DEF AccountInOrder, HasWallet, Busy
    <3>7. OneRequest(u)'
      BY <3>2 DEF OneRequest
    <3> QED
      BY <1>2, <3>2, <3>4, <3>5, <3>6, <3>7 DEF AccountInOrder, HasWallet
  <2> QED
    BY <2>7, <2>8
<1>4. CASE ~Exists(v) /\ a = "first" /\ req[r].plan = "active"
  <2>1. req' = [req EXCEPT ![r].phase = "signUp", ![r].row = GoogleUser] /\ proven' = proven
    BY <1>1, <1>4 DEF ReadGoogleUser
  <2>2. /\ req'[r].user = req[r].user /\ req'[r].phase = "signUp"
        /\ \A q \in Requests \ {r} : req'[q] = req[q]
    BY <2>1 DEF AccountsTypeOK, Request
  <2> QED
    BY <1>2, <2>1, <2>2, QuietMove DEF Busy, Saving, ProvenOf
<1>5. CASE /\ ~(Exists(v) /\ user[v].email = a)
           /\ ~(~Exists(v) /\ a = "first" /\ req[r].plan = "active")
  <2>1. Finish(r) /\ proven' = proven
    BY <1>1, <1>5 DEF ReadGoogleUser
  <2> QED
    BY <1>2, <2>1, FinishRow, QuietMove DEF Busy, Saving, ProvenOf
<1> QED
  BY <1>3, <1>4, <1>5

LEMMA SaveNewUserInOrder ==
  ASSUME AccountsTypeOK, Shaped, Sound, NEW r \in Requests, SaveNewUser(r),
         NEW u \in Users, InOrder(u)
  PROVE  InOrder(u)'
<1>1. PICK v \in Users : v = req[r].user
  BY DEF SaveNewUser, Shaped, RequestShape
<1>2. /\ wallets' = wallets /\ spent' = spent /\ disturbed' = disturbed
      /\ req[r].phase = "signUp" /\ v \notin gone
  BY <1>1 DEF SaveNewUser
<1>3. CASE Exists(v)
  <2>1. Finish(r) /\ UNCHANGED <<user, signedUp, proven, chosen>>
    BY <1>1, <1>3 DEF SaveNewUser
  <2> QED
    BY <1>2, <2>1, FinishRow, QuietMove DEF Busy, Saving, ProvenOf
<1>4. CASE ~Exists(v)
  <2>1. PICK row \in User : row = req[r].row /\ row.token = None
    BY <1>2, RowTypes DEF Shaped, RequestShape
  <2>2. row # None
    BY <2>1
  <2>3. /\ user' = [user EXCEPT ![v] = row] /\ signedUp' = signedUp \cup {v}
        /\ proven' = IF row.verified THEN proven \cup {<<v, row.email>>} ELSE proven
        /\ chosen' = [chosen EXCEPT ![v] = IF row.password = None THEN None
                                           ELSE <<row.password[1], "auth">>]
        /\ req' = [req EXCEPT ![r].phase = "wallet", ![r].row = None]
    BY <1>1, <1>4, <2>1 DEF SaveNewUser, AfterSignUp
  <2>4. /\ req'[r].user = v /\ req'[r].phase = "wallet"
        /\ \A q \in Requests \ {r} : req'[q] = req[q]
    BY <1>1, <2>3 DEF AccountsTypeOK, Request
  <2>5. CASE u # v
    <3>1. /\ user'[u] = user[u] /\ chosen'[u] = chosen[u] /\ (ProvenOf(u)' <=> ProvenOf(u))
          /\ u \in signedUp' => u \in signedUp
      BY <2>3, <2>5 DEF AccountsTypeOK, ProvenOf
    <3> QED
      BY <1>1, <1>2, <2>4, <2>5, <3>1, AsideInOrder DEF Busy
  <2>6. CASE u = v
    <3> SUFFICES ASSUME u \notin disturbed PROVE AccountInOrder(u)'
      BY <1>2 DEF InOrder
    <3>1. AccountInOrder(u) /\ Busy(r, u)
      BY <1>1, <1>2, <2>6 DEF InOrder, Busy
    <3>2. \A q \in Requests : (Busy(q, u) => q = r) /\ (Busy(q, u)' => q = r)
      BY <2>4, <3>1, OnlyRequest
    <3>3. ~ProvenOf(u)
      BY <1>2, <1>4, <2>6 DEF Sound, KnownOnly, Known, Existing
    <3>4. user'[u] = row /\ (ProvenOf(u)' => row.verified)
      BY <2>3, <2>6, <3>3 DEF AccountsTypeOK, ProvenOf
    <3> DEFINE Fits == /\ chosen'[u] = None => row.password = None
                       /\ \A s \in Secrets : chosen'[u] = <<s, "auth">> =>
                            row.provider = "local" /\ row.password = <<s, "hash">>
                       /\ \A s \in Secrets : chosen'[u] # <<s, "users">>
    <3>5. Fits
      <4>1. chosen'[u] = IF row.password = None THEN None ELSE <<row.password[1], "auth">>
        BY <2>3, <2>6 DEF AccountsTypeOK
      <4>2. CASE row = GoogleUser
        <5>1. chosen'[u] = None /\ row.password = None
          BY <4>1, <4>2, RowTypes
        <5> QED
          BY <5>1 DEF Choice
      <4>3. ASSUME NEW t \in Secrets, row = LocalUser(t)
            PROVE  Fits
        <5>1. chosen'[u] = <<t, "auth">>
          BY <4>1, <4>3, RowTypes
        <5>2. row.provider = "local" /\ row.password = <<t, "hash">>
          BY <4>3, RowTypes
        <5> QED
          BY <5>1, <5>2 DEF Choice
      <4> QED
        BY <1>2, <2>1, <4>2, <4>3 DEF Shaped, RequestShape
    <3>6. Current(u, user[u])'
      BY <1>2, <2>1, <3>4, <3>5 DEF Current, AccountsTypeOK
    <3>7. RequestInOrder(r, u)' /\ HasWallet(u)'
      BY <2>4, <2>6 DEF RequestInOrder, HasWallet
    <3>8. OneRequest(u)'
      BY <3>2 DEF OneRequest
    <3> QED
      BY <3>2, <3>6, <3>7, <3>8 DEF AccountInOrder
  <2> QED
    BY <2>5, <2>6
<1> QED
  BY <1>3, <1>4

LEMMA SaveUserInOrder ==
  ASSUME AccountsTypeOK, Shaped, NEW r \in Requests, SaveUser(r),
         NEW u \in Users, InOrder(u)
  PROVE  InOrder(u)'
<1>1. PICK v \in Users : v = req[r].user
  BY DEF SaveUser, Shaped, RequestShape
<1>2. PICK row \in User : row = req[r].row /\ row # None
  BY DEF SaveUser, Shaped, RequestShape
<1>3. /\ wallets' = wallets /\ spent' = spent /\ disturbed' = disturbed /\ proven' = proven
      /\ chosen' = chosen /\ signedUp' = signedUp /\ req[r].phase = "save"
  BY DEF SaveUser, history
<1>4. user'[v] = row /\ (u # v => user'[u] = user[u])
  BY <1>1, <1>2 DEF SaveUser, AccountsTypeOK
<1>5. /\ req'[r].phase \in {"idle", "mail"} /\ (req'[r].phase = "mail" => req'[r].user = v)
      /\ \A q \in Requests \ {r} : req'[q] = req[q]
  <2>1. CASE req[r].mail = None
    BY <2>1, FinishRow DEF SaveUser
  <2>2. CASE req[r].mail # None
    <3>1. req' = [req EXCEPT ![r].phase = "mail", ![r].row = None]
      BY <2>2 DEF SaveUser
    <3> QED
      BY <1>1, <3>1 DEF AccountsTypeOK, Request
  <2> QED
    BY <2>1, <2>2
<1>6. CASE u # v
  BY <1>1, <1>3, <1>4, <1>5, <1>6, AsideInOrder DEF Busy, ProvenOf
<1>7. CASE u = v
  <2> SUFFICES ASSUME u \notin disturbed PROVE AccountInOrder(u)'
    BY <1>3 DEF InOrder
  <2>1. AccountInOrder(u) /\ Busy(r, u)
    BY <1>1, <1>3, <1>7 DEF InOrder, Busy
  <2>2. \A q \in Requests : (Busy(q, u) => q = r) /\ (Busy(q, u)' => q = r)
    BY <1>5, <2>1, OnlyRequest
  <2>3. Exists(u) /\ Current(u, row)
    BY <1>2, <1>3, <2>1 DEF AccountInOrder, RequestInOrder
  <2>4. Current(u, user[u])'
    BY <1>3, <1>4, <1>7, <2>3 DEF Current, ProvenOf
  <2>5. RequestInOrder(r, u)'
    BY <1>5 DEF RequestInOrder
  <2>6. u \in signedUp => u \in wallets
    BY <1>3, <2>1, <2>2, <2>3 DEF AccountInOrder, HasWallet, Busy
  <2>7. OneRequest(u)'
    BY <2>2 DEF OneRequest
  <2> QED
    BY <1>3, <2>2, <2>4, <2>5, <2>6, <2>7 DEF AccountInOrder, HasWallet
<1> QED
  BY <1>6, <1>7

LEMMA UpdatePasswordInOrder ==
  ASSUME AccountsTypeOK, Shaped, Sound, NEW r \in Requests, UpdatePassword(r),
         NEW u \in Users, InOrder(u)
  PROVE  InOrder(u)'
<1>1. PICK v \in Users : v = req[r].user
  BY DEF UpdatePassword, Shaped, RequestShape
<1>2. PICK s \in Secrets : s = req[r].row.password[1]
  BY RowTypes DEF UpdatePassword, Shaped, RequestShape
<1>3. PICK c \in Codes : c = req[r].mail
  BY DEF UpdatePassword, Shaped, RequestShape
<1>4. /\ wallets' = wallets /\ disturbed' = disturbed /\ signedUp' = signedUp
      /\ proven' = proven /\ chosen' = [chosen EXCEPT ![v] = <<s, "auth">>] /\ spent' = spent \cup {c}
      /\ req[r].phase = "reset"
  BY <1>1, <1>2, <1>3 DEF UpdatePassword
<1>5. /\ req'[r].phase = "idle" /\ \A q \in Requests \ {r} : req'[q] = req[q]
  BY FinishRow DEF UpdatePassword
<1>6. CASE u # v
  <2>1. user'[u] = user[u] /\ chosen'[u] = chosen[u]
    BY <1>1, <1>4, <1>6 DEF UpdatePassword, AccountsTypeOK
  <2>2. Holds(v, c)
    BY <1>1, <1>3 DEF Holds, Carries
  <2>3. ~Holds(u, c)
    BY <1>6, <2>2 DEF Sound, CodesApart
  <2>4. \A d \in spent' : d \in spent \/ ~Holds(u, d)
    BY <1>4, <2>3
  <2> QED
    BY <1>1, <1>4, <1>5, <1>6, <2>1, <2>4, AsideInOrder DEF Busy, ProvenOf
<1>7. CASE u = v
  <2> SUFFICES ASSUME u \notin disturbed PROVE AccountInOrder(u)'
    BY <1>4 DEF InOrder
  <2>1. AccountInOrder(u) /\ Busy(r, u)
    BY <1>1, <1>4, <1>7 DEF InOrder, Busy
  <2>2. \A q \in Requests : (Busy(q, u) => q = r) /\ ~Busy(q, u)'
    <3>1. \A q \in Requests : (Busy(q, u) => q = r) /\ (Busy(q, u)' => q = r)
      BY <1>5, <2>1, OnlyRequest
    <3> QED
      BY <1>5, <3>1 DEF Busy
  <2>3. Exists(u) /\ user[u].provider = "local"
    BY <1>4, <2>1 DEF AccountInOrder, RequestInOrder
  <2>4. Current(u, user[u])
    BY <1>4, <2>1, <2>2, <2>3 DEF AccountInOrder, Saving
  <2>5. user[u] \in User
    BY <2>3 DEF Exists, AccountsTypeOK
  <2>6. user'[u] = ResetRow(user[u], s)
    BY <1>1, <1>2, <1>7, <2>3 DEF UpdatePassword, AccountsTypeOK
  <2>7. /\ user'[u].password = <<s, "hash">> /\ user'[u].token = None
        /\ user'[u].provider = "local" /\ user'[u].verified = user[u].verified
    BY <2>3, <2>5, <2>6 DEF ResetRow, User
  <2>8. chosen'[u] = <<s, "auth">> /\ None \notin spent'
    BY <1>4, <1>7 DEF AccountsTypeOK
  <2>9. Current(u, user[u])'
    <3>1. /\ chosen'[u] # None /\ \A t : chosen'[u] = <<t, "auth">> => t = s
          /\ \A t : chosen'[u] # <<t, "users">>
      BY <2>8 DEF Choice
    <3>2. ProvenOf(u)' => user'[u].verified
      BY <1>4, <2>4, <2>7 DEF Current, ProvenOf
    <3> QED
      BY <2>7, <2>8, <3>1, <3>2 DEF Current
  <2>10. u \in signedUp => u \in wallets
    BY <1>4, <2>1, <2>2, <2>3 DEF AccountInOrder, HasWallet, Busy
  <2>11. OneRequest(u)'
    BY <2>2 DEF OneRequest
  <2> QED
    BY <1>4, <2>2, <2>9, <2>10, <2>11 DEF AccountInOrder, HasWallet
<1> QED
  BY <1>6, <1>7

LEMMA MovingInOrder ==
  ASSUME AccountsTypeOK, Shaped, Sound, NEW r \in Requests, Moving(r),
         NEW u \in Users, InOrder(u)
  PROVE  InOrder(u)'
<1>1. CASE SaveWallet(r)
  <2>1. /\ user' = user /\ UNCHANGED history /\ Finish(r) /\ req[r].phase = "wallet"
        /\ wallets \subseteq wallets' /\ (req[r].user = u /\ Exists(u) => u \in wallets')
    BY <1>1 DEF SaveWallet
  <2> QED
    BY <2>1, FinishRow, QuietMove DEF Busy, Saving, ProvenOf, history
<1>2. CASE SendMail(r)
  <2>1. /\ user' = user /\ UNCHANGED history /\ Finish(r) /\ req[r].phase = "mail"
        /\ wallets' = wallets
    BY <1>2 DEF SendMail, rows
  <2> QED
    BY <2>1, FinishRow, QuietMove DEF Busy, Saving, ProvenOf, history
<1>3. CASE SavePlan(r) \/ SaveMissingWallets(r)
  <2>1. /\ user' = user /\ UNCHANGED history /\ Finish(r) /\ req[r].phase \in {"savePlan", "sync"}
        /\ wallets \subseteq wallets'
    BY <1>3 DEF SavePlan, SaveMissingWallets
  <2> QED
    BY <2>1, FinishRow, QuietMove DEF Busy, Saving, ProvenOf, history
<1>4. CASE BreakOff(r)
  <2>1. /\ UNCHANGED <<user, wallets, signedUp, proven, chosen, spent>> /\ Finish(r)
        /\ disturbed \subseteq disturbed'
        /\ (req[r].phase \in {"wallet", "save"} => req[r].user \in disturbed')
    BY <1>4 DEF BreakOff, rows
  <2>2. CASE u \in disturbed'
    BY <2>2 DEF InOrder
  <2>3. CASE u \notin disturbed'
    BY <2>1, <2>3, FinishRow, QuietMove DEF Busy, Saving, ProvenOf
  <2> QED
    BY <2>2, <2>3
<1> QED
  BY <1>1, <1>2, <1>3, <1>4, InsertFreePlanInOrder, ReadGoogleUserInOrder, SaveNewUserInOrder,
     SaveUserInOrder, UpdatePasswordInOrder DEF Moving

LEMMA DirectInOrder ==
  ASSUME AccountsTypeOK, Shaped, Sound, Direct, NEW u \in Users, InOrder(u)
  PROVE  InOrder(u)'
<1>0. req' = req
  BY DEF Direct, CreateUser, UpdateUser, RemoveUser, CreatePlan, CodeExpires
<1>b. \A q \in Requests : Busy(q, u)' <=> Busy(q, u)
  BY <1>0 DEF Busy
(* A user nothing happens to.                                               *)
<1>1. ASSUME user'[u] = user[u], chosen'[u] = chosen[u], proven' = proven, signedUp' = signedUp,
             u \in wallets => u \in wallets', disturbed \subseteq disturbed', spent' = spent
      PROVE  InOrder(u)'
  BY <1>0, <1>1 DEF InOrder, AccountInOrder, OneRequest, RequestInOrder, Current, HasWallet,
                    Busy, Exists, Saving, ProvenOf
<1>2. ASSUME NEW v \in Users, NEW s \in Secrets, CreateUser(v, s)
      PROVE  InOrder(u)'
  <2>0. UNCHANGED <<wallets, signedUp, proven, spent, disturbed>>
    BY <1>2 DEF CreateUser
  <2>1. CASE u # v
    <3>1. user'[u] = user[u] /\ chosen'[u] = chosen[u]
      BY <1>2, <2>1 DEF CreateUser, AccountsTypeOK
    <3> QED
      BY <1>1, <2>0, <3>1
  <2>2. CASE u = v
    <3> SUFFICES ASSUME u \notin disturbed PROVE AccountInOrder(u)'
      BY <2>0 DEF InOrder
    <3>1. AccountInOrder(u)
      BY DEF InOrder
    <3>2. ~Exists(u) /\ u \notin Known
      BY <1>2, <2>2 DEF CreateUser, Exists, Known, Existing
    <3>3. ~ProvenOf(u) /\ u \notin signedUp
      BY <3>2 DEF Sound, KnownOnly
    <3>4. PICK row : row = [LocalUser(s) EXCEPT !.password = <<s, "plain">>]
      OBVIOUS
    <3>5. row.token = None /\ row.password = <<s, "plain">>
      BY <3>4, RowTypes DEF User
    <3>6. user'[u] = row /\ chosen'[u] = <<s, "users">>
      BY <1>2, <2>2, <3>4 DEF CreateUser, AccountsTypeOK
    <3>7. Current(u, user[u])'
      <4>1. /\ chosen'[u] # None /\ \A t : chosen'[u] = <<t, "users">> => t = s
            /\ \A t : chosen'[u] # <<t, "auth">>
        BY <3>6 DEF Choice
      <4>2. ~ProvenOf(u)' /\ None \notin spent'
        BY <2>0, <3>3 DEF ProvenOf, AccountsTypeOK
      <4> QED
        BY <3>5, <3>6, <4>1, <4>2 DEF Current
    <3>8. \A q \in Requests : Busy(q, u)' => RequestInOrder(q, u)'
      BY <1>0, <1>b, <3>1, <3>2 DEF AccountInOrder, RequestInOrder
    <3>9. OneRequest(u)'
      BY <1>b, <3>1 DEF AccountInOrder, OneRequest
    <3>10. u \notin signedUp'
      BY <2>0, <3>3
    <3> QED
      BY <3>7, <3>8, <3>9, <3>10 DEF AccountInOrder
  <2> QED
    BY <2>1, <2>2
<1>3. ASSUME NEW v \in Users, NEW a \in Email, NEW s \in Secrets \cup {None},
             UpdateUser(v, a, s)
      PROVE  InOrder(u)'
  <2>0. UNCHANGED <<wallets, gone, signedUp, proven, spent>>
        /\ disturbed' = disturbed \cup Overlapped(v)
    BY <1>3 DEF UpdateUser
  <2>1. CASE u # v
    <3>1. user'[u] = user[u] /\ chosen'[u] = chosen[u]
      BY <1>3, <2>1 DEF UpdateUser, AccountsTypeOK
    <3> QED
      BY <1>1, <2>0, <3>1
  <2>2. CASE u = v /\ \E q \in Requests : Busy(q, u)
    BY <2>0, <2>2 DEF InOrder, Overlapped
  <2>3. CASE u = v /\ \A q \in Requests : ~Busy(q, u)
    <3> SUFFICES ASSUME u \notin disturbed PROVE AccountInOrder(u)'
      BY <2>0 DEF InOrder
    <3>1. AccountInOrder(u) /\ Exists(u) /\ user[u] \in User
      BY <1>3, <2>3 DEF InOrder, UpdateUser, Exists, AccountsTypeOK
    <3>2. Current(u, user[u]) /\ (u \in signedUp => u \in wallets)
      BY <2>3, <3>1 DEF AccountInOrder, HasWallet, Busy
    <3> DEFINE p == IF s = None THEN user[u].password ELSE <<s, "plain">>
    <3>3. /\ user'[u] = [user[u] EXCEPT !.email = a, !.password = p]
          /\ chosen'[u] = IF s = None THEN chosen[u] ELSE <<s, "users">>
      BY <1>3, <2>3 DEF UpdateUser, AccountsTypeOK
    <3>4. /\ user'[u].token = user[u].token /\ user'[u].verified = user[u].verified
          /\ user'[u].provider = user[u].provider /\ user'[u].password = p
      BY <3>1, <3>3 DEF User
    <3>5. Current(u, user[u])'
      <4>1. ProvenOf(u)' => user'[u].verified
        BY <2>0, <3>2, <3>4 DEF Current, ProvenOf
      <4>2. CASE s = None
        BY <2>0, <3>2, <3>3, <3>4, <4>1, <4>2 DEF Current
      <4>3. CASE s # None
        <5>1. chosen'[u] = <<s, "users">> /\ user'[u].password = <<s, "plain">>
          BY <3>3, <3>4, <4>3
        <5>2. /\ chosen'[u] # None /\ \A t : chosen'[u] = <<t, "users">> => t = s
              /\ \A t : chosen'[u] # <<t, "auth">>
          BY <4>3, <5>1 DEF Choice
        <5> QED
          BY <2>0, <3>2, <3>4, <4>1, <5>1, <5>2 DEF Current
      <4> QED
        BY <4>2, <4>3
    <3> QED
      BY <1>b, <2>0, <2>3, <3>2, <3>5 DEF AccountInOrder, OneRequest, HasWallet
  <2> QED
    BY <2>1, <2>2, <2>3
<1>4. ASSUME NEW v \in Users, RemoveUser(v)
      PROVE  InOrder(u)'
  <2>0. /\ UNCHANGED <<signedUp, proven, chosen, spent>> /\ wallets' = wallets \ {v}
        /\ disturbed' = disturbed \cup Overlapped(v)
    BY <1>4 DEF RemoveUser
  <2>1. CASE u # v
    <3>1. user'[u] = user[u]
      BY <1>4, <2>1 DEF RemoveUser, AccountsTypeOK
    <3> QED
      BY <1>1, <2>0, <2>1, <3>1
  <2>2. CASE u = v /\ \E q \in Requests : Busy(q, u)
    BY <2>0, <2>2 DEF InOrder, Overlapped
  <2>3. CASE u = v /\ \A q \in Requests : ~Busy(q, u)
    <3>1. ~Exists(u)'
      BY <1>4, <2>3 DEF RemoveUser, AccountsTypeOK, Exists
    <3> QED
      BY <1>b, <2>3, <3>1 DEF InOrder, AccountInOrder, OneRequest
  <2> QED
    BY <2>1, <2>2, <2>3
<1>5. ASSUME CreatePlan \/ \E c \in Codes : CodeExpires(c)
      PROVE  InOrder(u)'
  <2>1. UNCHANGED <<user, wallets, history>>
    BY <1>5 DEF CreatePlan, CodeExpires, rows
  <2> QED
    BY <1>1, <2>1 DEF history
<1> QED
  BY <1>2, <1>3, <1>4, <1>5 DEF Direct

LEMMA AccountStepInOrder ==
  ASSUME TypeOK, Shaped, Sound, AccountsInOrder, [Next]_vars
  PROVE  AccountsInOrder'
<1>0. AccountsTypeOK
  BY DEF TypeOK
<1> SUFFICES ASSUME NEW u \in Users PROVE InOrder(u)'
  BY DEF AccountsInOrder, InOrder
<1>1. InOrder(u)
  BY DEF AccountsInOrder, InOrder
<1>2. CASE AccountsNext
  BY <1>0, <1>1, <1>2, AccountsCases, StartingInOrder, MovingInOrder, DirectInOrder
<1>3. CASE UNCHANGED <<rows, outside, req, history>>
  BY <1>1, <1>3 DEF rows, history, InOrder, AccountInOrder, OneRequest, RequestInOrder,
                    Current, HasWallet, Busy, Exists, Saving, ProvenOf
<1>4. CASE Hanging
  BY <1>3, <1>4, HangingLeaves
<1>5. CASE UNCHANGED vars
  BY <1>3, <1>5 DEF vars, accounts
<1> QED
  BY <1>2, <1>4, <1>5, NextCases

LEMMA InitInOrder == Init => AccountsInOrder
<1> SUFFICES ASSUME Init, NEW u \in Users PROVE AccountInOrder(u)
  BY DEF AccountsInOrder
<1>1. /\ user[u] = None /\ signedUp = {} /\ \A r \in Requests : req[r].phase = "idle"
  BY DEF Init, AccountsInit, Idle
<1> QED
  BY <1>1 DEF AccountInOrder, OneRequest, Busy, Exists

(* A user whose requests never overlapped or broke off has at most one, and *)
(* the row, or the copy that this request is to save, is the current one.   *)
THEOREM AlwaysInOrder == Spec => []AccountsInOrder
<1>1. TypeOK /\ Shaped /\ Sound /\ AccountsInOrder /\ [Next]_vars => AccountsInOrder'
  BY AccountStepInOrder
<1> QED
  BY InitInOrder, TypesAndShapes, AlwaysSound, <1>1, PTL DEF Spec

(* A user who signed up has a wallet, whichever of two sign-ups came first  *)
(* and whenever the missing wallets were synchronised.                      *)
THEOREM SignedUpHasWallet == Spec => []QuietUserHasWallet
<1>1. AccountsInOrder => QuietUserHasWallet
  <2> SUFFICES ASSUME AccountsInOrder, NEW u \in Existing \cap signedUp, Quiet(u)
               PROVE  u \in wallets
    BY DEF QuietUserHasWallet
  <2>1. u \in Users /\ Exists(u) /\ AccountInOrder(u)
    BY DEF Existing, Quiet, AccountsInOrder
  <2> QED
    BY <2>1 DEF AccountInOrder, HasWallet, Quiet, Busy
<1> QED
  BY AlwaysInOrder, <1>1, PTL

(* Where requests of a user did not overlap, the one password that works is *)
(* the one last chosen, and none where that came through the routes of      *)
(* users; a proven address stays verified; and a token that has changed the *)
(* password is no longer in the row.                                        *)
THEOREM AccountCurrent == Spec => []QuietAccountIsCurrent
<1>1. TypeOK /\ AccountsInOrder => QuietAccountIsCurrent
  <2> SUFFICES ASSUME AccountsTypeOK, AccountsInOrder, NEW u \in Existing, Quiet(u)
               PROVE  /\ \A s \in Secrets : CanLogin(u, s) <=> chosen[u] = <<s, "auth">>
                      /\ \A a \in Email : <<u, a>> \in proven => user[u].verified
                      /\ user[u].token \notin spent
    BY DEF QuietAccountIsCurrent, TypeOK
  <2>1. u \in Users /\ Exists(u) /\ AccountInOrder(u)
    BY DEF Existing, Quiet, AccountsInOrder
  <2>2. Current(u, user[u])
    BY <2>1 DEF AccountInOrder, Quiet
  <2>3. ASSUME NEW s \in Secrets
        PROVE  CanLogin(u, s) <=> chosen[u] = <<s, "auth">>
    <3>1. ASSUME chosen[u] = <<s, "auth">>
          PROVE  CanLogin(u, s)
      BY <2>1, <2>2, <3>1 DEF Current, CanLogin
    <3>2. ASSUME CanLogin(u, s)
          PROVE  chosen[u] = <<s, "auth">>
      <4>1. user[u].password = <<s, "hash">> /\ <<s, "hash">> # None
        BY <3>2 DEF CanLogin, Password
      <4>2. chosen[u] # None /\ \A t \in Secrets : chosen[u] # <<t, "users">>
        BY <2>2, <4>1 DEF Current
      <4>3. chosen[u] \in Choice
        BY <2>1, <4>2 DEF AccountsTypeOK
      <4>4. PICK t \in Secrets : chosen[u] = <<t, "auth">>
        BY <4>2, <4>3 DEF Choice
      <4>5. user[u].password = <<t, "hash">>
        BY <2>2, <4>4 DEF Current
      <4> QED
        BY <4>1, <4>4, <4>5
    <3> QED
      BY <3>1, <3>2
  <2>4. \A a \in Email : <<u, a>> \in proven => user[u].verified
    BY <2>2 DEF Current, ProvenOf
  <2> QED
    BY <2>2, <2>3, <2>4 DEF Current
<1> QED
  BY AlwaysInOrder, TypeCorrect, <1>1, PTL

------------------------------------------------------------------------------
(* The default address and the default payment method.                      *)

LEMMA AlikeIs ==
  ASSUME NEW e \in Entries
  PROVE  /\ e \in Alike(e)
         /\ \A f \in Alike(e) : /\ f \in Entries /\ OwnerOf[f] = OwnerOf[e]
                                /\ Alike(f) = Alike(e)
BY DEF Alike, Entries

LEMMA AtAlike ==
  ASSUME NEW e \in Entries, NEW f \in Alike(e), NEW j \in Requests
  PROVE  (At(j, e) <=> At(j, f)) /\ (At(j, e)' <=> At(j, f)')
BY AlikeIs DEF At

(* What a step of the entries' requests sees of the users.                  *)
LEMMA HangingExists ==
  ASSUME Hanging, NEW e \in Entries
  PROVE  Exists(OwnerOf[e])' <=> Exists(OwnerOf[e])
BY HangingLeaves DEF Exists, rows

(* The request that a handler opens, and what it makes of the pick.         *)
OpeningKind(j, e, mark, phase) ==
  /\ Begin(j, e, mark, phase)
  /\ Exists(OwnerOf[e]) /\ e \in made' /\ made \subseteq made' /\ made' \subseteq made \cup {e}
  /\ \/ mark = TRUE /\ phase = "clear" /\ Picked(e, e)
     \/ mark = FALSE /\ phase = "save" /\ UNCHANGED pick /\ e \notin made
     \/ mark = FALSE /\ phase = "save" /\ Unpicked(e)
     \/ mark = entry[e] /\ phase = "save" /\ UNCHANGED pick

LEMMA OpeningIs ==
  ASSUME DefaultsTypeOK, EntriesKept, NEW j \in Requests, NEW e \in Entries, Opening(j, e)
  PROVE  \E mark \in BOOLEAN, phase \in {"clear", "save"} : OpeningKind(j, e, mark, phase)
<1>1. ASSUME NEW mark \in BOOLEAN, Create(j, e, mark)
      PROVE  \E m \in BOOLEAN, phase \in {"clear", "save"} : OpeningKind(j, e, m, phase)
  <2>1. CASE mark = TRUE
    BY <1>1, <2>1 DEF Create, OpeningKind
  <2>2. CASE mark = FALSE
    BY <1>1, <2>2 DEF Create, OpeningKind
  <2> QED
    BY <2>1, <2>2
<1>2. ASSUME entry[e] # None, UNCHANGED made
      PROVE  Exists(OwnerOf[e]) /\ e \in made' /\ made \subseteq made' /\ entry[e] \in BOOLEAN
  BY <1>2 DEF EntriesKept, DefaultsTypeOK
<1>3. CASE Update(j, e)
  <2>1. CASE Begin(j, e, TRUE, "clear") /\ Picked(e, e)
    BY <1>2, <1>3, <2>1 DEF Update, OpeningKind
  <2>2. CASE Begin(j, e, FALSE, "save") /\ Unpicked(e)
    BY <1>2, <1>3, <2>2 DEF Update, OpeningKind
  <2>3. CASE Begin(j, e, entry[e], "save") /\ UNCHANGED pick
    BY <1>2, <1>3, <2>3 DEF Update, OpeningKind
  <2> QED
    BY <1>3, <2>1, <2>2, <2>3 DEF Update
<1>4. CASE SetDefault(j, e)
  BY <1>2, <1>4 DEF SetDefault, OpeningKind
<1> QED
  BY <1>1, <1>3, <1>4 DEF Opening

(* The pick is one for all that are alike, and stays so.                    *)
LEMMA PickedUniform ==
  ASSUME DefaultsTypeOK, EntriesKept, NEW e \in Entries, NEW p \in Entries \cup {None},
         Picked(e, p) \/ UNCHANGED pick
  PROVE  /\ \A g \in Entries : \A f \in Alike(g) : pick'[f] = pick'[g]
         /\ \A g \in Entries : pick'[g] \in {pick[g], p}
         /\ \A g \in Entries \ Alike(e) : pick'[g] = pick[g]
         /\ Picked(e, p) => \A g \in Alike(e) : pick'[g] = p
<1>1. CASE Picked(e, p)
  <2>1. \A g \in Entries : pick'[g] = IF g \in Alike(e) THEN p ELSE pick[g]
    BY <1>1 DEF Picked
  <2>2. ASSUME NEW g \in Entries, NEW f \in Alike(g)
        PROVE  f \in Entries /\ (f \in Alike(e) <=> g \in Alike(e)) /\ pick[f] = pick[g]
    <3>1. f \in Entries /\ Alike(f) = Alike(g) /\ f \in Alike(f) /\ g \in Alike(g)
      BY AlikeIs
    <3>2. f \in Alike(e) => Alike(f) = Alike(e)
      BY AlikeIs
    <3>3. g \in Alike(e) => Alike(g) = Alike(e)
      BY AlikeIs
    <3> QED
      BY <3>1, <3>2, <3>3 DEF EntriesKept
  <2>3. \A g \in Alike(e) : g \in Entries
    BY AlikeIs
  <2> QED
    BY <2>1, <2>2, <2>3
<1>2. CASE UNCHANGED pick /\ ~Picked(e, p)
  BY <1>2 DEF EntriesKept
<1> QED
  BY <1>1, <1>2

LEMMA OpeningKept ==
  ASSUME DefaultsTypeOK, EntriesKept, Hanging, NEW j \in Requests, NEW e \in Entries,
         Opening(j, e)
  PROVE  EntriesKept'
<1>1. PICK mark \in BOOLEAN, phase \in {"clear", "save"} : OpeningKind(j, e, mark, phase)
  BY OpeningIs
<1>2. /\ entry' = entry /\ made \subseteq made' /\ e \in made'
      /\ job' = [job EXCEPT ![j] = [phase |-> phase, entry |-> e, mark |-> mark]]
  BY <1>1 DEF OpeningKind, Begin
<1>3. PICK p \in {None, e} : Picked(e, p) \/ UNCHANGED pick
  BY <1>1 DEF OpeningKind, Unpicked
<1>4. /\ \A g \in Entries : \A f \in Alike(g) : pick'[f] = pick'[g]
      /\ \A g \in Entries : pick'[g] \in {pick[g], None, e}
  BY <1>3, PickedUniform
<1>5. \A g \in Entries : entry'[g] # None => Exists(OwnerOf[g])' /\ g \in made'
  BY <1>2, HangingExists DEF EntriesKept
<1>6. \A g \in Entries : pick'[g] # None => pick'[g] \in made'
  BY <1>2, <1>4 DEF EntriesKept
<1>7. \A k \in Requests : job'[k].phase # "idle" => job'[k].entry \in made'
  BY <1>2 DEF EntriesKept, DefaultsTypeOK
<1> QED
  BY <1>4, <1>5, <1>6, <1>7 DEF EntriesKept

LEMMA HangingKept ==
  ASSUME DefaultsTypeOK, EntriesKept, Hanging
  PROVE  EntriesKept'
<1>1. ASSUME NEW j \in Requests, ClearDefault(j)
      PROVE  EntriesKept'
  <2>1. \A e \in Entries : entry'[e] # None => entry[e] # None
    BY <1>1 DEF ClearDefault
  <2>2. \A k \in Requests : job'[k].phase # "idle" => job'[k].entry = job[k].entry
                                                     /\ job[k].phase # "idle"
    BY <1>1 DEF ClearDefault, DefaultsTypeOK, Job
  <2> QED
    <3>1. made' = made /\ pick' = pick
      BY <1>1 DEF ClearDefault
    <3>2. \A e \in Entries : entry'[e] # None => Exists(OwnerOf[e])' /\ e \in made'
      BY <2>1, <3>1, HangingExists DEF EntriesKept
    <3>3. \A k \in Requests : job'[k].phase # "idle" => job'[k].entry \in made'
      BY <2>2, <3>1 DEF EntriesKept
    <3> QED
      BY <3>1, <3>2, <3>3 DEF EntriesKept
<1>2. ASSUME NEW j \in Requests, SaveEntry(j)
      PROVE  EntriesKept'
  <2>1. \A e \in Entries : entry'[e] # None =>
          entry[e] # None \/ (e = job[j].entry /\ Exists(OwnerOf[e]))
    BY <1>2 DEF SaveEntry, DefaultsTypeOK
  <2>2. \A k \in Requests : job'[k].phase # "idle" => job'[k] = job[k]
    BY <1>2 DEF SaveEntry, DefaultsTypeOK, Rest
  <2>3. job[j].entry \in made
    BY <1>2 DEF SaveEntry, EntriesKept
  <2> QED
    BY <1>2, <2>1, <2>2, <2>3, HangingExists DEF SaveEntry, EntriesKept
<1>3. ASSUME NEW j \in Requests, BreakOffJob(j)
      PROVE  EntriesKept'
  <2>1. \A k \in Requests : job'[k].phase # "idle" => job'[k] = job[k]
    BY <1>3 DEF BreakOffJob, DefaultsTypeOK, Rest
  <2> QED
    BY <1>3, <2>1, HangingExists DEF BreakOffJob, EntriesKept
<1>4. ASSUME NEW e \in Entries, Remove(e)
      PROVE  EntriesKept'
  <2>1. \A f \in Entries : entry'[f] # None => entry[f] # None
    BY <1>4 DEF Remove, DefaultsTypeOK
  <2>2. PICK p \in {None} : Picked(e, p) \/ UNCHANGED pick
    BY <1>4 DEF Remove, Unpicked
  <2>3. /\ \A g \in Entries : \A f \in Alike(g) : pick'[f] = pick'[g]
        /\ \A g \in Entries : pick'[g] \in {pick[g], None}
    BY <2>2, PickedUniform
  <2> QED
    BY <1>4, <2>1, <2>3, HangingExists DEF Remove, EntriesKept
<1> QED
  BY <1>1, <1>2, <1>3, <1>4, OpeningKept, HangingCases

(* A user that a step of the accounts brings has no entries yet.            *)
LEMMA CascadeKept ==
  ASSUME DefaultsTypeOK, EntriesKept, Cascade
  PROVE  EntriesKept'
<1>1. \A e \in Entries : entry'[e] = IF user'[OwnerOf[e]] = None THEN None ELSE entry[e]
  BY DEF Cascade
<1>2. \A e \in Entries : pick'[e] = IF user'[OwnerOf[e]] = None THEN None ELSE pick[e]
  BY DEF Cascade
<1>3. \A e \in Entries : \A f \in Alike(e) : pick'[f] = pick'[e]
  BY <1>2, AlikeIs DEF EntriesKept
<1> QED
  BY <1>1, <1>2, <1>3 DEF Cascade, EntriesKept, Exists

(* A step that leaves the likes of f alone.                                 *)
LEMMA DefaultAside ==
  ASSUME NEW f \in Entries, f \notin crossed => DefaultInOrder(f),
         \A k \in Requests : (At(k, f)' <=> At(k, f)) /\ (At(k, f) => job'[k] = job[k]),
         Exists(OwnerOf[f]) => Exists(OwnerOf[f])',
         entry'[f] = entry[f], pick'[f] = pick[f], f \in crossed => f \in crossed'
  PROVE  f \notin crossed' => DefaultInOrder(f)'
BY DEF DefaultInOrder, JobInOrder, Marked

LEMMA OpeningDefault ==
  ASSUME DefaultsTypeOK, EntriesKept, Hanging, NEW j \in Requests, NEW e \in Entries,
         Opening(j, e), NEW f \in Entries, f \notin crossed => DefaultInOrder(f)
  PROVE  f \notin crossed' => DefaultInOrder(f)'
<1>1. PICK mark \in BOOLEAN, phase \in {"clear", "save"} : OpeningKind(j, e, mark, phase)
  BY OpeningIs
<1>2. /\ entry' = entry /\ job[j].phase = "idle"
      /\ job' = [job EXCEPT ![j] = [phase |-> phase, entry |-> e, mark |-> mark]]
      /\ crossed' = IF \E k \in Requests : At(k, e) THEN crossed \cup Alike(e) ELSE crossed
  BY <1>1 DEF OpeningKind, Begin
<1>3. /\ job'[j] = [phase |-> phase, entry |-> e, mark |-> mark]
      /\ \A k \in Requests \ {j} : job'[k] = job[k]
  BY <1>2 DEF DefaultsTypeOK
<1>4. PICK p \in {None, e} : Picked(e, p) \/ UNCHANGED pick
  BY <1>1 DEF OpeningKind, Unpicked
<1>5. /\ \A g \in Entries \ Alike(e) : pick'[g] = pick[g]
      /\ Picked(e, p) => \A g \in Alike(e) : pick'[g] = p
  BY <1>4, PickedUniform
<1>6. CASE f \notin Alike(e)
  <2>1. e \notin Alike(f)
    BY <1>6, AlikeIs
  <2>2. \A k \in Requests : (At(k, f)' <=> At(k, f)) /\ (At(k, f) => job'[k] = job[k])
    BY <1>2, <1>3, <2>1 DEF At
  <2>3. pick'[f] = pick[f] /\ entry'[f] = entry[f] /\ (f \in crossed => f \in crossed')
    BY <1>2, <1>5, <1>6
  <2> QED
    BY <2>2, <2>3, HangingExists, DefaultAside
<1>7. CASE f \in Alike(e)
  <2> SUFFICES ASSUME f \notin crossed' PROVE DefaultInOrder(f)'
    OBVIOUS
  <2>1. f \notin crossed /\ \A k \in Requests : ~At(k, f)
    BY <1>2, <1>7, AtAlike
  <2>2. Marked(f) <=> pick[f] = f
    BY <2>1 DEF DefaultInOrder
  <2>3. Alike(f) = Alike(e) /\ OwnerOf[f] = OwnerOf[e] /\ e \in Alike(e) /\ f \in Alike(f)
    BY <1>7, AlikeIs
  <2>4. \A k \in Requests : At(k, f)' <=> k = j
    BY <1>3, <2>1, <2>3 DEF At
  <2>5. Exists(OwnerOf[f])'
    BY <1>1, <2>3, HangingExists DEF OpeningKind
  <2>6. pick[f] = pick[e] /\ e # None /\ f # None
    BY <1>7 DEF EntriesKept
  <2>7. JobInOrder(j, f)'
    <3>1. CASE mark = TRUE /\ phase = "clear" /\ Picked(e, e)
      <4>1. pick'[f] = e
        BY <1>7, <3>1 DEF Picked
      <4> QED
        BY <1>3, <2>5, <3>1, <4>1 DEF JobInOrder
    <3>2. CASE mark = FALSE /\ phase = "save" /\ UNCHANGED pick /\ e \notin made
      <4>1. pick[e] # e
        BY <2>6, <3>2 DEF EntriesKept
      <4> QED
        BY <1>2, <1>3, <2>2, <2>5, <3>2, <4>1 DEF JobInOrder, Marked
    <3>3. CASE mark = FALSE /\ phase = "save" /\ Unpicked(e)
      <4>1. CASE pick[e] = e
        <5>1. pick'[f] = None
          BY <1>7, <3>3, <4>1 DEF Picked, Unpicked
        <5> QED
          BY <1>2, <1>3, <2>2, <2>5, <2>6, <3>3, <4>1, <5>1 DEF JobInOrder, Marked
      <4>2. CASE pick[e] # e
        <5>1. pick' = pick
          BY <3>3, <4>2 DEF Unpicked
        <5> QED
          BY <1>2, <1>3, <2>2, <2>5, <2>6, <3>3, <4>2, <5>1 DEF JobInOrder, Marked
      <4> QED
        BY <4>1, <4>2
    <3>4. CASE mark = entry[e] /\ phase = "save" /\ UNCHANGED pick
      BY <1>2, <1>3, <2>2, <2>5, <3>4 DEF JobInOrder, Marked
    <3> QED
      BY <1>1, <3>1, <3>2, <3>3, <3>4 DEF OpeningKind
  <2> QED
    BY <2>4, <2>7 DEF DefaultInOrder
<1> QED
  BY <1>6, <1>7

LEMMA ClearDefaultInOrder ==
  ASSUME DefaultsTypeOK, EntriesKept, Hanging, NEW j \in Requests, ClearDefault(j),
         NEW f \in Entries, f \notin crossed => DefaultInOrder(f)
  PROVE  f \notin crossed' => DefaultInOrder(f)'
<1>0. job[j].phase = "clear" /\ pick' = pick /\ crossed' = crossed
  BY DEF ClearDefault
<1>1. PICK e \in Entries : e = job[j].entry
  BY <1>0 DEF EntriesKept, DefaultsTypeOK
<1>2. /\ job'[j].phase = "save" /\ job'[j].entry = e /\ job'[j].mark = job[j].mark
      /\ \A k \in Requests \ {j} : job'[k] = job[k]
  BY <1>1 DEF ClearDefault, DefaultsTypeOK, Job
<1>3. entry'[f] = IF f \in Alike(e) /\ entry[f] # None THEN FALSE ELSE entry[f]
  BY <1>1 DEF ClearDefault, Cleared
<1>4. \A k \in Requests : At(k, f)' <=> At(k, f)
  BY <1>0, <1>1, <1>2 DEF At
<1>5. CASE f \notin Alike(e)
  <2>1. ~At(j, f)
    BY <1>1, <1>5, AlikeIs DEF At
  <2> QED
    BY <1>0, <1>2, <1>3, <1>4, <1>5, <2>1, HangingExists, DefaultAside
<1>6. CASE f \in Alike(e)
  <2> SUFFICES ASSUME f \notin crossed PROVE DefaultInOrder(f)'
    BY <1>0
  <2>1. DefaultInOrder(f) /\ At(j, f)
    <3>1. e \in Alike(f)
      BY <1>6, AlikeIs
    <3> QED
      BY <1>0, <1>1, <3>1 DEF At
  <2>2. JobInOrder(j, f) /\ \A k \in Requests : At(k, f) <=> k = j
    BY <2>1 DEF DefaultInOrder
  <2>3. job[j].mark = TRUE /\ pick[f] = e /\ Exists(OwnerOf[f])'
    BY <1>0, <1>1, <2>2, HangingExists DEF JobInOrder
  <2>4. ~Marked(f)'
    BY <1>3, <1>6 DEF Marked
  <2>5. JobInOrder(j, f)'
    BY <1>0, <1>2, <2>3, <2>4 DEF JobInOrder
  <2> QED
    BY <1>4, <2>2, <2>5 DEF DefaultInOrder
<1> QED
  BY <1>5, <1>6

LEMMA SaveEntryInOrder ==
  ASSUME DefaultsTypeOK, EntriesKept, Hanging, NEW j \in Requests, SaveEntry(j),
         NEW f \in Entries, f \notin crossed => DefaultInOrder(f)
  PROVE  f \notin crossed' => DefaultInOrder(f)'
<1>0. job[j].phase = "save" /\ pick' = pick /\ crossed' = crossed
  BY DEF SaveEntry
<1>1. PICK e \in Entries : e = job[j].entry
  BY <1>0 DEF EntriesKept, DefaultsTypeOK
<1>2. job'[j].phase = "idle" /\ \A k \in Requests \ {j} : job'[k] = job[k]
  BY DEF SaveEntry, DefaultsTypeOK, Rest
<1>3. entry' = IF Exists(OwnerOf[e]) THEN [entry EXCEPT ![e] = job[j].mark] ELSE entry
  BY <1>1 DEF SaveEntry
<1>4. CASE f \notin Alike(e)
  <2>1. ~At(j, f) /\ f # e
    BY <1>1, <1>4, AlikeIs DEF At
  <2>2. entry'[f] = entry[f]
    BY <1>3, <2>1 DEF DefaultsTypeOK
  <2>3. \A k \in Requests : (At(k, f)' <=> At(k, f)) /\ (At(k, f) => job'[k] = job[k])
    BY <1>2, <2>1 DEF At
  <2> QED
    BY <1>0, <2>2, <2>3, HangingExists, DefaultAside
<1>5. CASE f \in Alike(e)
  <2> SUFFICES ASSUME f \notin crossed PROVE DefaultInOrder(f)'
    BY <1>0
  <2>1. DefaultInOrder(f) /\ At(j, f)
    <3>1. e \in Alike(f)
      BY <1>5, AlikeIs
    <3> QED
      BY <1>0, <1>1, <3>1 DEF At
  <2>2. JobInOrder(j, f) /\ \A k \in Requests : At(k, f) <=> k = j
    BY <2>1 DEF DefaultInOrder
  <2>3. \A k \in Requests : ~At(k, f)'
    BY <1>2, <2>2 DEF At
  <2>4. Exists(OwnerOf[e])
    BY <1>5, <2>2, AlikeIs DEF JobInOrder
  <2>5. entry'[f] = IF f = e THEN job[j].mark ELSE entry[f]
    BY <1>3, <2>4 DEF DefaultsTypeOK
  <2>6. Marked(f)' <=> pick'[f] = f
    BY <1>0, <1>1, <2>2, <2>5 DEF JobInOrder, Marked
  <2> QED
    BY <2>3, <2>6 DEF DefaultInOrder
<1> QED
  BY <1>4, <1>5

LEMMA HangingDefault ==
  ASSUME DefaultsTypeOK, EntriesKept, Hanging, NEW f \in Entries,
         f \notin crossed => DefaultInOrder(f)
  PROVE  f \notin crossed' => DefaultInOrder(f)'
<1>1. ASSUME NEW j \in Requests, BreakOffJob(j)
      PROVE  f \notin crossed' => DefaultInOrder(f)'
  <2>0. /\ crossed' = crossed \cup Alike(job[j].entry) /\ entry' = entry /\ pick' = pick
        /\ job[j].entry \in Entries
    BY <1>1 DEF BreakOffJob, EntriesKept, DefaultsTypeOK
  <2>1. CASE f \in Alike(job[j].entry)
    BY <2>0, <2>1
  <2>2. CASE f \notin Alike(job[j].entry)
    <3>1. ~At(j, f)
      BY <2>0, <2>2, AlikeIs DEF At
    <3>2. job'[j].phase = "idle" /\ \A k \in Requests \ {j} : job'[k] = job[k]
      BY <1>1 DEF BreakOffJob, DefaultsTypeOK, Rest
    <3>3. \A k \in Requests : (At(k, f)' <=> At(k, f)) /\ (At(k, f) => job'[k] = job[k])
      BY <3>1, <3>2 DEF At
    <3> QED
      BY <2>0, <3>3, HangingExists, DefaultAside
  <2> QED
    BY <2>1, <2>2
<1>2. ASSUME NEW e \in Entries, Remove(e)
      PROVE  f \notin crossed' => DefaultInOrder(f)'
  <2>0. /\ job' = job /\ entry' = [entry EXCEPT ![e] = None] /\ Unpicked(e)
        /\ crossed' = IF \E k \in Requests : At(k, e) THEN crossed \cup Alike(e) ELSE crossed
    BY <1>2 DEF Remove
  <2>1. \A k \in Requests : (At(k, f)' <=> At(k, f)) /\ job'[k] = job[k]
    BY <2>0 DEF At
  <2>2. CASE f \notin Alike(e)
    <3>1. f # e
      BY <2>2, AlikeIs
    <3>2. entry'[f] = entry[f] /\ pick'[f] = pick[f] /\ (f \in crossed => f \in crossed')
      BY <2>0, <2>2, <3>1 DEF Unpicked, Picked, DefaultsTypeOK
    <3> QED
      BY <2>1, <3>2, HangingExists, DefaultAside
  <2>3. CASE f \in Alike(e)
    <3> SUFFICES ASSUME f \notin crossed' PROVE DefaultInOrder(f)'
      OBVIOUS
    <3>1. f \notin crossed /\ \A k \in Requests : ~At(k, f)
      BY <2>0, <2>3, AtAlike
    <3>2. Marked(f) <=> pick[f] = f
      BY <3>1 DEF DefaultInOrder
    <3>3. pick[f] = pick[e] /\ e # None /\ f # None
      BY <2>3 DEF EntriesKept
    <3>4. entry'[f] = IF f = e THEN None ELSE entry[f]
      BY <2>0 DEF DefaultsTypeOK
    <3>5. pick'[f] = IF pick[e] = e THEN None ELSE pick[f]
      BY <2>0, <2>3 DEF Unpicked, Picked
    <3>6. Marked(f)' <=> pick'[f] = f
      BY <3>2, <3>3, <3>4, <3>5 DEF Marked
    <3> QED
      BY <2>1, <3>1, <3>6 DEF DefaultInOrder
  <2> QED
    BY <2>2, <2>3
<1> QED
  BY <1>1, <1>2, OpeningDefault, ClearDefaultInOrder, SaveEntryInOrder, HangingCases

LEMMA CascadeDefault ==
  ASSUME DefaultsTypeOK, EntriesKept, Cascade, NEW f \in Entries,
         f \notin crossed => DefaultInOrder(f)
  PROVE  f \notin crossed' => DefaultInOrder(f)'
<1>0. /\ job' = job
      /\ entry'[f] = IF user'[OwnerOf[f]] = None THEN None ELSE entry[f]
      /\ pick'[f] = IF user'[OwnerOf[f]] = None THEN None ELSE pick[f]
      /\ f \in crossed => f \in crossed'
      /\ user'[OwnerOf[f]] = None /\ (\E k \in Requests : At(k, f)) => f \in crossed'
  BY DEF Cascade
<1>1. \A k \in Requests : (At(k, f)' <=> At(k, f)) /\ job'[k] = job[k]
  BY <1>0 DEF At
<1>2. CASE user'[OwnerOf[f]] # None
  BY <1>0, <1>1, <1>2, DefaultAside DEF Exists
<1>3. CASE user'[OwnerOf[f]] = None
  <2> SUFFICES ASSUME f \notin crossed' PROVE DefaultInOrder(f)'
    OBVIOUS
  <2>1. \A k \in Requests : ~At(k, f)'
    BY <1>0, <1>1, <1>3
  <2>2. ~Marked(f)' /\ pick'[f] # f
    BY <1>0, <1>3 DEF Marked
  <2> QED
    BY <2>1, <2>2 DEF DefaultInOrder
<1> QED
  BY <1>2, <1>3

(* No mark is left to a user that is gone, and where requests did not       *)
(* overlap, marks and copies of marks agree with the last pick.             *)
THEOREM DefaultsKept == Spec => [](EntriesKept /\ DefaultsInOrder)
<1>1. Init => EntriesKept /\ DefaultsInOrder
  <2> SUFFICES ASSUME Init PROVE EntriesKept /\ DefaultsInOrder
    OBVIOUS
  <2>1. /\ \A e \in Entries : entry[e] = None /\ pick[e] = None
        /\ \A j \in Requests : job[j].phase = "idle"
    BY DEF Init, Rest
  <2>2. EntriesKept
    BY <2>1, AlikeIs DEF EntriesKept
  <2>3. \A e \in Entries : DefaultInOrder(e)
    BY <2>1 DEF DefaultInOrder, At, Marked
  <2> QED
    BY <2>2, <2>3 DEF DefaultsInOrder
<1>2. TypeOK /\ EntriesKept /\ DefaultsInOrder /\ [Next]_vars
      => (EntriesKept /\ DefaultsInOrder)'
  <2> SUFFICES ASSUME TypeOK, EntriesKept, DefaultsInOrder, [Next]_vars
               PROVE  EntriesKept' /\ DefaultsInOrder'
    OBVIOUS
  <2>0. DefaultsTypeOK /\ \A f \in Entries : f \notin crossed => DefaultInOrder(f)
    BY DEF TypeOK, DefaultsTypeOK, DefaultsInOrder
  <2>1. CASE AccountsNext /\ Cascade
    <3>1. \A f \in Entries : f \notin crossed' => DefaultInOrder(f)'
      BY <2>0, <2>1, CascadeDefault
    <3> QED
      BY <2>0, <2>1, <3>1, CascadeKept DEF DefaultsInOrder
  <2>2. CASE Hanging
    <3>1. \A f \in Entries : f \notin crossed' => DefaultInOrder(f)'
      BY <2>0, <2>2, HangingDefault
    <3> QED
      BY <2>0, <2>2, <3>1, HangingKept DEF DefaultsInOrder
  <2>3. CASE UNCHANGED vars
    <3>1. UNCHANGED <<user, entry, job, made, pick, crossed>>
      BY <2>3 DEF vars, accounts, rows, defaults
    <3>2. EntriesKept'
      BY <3>1 DEF EntriesKept, Exists
    <3>3. \A f \in Entries : f \notin crossed' => DefaultInOrder(f)'
      BY <2>0, <3>1 DEF DefaultInOrder, JobInOrder, At, Marked, Exists
    <3> QED
      BY <3>2, <3>3 DEF DefaultsInOrder
  <2> QED
    BY <2>1, <2>2, <2>3, NextCases
<1> QED
  BY <1>1, <1>2, TypeCorrect, PTL DEF Spec

(* Where requests about a user's addresses, or methods, did not overlap,    *)
(* the marked row is the one last picked and there is no other.             *)
THEOREM DefaultIsPicked == Spec => []QuietDefaultIsPicked
<1>1. DefaultsInOrder => QuietDefaultIsPicked
  BY DEF DefaultsInOrder, DefaultInOrder, QuietDefaultIsPicked, Marked
<1> QED
  BY DefaultsKept, <1>1, PTL
==============================================================================
