-------------------------- MODULE WithdrawalsProofs --------------------------
(***************************************************************************)
(* Proofs about Withdrawals for all sellers, withdrawals, sales, amounts,  *)
(* numbers of concurrent requests, decisions and faults.                   *)
(***************************************************************************)
EXTENDS Withdrawals, SumLemmas, TLAPS

(* The subject of a request belongs to a seller and has an amount, that of  *)
(* a sale a positive one.                                                   *)
LEMMA SubjectType ==
  ASSUME NEW x \in Withdrawals \cup Sales
  PROVE  OwnerOf[x] \in Sellers /\ AmountOf[x] \in Int /\ (x \in Sales => AmountOf[x] \in Nat)
BY WithdrawalsAssumption

(* The sums of a seller are integers; they depend on that seller's rows.    *)
LEMMA TotalType ==
  ASSUME NEW S \in SUBSET (Withdrawals \cup Sales), IsFiniteSet(S),
         NEW f, \A x \in S : f[x] \in Int
  PROVE  Total(S, f) \in Int
<1> DEFINE F == [x \in S |-> AmountOf[x] * f[x]]
<1>1. \A x \in S : F[x] \in Int
  BY SubjectType
<1> HIDE DEF F
<1>2. SumFunctionOnSet(F, S) \in Int
  BY <1>1, SumType
<1> QED
  BY <1>2 DEF Total, F

LEMMA TotalEqual ==
  ASSUME NEW S, NEW f, NEW g, \A x \in S : f[x] = g[x]
  PROVE  Total(S, f) = Total(S, g)
<1>1. [x \in S |-> AmountOf[x] * f[x]] = [x \in S |-> AmountOf[x] * g[x]]
  OBVIOUS
<1> QED
  BY <1>1 DEF Total

(* One more of x adds its amount.                                           *)
LEMMA TotalOneMore ==
  ASSUME NEW S \in SUBSET (Withdrawals \cup Sales), IsFiniteSet(S),
         NEW f, NEW g, NEW x \in S, \A y \in S : f[y] \in Int,
         g[x] = f[x] + 1, \A y \in S \ {x} : g[y] = f[y]
  PROVE  Total(S, g) = Total(S, f) + AmountOf[x]
<1> DEFINE F == [y \in S |-> AmountOf[y] * f[y]]
           G == [y \in S |-> AmountOf[y] * g[y]]
<1>1. \A y \in S : AmountOf[y] \in Int /\ f[y] \in Int /\ g[y] \in Int
  BY SubjectType
<1>2. \A y \in S : F[y] \in Int /\ G[y] \in Int
  BY <1>1
<1>3. \A y \in S \ {x} : F[y] = G[y]
  OBVIOUS
<1>4. G[x] = F[x] + AmountOf[x]
  <2>1. \A a, b \in Int : a * (b + 1) = a * b + a
    OBVIOUS
  <2> QED
    BY <1>1, <2>1
<1> HIDE DEF F, G
<1>5. SumFunctionOnSet(G, S) = SumFunctionOnSet(F, S) - F[x] + G[x]
  BY <1>2, <1>3, SumChange
<1>6. SumFunctionOnSet(F, S) \in Int /\ AmountOf[x] \in Int
  BY <1>1, <1>2, SumType
<1>7. SumFunctionOnSet(G, S) = SumFunctionOnSet(F, S) + AmountOf[x]
  BY <1>2, <1>4, <1>5, <1>6
<1> QED
  BY <1>7 DEF Total, F, G

(* The negative withdrawals of a seller are a finite set of withdrawals.    *)
LEMMA NegativeRows ==
  ASSUME NEW s
  PROVE  Negative(s) \in SUBSET (Withdrawals \cup Sales) /\ IsFiniteSet(Negative(s))
<1>1. Negative(s) \subseteq Withdrawals
  BY DEF Negative
<1> QED
  BY <1>1, WithdrawalsAssumption, FS_Subset

------------------------------------------------------------------------------
(* No balance falls below what giving back negative withdrawals took.       *)

Take == [s \in Sellers |-> Total(Negative(s), refunds)]

(* The phase of a request fits its subject.                                 *)
Fits(w) ==
  /\ w.phase \in {"deduct", "insert", "adjust", "decide", "notify"}
       => w.of \in Withdrawals
  /\ w.phase \in {"check", "credit", "record"} => w.of \in Sales

ReqTyped == req \in [Requests -> Request] /\ \A q \in Requests : Fits(req[q])

(* With t what the sellers' balances may be short of: the balance a request *)
(* works with covers what it will take from it, and the rows it saves with  *)
(* the wallet are of the same seller.                                       *)
Covers(w, t) ==
  /\ w.phase = "deduct" => w.copy.balance >= AmountOf[w.of]
  /\ w.phase \in {"adjust", "check", "credit"} => w.copy.balance >= t[OwnerOf[w.of]]
  /\ \A x \in w.rows : OwnerOf[x] = OwnerOf[w.of]

CopiesCover == \A q \in Requests : Covers(req[q], Take)

(* What negative withdrawals have taken back is an amount of at most zero.  *)
TakeTyped == Take \in [Sellers -> Int] /\ \A s \in Sellers : Take[s] <= 0

(* A request that starts, goes on or ends with a fitting record keeps the   *)
(* requests well typed, while nothing is given that had been taken back.    *)
LEMMA ReqStep ==
  ASSUME ReqTyped, CopiesCover, TakeTyped, NEW r \in Requests, NEW w \in Request,
         NEW t \in [Sellers -> Int], t = Take', \A s \in Sellers : t[s] <= Take[s],
         Fits(w), Covers(w, t), req' = [req EXCEPT ![r] = w]
  PROVE  ReqTyped' /\ CopiesCover'
<1>1. ReqTyped'
  BY DEF ReqTyped
<1>2. ASSUME NEW q \in Requests PROVE Covers(req'[q], t)
  <2>1. CASE q = r
    BY <2>1 DEF ReqTyped
  <2>2. CASE q # r
    <3>1. req'[q] = req[q] /\ req[q] \in Request /\ Fits(req[q]) /\ Covers(req[q], Take)
      BY <2>2 DEF ReqTyped, CopiesCover
    <3>2. PICK k \in Request : k = req[q]
      BY <3>1
    <3>3. k.phase \in {"adjust", "check", "credit"} =>
            /\ OwnerOf[k.of] \in Sellers /\ k.copy.balance \in Int
            /\ k.copy.balance >= Take[OwnerOf[k.of]]
      BY <3>1, <3>2, SubjectType DEF Fits, Covers, Request, Wallet
    <3>4. k.phase \in {"adjust", "check", "credit"} => k.copy.balance >= t[OwnerOf[k.of]]
      <4>1. \A s \in Sellers : t[s] \in Int /\ Take[s] \in Int
        BY DEF TakeTyped
      <4> QED
        BY <3>3, <4>1
    <3>5. Covers(k, t)
      BY <3>1, <3>2, <3>4 DEF Covers
    <3> QED
      BY <3>1, <3>2, <3>5
  <2> QED
    BY <2>1, <2>2
<1>3. CopiesCover'
  BY <1>2 DEF CopiesCover, Covers
<1> QED
  BY <1>1, <1>3

(* An idle request fits.                                                    *)
LEMMA IdleFits == Idle \in Request /\ Fits(Idle) /\ \A t : Covers(Idle, t)
BY DEF Idle, Request, Fits, Covers, Phases, ZeroWallet, Wallet, RowStatus

(* Nothing is taken back unless a withdrawal is given back.                 *)
LEMMA TakeStays ==
  ASSUME refunds' = refunds
  PROVE  Take' = Take /\ (TakeTyped => TakeTyped')
BY DEF Take, TakeTyped, Total, Negative

(* A request that finishes keeps the requests well typed.                   *)
LEMMA FinishStep ==
  ASSUME ReqTyped, CopiesCover, TakeTyped, NEW r \in Requests, Finish(r),
         refunds' = refunds
  PROVE  ReqTyped' /\ CopiesCover'
<1> DEFINE w == Idle
<1>1. w \in Request /\ Fits(w) /\ \A t : Covers(w, t)
  BY IdleFits
<1>2. req' = [req EXCEPT ![r] = w]
  BY DEF Finish
<1>3. PICK t \in [Sellers -> Int] : t = Take'
  BY TakeStays DEF TakeTyped
<1>4. \A s \in Sellers : t[s] <= Take[s]
  BY <1>3, TakeStays DEF TakeTyped
<1> HIDE DEF w
<1> QED
  BY <1>1, <1>2, <1>3, <1>4, ReqStep

(* A request that goes on to a phase of the same subject keeps the requests *)
(* well typed; only the credit keeps its copy.                              *)
LEMMA ContinueStep ==
  ASSUME ReqTyped, CopiesCover, TakeTyped, NEW r \in Requests,
         NEW p \in {"insert", "decide", "notify", "credit", "record"},
         Continue(r, p),
         p \in {"insert", "decide", "notify"} => req[r].of \in Withdrawals,
         p \in {"credit", "record"} => req[r].of \in Sales,
         p = "credit" => req[r].phase = "check",
         NEW t \in [Sellers -> Int], t = Take', \A s \in Sellers : t[s] <= Take[s],
         p = "credit" => t = Take
  PROVE  ReqTyped' /\ CopiesCover'
<1> DEFINE w == [req[r] EXCEPT
                   !.phase = p,
                   !.copy  = IF p = "credit" THEN req[r].copy ELSE ZeroWallet,
                   !.loads = p = "credit" /\ req[r].loads,
                   !.rows  = IF p \in {"credit", "decide", "notify"} THEN req[r].rows ELSE {}]
<1>1. req[r] \in Request /\ Covers(req[r], Take) /\ p \in Phases
  BY DEF ReqTyped, CopiesCover, Phases
<1>2. ZeroWallet \in Wallet
  BY DEF ZeroWallet, Wallet
<1>3. w \in Request /\ w.phase = p /\ w.of = req[r].of
      /\ w.copy = (IF p = "credit" THEN req[r].copy ELSE ZeroWallet)
      /\ w.rows \subseteq req[r].rows
  BY <1>1, <1>2 DEF Request
<1>4. Fits(w)
  BY <1>3 DEF Fits
<1>5. Covers(w, t)
  BY <1>1, <1>3 DEF Covers
<1>6. req' = [req EXCEPT ![r] = w]
  BY <1>1 DEF Continue, ReqTyped, Request
<1> HIDE DEF w
<1> QED
  BY <1>3, <1>4, <1>5, <1>6, ReqStep

(* The inductive invariant: every balance is covered, and no request in     *)
(* progress is about to take more than its copy has.                        *)
Covered == TypeOK /\ TakeTyped /\ BalanceIsCovered /\ CopiesCover

(* It holds before the first request.                                       *)
LEMMA CoveredInit == Init => Covered
<1> SUFFICES ASSUME Init PROVE Covered
  OBVIOUS
<1>1. TypeOK
  BY WithdrawalsAssumption, IdleFits
  DEF Init, TypeOK, Idle, Fits, ZeroWallet, Wallet
<1>2. ASSUME NEW s \in Sellers PROVE Total(Negative(s), refunds) = 0
  <2> DEFINE F == [x \in Negative(s) |-> AmountOf[x] * refunds[x]]
  <2>1. \A x \in Negative(s) : AmountOf[x] \in Int /\ refunds[x] = 0
    BY SubjectType DEF Init, Negative
  <2>2. \A x \in Negative(s) : F[x] = 0
    BY <2>1
  <2> HIDE DEF F
  <2>3. SumFunctionOnSet(F, Negative(s)) = 0
    BY <2>2, NegativeRows, SumZero
  <2> QED
    BY <2>3 DEF F, Total
<1>3. TakeTyped
  BY <1>2 DEF TakeTyped, Take
<1>4. BalanceIsCovered
  BY <1>2 DEF Init, BalanceIsCovered, ZeroWallet
<1>5. CopiesCover
  BY IdleFits DEF Init, CopiesCover
<1> QED
  BY <1>1, <1>3, <1>4, <1>5 DEF Covered

(* What TypeOK says of the rest of the state.                               *)
RestTyped ==
  /\ wallet \in [Sellers -> Wallet]
  /\ status \in [Withdrawals -> RowStatus \cup {"none"}]
  /\ creditRows \in [Sales -> Nat]
  /\ linked \subseteq Withdrawals \cup Sales
  /\ notified \subseteq Withdrawals \X {"paid", "rejected"}
  /\ turns \in 0..MaxTurns
  /\ refunds \in [Withdrawals -> Nat] /\ payouts \in [Withdrawals -> Nat]
  /\ disturbed \subseteq Sellers

(* The two parts make TypeOK.                                               *)
LEMMA TypeParts == TypeOK <=> ReqTyped /\ RestTyped
BY DEF TypeOK, ReqTyped, RestTyped, Fits

(* What the wallets computed from a copy are.                               *)
LEMMA SavedWallets ==
  ASSUME NEW wal \in Wallet, NEW a \in Int
  PROVE  /\ Deducted(wal, a) \in Wallet /\ Deducted(wal, a).balance = wal.balance - a
         /\ Credited(wal, a) \in Wallet /\ Credited(wal, a).balance = wal.balance + a
         /\ \A b \in BOOLEAN :
              /\ Adjusted(wal, a, b) \in Wallet
              /\ Adjusted(wal, a, b).balance = IF b THEN wal.balance + a ELSE wal.balance
<1>1. /\ wal.balance - a \in Int /\ wal.balance + a \in Int
      /\ wal.pending - a \in Int /\ wal.pending + a \in Int
      /\ wal.earned + a \in Int
  BY DEF Wallet
<1>2. Deducted(wal, a) \in Wallet /\ Deducted(wal, a).balance = wal.balance - a
  BY <1>1 DEF Wallet, Deducted
<1>3. Credited(wal, a) \in Wallet /\ Credited(wal, a).balance = wal.balance + a
  BY <1>1 DEF Wallet, Credited
<1>4. ASSUME NEW b \in BOOLEAN
      PROVE  /\ Adjusted(wal, a, b) \in Wallet
             /\ Adjusted(wal, a, b).balance = IF b THEN wal.balance + a ELSE wal.balance
  BY <1>1 DEF Wallet, Adjusted
<1> QED
  BY <1>2, <1>3, <1>4

(* Saving a wallet that is covered keeps every balance covered.             *)
LEMMA SaveStep ==
  ASSUME RestTyped, TakeTyped, BalanceIsCovered, NEW s \in Sellers, NEW w \in Wallet,
         NEW t \in [Sellers -> Int], t = Take', \A x \in Sellers : t[x] <= Take[x],
         w.balance >= t[s], wallet' = [wallet EXCEPT ![s] = w]
  PROVE  wallet' \in [Sellers -> Wallet] /\ BalanceIsCovered'
<1>1. wallet' \in [Sellers -> Wallet]
  BY DEF RestTyped
<1>2. ASSUME NEW x \in Sellers PROVE wallet'[x].balance >= t[x]
  <2>1. CASE x = s
    BY <2>1 DEF RestTyped
  <2>2. CASE x # s
    <3>1. wallet'[x] = wallet[x] /\ wallet[x].balance \in Int /\ wallet[x].balance >= Take[x]
      BY <2>2 DEF RestTyped, BalanceIsCovered, Take, Wallet
    <3>2. t[x] \in Int /\ Take[x] \in Int /\ t[x] <= Take[x]
      BY DEF TakeTyped
    <3> QED
      BY <3>1, <3>2
  <2> QED
    BY <2>1, <2>2
<1>3. \A x \in Sellers : t[x] = Total(Negative(x), refunds')
  BY DEF Take, Total, Negative
<1> QED
  BY <1>1, <1>2, <1>3 DEF BalanceIsCovered, Total, Negative

(* ... and the rows it refers to stay rows.                                 *)
LEMMA LinkStep ==
  ASSUME ReqTyped, RestTyped, NEW r \in Requests, NEW w, SaveWallet(r, w)
  PROVE  linked' \subseteq Withdrawals \cup Sales
BY DEF ReqTyped, RestTyped, SaveWallet, Request

(* Where neither wallets nor withdrawals given back change, balances stay   *)
(* covered.                                                                 *)
LEMMA BalanceStays ==
  ASSUME BalanceIsCovered, wallet' = wallet, refunds' = refunds
  PROVE  BalanceIsCovered'
BY DEF BalanceIsCovered, Total, Negative

(* A withdrawal given back lowers what balances may be short of by a        *)
(* negative amount, and by nothing else.                                    *)
LEMMA TakeRefund ==
  ASSUME RestTyped, TakeTyped, NEW w \in Withdrawals,
         refunds' = [refunds EXCEPT ![w] = @ + 1]
  PROVE  /\ TakeTyped' /\ \A s \in Sellers : Take'[s] <= Take[s]
         /\ Take'[OwnerOf[w]] <= Take[OwnerOf[w]] + AmountOf[w]
<1>1. PICK g : g = refunds'
  OBVIOUS
<1>2. OwnerOf[w] \in Sellers /\ AmountOf[w] \in Int /\ refunds[w] \in Nat
  BY SubjectType DEF RestTyped
<1>3. g[w] = refunds[w] + 1 /\ \A v \in Withdrawals \ {w} : g[v] = refunds[v]
  BY <1>1 DEF RestTyped
<1>4. \A s \in Sellers : Take'[s] = Total(Negative(s), g) /\ Take[s] = Total(Negative(s), refunds)
  BY <1>1 DEF Take, Total, Negative
<1>5. ASSUME NEW s \in Sellers
      PROVE  Total(Negative(s), g) = IF w \in Negative(s)
                                     THEN Total(Negative(s), refunds) + AmountOf[w]
                                     ELSE Total(Negative(s), refunds)
  <2>1. CASE w \in Negative(s)
    <3>1. \A y \in Negative(s) : refunds[y] \in Int
      BY DEF Negative, RestTyped
    <3>2. \A y \in Negative(s) \ {w} : g[y] = refunds[y]
      BY <1>3 DEF Negative
    <3>3. Total(Negative(s), g) = Total(Negative(s), refunds) + AmountOf[w]
      BY <1>3, <2>1, <3>1, <3>2, NegativeRows, TotalOneMore
    <3> QED
      BY <2>1, <3>3
  <2>2. CASE w \notin Negative(s)
    <3>1. \A y \in Negative(s) : g[y] = refunds[y]
      BY <1>3, <2>2 DEF Negative
    <3>2. Total(Negative(s), g) = Total(Negative(s), refunds)
      BY <3>1, TotalEqual
    <3> QED
      BY <2>2, <3>2
  <2> QED
    BY <2>1, <2>2
<1>6. \A s \in Sellers : Take[s] \in Int /\ Take[s] <= 0
  BY DEF TakeTyped
<1>7. \A s \in Sellers : w \in Negative(s) => AmountOf[w] < 0
  BY DEF Negative
<1>8. AmountOf[w] < 0 => w \in Negative(OwnerOf[w])
  BY DEF Negative
<1>9. \A s \in Sellers : Take'[s] \in Int /\ Take'[s] <= 0 /\ Take'[s] <= Take[s]
  BY <1>2, <1>4, <1>5, <1>6, <1>7
<1>10. Take'[OwnerOf[w]] <= Take[OwnerOf[w]] + AmountOf[w]
  <2>1. CASE AmountOf[w] < 0
    BY <1>2, <1>4, <1>5, <1>6, <1>8, <2>1
  <2>2. CASE ~(AmountOf[w] < 0)
    BY <1>2, <1>6, <1>9, <2>2
  <2> QED
    BY <2>1, <2>2
<1>11. Take' = [s \in Sellers |-> Take'[s]]
  BY DEF Take
<1>12. TakeTyped'
  BY <1>9, <1>11 DEF TakeTyped
<1> QED
  BY <1>9, <1>10, <1>12

(* The overlap a new request causes is recorded for sellers only.           *)
LEMMA ContendType ==
  ASSUME RestTyped, NEW s \in Sellers, Contend(s)
  PROVE  disturbed' \subseteq Sellers
BY DEF RestTyped, Contend

(* Each step keeps Covered, action by action.                               *)
LEMMA CoveredStep == Covered /\ [Next]_vars => Covered'
<1> SUFFICES ASSUME Covered, [Next]_vars PROVE Covered'
  OBVIOUS
<1> DEFINE Inv == ReqTyped /\ RestTyped /\ TakeTyped /\ BalanceIsCovered /\ CopiesCover
<1>a. Inv
  BY TypeParts DEF Covered
<1>b. Inv' => Covered'
  BY TypeParts, PTL DEF Covered
<1>c. PICK u \in [Sellers -> Int] : u = Take
  BY <1>a DEF TakeTyped
<1>d. \A s \in Sellers : /\ u[s] \in Int /\ u[s] <= 0 /\ u[s] <= Take[s]
                         /\ wallet[s] \in Wallet /\ wallet[s].balance \in Int
                         /\ wallet[s].balance >= u[s]
  BY <1>a, <1>c DEF TakeTyped, RestTyped, BalanceIsCovered, Take, Wallet
<1>e. refunds' = refunds => u = Take' /\ TakeTyped'
  BY <1>a, <1>c, TakeStays
<1>f. refunds' = refunds /\ wallet' = wallet => BalanceIsCovered'
  BY <1>a, BalanceStays
<1>1. ASSUME NEW r \in Requests, NEW w \in Withdrawals, NEW service \in Services,
             RequestWithdrawal(r, w, service)
      PROVE  Inv'
  <2> DEFINE s == OwnerOf[w]
             rows == IF service = "WalletService" THEN LinkedTo(s) ELSE {}
             j == [Idle EXCEPT !.phase = "deduct", !.of = w, !.copy = wallet[s],
                               !.loads = service = "WalletService", !.rows = rows]
  <2>1. s \in Sellers /\ wallet[s] \in Wallet
    BY <1>d, SubjectType
  <2>2. wallet[s].balance >= AmountOf[w]
    BY <1>1 DEF RequestWithdrawal, Affords
  <2>3. rows \in SUBSET (Withdrawals \cup Sales) /\ \A x \in rows : OwnerOf[x] = s
    BY <1>a DEF RestTyped, LinkedTo
  <2> HIDE DEF rows
  <2>4. /\ j \in Request /\ j.phase = "deduct" /\ j.of = w /\ j.copy = wallet[s]
        /\ j.rows = rows
    BY <2>1, <2>3, IdleFits DEF Request, Phases, Idle
  <2>5. req' = [req EXCEPT ![r] = j] /\ Contend(s)
    BY <1>1 DEF RequestWithdrawal, Start, rows
  <2> HIDE DEF j
  <2>6. Fits(j) /\ Covers(j, u)
    BY <2>2, <2>3, <2>4 DEF Fits, Covers
  <2>7. UNCHANGED <<wallet, status, creditRows, linked, notified, turns, refunds, payouts>>
    BY <1>1 DEF RequestWithdrawal
  <2>8. ReqTyped' /\ CopiesCover'
    BY <1>a, <1>d, <1>e, <2>4, <2>5, <2>6, <2>7, ReqStep
  <2>9. disturbed' \subseteq Sellers
    BY <1>a, <2>1, <2>5, ContendType
  <2> QED
    BY <1>a, <1>e, <1>f, <2>7, <2>8, <2>9 DEF RestTyped
<1>2. ASSUME NEW r \in Requests, DeductSave(r) PROVE Inv'
  <2> DEFINE a == AmountOf[req[r].of]
             n == Deducted(req[r].copy, a)
  <2>1. req[r] \in Request /\ req[r].of \in Withdrawals /\ req[r].copy.balance >= a
    BY <1>a, <1>2 DEF DeductSave, ReqTyped, Fits, CopiesCover, Covers
  <2>2. Seller(r) \in Sellers /\ a \in Int /\ req[r].copy \in Wallet
    BY <2>1, SubjectType DEF Seller, Request
  <2>3. n \in Wallet /\ n.balance >= u[Seller(r)]
    <3>1. n \in Wallet /\ n.balance = req[r].copy.balance - a /\ req[r].copy.balance \in Int
      BY <2>2, SavedWallets DEF Wallet
    <3> HIDE DEF n
    <3> QED
      BY <1>d, <2>1, <2>2, <3>1
  <2>4. SaveWallet(r, n) /\ wallet' = [wallet EXCEPT ![Seller(r)] = n] /\ Continue(r, "insert")
        /\ refunds' = refunds
    BY <1>2 DEF DeductSave, SaveWallet, history
  <2> HIDE DEF n, a
  <2>5. wallet' \in [Sellers -> Wallet] /\ BalanceIsCovered'
    BY <1>a, <1>d, <1>e, <2>2, <2>3, <2>4, SaveStep
  <2>6. ReqTyped' /\ CopiesCover'
    BY <1>a, <1>d, <1>e, <2>1, <2>4, ContinueStep
  <2>7. linked' \subseteq Withdrawals \cup Sales
    BY <1>a, <2>4, LinkStep
  <2> QED
    BY <1>a, <1>2, <1>e, <2>4, <2>5, <2>6, <2>7 DEF DeductSave, RestTyped, history
<1>3. ASSUME NEW r \in Requests, InsertRequest(r) PROVE Inv'
  <2>1. req[r].of \in Withdrawals /\ refunds' = refunds /\ wallet' = wallet
    BY <1>a, <1>3 DEF InsertRequest, ReqTyped, Fits, history
  <2>2. ReqTyped' /\ CopiesCover'
    BY <1>a, <1>3, <2>1, FinishStep DEF InsertRequest
  <2>3. status' \in [Withdrawals -> RowStatus \cup {"none"}]
        /\ linked' \subseteq Withdrawals \cup Sales
    BY <1>a, <1>3, <2>1 DEF InsertRequest, RestTyped, RowStatus
  <2> QED
    BY <1>a, <1>3, <1>e, <1>f, <2>1, <2>2, <2>3 DEF InsertRequest, RestTyped, history
<1>4. ASSUME NEW r \in Requests, NEW w \in Withdrawals, NEW service \in Services,
             NEW target \in RowStatus, DecideWithdrawal(r, w, service, target)
      PROVE  Inv'
  <2> DEFINE s      == OwnerOf[w]
             job(p) == [Idle EXCEPT !.phase = p, !.of = w, !.target = target,
                                    !.rows = linked \cap {w}]
             adjust == [job("adjust") EXCEPT !.refund = Refunds(service, target),
                                      !.moves = TRUE, !.copy = wallet[s]]
  <2>1. s \in Sellers /\ wallet[s] \in Wallet /\ wallet[s].balance >= u[s]
    BY <1>d, SubjectType
  <2>2. ASSUME NEW p \in {"notify", "decide", "adjust"}
        PROVE  job(p) \in Request /\ job(p).phase = p /\ job(p).of = w
               /\ job(p).rows \subseteq {w}
    <3>1. linked \cap {w} \in SUBSET (Withdrawals \cup Sales)
      OBVIOUS
    <3> QED
      BY <3>1, IdleFits DEF Request, Phases, Idle
  <2>3. ASSUME NEW p \in {"notify", "decide"}
        PROVE  job(p) \in Request /\ Fits(job(p)) /\ Covers(job(p), u)
    <3> DEFINE j == job(p)
    <3>1. j \in Request /\ j.phase = p /\ j.of = w /\ j.rows \subseteq {w}
      BY <2>2
    <3> HIDE DEF j
    <3>2. Fits(j) /\ Covers(j, u)
      BY <3>1 DEF Fits, Covers
    <3> QED
      BY <3>1, <3>2 DEF j
  <2>4. adjust \in Request /\ Fits(adjust) /\ Covers(adjust, u)
    <3> DEFINE j == job("adjust")
    <3>1. j \in Request /\ j.phase = "adjust" /\ j.of = w /\ j.rows \subseteq {w}
      BY <2>2
    <3>2. Refunds(service, target) \in BOOLEAN
      BY DEF Refunds
    <3> DEFINE k == [j EXCEPT !.refund = Refunds(service, target),
                              !.moves = TRUE, !.copy = wallet[s]]
    <3> HIDE DEF j
    <3>3. k \in Request /\ k.phase = "adjust" /\ k.of = w /\ k.copy = wallet[s]
          /\ k.rows \subseteq {w}
      BY <2>1, <3>1, <3>2 DEF Request
    <3> HIDE DEF k
    <3>4. Fits(k) /\ Covers(k, u)
      BY <2>1, <3>3 DEF Fits, Covers
    <3> QED
      BY <3>3, <3>4 DEF k, j
  <2>5. \/ Start(r, s, job("notify"))
        \/ Start(r, s, job("decide"))
        \/ Start(r, s, adjust)
    BY <1>4 DEF DecideWithdrawal
  <2>6. PICK j \in Request : Fits(j) /\ Covers(j, u) /\ Start(r, s, j)
    <3> HIDE DEF job, adjust
    <3> QED
      BY <2>3, <2>4, <2>5
  <2>7. req' = [req EXCEPT ![r] = j] /\ Contend(s)
    BY <2>6 DEF Start
  <2> HIDE DEF job, adjust
  <2>8. UNCHANGED <<wallet, status, creditRows, linked, notified, refunds, payouts>>
    BY <1>4 DEF DecideWithdrawal
  <2>9. ReqTyped' /\ CopiesCover'
    BY <1>a, <1>d, <1>e, <2>6, <2>7, <2>8, ReqStep
  <2>10. disturbed' \subseteq Sellers
    BY <1>a, <2>1, <2>7, ContendType
  <2>11. turns' \in 0..MaxTurns
    BY <1>a, <1>4, WithdrawalsAssumption DEF DecideWithdrawal, RestTyped
  <2> QED
    BY <1>a, <1>e, <1>f, <2>8, <2>9, <2>10, <2>11 DEF RestTyped
<1>5. ASSUME NEW r \in Requests, AdjustSave(r) PROVE Inv'
  <2> DEFINE a == AmountOf[req[r].of]
             n == Adjusted(req[r].copy, a, req[r].refund)
  <2>1. /\ req[r] \in Request /\ req[r].of \in Withdrawals
        /\ req[r].copy.balance >= u[OwnerOf[req[r].of]]
    BY <1>a, <1>c, <1>5 DEF AdjustSave, ReqTyped, Fits, CopiesCover, Covers
  <2>2. /\ Seller(r) \in Sellers /\ a \in Int
        /\ req[r].copy \in Wallet /\ req[r].refund \in BOOLEAN
    BY <2>1, SubjectType DEF Seller, Request
  <2>3. /\ n \in Wallet /\ req[r].copy.balance \in Int
        /\ n.balance = IF req[r].refund THEN req[r].copy.balance + a ELSE req[r].copy.balance
    <3>1. PICK c \in Wallet, i \in Int, b \in BOOLEAN :
            c = req[r].copy /\ i = a /\ b = req[r].refund
      BY <2>2
    <3>2. /\ Adjusted(c, i, b) \in Wallet /\ c.balance \in Int
          /\ Adjusted(c, i, b).balance = IF b THEN c.balance + i ELSE c.balance
      BY SavedWallets DEF Wallet
    <3> QED
      BY <3>1, <3>2
  <2>4. SaveWallet(r, n) /\ wallet' = [wallet EXCEPT ![Seller(r)] = n] /\ Continue(r, "decide")
    BY <1>5 DEF AdjustSave, SaveWallet
  <2>5. /\ req[r].refund => refunds' = [refunds EXCEPT ![req[r].of] = @ + 1]
        /\ ~req[r].refund => refunds' = refunds
    BY <1>5 DEF AdjustSave
  <2>6. PICK t : t = Take'
    OBVIOUS
  <2>7. /\ TakeTyped' /\ \A s \in Sellers : t[s] <= Take[s]
        /\ req[r].refund => t[Seller(r)] <= Take[Seller(r)] + a
        /\ ~req[r].refund => t = Take
    <3>1. CASE req[r].refund
      BY <1>a, <2>1, <2>5, <2>6, <3>1, TakeRefund DEF Seller
    <3>2. CASE ~req[r].refund
      BY <1>a, <1>c, <1>d, <1>e, <2>5, <2>6, <3>2
    <3> QED
      BY <3>1, <3>2
  <2>8. t \in [Sellers -> Int]
    BY <2>6, <2>7 DEF TakeTyped
  <2> HIDE DEF n, a
  <2>9. n.balance >= t[Seller(r)]
    <3>1. u[Seller(r)] = Take[Seller(r)] /\ u[Seller(r)] \in Int /\ t[Seller(r)] \in Int
          /\ req[r].copy.balance >= u[Seller(r)]
      BY <1>c, <1>d, <2>1, <2>2, <2>8 DEF Seller
    <3>2. CASE req[r].refund
      BY <2>2, <2>3, <2>7, <3>1, <3>2
    <3>3. CASE ~req[r].refund
      BY <2>3, <2>7, <3>1, <3>3
    <3> QED
      BY <3>2, <3>3
  <2>10. wallet' \in [Sellers -> Wallet] /\ BalanceIsCovered'
    BY <1>a, <2>2, <2>3, <2>4, <2>6, <2>7, <2>8, <2>9, SaveStep
  <2>11. ReqTyped' /\ CopiesCover'
    BY <1>a, <2>1, <2>4, <2>6, <2>7, <2>8, ContinueStep
  <2>12. linked' \subseteq Withdrawals \cup Sales
    BY <1>a, <2>4, LinkStep
  <2>13. refunds' \in [Withdrawals -> Nat] /\ payouts' \in [Withdrawals -> Nat]
    BY <1>a, <1>5, <2>1 DEF AdjustSave, RestTyped
  <2> QED
    BY <1>a, <1>5, <2>7, <2>10, <2>11, <2>12, <2>13 DEF AdjustSave, RestTyped
<1>6. ASSUME NEW r \in Requests, DecideSave(r) PROVE Inv'
  <2>1. req[r].of \in Withdrawals /\ req[r].target \in RowStatus /\ req[r] \in Request
        /\ refunds' = refunds /\ wallet' = wallet
    BY <1>a, <1>6 DEF DecideSave, ReqTyped, Fits, Request, history
  <2>2. ReqTyped' /\ CopiesCover'
    BY <1>a, <1>6, <1>d, <1>e, <2>1, ContinueStep DEF DecideSave
  <2>3. status' \in [Withdrawals -> RowStatus \cup {"none"}]
        /\ linked' \subseteq Withdrawals \cup Sales
    BY <1>a, <1>6, <2>1 DEF DecideSave, RestTyped, Request
  <2> QED
    BY <1>a, <1>6, <1>e, <1>f, <2>1, <2>2, <2>3 DEF DecideSave, RestTyped, history
<1>7. ASSUME NEW r \in Requests, Notify(r) PROVE Inv'
  <2>1. req[r].of \in Withdrawals /\ refunds' = refunds /\ wallet' = wallet
    BY <1>a, <1>7 DEF Notify, ReqTyped, Fits, history
  <2>2. ReqTyped' /\ CopiesCover'
    BY <1>a, <1>7, <2>1, FinishStep DEF Notify
  <2>3. notified' \subseteq Withdrawals \X {"paid", "rejected"}
    BY <1>a, <1>7, <2>1 DEF Notify, Announces, RestTyped
  <2> QED
    BY <1>a, <1>7, <1>e, <1>f, <2>1, <2>2, <2>3 DEF Notify, RestTyped, history
<1>8. ASSUME NEW r \in Requests, NEW c \in Sales, CreditRead(r, c) PROVE Inv'
  <2> DEFINE s == OwnerOf[c]
             j == [Idle EXCEPT !.phase = "check", !.of = c, !.copy = wallet[s],
                               !.loads = TRUE, !.rows = LinkedTo(s)]
  <2>1. s \in Sellers /\ wallet[s] \in Wallet /\ wallet[s].balance >= u[s]
    BY <1>d, SubjectType
  <2>2. LinkedTo(s) \in SUBSET (Withdrawals \cup Sales) /\ \A x \in LinkedTo(s) : OwnerOf[x] = s
    BY <1>a DEF RestTyped, LinkedTo
  <2>3. j \in Request /\ j.phase = "check" /\ j.of = c /\ j.copy = wallet[s]
        /\ j.rows = LinkedTo(s)
    BY <2>1, <2>2, IdleFits DEF Request, Phases, Idle
  <2>4. req' = [req EXCEPT ![r] = j] /\ Contend(s)
    BY <1>8 DEF CreditRead, Start
  <2> HIDE DEF j
  <2>5. Fits(j) /\ Covers(j, u)
    BY <2>1, <2>2, <2>3 DEF Fits, Covers
  <2>6. UNCHANGED <<wallet, status, creditRows, linked, notified, turns, refunds, payouts>>
    BY <1>8 DEF CreditRead
  <2>7. ReqTyped' /\ CopiesCover'
    BY <1>a, <1>d, <1>e, <2>3, <2>4, <2>5, <2>6, ReqStep
  <2>8. disturbed' \subseteq Sellers
    BY <1>a, <2>1, <2>4, ContendType
  <2> QED
    BY <1>a, <1>e, <1>f, <2>6, <2>7, <2>8 DEF RestTyped
<1>9. ASSUME NEW r \in Requests, CreditCheck(r) PROVE Inv'
  <2>1. req[r].of \in Sales /\ req[r].phase = "check"
        /\ UNCHANGED <<wallet, status, creditRows, linked, notified, turns, refunds, payouts,
                       disturbed>>
    BY <1>a, <1>9 DEF CreditCheck, ReqTyped, Fits, history
  <2>2. ReqTyped' /\ CopiesCover'
    <3>1. CASE Finish(r)
      BY <1>a, <2>1, <3>1, FinishStep
    <3>2. CASE Continue(r, "credit")
      BY <1>a, <1>c, <1>d, <1>e, <2>1, <3>2, ContinueStep
    <3> QED
      BY <1>9, <3>1, <3>2 DEF CreditCheck
  <2> QED
    BY <1>a, <1>e, <1>f, <2>1, <2>2 DEF RestTyped
<1>10. ASSUME NEW r \in Requests, CreditSave(r) PROVE Inv'
  <2> DEFINE a == AmountOf[req[r].of]
             n == Credited(req[r].copy, a)
  <2>1. /\ req[r] \in Request /\ req[r].of \in Sales
        /\ req[r].copy.balance >= u[OwnerOf[req[r].of]]
    BY <1>a, <1>c, <1>10 DEF CreditSave, ReqTyped, Fits, CopiesCover, Covers
  <2>2. Seller(r) \in Sellers /\ a \in Nat /\ req[r].copy \in Wallet
    BY <2>1, SubjectType DEF Seller, Request
  <2>3. n \in Wallet /\ n.balance >= u[Seller(r)]
    <3>1. n \in Wallet /\ n.balance = req[r].copy.balance + a /\ req[r].copy.balance \in Int
      <4>1. PICK c \in Wallet, i \in Int : c = req[r].copy /\ i = a
        BY <2>2
      <4>2. Credited(c, i) \in Wallet /\ Credited(c, i).balance = c.balance + i
            /\ c.balance \in Int
        BY SavedWallets DEF Wallet
      <4> QED
        BY <4>1, <4>2
    <3>2. u[Seller(r)] \in Int /\ req[r].copy.balance >= u[Seller(r)]
      BY <1>d, <2>1, <2>2 DEF Seller
    <3> HIDE DEF n
    <3> QED
      BY <2>2, <3>1, <3>2
  <2>4. SaveWallet(r, n) /\ wallet' = [wallet EXCEPT ![Seller(r)] = n] /\ Continue(r, "record")
        /\ refunds' = refunds
    BY <1>10 DEF CreditSave, SaveWallet, history
  <2> HIDE DEF n, a
  <2>5. wallet' \in [Sellers -> Wallet] /\ BalanceIsCovered'
    BY <1>a, <1>d, <1>e, <2>2, <2>3, <2>4, SaveStep
  <2>6. ReqTyped' /\ CopiesCover'
    BY <1>a, <1>d, <1>e, <2>1, <2>4, ContinueStep
  <2>7. linked' \subseteq Withdrawals \cup Sales
    BY <1>a, <2>4, LinkStep
  <2> QED
    BY <1>a, <1>10, <1>e, <2>4, <2>5, <2>6, <2>7 DEF CreditSave, RestTyped, history
<1>11. ASSUME NEW r \in Requests, CreditRecord(r) PROVE Inv'
  <2>1. req[r].of \in Sales /\ refunds' = refunds /\ wallet' = wallet
    BY <1>a, <1>11 DEF CreditRecord, ReqTyped, Fits, history
  <2>2. ReqTyped' /\ CopiesCover'
    BY <1>a, <1>11, <2>1, FinishStep DEF CreditRecord
  <2>3. creditRows' \in [Sales -> Nat] /\ linked' \subseteq Withdrawals \cup Sales
    BY <1>a, <1>11, <2>1 DEF CreditRecord, RestTyped
  <2> QED
    BY <1>a, <1>11, <1>e, <1>f, <2>1, <2>2, <2>3 DEF CreditRecord, RestTyped, history
<1>12. ASSUME NEW r \in Requests, BreakOff(r) PROVE Inv'
  <2>1. UNCHANGED <<wallet, status, creditRows, linked, notified, refunds, payouts>>
    BY <1>12 DEF BreakOff
  <2>2. ReqTyped' /\ CopiesCover'
    BY <1>a, <1>12, <2>1, FinishStep DEF BreakOff
  <2>3. HalfDone(r) => req[r].of \in Withdrawals \cup Sales
    BY <1>a DEF HalfDone, ReqTyped, Fits
  <2>4. disturbed' \subseteq Sellers
    BY <1>a, <1>12, <2>3, SubjectType DEF BreakOff, RestTyped, Seller
  <2>5. turns' \in 0..MaxTurns
    BY <1>a, <1>12, WithdrawalsAssumption DEF BreakOff, RestTyped
  <2> QED
    BY <1>a, <1>e, <1>f, <2>1, <2>2, <2>4, <2>5 DEF RestTyped
<1>13. ASSUME NEW c \in Sales, CreditLocked(c) PROVE Inv'
  <2> DEFINE s == OwnerOf[c]
             a == AmountOf[c]
             n == Credited(wallet[s], a)
  <2>1. /\ s \in Sellers /\ wallet[s] \in Wallet /\ wallet[s].balance \in Int
        /\ wallet[s].balance >= u[s] /\ a \in Nat /\ u[s] \in Int
    BY <1>d, SubjectType
  <2>2. n \in Wallet /\ n.balance = wallet[s].balance + a
    <3>1. PICK k \in Wallet, i \in Int : k = wallet[s] /\ i = a
      BY <2>1
    <3>2. Credited(k, i) \in Wallet /\ Credited(k, i).balance = k.balance + i
      BY SavedWallets
    <3> QED
      BY <3>1, <3>2
  <2>3. wallet' = [wallet EXCEPT ![s] = n] /\ Contend(s) /\ refunds' = refunds
    BY <1>13 DEF CreditLocked
  <2> HIDE DEF n, a
  <2>4. n.balance >= u[s]
    BY <2>1, <2>2
  <2>5. wallet' \in [Sellers -> Wallet] /\ BalanceIsCovered'
    BY <1>a, <1>d, <1>e, <2>1, <2>2, <2>3, <2>4, SaveStep
  <2>6. disturbed' \subseteq Sellers
    BY <1>a, <2>1, <2>3, ContendType
  <2>7. creditRows' \in [Sales -> Nat] /\ linked' \subseteq Withdrawals \cup Sales
    BY <1>a, <1>13 DEF CreditLocked, RestTyped
  <2>8. UNCHANGED <<status, notified, req, turns, refunds, payouts>>
    BY <1>13 DEF CreditLocked
  <2>9. CopiesCover'
    BY <1>a, <2>8, TakeStays DEF CopiesCover
  <2> QED
    BY <1>a, <1>e, <2>5, <2>6, <2>7, <2>8, <2>9 DEF RestTyped, ReqTyped
<1>14. ASSUME UNCHANGED vars PROVE Inv'
  <2>1. UNCHANGED <<wallet, status, creditRows, linked, notified, req, turns, refunds, payouts,
                    disturbed>>
    BY <1>14 DEF vars, history
  <2>2. CopiesCover'
    BY <1>a, <2>1, TakeStays DEF CopiesCover
  <2> QED
    BY <1>a, <1>e, <1>f, <2>1, <2>2 DEF RestTyped, ReqTyped
<1> QED
  BY <1>b, <1>1, <1>2, <1>3, <1>4, <1>5, <1>6, <1>7, <1>8, <1>9, <1>10, <1>11,
     <1>12, <1>13, <1>14 DEF Next, RequestStep

(* The invariant holds in every reachable state.                            *)
THEOREM AlwaysCovered == Spec => []Covered
<1>1. Init => Covered
  BY CoveredInit
<1>2. Covered /\ [Next]_vars => Covered'
  BY CoveredStep
<1> QED
  BY <1>1, <1>2, PTL DEF Spec

(* Every reachable state is well typed.                                     *)
THEOREM TypeCorrect == Spec => []TypeOK
<1>1. Covered => TypeOK
  BY DEF Covered
<1> QED
  BY <1>1, AlwaysCovered, PTL

(* However withdrawals, decisions, credits and crashes interleave, and      *)
(* whatever amounts are asked for, a balance that is saved                  *)
(* (requestWithDrawal, updateWithdrawalStatus, creditFromOrder) is below    *)
(* zero by no more than giving back negative withdrawals took from it.      *)
THEOREM AlwaysBalanceCovered == Spec => []BalanceIsCovered
<1>1. Covered => BalanceIsCovered
  BY DEF Covered
<1> QED
  BY <1>1, AlwaysCovered, PTL

(* In particular the balance of a seller who never asked for a negative     *)
(* amount is never negative.                                                *)
THEOREM NeverNegative ==
  Spec => [](\A s \in Sellers : Negative(s) = {} => wallet[s].balance >= 0)
<1>1. Covered => \A s \in Sellers : Negative(s) = {} => wallet[s].balance >= 0
  <2> SUFFICES ASSUME Covered, NEW s \in Sellers, Negative(s) = {}
               PROVE  wallet[s].balance >= 0
    OBVIOUS
  <2>1. wallet[s].balance >= Total(Negative(s), refunds)
    BY DEF Covered, BalanceIsCovered
  <2>2. \A F : SumFunctionOnSet(F, {}) = 0
    BY FS_EmptySet, SumZero
  <2>3. Total(Negative(s), refunds) = 0
    BY <2>2 DEF Total
  <2> QED
    BY <2>1, <2>3
<1> QED
  BY <1>1, AlwaysCovered, PTL

------------------------------------------------------------------------------
(* The ledger of a wallet that no two requests ever shared.                 *)

Once == [w \in Withdrawals |-> 1]
Gone == [w \in Withdrawals |-> refunds[w] + payouts[w]]

Sold(s)  == Total(SalesOf(s), creditRows)
Asked(s) == Total(Requested(s), Once)
Back(s)  == Total(Requested(s), refunds)
Left(s)  == Total(Requested(s), Gone)

(* The wallet, the tables and the history of seller s add up, but for the   *)
(* withdrawal (d) or the sale (c) a request has put in the wallet only.     *)
Books(s, d, c) ==
  /\ wallet[s].earned = Sold(s) + c
  /\ wallet[s].balance = Sold(s) + c - Asked(s) + Back(s) - d
  /\ wallet[s].pending = Asked(s) - Left(s) + d

(* Request q has changed the wallet and has yet to write the row.           *)
Ahead(q) == req[q].phase \in {"insert", "record"}

Balanced(s) ==
  /\ (\A q \in Requests : Ahead(q) => Seller(q) # s) => Books(s, 0, 0)
  /\ \A q \in Requests : Ahead(q) /\ Seller(q) = s =>
       IF req[q].phase = "insert" THEN Books(s, AmountOf[req[q].of], 0)
                                  ELSE Books(s, 0, AmountOf[req[q].of])

(* The rows that refer to the wallet are all there are, one of each sale.   *)
Attached(s) ==
  /\ \A w \in Withdrawals : OwnerOf[w] = s => (w \in LinkedTo(s) <=> status[w] # "none")
  /\ \A c \in Sales : OwnerOf[c] = s => creditRows[c] = (IF c \in LinkedTo(s) THEN 1 ELSE 0)

(* What a request on an undisturbed wallet may rely on: its copy is the     *)
(* wallet with its rows, the row it works on is as it read it, and a        *)
(* decision it has already carried out in the wallet is the one it is about *)
(* to write.                                                                *)
Reliable(q) ==
  LET w == req[q].of IN
  /\ req[q].phase \in {"deduct", "adjust", "check", "credit"}
       => req[q].copy = wallet[Seller(q)]
  /\ req[q].phase \in {"deduct", "check", "credit"} /\ req[q].loads
       => req[q].rows = LinkedTo(Seller(q))
  /\ req[q].phase = "adjust" => ~req[q].loads
  /\ req[q].phase \in {"adjust", "decide"} => req[q].rows = {w}
  /\ req[q].phase \in {"credit", "record"} => w \notin LinkedTo(Seller(q))
  /\ req[q].phase \in {"deduct", "insert"} => status[w] = "none"
  /\ req[q].phase = "adjust" =>
       /\ req[q].moves /\ status[w] \in {"pending", "approved"}
       /\ req[q].target \in (IF req[q].refund THEN {"rejected", "cancelled"}
                                              ELSE {"paid"})
  /\ req[q].phase = "decide" =>
       /\ status[w] \in {"pending", "approved"}
       /\ IF ~req[q].moves THEN req[q].target \in {"pending", "approved", "cancelled"}
          ELSE \/ req[q].target = "paid" /\ payouts[w] = 1 /\ refunds[w] = 0
               \/ /\ req[q].target \in {"rejected", "cancelled"}
                  /\ payouts[w] = 0 /\ refunds[w] = 1
  /\ req[q].phase = "notify" /\ Announces(req[q].target)
       => status[w] = req[q].target

(* The request has moved money whose decision is not in the row yet.        *)
Deciding(q, w) == req[q].phase = "decide" /\ req[q].moves /\ req[q].of = w

(* What the history says of withdrawal w agrees with its row.               *)
Settled(w) ==
  /\ payouts[w] = (IF status[w] = "paid" THEN 1 ELSE 0)
  /\ refunds[w] <= 1 /\ (status[w] = "rejected" => refunds[w] = 1)
  /\ status[w] \in {"none", "pending", "approved", "paid"} => refunds[w] = 0

Told(w) == \A st \in {"paid", "rejected"} : <<w, st>> \in notified => status[w] = st

(* The inductive invariant of the wallets on which no requests overlapped.  *)
AloneOn(s) ==
  \A q1, q2 \in Requests : Busy(q1, s) /\ Busy(q2, s) => q1 = q2

InOrder(s) ==
  /\ AloneOn(s) /\ Balanced(s) /\ Attached(s)
  /\ \A q \in Requests : req[q].phase # "idle" /\ Seller(q) = s => Reliable(q)
  /\ \A w \in Withdrawals : OwnerOf[w] = s =>
       /\ (\A q \in Requests : ~Deciding(q, w)) => Settled(w)
       /\ Told(w)

UndisturbedInOrder == \A s \in Sellers \ disturbed : InOrder(s)

(* An element that joins adds what it counts for.                           *)
LEMMA TotalJoin ==
  ASSUME NEW S \in SUBSET (Withdrawals \cup Sales), IsFiniteSet(S),
         NEW x \in Withdrawals \cup Sales, x \notin S,
         NEW f, \A y \in S \cup {x} : f[y] \in Int
  PROVE  /\ f[x] = 1 => Total(S \cup {x}, f) = Total(S, f) + AmountOf[x]
         /\ f[x] = 0 => Total(S \cup {x}, f) = Total(S, f)
<1> DEFINE T == S \cup {x}
           F == [y \in S |-> AmountOf[y] * f[y]]
           G == [y \in T |-> AmountOf[y] * f[y]]
<1>1. AmountOf[x] \in Int /\ \A y \in T : AmountOf[y] \in Int /\ f[y] \in Int
  BY SubjectType
<1>2. G[x] \in Int /\ \A y \in S : F[y] \in Int /\ F[y] = G[y]
  BY <1>1
<1>3. (f[x] = 1 => G[x] = AmountOf[x]) /\ (f[x] = 0 => G[x] = 0)
  BY <1>1
<1> HIDE DEF F, G
<1>4. SumFunctionOnSet(G, T) = SumFunctionOnSet(F, S) + G[x]
  BY <1>2, SumInsert
<1>5. SumFunctionOnSet(F, S) \in Int
  BY <1>2, SumType
<1> HIDE DEF T
<1>6. /\ f[x] = 1 => SumFunctionOnSet(G, T) = SumFunctionOnSet(F, S) + AmountOf[x]
      /\ f[x] = 0 => SumFunctionOnSet(G, T) = SumFunctionOnSet(F, S)
  BY <1>3, <1>4, <1>5
<1> QED
  BY <1>6 DEF Total, F, G, T

(* The rows a seller's sums go over.                                        *)
LEMMA RowsOf ==
  ASSUME NEW s
  PROVE  /\ Requested(s) \in SUBSET (Withdrawals \cup Sales) /\ IsFiniteSet(Requested(s))
         /\ SalesOf(s) \in SUBSET (Withdrawals \cup Sales) /\ IsFiniteSet(SalesOf(s))
<1>1. Requested(s) \subseteq Withdrawals /\ SalesOf(s) \subseteq Sales
  BY DEF Requested, SalesOf
<1> QED
  BY <1>1, WithdrawalsAssumption, FS_Subset

(* The sums are integers.                                                   *)
LEMMA SumsTyped ==
  ASSUME TypeOK, NEW s
  PROVE  Sold(s) \in Int /\ Asked(s) \in Int /\ Back(s) \in Int /\ Left(s) \in Int
<1>1. \A c \in SalesOf(s) : creditRows[c] \in Int
  BY DEF TypeOK, SalesOf
<1>2. \A w \in Requested(s) : Once[w] \in Int /\ refunds[w] \in Int /\ Gone[w] \in Int
  BY DEF TypeOK, Requested, Once, Gone
<1> QED
  BY <1>1, <1>2, RowsOf, TotalType DEF Sold, Asked, Back, Left

(* Nothing is written of seller s, neither the wallet nor a row nor the     *)
(* history, and what is announced is what the row says.                     *)
Untouched(s) ==
  /\ wallet'[s] = wallet[s] /\ LinkedTo(s)' = LinkedTo(s)
  /\ \A w \in Withdrawals : OwnerOf[w] = s =>
       /\ status'[w] = status[w] /\ refunds'[w] = refunds[w] /\ payouts'[w] = payouts[w]
       /\ \A st \in {"paid", "rejected"} :
            <<w, st>> \in notified' => <<w, st>> \in notified \/ status[w] = st
  /\ \A c \in Sales : OwnerOf[c] = s => creditRows'[c] = creditRows[c]

(* The sums of s stay as they are where its rows do.                        *)
LEMMA SumsStay ==
  ASSUME NEW s,
         \A w \in Withdrawals : OwnerOf[w] = s =>
           /\ status'[w] = "none" <=> status[w] = "none"
           /\ refunds'[w] = refunds[w] /\ payouts'[w] = payouts[w],
         \A c \in Sales : OwnerOf[c] = s => creditRows'[c] = creditRows[c]
  PROVE  Sold(s)' = Sold(s) /\ Asked(s)' = Asked(s) /\ Back(s)' = Back(s) /\ Left(s)' = Left(s)
<1>1. Requested(s)' = Requested(s) /\ SalesOf(s)' = SalesOf(s) /\ Once' = Once
  BY DEF Requested, SalesOf, Once
<1>2. \A w \in Requested(s) : refunds'[w] = refunds[w] /\ Gone'[w] = Gone[w]
  BY DEF Requested, Gone
<1>3. \A c \in SalesOf(s) : creditRows'[c] = creditRows[c]
  BY DEF SalesOf
<1>4. Sold(s)' = Total(SalesOf(s), creditRows')
  BY <1>1 DEF Sold, Total
<1>5. Asked(s)' = Asked(s)
  BY <1>1 DEF Asked, Total
<1>6. Back(s)' = Total(Requested(s), refunds')
  BY <1>1 DEF Back, Total
<1>7. Left(s)' = Total(Requested(s), Gone')
  BY <1>1 DEF Left, Total
<1>8. Sold(s)' = Sold(s)
  BY <1>3, <1>4, TotalEqual DEF Sold
<1>9. Back(s)' = Back(s)
  BY <1>2, <1>6, TotalEqual DEF Back
<1>10. Left(s)' = Left(s)
  BY <1>2, <1>7, TotalEqual DEF Left
<1> QED
  BY <1>5, <1>8, <1>9, <1>10

(* ... and so do the books.                                                 *)
LEMMA BooksStay ==
  ASSUME NEW s, Untouched(s), NEW d, NEW c
  PROVE  Books(s, d, c)' <=> Books(s, d, c)
<1>1. Sold(s)' = Sold(s) /\ Asked(s)' = Asked(s) /\ Back(s)' = Back(s) /\ Left(s)' = Left(s)
  BY SumsStay DEF Untouched
<1> QED
  BY <1>1 DEF Books, Untouched

(* ... and its rows refer to the wallet as before.                          *)
LEMMA AttachedStays ==
  ASSUME NEW s, Attached(s), Untouched(s)
  PROVE  Attached(s)'
<1>1. /\ \A w \in Withdrawals : OwnerOf[w] = s => status'[w] = status[w]
      /\ \A c \in Sales : OwnerOf[c] = s => creditRows'[c] = creditRows[c]
      /\ LinkedTo(s)' = LinkedTo(s)
  BY DEF Untouched
<1> QED
  BY <1>1 DEF Attached

(* Of the others at work on a wallet that only one request has, all only    *)
(* announce.                                                                *)
LEMMA OthersNotify ==
  ASSUME ReqTyped, NEW s, AloneOn(s), NEW r \in Requests, Busy(r, s),
         NEW q \in Requests, q # r, req[q].phase # "idle", Seller(q) = s
  PROVE  req[q].phase = "notify"
BY DEF AloneOn, Busy

(* A request reads, goes on without writing, or ends with nothing half      *)
(* done: the wallets it does not write stay in order.                       *)
LEMMA ReadStep ==
  ASSUME ReqTyped, ReqTyped', NEW s \in Sellers, InOrder(s), NEW r \in Requests,
         \A q \in Requests \ {r} : req'[q] = req[q],
         Untouched(s),
         req[r].phase # "idle" /\ Seller(r) = s => ~HalfDone(r),
         (req[r].phase # "idle" /\ Seller(r) = s => ~HalfDone(r))',
         (req[r].phase # "idle" /\ Seller(r) = s => Reliable(r))',
         Busy(r, s)' => Busy(r, s) \/ \A q \in Requests : ~Busy(q, s)
  PROVE  InOrder(s)'
<1>1. AloneOn(s)'
  BY DEF InOrder, AloneOn, Busy, Seller
<1>2. Balanced(s)'
  <2>1. \A d, c : Books(s, d, c)' <=> Books(s, d, c)
    BY BooksStay
  <2>2. /\ Ahead(r) => Seller(r) # s
        /\ (Ahead(r) => Seller(r) # s)'
    BY DEF HalfDone, Ahead
  <2>3. \A q \in Requests \ {r} : (Ahead(q)' <=> Ahead(q)) /\ Seller(q)' = Seller(q)
    BY DEF Ahead, Seller
  <2>4. CASE \A q \in Requests : Ahead(q) => Seller(q) # s
    <3>1. Books(s, 0, 0)
      BY <2>4 DEF InOrder, Balanced
    <3>2. Books(s, 0, 0)'
      BY <2>1, <3>1
    <3>3. (\A q \in Requests : Ahead(q) => Seller(q) # s)'
      BY <2>2, <2>3, <2>4
    <3> QED
      BY <3>2, <3>3 DEF Balanced
  <2>5. CASE \E q \in Requests : Ahead(q) /\ Seller(q) = s
    <3>1. PICK q0 \in Requests : Ahead(q0) /\ Seller(q0) = s
      BY <2>5
    <3>2. q0 # r /\ Ahead(q0)' /\ Seller(q0)' = s
      BY <2>2, <2>3, <3>1
    <3>3. ASSUME NEW q \in Requests, Ahead(q)', Seller(q)' = s
          PROVE  (IF req[q].phase = "insert" THEN Books(s, AmountOf[req[q].of], 0)
                                             ELSE Books(s, 0, AmountOf[req[q].of]))'
      <4>1. q # r /\ Ahead(q) /\ Seller(q) = s /\ req'[q] = req[q]
        BY <2>2, <2>3, <3>3
      <4>2. IF req[q].phase = "insert" THEN Books(s, AmountOf[req[q].of], 0)
                                       ELSE Books(s, 0, AmountOf[req[q].of])
        BY <4>1 DEF InOrder, Balanced
      <4>3. PICK a : a = AmountOf[req[q].of]
        OBVIOUS
      <4>4. IF req[q].phase = "insert" THEN Books(s, a, 0)' ELSE Books(s, 0, a)'
        BY <2>1, <4>2, <4>3
      <4>5. AmountOf[req'[q].of] = a
        BY <4>1, <4>3
      <4> QED
        BY <4>1, <4>4, <4>5 DEF Books
    <3> QED
      BY <3>2, <3>3 DEF Balanced
  <2> QED
    BY <2>4, <2>5
<1>3. ASSUME NEW q \in Requests, req'[q].phase # "idle", Seller(q)' = s
      PROVE  Reliable(q)'
  <2>1. CASE q = r
    BY <1>3, <2>1
  <2>2. CASE q # r
    <3>1. req'[q] = req[q] /\ Seller(q) = s /\ Reliable(q)
      BY <1>3, <2>2 DEF InOrder, Seller
    <3>2. req[q].phase \in {"deduct", "insert", "adjust", "decide", "notify"}
            => req[q].of \in Withdrawals
      BY DEF ReqTyped, Fits
    <3>3. req[q].phase \in {"deduct", "insert", "adjust", "decide", "notify"}
            => LET w == req[q].of IN /\ status'[w] = status[w]
                                     /\ refunds'[w] = refunds[w] /\ payouts'[w] = payouts[w]
      BY <3>1, <3>2 DEF Untouched, Seller
    <3>4. wallet'[s] = wallet[s] /\ LinkedTo(s)' = LinkedTo(s)
      BY DEF Untouched
    <3>5. Seller(q)' = s /\ LinkedTo(Seller(q))' = LinkedTo(s)
      BY <1>3, <3>4 DEF LinkedTo
    <3> QED
      BY <3>1, <3>3, <3>4, <3>5 DEF Reliable
  <2> QED
    BY <2>1, <2>2
<1>4. ASSUME NEW w \in Withdrawals, OwnerOf[w] = s
      PROVE  ((\A q \in Requests : ~Deciding(q, w)) => Settled(w))' /\ Told(w)'
  <2>1. ~Deciding(r, w)
    BY <1>4 DEF HalfDone, Deciding, Seller
  <2>2. (\A q \in Requests : ~Deciding(q, w))' => \A q \in Requests : ~Deciding(q, w)
    BY <2>1 DEF Deciding
  <2>3. (Settled(w) => Settled(w)') /\ (Told(w) => Told(w)')
    BY <1>4 DEF Untouched, Settled, Told
  <2> QED
    BY <1>4, <2>2, <2>3 DEF InOrder
<1>5. Attached(s)'
  BY AttachedStays DEF InOrder
<1> QED
  BY <1>1, <1>2, <1>3, <1>4, <1>5 DEF InOrder

(* What the books of a wallet say of the one request at work on it.         *)
LEMMA BooksBefore ==
  ASSUME ReqTyped, NEW s, InOrder(s), NEW r \in Requests, Busy(r, s),
         NEW a, a = AmountOf[req[r].of]
  PROVE  /\ req[r].phase = "insert" => Books(s, a, 0)
         /\ req[r].phase = "record" => Books(s, 0, a)
         /\ ~Ahead(r) => Books(s, 0, 0)
<1>1. Seller(r) = s
  BY DEF Busy
<1>2. \A q \in Requests : Ahead(q) /\ Seller(q) = s => q = r
  BY DEF InOrder, AloneOn, Busy, Ahead
<1>3. Balanced(s)
  BY DEF InOrder
<1> QED
  BY <1>1, <1>2, <1>3 DEF Balanced, Ahead

(* The one request at work on a wallet writes: the wallet stays in order if *)
(* the books balance again and its own withdrawal agrees with its row.      *)
LEMMA WriteStep ==
  ASSUME ReqTyped, ReqTyped', NEW s \in Sellers, InOrder(s), NEW r \in Requests, Busy(r, s),
         \A q \in Requests \ {r} : req'[q] = req[q],
         req'[r].phase = "idle" \/ req'[r].of = req[r].of,
         NEW a, a = AmountOf[req[r].of],
         req'[r].phase = "insert" => Books(s, a, 0)',
         req'[r].phase = "record" => Books(s, 0, a)',
         req'[r].phase \notin {"insert", "record"} => Books(s, 0, 0)',
         req'[r].phase # "idle" => Reliable(r)',
         \A w \in Withdrawals : OwnerOf[w] = s /\ w # req[r].of =>
           status'[w] = status[w] /\ refunds'[w] = refunds[w] /\ payouts'[w] = payouts[w],
         \A w \in Withdrawals : w = req[r].of =>
           /\ (~Deciding(r, w) => Settled(w))'
           /\ Announces(status[w]) => status'[w] = status[w],
         notified' = notified, Attached(s)'
  PROVE  InOrder(s)'
<1>1. Seller(r) = s
  BY DEF Busy
<1>2. AloneOn(s)
  BY DEF InOrder
<1>3. \A q \in Requests \ {r} :
        /\ Seller(q)' = Seller(q)
        /\ req[q].phase # "idle" /\ Seller(q) = s => req[q].phase = "notify"
  BY <1>2, OthersNotify DEF Seller
<1>4. AloneOn(s)'
  BY <1>2, <1>3 DEF AloneOn, Busy
<1>5. Balanced(s)'
  <2>1. \A q \in Requests : Ahead(q)' /\ Seller(q)' = s => q = r
    BY <1>3 DEF Ahead
  <2>2. CASE req'[r].phase \in {"insert", "record"}
    <3>1. Ahead(r)' /\ Seller(r)' = s /\ AmountOf[req'[r].of] = a
      BY <1>1, <2>2 DEF Ahead, Seller
    <3> QED
      BY <2>1, <2>2, <3>1 DEF Balanced, Books
  <2>3. CASE req'[r].phase \notin {"insert", "record"}
    <3>1. ~Ahead(r)'
      BY <2>3 DEF Ahead
    <3> QED
      BY <2>1, <2>3, <3>1 DEF Balanced
  <2> QED
    BY <2>2, <2>3
<1>6. ASSUME NEW q \in Requests, req'[q].phase # "idle", Seller(q)' = s
      PROVE  Reliable(q)'
  <2>1. CASE q = r
    BY <1>6, <2>1
  <2>2. CASE q # r
    <3>1. req'[q] = req[q] /\ Seller(q) = s /\ req[q].phase = "notify" /\ Reliable(q)
      BY <1>3, <1>6, <2>2 DEF InOrder
    <3>2. req[q].of \in Withdrawals /\ OwnerOf[req[q].of] = s
      BY <3>1 DEF ReqTyped, Fits, Seller
    <3>3. Announces(req[q].target) => status'[req[q].of] = req[q].target
      BY <3>1, <3>2 DEF Reliable
    <3> QED
      BY <3>1, <3>3 DEF Reliable
  <2> QED
    BY <2>1, <2>2
<1>7. ASSUME NEW w \in Withdrawals, OwnerOf[w] = s
      PROVE  ((\A q \in Requests : ~Deciding(q, w)) => Settled(w))' /\ Told(w)'
  <2>1. \A q \in Requests \ {r} : ~Deciding(q, w)
    BY <1>3, <1>7 DEF Deciding, Seller
  <2>2. Told(w)
    BY <1>7 DEF InOrder
  <2>3. CASE w = req[r].of
    BY <2>2, <2>3 DEF Told, Announces
  <2>4. CASE w # req[r].of
    <3>1. Settled(w)
      BY <1>7, <2>1, <2>4 DEF InOrder, Deciding
    <3> QED
      BY <1>7, <2>2, <2>4, <3>1 DEF Settled, Told
  <2> QED
    BY <2>3, <2>4
<1> QED
  BY <1>4, <1>5, <1>6, <1>7 DEF InOrder

(* What finishing and going on do to the requests.                          *)
LEMMA RequestsNext ==
  ASSUME ReqTyped, NEW r \in Requests
  PROVE  /\ Finish(r) => /\ \A q \in Requests \ {r} : req'[q] = req[q]
                         /\ req'[r].phase = "idle"
         /\ \A p : Continue(r, p) =>
              /\ \A q \in Requests \ {r} : req'[q] = req[q]
              /\ req'[r].phase = p /\ req'[r].of = req[r].of
              /\ req'[r].target = req[r].target /\ req'[r].moves = req[r].moves
              /\ req'[r].refund = req[r].refund
              /\ p = "credit" => req'[r].copy = req[r].copy /\ req'[r].loads = req[r].loads
              /\ p \in {"credit", "decide", "notify"} => req'[r].rows = req[r].rows
<1>1. ASSUME Finish(r)
      PROVE  /\ \A q \in Requests \ {r} : req'[q] = req[q]
             /\ req'[r].phase = "idle"
  BY <1>1 DEF Finish, ReqTyped, Idle
<1>2. ASSUME NEW p, Continue(r, p)
      PROVE  /\ \A q \in Requests \ {r} : req'[q] = req[q]
             /\ req'[r].phase = p /\ req'[r].of = req[r].of
             /\ req'[r].target = req[r].target /\ req'[r].moves = req[r].moves
             /\ req'[r].refund = req[r].refund
             /\ p = "credit" => req'[r].copy = req[r].copy /\ req'[r].loads = req[r].loads
             /\ p \in {"credit", "decide", "notify"} => req'[r].rows = req[r].rows
  <2>1. req[r] \in Request
    BY DEF ReqTyped
  <2> QED
    BY <1>2, <2>1 DEF Continue, ReqTyped, Request
<1> QED
  BY <1>1, <1>2

(* A request that writes for another seller leaves the wallet of s in order.*)
LEMMA Elsewhere ==
  ASSUME ReqTyped, ReqTyped', NEW s \in Sellers, InOrder(s), NEW r \in Requests,
         Seller(r) # s, Finish(r) \/ (\E p : Continue(r, p)), Untouched(s)
  PROVE  InOrder(s)'
<1>1. /\ \A q \in Requests \ {r} : req'[q] = req[q]
      /\ req'[r].phase = "idle" \/ req'[r].of = req[r].of
  BY RequestsNext
<1>2. req'[r].phase = "idle" \/ Seller(r)' # s
  BY <1>1 DEF Seller
<1>3. ~Busy(r, s)'
  BY <1>2 DEF Busy
<1> QED
  BY <1>1, <1>2, <1>3, ReadStep

(* A request that starts on an undisturbed wallet has it to itself.         *)
LEMMA StartStep ==
  ASSUME ReqTyped, ReqTyped', NEW r \in Requests, NEW x \in Withdrawals \cup Sales,
         NEW j, j.of = x, Start(r, OwnerOf[x], j),
         NEW s \in Sellers \ disturbed', InOrder(s), Untouched(s),
         j.phase \in {"deduct", "adjust", "check", "notify"}
           \/ (j.phase = "decide" /\ ~j.moves),
         OwnerOf[x] = s => Reliable(r)'
  PROVE  InOrder(s)'
<1>1. req[r].phase = "idle" /\ req' = [req EXCEPT ![r] = j] /\ Contend(OwnerOf[x])
  BY DEF Start
<1>2. (\A q \in Requests \ {r} : req'[q] = req[q]) /\ req'[r] = j
  BY <1>1 DEF ReqTyped
<1>3. ~HalfDone(r)'
  BY <1>2 DEF HalfDone
<1>4. Busy(r, s)' => \A q \in Requests : ~Busy(q, s)
  BY <1>1, <1>2 DEF Busy, Seller, Contend
<1>5. Seller(r)' = OwnerOf[x]
  BY <1>2 DEF Seller
<1> QED
  BY <1>1, <1>2, <1>3, <1>4, <1>5, ReadStep

(* requestWithDrawal keeps an undisturbed wallet in order.                  *)
LEMMA OrderRequest ==
  ASSUME TypeOK, ReqTyped, ReqTyped', NEW r \in Requests, NEW w \in Withdrawals,
         NEW service \in Services, RequestWithdrawal(r, w, service),
         NEW s \in Sellers \ disturbed', InOrder(s)
  PROVE  InOrder(s)'
<1> DEFINE j == [Idle EXCEPT
                   !.phase = "deduct", !.of = w, !.copy = wallet[OwnerOf[w]],
                   !.loads = service = "WalletService",
                   !.rows  = IF service = "WalletService" THEN LinkedTo(OwnerOf[w]) ELSE {}]
<1>1. /\ j.phase = "deduct" /\ j.of = w /\ j.copy = wallet[OwnerOf[w]]
      /\ j.loads => j.rows = LinkedTo(OwnerOf[w])
  BY DEF Idle
<1>2. Start(r, OwnerOf[w], j) /\ status[w] = "none" /\ req[r].phase = "idle"
      /\ UNCHANGED <<wallet, status, creditRows, linked, notified, refunds, payouts>>
  BY DEF RequestWithdrawal, Start
<1> HIDE DEF j
<1>3. req'[r] = j
  BY <1>2 DEF Start, ReqTyped
<1>4. Reliable(r)'
  BY <1>1, <1>2, <1>3 DEF Reliable, Seller, LinkedTo
<1>5. Untouched(s)
  BY <1>2 DEF Untouched, LinkedTo
<1>6. PICK k : k = j
  OBVIOUS
<1>7. /\ k.of = w /\ Start(r, OwnerOf[w], k)
      /\ k.phase \in {"deduct", "adjust", "check", "notify"}
           \/ (k.phase = "decide" /\ ~k.moves)
  BY <1>1, <1>2, <1>6
<1> QED
  BY <1>4, <1>5, <1>7, StartStep

(* updateWithdrawalStatus and updateStatus: a decision starts.              *)
LEMMA OrderDecide ==
  ASSUME TypeOK, ReqTyped, ReqTyped', NEW r \in Requests, NEW w \in Withdrawals,
         NEW service \in Services, NEW target \in RowStatus,
         DecideWithdrawal(r, w, service, target),
         NEW s \in Sellers \ disturbed', InOrder(s)
  PROVE  InOrder(s)'
<1> DEFINE job(p) == [Idle EXCEPT !.phase = p, !.of = w, !.target = target,
                                  !.rows = linked \cap {w}]
           adjust == [job("adjust") EXCEPT !.refund = Refunds(service, target),
                                    !.moves = TRUE, !.copy = wallet[OwnerOf[w]]]
           j == IF Repeats(service, status[w], target) THEN job("notify")
                ELSE IF Moves(service, target) THEN adjust ELSE job("decide")
<1>1. ASSUME NEW p
      PROVE  /\ job(p).phase = p /\ job(p).of = w /\ job(p).target = target /\ ~job(p).moves
             /\ job(p).rows = linked \cap {w}
  BY DEF Idle
<1>2. /\ adjust.phase = "adjust" /\ adjust.of = w /\ adjust.target = target
      /\ adjust.moves /\ adjust.refund = Refunds(service, target)
      /\ adjust.copy = wallet[OwnerOf[w]] /\ ~adjust.loads
      /\ adjust.rows = linked \cap {w}
  BY DEF Idle
<1>3. Start(r, OwnerOf[w], j) /\ status[w] # "none"
      /\ (Repeats(service, status[w], target) \/ Open(service, status[w]))
      /\ UNCHANGED <<wallet, status, creditRows, linked, notified, refunds, payouts>>
  BY DEF DecideWithdrawal
<1> HIDE DEF job, adjust
<1>4. /\ j.of = w /\ j.target = target
      /\ j.phase \in {"adjust", "notify"} \/ (j.phase = "decide" /\ ~j.moves)
      /\ j.phase = "notify" => Repeats(service, status[w], target)
      /\ j.phase # "notify" => ~Repeats(service, status[w], target)
      /\ j.phase = "adjust" => j = adjust /\ Moves(service, target)
      /\ j.phase = "decide" => ~Moves(service, target)
      /\ j.rows = linked \cap {w}
  <2>1. /\ job("notify").phase = "notify" /\ job("notify").of = w
        /\ job("notify").target = target /\ job("notify").rows = linked \cap {w}
    BY <1>1
  <2>2. /\ job("decide").phase = "decide" /\ job("decide").of = w
        /\ job("decide").target = target /\ ~job("decide").moves
        /\ job("decide").rows = linked \cap {w}
    BY <1>1
  <2>3. CASE Repeats(service, status[w], target)
    <3>1. j = job("notify")
      BY <2>3
    <3> HIDE DEF j
    <3> QED
      BY <2>1, <2>3, <3>1
  <2>4. CASE ~Repeats(service, status[w], target) /\ Moves(service, target)
    <3>1. j = adjust
      BY <2>4
    <3> HIDE DEF j
    <3> QED
      BY <1>2, <2>4, <3>1
  <2>5. CASE ~Repeats(service, status[w], target) /\ ~Moves(service, target)
    <3>1. j = job("decide")
      BY <2>5
    <3> HIDE DEF j
    <3> QED
      BY <2>2, <2>5, <3>1
  <2> QED
    BY <2>3, <2>4, <2>5
<1>5. /\ j.phase = "notify" => target = status[w]
      /\ j.phase \in {"adjust", "decide"} => status[w] \in {"pending", "approved"}
      /\ j.phase = "decide" => target \in {"pending", "approved", "cancelled"}
      /\ j.phase = "adjust" => target \in (IF j.refund THEN {"rejected", "cancelled"}
                                                       ELSE {"paid"})
  <2>1. j.phase = "notify" => target = status[w]
    BY <1>4 DEF Repeats
  <2>2. j.phase \in {"adjust", "decide"} => status[w] \in {"pending", "approved"}
    BY <1>3, <1>4 DEF Open
  <2>3. j.phase = "decide" => target \in {"pending", "approved", "cancelled"}
    BY <1>4 DEF Moves, Refunds, RowStatus
  <2>4. j.phase = "adjust" => target \in (IF j.refund THEN {"rejected", "cancelled"}
                                                      ELSE {"paid"})
    BY <1>2, <1>4 DEF Moves, Refunds
  <2> QED
    BY <2>1, <2>2, <2>3, <2>4
<1> HIDE DEF j
<1>6. req'[r] = j
  BY <1>3 DEF Start, ReqTyped
<1>7. OwnerOf[w] = s => Reliable(r)'
  <2>1. OwnerOf[w] = s => linked \cap {w} = {w}
    BY <1>3 DEF InOrder, Attached, LinkedTo
  <2> QED
    BY <1>2, <1>3, <1>4, <1>5, <1>6, <2>1 DEF Reliable, Seller
<1>8. Untouched(s)
  BY <1>3 DEF Untouched, LinkedTo
<1>9. PICK k : k = j
  OBVIOUS
<1>10. /\ k.of = w /\ Start(r, OwnerOf[w], k)
       /\ k.phase \in {"deduct", "adjust", "check", "notify"}
            \/ (k.phase = "decide" /\ ~k.moves)
  BY <1>3, <1>4, <1>9
<1> QED
  BY <1>7, <1>8, <1>10, StartStep

(* creditFromOrder reads the wallet, then looks for the row.                *)
LEMMA OrderCreditRead ==
  ASSUME TypeOK, ReqTyped, ReqTyped', NEW r \in Requests, NEW c \in Sales,
         CreditRead(r, c), NEW s \in Sellers \ disturbed', InOrder(s)
  PROVE  InOrder(s)'
<1> DEFINE j == [Idle EXCEPT !.phase = "check", !.of = c, !.copy = wallet[OwnerOf[c]],
                             !.loads = TRUE, !.rows = LinkedTo(OwnerOf[c])]
<1>1. /\ j.phase = "check" /\ j.of = c /\ j.copy = wallet[OwnerOf[c]]
      /\ j.rows = LinkedTo(OwnerOf[c])
  BY DEF Idle
<1>2. Start(r, OwnerOf[c], j)
      /\ UNCHANGED <<wallet, status, creditRows, linked, notified, refunds, payouts>>
  BY DEF CreditRead
<1> HIDE DEF j
<1>3. req'[r] = j
  BY <1>2 DEF Start, ReqTyped
<1>4. Reliable(r)'
  BY <1>1, <1>2, <1>3 DEF Reliable, Seller, LinkedTo
<1>5. Untouched(s)
  BY <1>2 DEF Untouched, LinkedTo
<1>6. PICK k : k = j
  OBVIOUS
<1>7. /\ k.of = c /\ Start(r, OwnerOf[c], k)
      /\ k.phase \in {"deduct", "adjust", "check", "notify"}
           \/ (k.phase = "decide" /\ ~k.moves)
  BY <1>1, <1>2, <1>6
<1> QED
  BY <1>4, <1>5, <1>7, StartStep

LEMMA OrderCreditCheck ==
  ASSUME TypeOK, ReqTyped, ReqTyped', NEW r \in Requests, CreditCheck(r),
         NEW s \in Sellers \ disturbed', InOrder(s)
  PROVE  InOrder(s)'
<1>1. Untouched(s) /\ wallet' = wallet /\ linked' = linked
  BY DEF CreditCheck, Untouched, history, LinkedTo
<1>2. /\ \A q \in Requests \ {r} : req'[q] = req[q]
      /\ \/ req'[r].phase = "idle"
         \/ /\ req'[r].phase = "credit" /\ req'[r].of = req[r].of
            /\ req'[r].copy = req[r].copy /\ req'[r].loads = req[r].loads
            /\ req'[r].rows = req[r].rows /\ req[r].of \notin linked
  BY RequestsNext DEF CreditCheck, HasCredit
<1>3. req[r].phase = "check"
  BY DEF CreditCheck
<1>4. ~HalfDone(r) /\ ~HalfDone(r)'
  BY <1>2, <1>3 DEF HalfDone
<1>5. Busy(r, s)' => Busy(r, s)
  BY <1>2, <1>3 DEF Busy, Seller
<1>6. (req[r].phase # "idle" /\ Seller(r) = s => Reliable(r))'
  BY <1>1, <1>2, <1>3 DEF Reliable, Seller, InOrder, LinkedTo
<1> QED
  BY <1>1, <1>2, <1>4, <1>5, <1>6, ReadStep

(* A crash that leaves something half done disturbs the wallet; any other   *)
(* leaves it in order.                                                      *)
LEMMA OrderBreakOff ==
  ASSUME TypeOK, ReqTyped, ReqTyped', NEW r \in Requests, BreakOff(r),
         NEW s \in Sellers \ disturbed', InOrder(s)
  PROVE  InOrder(s)'
<1>1. Untouched(s)
  BY DEF BreakOff, Untouched, LinkedTo
<1>2. (\A q \in Requests \ {r} : req'[q] = req[q]) /\ req'[r].phase = "idle"
  BY RequestsNext DEF BreakOff
<1>3. Seller(r) = s => ~HalfDone(r)
  BY DEF BreakOff
<1>4. ~Busy(r, s)' /\ ~HalfDone(r)'
  BY <1>2 DEF Busy, HalfDone
<1> QED
  BY <1>1, <1>2, <1>3, <1>4, ReadStep

(* notifyWithdrawalStatus announces what the row says.                      *)
LEMMA OrderNotify ==
  ASSUME TypeOK, ReqTyped, ReqTyped', NEW r \in Requests, Notify(r),
         NEW s \in Sellers \ disturbed', InOrder(s)
  PROVE  InOrder(s)'
<1>1. req[r].phase = "notify" /\ Finish(r)
      /\ UNCHANGED <<wallet, status, creditRows, linked, refunds, payouts>>
  BY DEF Notify, history
<1>2. Untouched(s)
  <2>1. \A w \in Withdrawals, st \in {"paid", "rejected"} : <<w, st>> \in notified' =>
          <<w, st>> \in notified \/ (w = req[r].of /\ st = req[r].target /\ Announces(st))
    BY DEF Notify
  <2>2. Seller(r) = s /\ Announces(req[r].target) => status[req[r].of] = req[r].target
    BY <1>1 DEF InOrder, Reliable
  <2> QED
    BY <1>1, <2>1, <2>2 DEF Untouched, Seller, LinkedTo
<1>3. (\A q \in Requests \ {r} : req'[q] = req[q]) /\ req'[r].phase = "idle"
  BY <1>1, RequestsNext
<1>4. ~HalfDone(r) /\ ~HalfDone(r)' /\ ~Busy(r, s)'
  BY <1>1, <1>3 DEF Busy, HalfDone
<1> QED
  BY <1>2, <1>3, <1>4, ReadStep

(* The rows a request saves with a wallet are of its seller.                *)
OwnRows == \A q \in Requests : \A x \in req[q].rows : OwnerOf[x] = Seller(q)

(* Saving a wallet leaves the rows of other sellers alone, and those of its *)
(* own where the copy has them as they are.                                 *)
LEMMA SaveLinks ==
  ASSUME OwnRows, NEW r \in Requests, NEW w, SaveWallet(r, w), NEW s,
         Seller(r) = s /\ req[r].loads => req[r].rows = LinkedTo(s)
  PROVE  LinkedTo(s)' = LinkedTo(s)
<1>1. linked' = IF req[r].loads THEN (linked \ LinkedTo(Seller(r))) \cup req[r].rows
                               ELSE linked
  BY DEF SaveWallet
<1>2. \A x \in req[r].rows : OwnerOf[x] = Seller(r)
  BY DEF OwnRows
<1> QED
  BY <1>1, <1>2 DEF LinkedTo

(* The rows of a seller whose withdrawals and sales keep theirs.            *)
LEMMA AttachedAgain ==
  ASSUME NEW s, Attached(s), LinkedTo(s)' = LinkedTo(s), creditRows' = creditRows,
         \A w \in Withdrawals : OwnerOf[w] = s => (status'[w] = "none" <=> status[w] = "none")
  PROVE  Attached(s)'
BY DEF Attached

(* A request at work with a wallet, and the amounts in it.                  *)
LEMMA WorkOn ==
  ASSUME TypeOK, ReqTyped, NEW r \in Requests,
         req[r].phase \in {"deduct", "insert", "adjust", "decide", "credit", "record"}
  PROVE  /\ Busy(r, Seller(r)) /\ Seller(r) \in Sellers /\ req[r] \in Request
         /\ req[r].of \in Withdrawals \cup Sales
         /\ req[r].phase \in {"deduct", "insert", "adjust", "decide"}
              => req[r].of \in Withdrawals
         /\ req[r].phase \in {"credit", "record"} => req[r].of \in Sales
         /\ AmountOf[req[r].of] \in Int
         /\ \A s \in Sellers : /\ wallet[s].balance \in Int /\ wallet[s].pending \in Int
                               /\ wallet[s].earned \in Int
BY SubjectType DEF TypeOK, ReqTyped, Fits, Busy, Seller, Wallet

(* requestWithDrawal takes the amount from the balance ...                  *)
LEMMA OrderDeduct ==
  ASSUME TypeOK, OwnRows, ReqTyped, ReqTyped', NEW r \in Requests, DeductSave(r),
         NEW s \in Sellers, InOrder(s)
  PROVE  InOrder(s)'
<1>1. req[r].phase = "deduct" /\ Continue(r, "insert")
      /\ SaveWallet(r, Deducted(req[r].copy, AmountOf[req[r].of]))
      /\ UNCHANGED <<status, creditRows, notified, refunds, payouts>>
  BY DEF DeductSave, history
<1>2. Busy(r, Seller(r)) /\ Seller(r) \in Sellers /\ req[r].of \in Withdrawals
  BY <1>1, WorkOn
<1>3. CASE Seller(r) # s
  <2>1. Untouched(s)
    BY <1>1, <1>2, <1>3, SaveLinks DEF Untouched, SaveWallet, TypeOK
  <2> QED
    BY <1>1, <1>3, <2>1, Elsewhere
<1>4. CASE Seller(r) = s
  <2>1. PICK a : a = AmountOf[req[r].of]
    OBVIOUS
  <2>2. /\ wallet[s].balance \in Int /\ wallet[s].pending \in Int /\ wallet[s].earned \in Int
        /\ a \in Int
    BY <1>1, <2>1, WorkOn
  <2>3. Reliable(r) /\ Books(s, 0, 0)
    BY <1>1, <1>2, <1>4, <2>1, BooksBefore DEF InOrder, Ahead
  <2>4. wallet'[s] = Deducted(wallet[s], a)
    BY <1>1, <1>4, <2>1, <2>3 DEF Reliable, SaveWallet, TypeOK
  <2>12. LinkedTo(s)' = LinkedTo(s)
    BY <1>1, <1>4, <2>3, SaveLinks DEF Reliable
  <2>13. Attached(s)'
    BY <1>1, <2>12, AttachedAgain DEF InOrder
  <2>5. /\ wallet'[s].earned = wallet[s].earned
        /\ wallet'[s].balance = wallet[s].balance - a
        /\ wallet'[s].pending = wallet[s].pending + a
    <3>1. wallet[s] \in Wallet
      BY DEF TypeOK
    <3> QED
      BY <2>4, <3>1 DEF Deducted, Wallet
  <2>6. Sold(s)' = Sold(s) /\ Asked(s)' = Asked(s) /\ Back(s)' = Back(s) /\ Left(s)' = Left(s)
    BY <1>1, SumsStay
  <2>7. Sold(s) \in Int /\ Asked(s) \in Int /\ Back(s) \in Int /\ Left(s) \in Int
    BY SumsTyped
  <2>8. Books(s, a, 0)'
    BY <2>2, <2>3, <2>5, <2>6, <2>7 DEF Books
  <2>9. /\ \A q \in Requests \ {r} : req'[q] = req[q]
        /\ req'[r].phase = "insert" /\ req'[r].of = req[r].of
    BY <1>1, RequestsNext
  <2>10. Reliable(r)'
    BY <1>1, <2>3, <2>9 DEF Reliable
  <2>11. \A w \in Withdrawals : w = req[r].of => Settled(w)'
    <3>1. ASSUME NEW w \in Withdrawals, w = req[r].of PROVE Settled(w)
      <4>1. \A q \in Requests : ~Deciding(q, w)
        BY <1>1, <1>4, <3>1, OthersNotify, <1>2 DEF Deciding, InOrder, Seller
      <4> QED
        BY <1>4, <3>1, <4>1 DEF InOrder, Seller
    <3> QED
      BY <1>1, <3>1 DEF Settled
  <2> QED
    BY <1>1, <1>2, <1>4, <2>1, <2>8, <2>9, <2>10, <2>11, <2>13, WriteStep
<1> QED
  BY <1>3, <1>4

(* No other request is about to write the decision it has carried out.      *)
LEMMA SettledBefore ==
  ASSUME ReqTyped, NEW s, InOrder(s), NEW r \in Requests, Busy(r, s),
         NEW w \in Withdrawals, OwnerOf[w] = s, ~Deciding(r, w)
  PROVE  Settled(w)
<1>1. \A q \in Requests : ~Deciding(q, w)
  BY OthersNotify DEF Deciding, InOrder, Seller
<1> QED
  BY <1>1 DEF InOrder

(* ... and writes the row of the withdrawal.                                *)
LEMMA OrderInsert ==
  ASSUME TypeOK, ReqTyped, ReqTyped', NEW r \in Requests, InsertRequest(r),
         NEW s \in Sellers, InOrder(s)
  PROVE  InOrder(s)'
<1>1. req[r].phase = "insert" /\ Finish(r)
      /\ status' = [status EXCEPT ![req[r].of] = "pending"]
      /\ linked' = linked \cup {req[r].of}
      /\ UNCHANGED <<wallet, creditRows, notified, refunds, payouts>>
  BY DEF InsertRequest, history
<1>2. Busy(r, Seller(r)) /\ Seller(r) \in Sellers /\ req[r].of \in Withdrawals
  BY <1>1, WorkOn
<1>3. CASE Seller(r) # s
  <2>1. Untouched(s)
    BY <1>1, <1>2, <1>3 DEF Untouched, Seller, TypeOK, LinkedTo
  <2> QED
    BY <1>1, <1>3, <2>1, Elsewhere
<1>4. CASE Seller(r) = s
  <2>1. PICK w \in Withdrawals : w = req[r].of
    BY <1>2
  <2>2. PICK a : a = AmountOf[w]
    OBVIOUS
  <2>3. /\ wallet[s].balance \in Int /\ wallet[s].pending \in Int /\ wallet[s].earned \in Int
        /\ a \in Int /\ OwnerOf[w] = s
    BY <1>1, <1>4, <2>1, <2>2, WorkOn DEF Seller
  <2>4. status[w] = "none" /\ Books(s, a, 0)
    BY <1>1, <1>2, <1>4, <2>1, <2>2, BooksBefore DEF InOrder, Reliable
  <2>5. refunds[w] = 0 /\ payouts[w] = 0
    BY <1>1, <1>2, <1>4, <2>1, <2>3, <2>4, SettledBefore DEF Deciding, Settled
  <2>6. status'[w] = "pending" /\ \A v \in Withdrawals \ {w} : status'[v] = status[v]
    BY <1>1, <2>1 DEF TypeOK
  <2>7. Requested(s)' = Requested(s) \cup {w} /\ w \notin Requested(s)
    BY <2>3, <2>4, <2>6 DEF Requested
  <2>8. /\ \A v \in Requested(s) \cup {w} : Once[v] \in Int /\ refunds[v] \in Int /\ Gone[v] \in Int
        /\ Once[w] = 1 /\ refunds[w] = 0 /\ Gone[w] = 0
    BY <2>5 DEF TypeOK, Requested, Once, Gone
  <2>9. Once' = Once /\ Gone' = Gone
    BY <1>1 DEF Once, Gone
  <2>10. /\ Total(Requested(s) \cup {w}, Once) = Total(Requested(s), Once) + a
         /\ Total(Requested(s) \cup {w}, refunds) = Total(Requested(s), refunds)
         /\ Total(Requested(s) \cup {w}, Gone) = Total(Requested(s), Gone)
    <3>1. w \in Withdrawals \cup Sales /\ IsFiniteSet(Requested(s))
          /\ Requested(s) \in SUBSET (Withdrawals \cup Sales)
      BY RowsOf
    <3>2. Total(Requested(s) \cup {w}, Once) = Total(Requested(s), Once) + a
      BY <2>2, <2>7, <2>8, <3>1, TotalJoin
    <3>3. Total(Requested(s) \cup {w}, refunds) = Total(Requested(s), refunds)
      BY <2>7, <2>8, <3>1, TotalJoin
    <3>4. Total(Requested(s) \cup {w}, Gone) = Total(Requested(s), Gone)
      BY <2>7, <2>8, <3>1, TotalJoin
    <3> QED
      BY <3>2, <3>3, <3>4
  <2>11. /\ Sold(s)' = Sold(s) /\ Asked(s)' = Asked(s) + a
         /\ Back(s)' = Back(s) /\ Left(s)' = Left(s)
    <3>1. Asked(s)' = Total(Requested(s) \cup {w}, Once)
      BY <2>7, <2>9 DEF Asked, Total
    <3>2. Back(s)' = Total(Requested(s) \cup {w}, refunds)
      BY <1>1, <2>7 DEF Back, Total
    <3>3. Left(s)' = Total(Requested(s) \cup {w}, Gone)
      BY <2>7, <2>9 DEF Left, Total
    <3>4. Sold(s)' = Sold(s)
      BY <1>1 DEF Sold, Total, SalesOf
    <3> QED
      BY <2>10, <3>1, <3>2, <3>3, <3>4 DEF Asked, Back, Left
  <2>12. Sold(s) \in Int /\ Asked(s) \in Int /\ Back(s) \in Int /\ Left(s) \in Int
    BY SumsTyped
  <2>13. Books(s, 0, 0)'
    BY <1>1, <2>3, <2>4, <2>11, <2>12 DEF Books
  <2>14. /\ \A q \in Requests \ {r} : req'[q] = req[q]
         /\ req'[r].phase = "idle"
    BY <1>1, RequestsNext
  <2>16. LinkedTo(s)' = LinkedTo(s) \cup {w}
    BY <1>1, <2>1, <2>3 DEF LinkedTo
  <2>17. Attached(s)'
    <3>1. w \notin Sales
      BY WithdrawalsAssumption
    <3>2. Attached(s) /\ creditRows' = creditRows
      BY <1>1 DEF InOrder
    <3> QED
      BY <2>6, <2>16, <3>1, <3>2 DEF Attached
  <2>15. Settled(w)' /\ ~Announces(status[w])
    BY <1>1, <2>4, <2>5, <2>6 DEF Settled, Announces
  <2> QED
    BY <1>1, <1>2, <1>4, <2>1, <2>2, <2>6, <2>13, <2>14, <2>15, <2>17, WriteStep
<1> QED
  BY <1>3, <1>4

(* A decision that moves money writes the wallet ...                        *)
LEMMA OrderAdjust ==
  ASSUME TypeOK, OwnRows, ReqTyped, ReqTyped', NEW r \in Requests, AdjustSave(r),
         NEW s \in Sellers, InOrder(s)
  PROVE  InOrder(s)'
<1>1. req[r].phase = "adjust" /\ Continue(r, "decide")
      /\ SaveWallet(r, Adjusted(req[r].copy, AmountOf[req[r].of], req[r].refund))
      /\ UNCHANGED <<status, creditRows, notified>>
  BY DEF AdjustSave
<1>2. Busy(r, Seller(r)) /\ Seller(r) \in Sellers /\ req[r].of \in Withdrawals
      /\ req[r] \in Request
  BY <1>1, WorkOn
<1>3. PICK w \in Withdrawals : w = req[r].of
  BY <1>2
<1>4. /\ req[r].refund => refunds' = [refunds EXCEPT ![w] = @ + 1] /\ payouts' = payouts
      /\ ~req[r].refund => payouts' = [payouts EXCEPT ![w] = @ + 1] /\ refunds' = refunds
  BY <1>3 DEF AdjustSave
<1>5. \A v \in Withdrawals \ {w} : refunds'[v] = refunds[v] /\ payouts'[v] = payouts[v]
  BY <1>4 DEF TypeOK
<1>6. CASE Seller(r) # s
  <2>1. Untouched(s)
    BY <1>1, <1>2, <1>3, <1>5, <1>6, SaveLinks DEF Untouched, SaveWallet, Seller, TypeOK
  <2> QED
    BY <1>1, <1>6, <2>1, Elsewhere
<1>7. CASE Seller(r) = s
  <2>1. PICK a : a = AmountOf[w]
    OBVIOUS
  <2>2. /\ wallet[s].balance \in Int /\ wallet[s].pending \in Int /\ wallet[s].earned \in Int
        /\ a \in Int /\ OwnerOf[w] = s
    BY <1>1, <1>3, <1>7, <2>1, WorkOn DEF Seller
  <2>3. Reliable(r) /\ Books(s, 0, 0)
    BY <1>1, <1>2, <1>3, <1>7, <2>1, BooksBefore DEF InOrder, Ahead
  <2>4. status[w] \in {"pending", "approved"}
    BY <1>1, <1>3, <2>3 DEF Reliable
  <2>5. refunds[w] = 0 /\ payouts[w] = 0
    BY <1>1, <1>2, <1>7, <2>2, <2>4, SettledBefore DEF Deciding, Settled
  <2>6. wallet'[s] = Adjusted(wallet[s], a, req[r].refund)
    BY <1>1, <1>3, <1>7, <2>1, <2>3 DEF Reliable, SaveWallet, TypeOK
  <2>23. LinkedTo(s)' = LinkedTo(s)
    BY <1>1, <1>7, <2>3, SaveLinks DEF Reliable
  <2>24. Attached(s)'
    BY <1>1, <2>23, AttachedAgain DEF InOrder
  <2>7. w \in Requested(s)
    BY <2>2, <2>4 DEF Requested
  <2>8. \A v \in Requested(s) : refunds[v] \in Int /\ Gone[v] \in Int
    BY DEF TypeOK, Requested, Gone
  <2>9. Gone'[w] = Gone[w] + 1 /\ \A v \in Requested(s) \ {w} : Gone'[v] = Gone[v]
    <3>1. Gone'[w] = refunds'[w] + payouts'[w] /\ Gone[w] = refunds[w] + payouts[w]
      BY DEF Gone
    <3>2. refunds'[w] + payouts'[w] = 1
      BY <1>2, <1>4, <2>5 DEF TypeOK, Request
    <3>3. \A v \in Requested(s) \ {w} : Gone'[v] = Gone[v]
      BY <1>5 DEF Requested, Gone
    <3> QED
      BY <2>5, <3>1, <3>2, <3>3
  <2>10. PICK g : g = Gone'
    OBVIOUS
  <2>11. Total(Requested(s), g) = Total(Requested(s), Gone) + a
    BY <2>1, <2>7, <2>8, <2>9, <2>10, RowsOf, TotalOneMore
  <2>12. PICK b : b = refunds'
    OBVIOUS
  <2>13. Total(Requested(s), b) = Total(Requested(s), refunds) + (IF req[r].refund THEN a ELSE 0)
    <3>1. CASE req[r].refund
      <4>1. b[w] = refunds[w] + 1 /\ \A v \in Requested(s) \ {w} : b[v] = refunds[v]
        BY <1>4, <1>5, <2>12, <3>1 DEF TypeOK, Requested
      <4>2. Total(Requested(s), b) = Total(Requested(s), refunds) + a
        BY <2>1, <2>7, <2>8, <4>1, RowsOf, TotalOneMore
      <4> QED
        BY <3>1, <4>2
    <3>2. CASE ~req[r].refund
      <4>1. b = refunds
        BY <1>4, <2>12, <3>2
      <4>2. Total(Requested(s), refunds) \in Int
        BY SumsTyped DEF Back
      <4> QED
        BY <3>2, <4>1, <4>2
    <3> QED
      BY <3>1, <3>2
  <2>14. /\ Sold(s)' = Sold(s) /\ Asked(s)' = Asked(s) /\ Left(s)' = Left(s) + a
         /\ Back(s)' = Back(s) + (IF req[r].refund THEN a ELSE 0)
    <3>1. Requested(s)' = Requested(s) /\ SalesOf(s)' = SalesOf(s) /\ Once' = Once
      BY <1>1 DEF Requested, SalesOf, Once
    <3>2. Sold(s)' = Sold(s) /\ Asked(s)' = Asked(s)
      BY <1>1, <3>1 DEF Sold, Asked, Total
    <3>3. Left(s)' = Total(Requested(s), g) /\ Back(s)' = Total(Requested(s), b)
      BY <2>10, <2>12, <3>1 DEF Left, Back, Total
    <3> QED
      BY <2>11, <2>13, <3>2, <3>3 DEF Left, Back
  <2>15. Sold(s) \in Int /\ Asked(s) \in Int /\ Back(s) \in Int /\ Left(s) \in Int
    BY SumsTyped
  <2>16. /\ wallet'[s].earned = wallet[s].earned
         /\ wallet'[s].balance = wallet[s].balance + (IF req[r].refund THEN a ELSE 0)
         /\ wallet'[s].pending = wallet[s].pending - a
    <3>1. wallet[s] \in Wallet
      BY DEF TypeOK
    <3> QED
      BY <2>2, <2>6, <3>1 DEF Adjusted, Wallet
  <2>17. Books(s, 0, 0)'
    <3>1. CASE req[r].refund
      BY <2>2, <2>3, <2>14, <2>15, <2>16, <3>1 DEF Books
    <3>2. CASE ~req[r].refund
      BY <2>2, <2>3, <2>14, <2>15, <2>16, <3>2 DEF Books
    <3> QED
      BY <3>1, <3>2
  <2>18. /\ \A q \in Requests \ {r} : req'[q] = req[q]
         /\ req'[r].phase = "decide" /\ req'[r].of = w
         /\ req'[r].target = req[r].target /\ req'[r].moves = req[r].moves
         /\ req'[r].rows = req[r].rows
    BY <1>1, <1>3, RequestsNext
  <2>19. req[r].moves /\ req[r].target \in (IF req[r].refund THEN {"rejected", "cancelled"}
                                                              ELSE {"paid"})
    BY <1>1, <2>3 DEF Reliable
  <2>20. /\ req[r].refund => refunds'[w] = 1 /\ payouts'[w] = 0
         /\ ~req[r].refund => refunds'[w] = 0 /\ payouts'[w] = 1
    BY <1>4, <2>5 DEF TypeOK
  <2>21. Reliable(r)'
    BY <1>1, <1>3, <2>3, <2>4, <2>18, <2>19, <2>20 DEF Reliable
  <2>22. Deciding(r, w)'
    BY <2>18, <2>19 DEF Deciding
  <2> QED
    BY <1>1, <1>2, <1>3, <1>5, <1>7, <2>1, <2>17, <2>18, <2>21, <2>22, <2>24, WriteStep
<1> QED
  BY <1>6, <1>7

(* ... and then the row: what was done is what is written.                  *)
LEMMA OrderDecideSave ==
  ASSUME TypeOK, OwnRows, ReqTyped, ReqTyped', NEW r \in Requests, DecideSave(r),
         NEW s \in Sellers, InOrder(s)
  PROVE  InOrder(s)'
<1>1. req[r].phase = "decide" /\ Continue(r, "notify")
      /\ status' = [status EXCEPT ![req[r].of] = req[r].target]
      /\ linked' = (linked \ {req[r].of}) \cup req[r].rows
      /\ UNCHANGED <<wallet, creditRows, notified, refunds, payouts>>
  BY DEF DecideSave, history
<1>2. Busy(r, Seller(r)) /\ Seller(r) \in Sellers /\ req[r].of \in Withdrawals
      /\ req[r] \in Request
  BY <1>1, WorkOn
<1>3. PICK w \in Withdrawals : w = req[r].of
  BY <1>2
<1>4. status'[w] = req[r].target /\ \A v \in Withdrawals \ {w} : status'[v] = status[v]
  BY <1>1, <1>3 DEF TypeOK
<1>5. CASE Seller(r) # s
  <2>1. Untouched(s)
    <3>1. \A x \in req[r].rows \cup {w} : OwnerOf[x] # s
      BY <1>3, <1>5 DEF OwnRows, Seller
    <3>2. LinkedTo(s)' = LinkedTo(s)
      BY <1>1, <1>3, <3>1 DEF LinkedTo
    <3> QED
      BY <1>1, <1>3, <1>4, <1>5, <3>2 DEF Untouched, Seller
  <2> QED
    BY <1>1, <1>5, <2>1, Elsewhere
<1>6. CASE Seller(r) = s
  <2>1. PICK a : a = AmountOf[w]
    OBVIOUS
  <2>2. Reliable(r) /\ Books(s, 0, 0) /\ OwnerOf[w] = s
    BY <1>1, <1>2, <1>3, <1>6, <2>1, BooksBefore DEF InOrder, Ahead, Seller
  <2>3. status[w] \in {"pending", "approved"} /\ req[r].target # "none"
    BY <1>1, <1>2, <1>3, <2>2 DEF Reliable, Request, RowStatus
  <2>4. \A v \in Withdrawals : status'[v] = "none" <=> status[v] = "none"
    BY <1>4, <2>3
  <2>11. Attached(s)'
    <3>1. w \in linked /\ req[r].rows = {w}
      BY <1>1, <1>3, <2>2, <2>3 DEF InOrder, Attached, Reliable, LinkedTo
    <3>2. linked' = linked
      BY <1>1, <1>3, <3>1
    <3>3. LinkedTo(s)' = LinkedTo(s)
      BY <3>2 DEF LinkedTo
    <3> QED
      BY <1>1, <2>4, <3>3, AttachedAgain DEF InOrder
  <2>5. Sold(s)' = Sold(s) /\ Asked(s)' = Asked(s) /\ Back(s)' = Back(s) /\ Left(s)' = Left(s)
    BY <1>1, <2>4, SumsStay
  <2>6. Books(s, 0, 0)'
    BY <1>1, <2>2, <2>5 DEF Books
  <2>7. /\ \A q \in Requests \ {r} : req'[q] = req[q]
        /\ req'[r].phase = "notify" /\ req'[r].of = w
        /\ req'[r].target = req[r].target
    BY <1>1, <1>3, RequestsNext
  <2>8. Reliable(r)'
    BY <1>4, <2>7 DEF Reliable
  <2>9. Settled(w)'
    <3>1. CASE req[r].moves
      BY <1>1, <1>3, <1>4, <2>2, <3>1 DEF Reliable, Settled
    <3>2. CASE ~req[r].moves
      <4>1. Settled(w) /\ req[r].target \in {"pending", "approved", "cancelled"}
        BY <1>1, <1>2, <1>3, <1>6, <2>2, <3>2, SettledBefore DEF Reliable, Deciding
      <4> QED
        BY <1>1, <1>4, <2>3, <4>1 DEF Settled
    <3> QED
      BY <3>1, <3>2
  <2>10. ~Announces(status[w])
    BY <2>3 DEF Announces
  <2> QED
    BY <1>1, <1>2, <1>3, <1>4, <1>6, <2>1, <2>6, <2>7, <2>8, <2>9, <2>10, <2>11, WriteStep
<1> QED
  BY <1>5, <1>6

(* creditFromOrder without a manager: the wallet ...                        *)
LEMMA OrderCreditSave ==
  ASSUME TypeOK, OwnRows, ReqTyped, ReqTyped', NEW r \in Requests, CreditSave(r),
         NEW s \in Sellers, InOrder(s)
  PROVE  InOrder(s)'
<1>1. req[r].phase = "credit" /\ Continue(r, "record")
      /\ SaveWallet(r, Credited(req[r].copy, AmountOf[req[r].of]))
      /\ UNCHANGED <<status, creditRows, notified, refunds, payouts>>
  BY DEF CreditSave, history
<1>2. Busy(r, Seller(r)) /\ Seller(r) \in Sellers /\ req[r].of \in Sales
  BY <1>1, WorkOn
<1>3. CASE Seller(r) # s
  <2>1. Untouched(s)
    BY <1>1, <1>2, <1>3, SaveLinks DEF Untouched, SaveWallet, TypeOK
  <2> QED
    BY <1>1, <1>3, <2>1, Elsewhere
<1>4. CASE Seller(r) = s
  <2>1. PICK a : a = AmountOf[req[r].of]
    OBVIOUS
  <2>2. /\ wallet[s].balance \in Int /\ wallet[s].pending \in Int /\ wallet[s].earned \in Int
        /\ a \in Int
    BY <1>1, <2>1, WorkOn
  <2>3. Reliable(r) /\ Books(s, 0, 0)
    BY <1>1, <1>2, <1>4, <2>1, BooksBefore DEF InOrder, Ahead
  <2>4. wallet'[s] = Credited(wallet[s], a)
    BY <1>1, <1>4, <2>1, <2>3 DEF Reliable, SaveWallet, TypeOK
  <2>12. LinkedTo(s)' = LinkedTo(s)
    BY <1>1, <1>4, <2>3, SaveLinks DEF Reliable
  <2>13. Attached(s)'
    BY <1>1, <2>12, AttachedAgain DEF InOrder
  <2>5. /\ wallet'[s].earned = wallet[s].earned + a
        /\ wallet'[s].balance = wallet[s].balance + a
        /\ wallet'[s].pending = wallet[s].pending
    <3>1. wallet[s] \in Wallet
      BY DEF TypeOK
    <3> QED
      BY <2>4, <3>1 DEF Credited, Wallet
  <2>6. Sold(s)' = Sold(s) /\ Asked(s)' = Asked(s) /\ Back(s)' = Back(s) /\ Left(s)' = Left(s)
    BY <1>1, SumsStay
  <2>7. Sold(s) \in Int /\ Asked(s) \in Int /\ Back(s) \in Int /\ Left(s) \in Int
    BY SumsTyped
  <2>8. Books(s, 0, a)'
    BY <2>2, <2>3, <2>5, <2>6, <2>7 DEF Books
  <2>9. /\ \A q \in Requests \ {r} : req'[q] = req[q]
        /\ req'[r].phase = "record" /\ req'[r].of = req[r].of
    BY <1>1, RequestsNext
  <2>10. Reliable(r)'
    <3>1. req[r].of \notin LinkedTo(s)
      BY <1>1, <1>4, <2>3 DEF Reliable
    <3>2. LinkedTo(Seller(r))' = LinkedTo(s)
      BY <1>4, <2>9, <2>12 DEF LinkedTo, Seller
    <3> QED
      BY <2>9, <3>1, <3>2 DEF Reliable
  <2>11. \A w \in Withdrawals : w # req[r].of
    BY <1>2, WithdrawalsAssumption
  <2> QED
    BY <1>1, <1>2, <1>4, <2>1, <2>8, <2>9, <2>10, <2>11, <2>13, WriteStep
<1> QED
  BY <1>3, <1>4

(* One more CREDIT row of a sale adds its amount to the seller's sales.     *)
LEMMA OneMoreSold ==
  ASSUME TypeOK, NEW c \in Sales, creditRows' = [creditRows EXCEPT ![c] = @ + 1]
  PROVE  Sold(OwnerOf[c])' = Sold(OwnerOf[c]) + AmountOf[c]
<1> DEFINE s == OwnerOf[c]
<1>1. c \in SalesOf(s) /\ \A x \in SalesOf(s) : creditRows[x] \in Int
  BY DEF SalesOf, TypeOK
<1>2. PICK g : g = creditRows'
  OBVIOUS
<1>3. g[c] = creditRows[c] + 1 /\ \A x \in SalesOf(s) \ {c} : g[x] = creditRows[x]
  BY <1>2 DEF TypeOK, SalesOf
<1> HIDE DEF s
<1>4. Total(SalesOf(s), g) = Total(SalesOf(s), creditRows) + AmountOf[c]
  BY <1>1, <1>3, RowsOf, TotalOneMore
<1>5. Sold(s)' = Total(SalesOf(s), g)
  BY <1>2 DEF Sold, Total, SalesOf, s
<1> QED
  BY <1>4, <1>5 DEF Sold, s

(* ... and then the CREDIT row.                                             *)
LEMMA OrderCreditRecord ==
  ASSUME TypeOK, ReqTyped, ReqTyped', NEW r \in Requests, CreditRecord(r),
         NEW s \in Sellers, InOrder(s)
  PROVE  InOrder(s)'
<1>1. /\ req[r].phase = "record" /\ Finish(r)
      /\ IF req[r].of \in linked THEN UNCHANGED <<creditRows, linked>>
         ELSE /\ creditRows' = [creditRows EXCEPT ![req[r].of] = @ + 1]
              /\ linked' = linked \cup {req[r].of}
      /\ UNCHANGED <<wallet, status, notified, refunds, payouts>>
  BY DEF CreditRecord, HasCredit, history
<1>2. Busy(r, Seller(r)) /\ Seller(r) \in Sellers /\ req[r].of \in Sales
  BY <1>1, WorkOn
<1>3. CASE Seller(r) # s
  <2>1. Untouched(s)
    BY <1>1, <1>2, <1>3 DEF Untouched, Seller, TypeOK, LinkedTo
  <2> QED
    BY <1>1, <1>3, <2>1, Elsewhere
<1>4. CASE Seller(r) = s
  <2>1. PICK c \in Sales : c = req[r].of
    BY <1>2
  <2>2. PICK a : a = AmountOf[c]
    OBVIOUS
  <2>3. /\ wallet[s].balance \in Int /\ wallet[s].pending \in Int /\ wallet[s].earned \in Int
        /\ a \in Int /\ OwnerOf[c] = s
    BY <1>1, <1>4, <2>1, <2>2, WorkOn DEF Seller
  <2>4. Books(s, 0, a)
    BY <1>1, <1>2, <1>4, <2>1, <2>2, BooksBefore
  <2>11. c \notin linked
    BY <1>1, <1>4, <2>1, <2>3 DEF InOrder, Reliable, LinkedTo
  <2>12. creditRows' = [creditRows EXCEPT ![c] = @ + 1] /\ linked' = linked \cup {c}
    BY <1>1, <2>1, <2>11
  <2>5. Sold(s)' = Sold(s) + a
    BY <2>2, <2>3, <2>12, OneMoreSold
  <2>13. Attached(s)'
    <3>1. LinkedTo(s)' = LinkedTo(s) \cup {c} /\ c \notin LinkedTo(s)
      BY <2>3, <2>11, <2>12 DEF LinkedTo
    <3>2. Attached(s) /\ status' = status /\ c \notin Withdrawals
      BY <1>1, WithdrawalsAssumption DEF InOrder
    <3>3. creditRows[c] = 0 /\ creditRows'[c] = 1
          /\ \A x \in Sales \ {c} : creditRows'[x] = creditRows[x]
      BY <2>3, <2>12, <3>1, <3>2 DEF Attached, TypeOK
    <3> QED
      BY <3>1, <3>2, <3>3 DEF Attached
  <2>6. Asked(s)' = Asked(s) /\ Back(s)' = Back(s) /\ Left(s)' = Left(s)
    BY <1>1 DEF Asked, Back, Left, Total, Requested, Once, Gone
  <2>7. Sold(s) \in Int /\ Asked(s) \in Int /\ Back(s) \in Int /\ Left(s) \in Int
    BY SumsTyped
  <2>8. Books(s, 0, 0)'
    BY <1>1, <2>3, <2>4, <2>5, <2>6, <2>7 DEF Books
  <2>9. /\ \A q \in Requests \ {r} : req'[q] = req[q]
        /\ req'[r].phase = "idle"
    BY <1>1, RequestsNext
  <2>10. \A w \in Withdrawals : w # req[r].of
    BY <1>2, WithdrawalsAssumption
  <2> QED
    BY <1>1, <1>2, <1>4, <2>1, <2>2, <2>8, <2>9, <2>10, <2>13, WriteStep
<1> QED
  BY <1>3, <1>4

(* A step in which no request moves and nothing of s is written leaves the  *)
(* wallet of s in order.                                                    *)
LEMMA Unmoved ==
  ASSUME ReqTyped, NEW s, InOrder(s), Untouched(s), req' = req, notified' = notified
  PROVE  InOrder(s)'
<1>1. \A d, e : Books(s, d, e)' <=> Books(s, d, e)
  BY BooksStay
<1>2. Balanced(s)'
  <2>1. (\A q \in Requests : Ahead(q) => Seller(q) # s) => Books(s, 0, 0)'
    BY <1>1 DEF InOrder, Balanced
  <2>2. ASSUME NEW q \in Requests, Ahead(q), Seller(q) = s
        PROVE  IF req[q].phase = "insert" THEN Books(s, AmountOf[req[q].of], 0)'
                                          ELSE Books(s, 0, AmountOf[req[q].of])'
    <3>1. PICK a : a = AmountOf[req[q].of]
      OBVIOUS
    <3>2. IF req[q].phase = "insert" THEN Books(s, a, 0)' ELSE Books(s, 0, a)'
      BY <1>1, <2>2, <3>1 DEF InOrder, Balanced
    <3>3. AmountOf[req'[q].of] = a
      BY <3>1
    <3> QED
      BY <3>1, <3>2, <3>3 DEF Books
  <2> QED
    BY <2>1, <2>2 DEF Balanced, Ahead, Seller
<1>3. AloneOn(s)'
  BY DEF InOrder, AloneOn, Busy, Seller
<1>4. ASSUME NEW q \in Requests, req[q].phase # "idle", Seller(q) = s
      PROVE  Reliable(q)'
  <2>1. Reliable(q) /\ wallet'[s] = wallet[s]
    BY <1>4 DEF InOrder, Untouched
  <2>3. LinkedTo(Seller(q))' = LinkedTo(s) /\ Seller(q)' = s
    BY <1>4 DEF Untouched, LinkedTo, Seller
  <2>2. req[q].phase \in {"deduct", "insert", "adjust", "decide", "notify"}
          => LET w == req[q].of IN /\ status'[w] = status[w]
                                   /\ refunds'[w] = refunds[w] /\ payouts'[w] = payouts[w]
    BY <1>4 DEF ReqTyped, Fits, Untouched, Seller
  <2> QED
    BY <1>4, <2>1, <2>2, <2>3 DEF Reliable
<1>5. ASSUME NEW w \in Withdrawals, OwnerOf[w] = s
      PROVE  ((\A q \in Requests : ~Deciding(q, w)) => Settled(w))' /\ Told(w)'
  BY <1>5 DEF InOrder, Untouched, Deciding, Settled, Told
<1>6. Attached(s)'
  BY AttachedStays DEF InOrder
<1> QED
  BY <1>2, <1>3, <1>4, <1>5, <1>6 DEF InOrder, Seller

(* creditFromOrder with a manager: wallet and row in one commit, when no    *)
(* request is at work on the wallet.                                        *)
LEMMA OrderCreditLocked ==
  ASSUME TypeOK, ReqTyped, NEW c \in Sales, CreditLocked(c),
         NEW s \in Sellers \ disturbed', InOrder(s)
  PROVE  InOrder(s)'
<1>1. /\ creditRows[c] \in Nat /\ c \notin linked
      /\ creditRows' = [creditRows EXCEPT ![c] = @ + 1]
      /\ linked' = linked \cup {c}
      /\ wallet' = [wallet EXCEPT ![OwnerOf[c]] = Credited(@, AmountOf[c])]
      /\ Contend(OwnerOf[c])
      /\ UNCHANGED <<status, notified, req, refunds, payouts>>
  BY DEF CreditLocked, HasCredit, TypeOK
<1>2. OwnerOf[c] \in Sellers /\ AmountOf[c] \in Int
  BY SubjectType
<1>3. CASE OwnerOf[c] # s
  <2>1. Untouched(s)
    BY <1>1, <1>2, <1>3 DEF Untouched, TypeOK, LinkedTo
  <2> QED
    BY <1>1, <2>1, Unmoved
<1>4. CASE OwnerOf[c] = s
  <2>1. \A q \in Requests : ~Busy(q, s)
    BY <1>1, <1>4 DEF Contend
  <2>2. \A q \in Requests : ~(Ahead(q) /\ Seller(q) = s)
    BY <2>1 DEF Busy, Ahead
  <2>3. PICK a : a = AmountOf[c]
    OBVIOUS
  <2>4. Books(s, 0, 0)
    BY <2>2 DEF InOrder, Balanced
  <2>5. /\ wallet'[s].earned = wallet[s].earned + a
        /\ wallet'[s].balance = wallet[s].balance + a
        /\ wallet'[s].pending = wallet[s].pending
        /\ wallet[s].earned \in Int /\ wallet[s].balance \in Int /\ wallet[s].pending \in Int
    <3>1. wallet[s] \in Wallet /\ wallet'[s] = Credited(wallet[s], a)
      BY <1>1, <1>4, <2>3 DEF TypeOK
    <3> QED
      BY <3>1 DEF Credited, Wallet
  <2>6. Sold(s)' = Sold(s) + a
    BY <1>1, <1>4, <2>3, OneMoreSold
  <2>7. Asked(s)' = Asked(s) /\ Back(s)' = Back(s) /\ Left(s)' = Left(s)
    BY <1>1 DEF Asked, Back, Left, Total, Requested, Once, Gone
  <2>8. Sold(s) \in Int /\ Asked(s) \in Int /\ Back(s) \in Int /\ Left(s) \in Int
    BY SumsTyped
  <2>9. Books(s, 0, 0)'
    BY <1>2, <2>3, <2>4, <2>5, <2>6, <2>7, <2>8 DEF Books
  <2>10. Balanced(s)'
    BY <1>1, <2>2, <2>9 DEF Balanced, Ahead, Seller
  <2>14. Attached(s)'
    <3>1. LinkedTo(s)' = LinkedTo(s) \cup {c} /\ c \notin LinkedTo(s)
      BY <1>1, <1>4 DEF LinkedTo
    <3>2. Attached(s) /\ status' = status /\ c \notin Withdrawals
      BY <1>1, WithdrawalsAssumption DEF InOrder
    <3>3. creditRows[c] = 0 /\ creditRows'[c] = 1
          /\ \A x \in Sales \ {c} : creditRows'[x] = creditRows[x]
      BY <1>1, <1>4, <3>1, <3>2 DEF Attached, TypeOK
    <3> QED
      BY <3>1, <3>2, <3>3 DEF Attached
  <2>11. AloneOn(s)'
    BY <1>1 DEF InOrder, AloneOn, Busy, Seller
  <2>12. ASSUME NEW q \in Requests, req[q].phase # "idle", Seller(q) = s
         PROVE  Reliable(q)'
    BY <1>1, <2>1, <2>12 DEF InOrder, Reliable, Busy
  <2>13. ASSUME NEW w \in Withdrawals, OwnerOf[w] = s
         PROVE  ((\A q \in Requests : ~Deciding(q, w)) => Settled(w))' /\ Told(w)'
    BY <1>1, <2>13 DEF InOrder, Deciding, Settled, Told
  <2> QED
    BY <1>1, <2>10, <2>11, <2>12, <2>13, <2>14 DEF InOrder, Seller
<1> QED
  BY <1>3, <1>4

(* The two inductive invariants together.                                   *)
Orderly == Covered /\ UndisturbedInOrder

LEMMA OrderlyInit == Init => Orderly
<1> SUFFICES ASSUME Init PROVE UndisturbedInOrder
  BY CoveredInit DEF Orderly
<1>1. \A q \in Requests : req[q].phase = "idle"
  BY DEF Init, Idle
<1>2. \A s \in Sellers : AloneOn(s) /\ \A q \in Requests : ~Ahead(q)
  BY <1>1 DEF AloneOn, Busy, Ahead
<1>3. ASSUME NEW s \in Sellers PROVE Books(s, 0, 0)
  <2>1. Sold(s) = 0
    <3>1. SumFunctionOnSet([x \in SalesOf(s) |-> AmountOf[x] * creditRows[x]], SalesOf(s)) = 0
      <4> DEFINE F == [x \in SalesOf(s) |-> AmountOf[x] * creditRows[x]]
      <4>1. ASSUME NEW x \in SalesOf(s) PROVE F[x] = 0
        <5>1. creditRows[x] = 0 /\ AmountOf[x] \in Int
          BY SubjectType DEF Init, SalesOf
        <5> QED
          BY <5>1
      <4> HIDE DEF F
      <4>2. SumFunctionOnSet(F, SalesOf(s)) = 0
        BY <4>1, RowsOf, SumZero
      <4> QED
        BY <4>2 DEF F
    <3> QED
      BY <3>1 DEF Sold, Total
  <2>2. Requested(s) = {}
    BY DEF Init, Requested
  <2>3. \A F : SumFunctionOnSet(F, {}) = 0
    BY FS_EmptySet, SumZero
  <2>4. Asked(s) = 0 /\ Back(s) = 0 /\ Left(s) = 0
    BY <2>2, <2>3 DEF Asked, Back, Left, Total
  <2>5. wallet[s].earned = 0 /\ wallet[s].balance = 0 /\ wallet[s].pending = 0
    BY DEF Init, ZeroWallet
  <2> QED
    BY <2>1, <2>4, <2>5 DEF Books
<1>4. \A w \in Withdrawals : Settled(w) /\ Told(w)
  BY DEF Init, Settled, Told
<1>5. \A s \in Sellers : Attached(s)
  BY DEF Init, Attached, LinkedTo
<1> QED
  BY <1>1, <1>2, <1>3, <1>4, <1>5 DEF UndisturbedInOrder, InOrder, Balanced

LEMMA OrderlyStep == Orderly /\ [Next]_vars => Orderly'
<1> SUFFICES ASSUME Orderly, [Next]_vars PROVE UndisturbedInOrder'
  BY CoveredStep DEF Orderly
<1>1. TypeOK /\ ReqTyped /\ TypeOK' /\ ReqTyped'
  <2>1. Covered'
    BY CoveredStep DEF Orderly
  <2>2. Covered => TypeOK /\ ReqTyped
    BY TypeParts DEF Covered
  <2>3. Covered' => TypeOK' /\ ReqTyped'
    BY <2>2, TypeParts, PTL DEF Covered
  <2> QED
    BY <2>1, <2>2, <2>3 DEF Orderly
<1>4. OwnRows
  BY DEF Orderly, Covered, CopiesCover, Covers, OwnRows, Seller
<1>2. CASE UNCHANGED vars
  <2>1. UNCHANGED <<wallet, status, creditRows, linked, notified, req, refunds, payouts, disturbed>>
    BY <1>2 DEF vars, history
  <2>2. \A s : Untouched(s)
    BY <2>1 DEF Untouched, LinkedTo
  <2> QED
    BY <1>1, <2>1, <2>2, Unmoved DEF Orderly, UndisturbedInOrder
<1>3. CASE Next
  <2> SUFFICES ASSUME NEW s \in Sellers \ disturbed' PROVE InOrder(s)'
    BY DEF UndisturbedInOrder
  <2>1. disturbed \subseteq disturbed'
    <3>1. \A x : Contend(x) => disturbed \subseteq disturbed'
      BY DEF Contend
    <3>2. \A c \in Sales : CreditLocked(c) => disturbed \subseteq disturbed'
      BY <3>1 DEF CreditLocked
    <3>3. ASSUME NEW r \in Requests
          PROVE  /\ \A w \in Withdrawals, service \in Services :
                      /\ RequestWithdrawal(r, w, service) => disturbed \subseteq disturbed'
                      /\ \A target \in RowStatus :
                           DecideWithdrawal(r, w, service, target)
                             => disturbed \subseteq disturbed'
                 /\ \A c \in Sales : CreditRead(r, c) => disturbed \subseteq disturbed'
      <4>1. \A t, w : Start(r, t, w) => disturbed \subseteq disturbed'
        BY <3>1 DEF Start
      <4>2. ASSUME NEW w \in Withdrawals, NEW service \in Services
            PROVE  RequestWithdrawal(r, w, service) => disturbed \subseteq disturbed'
        BY <4>1 DEF RequestWithdrawal
      <4>3. ASSUME NEW w \in Withdrawals, NEW service \in Services, NEW target \in RowStatus
            PROVE  DecideWithdrawal(r, w, service, target) => disturbed \subseteq disturbed'
        BY <4>1 DEF DecideWithdrawal
      <4>4. ASSUME NEW c \in Sales PROVE CreditRead(r, c) => disturbed \subseteq disturbed'
        BY <4>1 DEF CreditRead
      <4> QED
        BY <4>2, <4>3, <4>4
    <3>4. ASSUME NEW r \in Requests, \/ DeductSave(r) \/ InsertRequest(r) \/ AdjustSave(r)
                                     \/ DecideSave(r) \/ Notify(r) \/ CreditCheck(r)
                                     \/ CreditSave(r) \/ CreditRecord(r)
          PROVE  disturbed' = disturbed
      BY <3>4 DEF DeductSave, InsertRequest, AdjustSave, DecideSave, Notify, CreditCheck,
         CreditSave, CreditRecord, history
    <3>5. \A r \in Requests : BreakOff(r) => disturbed \subseteq disturbed'
      BY DEF BreakOff
    <3> QED
      BY <1>3, <3>2, <3>3, <3>4, <3>5 DEF Next, RequestStep
  <2>2. InOrder(s) /\ s \in Sellers
    BY <2>1 DEF Orderly, UndisturbedInOrder
  <2>3. ASSUME NEW r \in Requests, RequestStep(r) PROVE InOrder(s)'
    <3>1. ASSUME NEW w \in Withdrawals, NEW service \in Services,
                 RequestWithdrawal(r, w, service)
          PROVE  InOrder(s)'
      BY <1>1, <2>2, <3>1, OrderRequest
    <3>2. ASSUME NEW w \in Withdrawals, NEW service \in Services, NEW target \in RowStatus,
                 DecideWithdrawal(r, w, service, target)
          PROVE  InOrder(s)'
      BY <1>1, <2>2, <3>2, OrderDecide
    <3>3. ASSUME NEW c \in Sales, CreditRead(r, c) PROVE InOrder(s)'
      BY <1>1, <2>2, <3>3, OrderCreditRead
    <3>4. CASE DeductSave(r)
      BY <1>1, <1>4, <2>2, <3>4, OrderDeduct
    <3>5. CASE InsertRequest(r)
      BY <1>1, <2>2, <3>5, OrderInsert
    <3>6. CASE AdjustSave(r)
      BY <1>1, <1>4, <2>2, <3>6, OrderAdjust
    <3>7. CASE DecideSave(r)
      BY <1>1, <1>4, <2>2, <3>7, OrderDecideSave
    <3>8. CASE Notify(r)
      BY <1>1, <2>2, <3>8, OrderNotify
    <3>9. CASE CreditCheck(r)
      BY <1>1, <2>2, <3>9, OrderCreditCheck
    <3>10. CASE CreditSave(r)
      BY <1>1, <1>4, <2>2, <3>10, OrderCreditSave
    <3>11. CASE CreditRecord(r)
      BY <1>1, <2>2, <3>11, OrderCreditRecord
    <3>12. CASE BreakOff(r)
      BY <1>1, <2>2, <3>12, OrderBreakOff
    <3> QED
      BY <2>3, <3>1, <3>2, <3>3, <3>4, <3>5, <3>6, <3>7, <3>8, <3>9, <3>10, <3>11, <3>12
      DEF RequestStep
  <2>4. ASSUME NEW c \in Sales, CreditLocked(c) PROVE InOrder(s)'
    BY <1>1, <2>2, <2>4, OrderCreditLocked
  <2> QED
    BY <1>3, <2>3, <2>4 DEF Next
<1> QED
  BY <1>2, <1>3

(* Copies that withdrawals and credits hold are covered, and the books of a *)
(* wallet on which nothing overlapped balance, in every reachable state.    *)
THEOREM AlwaysOrderly == Spec => []Orderly
<1>1. Init => Orderly
  BY OrderlyInit
<1>2. Orderly /\ [Next]_vars => Orderly'
  BY OrderlyStep
<1> QED
  BY <1>1, <1>2, PTL DEF Spec

(* Where no two requests overlapped and none broke off half way, every cent *)
(* is accounted for, for any number of withdrawals and sales: what          *)
(* requestWithDrawal took, updateWithdrawalStatus gave back or paid out and *)
(* creditFromOrder credited is what the wallet shows.                       *)
THEOREM QuietWalletExact == Spec => []QuietWalletIsExact
<1>1. Orderly => QuietWalletIsExact
  <2> SUFFICES ASSUME Orderly, NEW s \in Sellers, Quiet(s)
               PROVE  /\ \A c \in SalesOf(s) : creditRows[c] <= 1
                      /\ wallet[s].earned = Sold(s)
                      /\ wallet[s].balance = wallet[s].earned - Asked(s) + Back(s)
                      /\ wallet[s].pending = Asked(s) - Left(s)
    BY DEF QuietWalletIsExact, Sold, Asked, Back, Left, Once, Gone
  <2>1. InOrder(s) /\ TypeOK
    BY DEF Orderly, Covered, UndisturbedInOrder, Quiet
  <2>2. \A q \in Requests : Ahead(q) => Seller(q) # s
    BY DEF Quiet, Busy, Ahead
  <2>3. Books(s, 0, 0)
    BY <2>1, <2>2 DEF InOrder, Balanced
  <2>4. Sold(s) \in Int /\ Asked(s) \in Int /\ Back(s) \in Int /\ Left(s) \in Int
    BY <2>1, SumsTyped
  <2>5. \A c \in SalesOf(s) : creditRows[c] <= 1
    BY <2>1 DEF InOrder, Attached, SalesOf
  <2> QED
    BY <2>3, <2>4, <2>5 DEF Books
<1> QED
  BY <1>1, AlwaysOrderly, PTL

(* On such a wallet a withdrawal is paid out or given back at most once and *)
(* what notifyWithdrawalStatus told the seller is what the row says.        *)
THEOREM QuietDecisionFinal == Spec => []QuietDecisionStands
<1>1. Orderly => QuietDecisionStands
  <2> SUFFICES ASSUME Orderly, NEW w \in Withdrawals, Quiet(OwnerOf[w])
               PROVE  Settled(w) /\ Told(w)
    BY DEF QuietDecisionStands, Settled, Told
  <2>1. OwnerOf[w] \in Sellers
    BY SubjectType
  <2>2. InOrder(OwnerOf[w])
    BY <2>1 DEF Orderly, UndisturbedInOrder, Quiet
  <2>3. \A q \in Requests : ~Deciding(q, w)
    BY DEF Quiet, Busy, Deciding, Seller
  <2> QED
    BY <2>2, <2>3 DEF InOrder
<1> QED
  BY <1>1, AlwaysOrderly, PTL
==============================================================================
