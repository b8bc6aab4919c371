------------------------- MODULE GetnetCheckoutProofs -------------------------
(***************************************************************************)
(* Proofs about GetnetCheckout for all orders, sellers, intents, numbers   *)
(* of concurrent requests and faults.                                      *)
(***************************************************************************)
EXTENDS GetnetCheckout, TLAPS

(* The sellers of an order are sellers.                                     *)
LEMMA SellersInType ==
  ASSUME NEW o \in Orders
  PROVE  SellersIn(o) \subseteq Sellers
BY GetnetAssumption DEF SellersIn

(* A request starts a phase with clean private data.                        *)
LEMMA WorkingType ==
  ASSUME NEW p \in Phases, NEW i \in Intents \cup {NoIntent}
  PROVE  Working(p, i) \in Request
BY DEF Working, Request, AttemptStatus, ZeroCounts, NetCounts

(* The keys of an order's notifications are event keys.                     *)
LEMMA KeysType ==
  ASSUME NEW o \in Orders
  PROVE  ApprovedKeys(o) \subseteq EventKeys /\ RejectedKeys(o) \subseteq EventKeys
BY DEF EventKeys

(* The part of TypeOK about the requests in progress.                       *)
ReqTyped ==
  /\ req \in [Requests -> Request]
  /\ \A q \in Requests : req[q].phase # "idle" => req[q].intent \in Intents

(* Entering a phase, or finishing, keeps the requests well typed.           *)
LEMMA EnterType ==
  ASSUME TypeOK, NEW r \in Requests, NEW p \in Phases, NEW i \in Intents,
         Enter(r, p, i)
  PROVE  ReqTyped'
<1>1. Working(p, i) \in Request /\ Working(p, i).intent = i
  BY WorkingType DEF Working
<1>2. QED
  BY <1>1 DEF Enter, TypeOK, ReqTyped

(* See EnterType.                                                           *)
LEMMA FinishType ==
  ASSUME TypeOK, NEW r \in Requests, Finish(r)
  PROVE  ReqTyped'
<1>1. Idle \in Request /\ Idle.phase = "idle"
  BY WorkingType DEF Idle, Working, Phases
<1>2. QED
  BY <1>1 DEF Finish, TypeOK, ReqTyped

(* A type-correct state has type-correct successors, action by action.      *)
LEMMA TypeStep == TypeOK /\ [Next]_vars => TypeOK'
<1> SUFFICES ASSUME TypeOK, [Next]_vars PROVE TypeOK'
  OBVIOUS
<1> USE GetnetAssumption DEF ReqTyped
<1>1. ASSUME NEW r \in Requests, NEW i \in Intents, CreateBegin(r, i)
      PROVE  TypeOK'
  <2> DEFINE w == [Working("calling", i) EXCEPT !.stale = PendingAttempts(OrderOf[i])]
  <2>1. Working("calling", i) \in Request /\ Working("calling", i).intent = i
    BY WorkingType DEF Phases, TxPhases, Working
  <2>2. w \in Request /\ w.intent = i
    BY <2>1 DEF Request, PendingAttempts
  <2>3. req' = [req EXCEPT ![r] = w]
    BY <1>1 DEF CreateBegin
  <2> HIDE DEF w
  <2>4. ReqTyped'
    BY <2>2, <2>3 DEF TypeOK, ReqTyped
  <2> QED
    BY <1>1, <2>4 DEF CreateBegin, TypeOK, orderVars, attemptVars, getnetVars, walletVars
<1>2. ASSUME NEW r \in Requests, MintIntent(r)
      PROVE  TypeOK'
  <2> DEFINE w == [req[r] EXCEPT !.phase = "minted"]
  <2>1. req[r] \in Request /\ req[r].intent \in Intents /\ "minted" \in Phases
    BY <1>2 DEF MintIntent, TypeOK, Phases, TxPhases
  <2>2. ReqTyped'
    <3>1. w \in Request /\ w.intent = req[r].intent
      BY <2>1 DEF Request
    <3>2. req' = [req EXCEPT ![r] = w]
      BY <1>2 DEF MintIntent
    <3> HIDE DEF w
    <3> QED
      BY <2>1, <3>1, <3>2 DEF TypeOK
  <2> QED
    BY <1>2, <2>1, <2>2 DEF MintIntent, TypeOK, orderVars, attemptVars, walletVars
<1>3. ASSUME NEW r \in Requests, CreateCommit(r)
      PROVE  TypeOK'
  <2>1. req[r].intent \in Intents /\ OrderOf[req[r].intent] \in Orders
    BY <1>3 DEF CreateCommit, TypeOK
  <2>2. ReqTyped'
    BY <1>3, FinishType DEF CreateCommit
  <2>3. attempt' \in [Intents -> AttemptStatus]
    BY <1>3 DEF CreateCommit, TypeOK, ClosedAs, AttemptStatus
  <2>4. payment' \in [Orders -> PaymentStatus]
    BY <1>3 DEF CreateCommit, TypeOK, PaymentStatus
  <2> QED
    BY <1>3, <2>1, <2>2, <2>3, <2>4 DEF CreateCommit, TypeOK, getnetVars, walletVars
<1>4. ASSUME NEW r \in Requests, CreateFail(r)
      PROVE  TypeOK'
  <2>1. req[r].intent \in Intents /\ "createAudit" \in Phases
    BY <1>4 DEF CreateFail, TypeOK, Phases, TxPhases
  <2>2. ReqTyped'
    BY <1>4, <2>1, EnterType DEF CreateFail
  <2> QED
    BY <1>4, <2>2 DEF CreateFail, Fault, TypeOK, orderVars, attemptVars, getnetVars, walletVars
<1>5. ASSUME NEW r \in Requests, CreationAudit(r)
      PROVE  TypeOK'
  <2>1. OrderAt(r) \in Orders
    BY <1>5 DEF CreationAudit, TypeOK, OrderAt
  <2>2. ReqTyped'
    BY <1>5, FinishType DEF CreationAudit
  <2>3. payment' \in [Orders -> PaymentStatus] /\ errored' \subseteq Orders
    BY <1>5, <2>1 DEF CreationAudit, TypeOK, PaymentStatus
  <2> QED
    BY <1>5, <2>2, <2>3 DEF CreationAudit, TypeOK, getnetVars, walletVars
<1>6. ASSUME NEW i \in Intents, WebhookMismatch(i)
      PROVE  TypeOK'
  <2> QED
    BY <1>6 DEF WebhookMismatch, Acknowledge, TypeOK, orderVars, attemptVars, walletVars
<1>7. ASSUME NEW i \in Intents, WebhookTouchOnly(i)
      PROVE  TypeOK'
  <2>1. OrderOf[i] \in Orders
    OBVIOUS
  <2>2. TouchedAttempt(i) \in AttemptStatus /\ TouchedPayment(i) \in PaymentStatus
    BY <2>1 DEF TypeOK, TouchedAttempt, TouchedPayment, AttemptStatus, PaymentStatus
  <2> QED
    BY <1>7, <2>1, <2>2 DEF WebhookTouchOnly, TypeOK, getnetVars, walletVars
<1>8. ASSUME NEW r \in Requests, NEW i \in Intents, WebhookReject(r, i)
      PROVE  TypeOK'
  <2>1. OrderOf[i] \in Orders
    OBVIOUS
  <2>2. TouchedAttempt(i) \in AttemptStatus /\ TouchedPayment(i) \in PaymentStatus
    BY <2>1 DEF TypeOK, TouchedAttempt, TouchedPayment, AttemptStatus, PaymentStatus
  <2>3. ReqTyped'
    BY <1>8, EnterType DEF WebhookReject, Phases, TxPhases
  <2>4. AfterRejection(TouchedPayment(i)) \in PaymentStatus
    BY <2>2 DEF AfterRejection, PaymentStatus
  <2> QED
    BY <1>8, <2>1, <2>3, <2>4 DEF WebhookReject, TypeOK, OrderStatus, AttemptStatus, getnetVars, walletVars
<1>9. ASSUME NEW r \in Requests, NEW i \in Intents, WebhookDuplicate(r, i)
      PROVE  TypeOK'
  <2>1. OrderOf[i] \in Orders
    OBVIOUS
  <2>2. TouchedAttempt(i) \in AttemptStatus /\ TouchedPayment(i) \in PaymentStatus
    BY <2>1 DEF TypeOK, TouchedAttempt, TouchedPayment, AttemptStatus, PaymentStatus
  <2>3. ReqTyped'
    BY <1>9, EnterType DEF WebhookDuplicate, Phases, TxPhases
  <2> QED
    BY <1>9, <2>1, <2>2, <2>3 DEF WebhookDuplicate, TypeOK, getnetVars, walletVars
<1>10. ASSUME NEW r \in Requests, NEW i \in Intents, WebhookApproveBegin(r, i)
      PROVE  TypeOK'
  <2>1. ReqTyped'
    BY <1>10, EnterType DEF WebhookApproveBegin, Phases, TxPhases
  <2> QED
    BY <1>10, <2>1 DEF WebhookApproveBegin, TypeOK, orderVars, attemptVars, getnetVars, walletVars
<1>11. ASSUME NEW r \in Requests, NEW s \in Sellers, CreditSeller(r, s)
      PROVE  TypeOK'
  <2> DEFINE passed == PassOver(req[r], s)
             credited == AddNet(req[r], s)
  <2>1. req[r] \in Request
    BY DEF TypeOK
  <2>2. passed \in Request /\ passed.intent = req[r].intent /\ passed.phase = req[r].phase
    BY <2>1 DEF Request, PassOver
  <2>3. [req[r].seen EXCEPT ![s] = balance[s]] \in [Sellers -> NetCounts]
    BY <2>1 DEF Request, TypeOK
  <2>4. /\ credited \in Request
        /\ credited.intent = req[r].intent /\ credited.phase = req[r].phase
    BY <2>1, <2>3 DEF Request, AddNet
  <2>5. req' = [req EXCEPT ![r] = passed] \/ req' = [req EXCEPT ![r] = credited]
    BY <1>11 DEF CreditSeller
  <2> HIDE DEF passed, credited
  <2>6. ReqTyped'
    BY <2>2, <2>4, <2>5 DEF TypeOK
  <2> QED
    BY <1>11, <2>6 DEF CreditSeller, TypeOK, orderVars, attemptVars, getnetVars, walletVars
<1>12. ASSUME NEW r \in Requests, WebhookCommit(r)
      PROVE  TypeOK'
  <2> DEFINE i == req[r].intent
             o == OrderOf[i]
  <2>1. i \in Intents /\ o \in Orders /\ req[r] \in Request
    BY <1>12 DEF WebhookCommit, TypeOK
  <2>2. AfterApproval(TouchedPayment(i)) \in PaymentStatus
    BY <2>1 DEF TypeOK, TouchedPayment, AfterApproval, PaymentStatus
  <2>3. ReqTyped'
    BY <1>12, <2>1, EnterType DEF WebhookCommit, Phases
  <2>4. balance' \in [Sellers -> NetCounts]
    <3>1. ASSUME NEW s \in Sellers
          PROVE  [req[r].seen[s] EXCEPT ![o] = @ + 1] \in NetCounts
      BY <2>1 DEF Request, NetCounts
    <3> QED
      BY <1>12, <3>1 DEF WebhookCommit, TypeOK
  <2>5. creditRow' \subseteq Sellers \X Orders
    BY <1>12, <2>1 DEF WebhookCommit, TypeOK, Request
  <2>6. /\ status' \in [Orders -> OrderStatus]
        /\ payment' \in [Orders -> PaymentStatus]
        /\ attempt' \in [Intents -> AttemptStatus]
    BY <1>12, <2>1, <2>2 DEF WebhookCommit, TypeOK, OrderStatus, AttemptStatus
  <2> QED
    BY <1>12, <2>3, <2>4, <2>5, <2>6 DEF WebhookCommit, TypeOK, getnetVars
<1>13. ASSUME NEW r \in Requests, WebhookRollback(r)
      PROVE  TypeOK'
  <2>1. ReqTyped'
    BY <1>13, EnterType DEF WebhookRollback, TypeOK, Phases
  <2> QED
    BY <1>13, <2>1 DEF WebhookRollback, TypeOK, orderVars, attemptVars, getnetVars, walletVars
<1>14. ASSUME NEW r \in Requests, NEW i \in Intents, WebhookFail(r, i)
      PROVE  TypeOK'
  <2>1. ReqTyped'
    BY <1>14, EnterType DEF WebhookFail, Phases, TxPhases
  <2> QED
    BY <1>14, <2>1 DEF WebhookFail, Fault, TypeOK, orderVars, attemptVars, getnetVars, walletVars
<1>15. ASSUME NEW r \in Requests, AuditRead(r)
      PROVE  TypeOK'
  <2> DEFINE i == req[r].intent
             w == [Working("auditWrite", i) EXCEPT !.copy = attempt[i]]
  <2>1. i \in Intents
    BY <1>15 DEF AuditRead, TypeOK
  <2>2. Working("auditWrite", i) \in Request /\ Working("auditWrite", i).intent = i
    BY <2>1, WorkingType DEF Phases, Working
  <2>3. w \in Request /\ w.intent = i
    BY <2>1, <2>2 DEF Request, TypeOK
  <2>4. Finish(r) \/ req' = [req EXCEPT ![r] = w]
    BY <1>15 DEF AuditRead
  <2> HIDE DEF w
  <2>5. ReqTyped'
    BY <2>1, <2>3, <2>4, FinishType DEF TypeOK
  <2> QED
    BY <1>15, <2>5 DEF AuditRead, TypeOK, orderVars, attemptVars, getnetVars, walletVars
<1>16. ASSUME NEW r \in Requests, AuditWrite(r)
      PROVE  TypeOK'
  <2>1. ReqTyped'
    BY <1>16, FinishType DEF AuditWrite
  <2>2. attempt' \in [Intents -> AttemptStatus]
    BY <1>16 DEF AuditWrite, TypeOK, Request
  <2> QED
    BY <1>16, <2>1, <2>2 DEF AuditWrite, TypeOK, orderVars, getnetVars, walletVars
<1>17. ASSUME NEW r \in Requests, NotifyApproved(r)
      PROVE  TypeOK'
  <2>1. KeysToSend(r) \subseteq EventKeys
    BY <1>17, KeysType DEF NotifyApproved, TypeOK, KeysToSend, OrderAt
  <2>2. ReqTyped'
    BY <1>17, FinishType DEF NotifyApproved
  <2> QED
    BY <1>17, <2>1, <2>2 DEF NotifyApproved, Acknowledge, TypeOK, orderVars, attemptVars, getnetVars, walletVars
<1>18. ASSUME NEW r \in Requests, NotifyRejected(r)
      PROVE  TypeOK'
  <2>1. KeysToSend(r) \subseteq EventKeys
    BY <1>18, KeysType DEF NotifyRejected, TypeOK, KeysToSend, OrderAt
  <2>2. ReqTyped'
    BY <1>18, FinishType DEF NotifyRejected
  <2> QED
    BY <1>18, <2>1, <2>2 DEF NotifyRejected, TypeOK, orderVars, attemptVars, getnetVars, walletVars
<1>19. ASSUME NEW r \in Requests, NotifyFail(r)
      PROVE  TypeOK'
  <2>1. KeysToSend(r) \subseteq EventKeys
    BY <1>19, KeysType DEF NotifyFail, TypeOK, KeysToSend, OrderAt
  <2>2. ReqTyped'
    BY <1>19, FinishType DEF NotifyFail
  <2> QED
    BY <1>19, <2>1, <2>2 DEF NotifyFail, Fault, TypeOK, orderVars, attemptVars, getnetVars, walletVars
<1>20. ASSUME NEW r \in Requests, Crash(r)
      PROVE  TypeOK'
  <2>1. ReqTyped'
    BY <1>20, FinishType DEF Crash
  <2> QED
    BY <1>20, <2>1 DEF Crash, Fault, TypeOK, orderVars, attemptVars, getnetVars, walletVars
<1>21. ASSUME NEW i \in Intents, BuyerPays(i)
      PROVE  TypeOK'
  <2> QED
    BY <1>21 DEF BuyerPays, TypeOK, orderVars, attemptVars, walletVars
<1>22. ASSUME NEW i \in Intents, Expire(i)
      PROVE  TypeOK'
  <2> QED
    BY <1>22 DEF Expire, TypeOK, orderVars, getnetVars, walletVars
<1>23. ASSUME NEW o \in Orders, CreateShipment(o)
      PROVE  TypeOK'
  <2> QED
    BY <1>23 DEF CreateShipment, TypeOK, orderVars, attemptVars, getnetVars, walletVars
<1>24. ASSUME NEW o \in Orders, MarkDelivered(o)
      PROVE  TypeOK'
  <2> QED
    BY <1>24 DEF MarkDelivered, TypeOK, OrderStatus, attemptVars, getnetVars, walletVars
<1>25. ASSUME SyncMissingWallets
      PROVE  TypeOK'
  BY <1>25 DEF SyncMissingWallets, TypeOK, orderVars, attemptVars, getnetVars
<1>26. CASE UNCHANGED vars
  BY <1>26 DEF vars, TypeOK, orderVars, attemptVars, getnetVars, walletVars
<1> QED
  BY <1>1, <1>2, <1>3, <1>4, <1>5, <1>6, <1>7, <1>8, <1>9, <1>10, <1>11, <1>12, <1>13, <1>14, <1>15, <1>16, <1>17, <1>18, <1>19, <1>20, <1>21, <1>22, <1>23, <1>24, <1>25, <1>26
  DEF Next, CreateStep, WebhookStep, Environment

(* Initially the rows are empty and no request is in progress.              *)
LEMMA TypeInit == Init => TypeOK
<1> SUFFICES ASSUME Init PROVE TypeOK
  OBVIOUS
<1>1. Idle \in Request /\ Idle.phase = "idle"
  BY WorkingType DEF Idle, Working, Phases
<1>2. QED
  BY <1>1, GetnetAssumption
  DEF Init, TypeOK, OrderStatus, PaymentStatus, AttemptStatus, NetCounts, ZeroCounts

(* Every reachable state is well typed.                                     *)
THEOREM TypeCorrect == Spec => []TypeOK
BY TypeInit, TypeStep, PTL DEF Spec

------------------------------------------------------------------------------
(* The ledger part of the inductive invariant, and the part that depends on *)
(* what other components see.                                               *)

Ledger ==
  /\ OrderLockExclusive /\ WalletLockExclusive
  /\ CreditInProgress /\ CreditExactlyOnce
  /\ AllOrNone /\ CreditsAreSellers

Visible ==
  /\ PaidIsSettled /\ ApprovalSettled /\ ShippedSettled
  /\ NotifiedAfterSettlement

(* Nothing about the ledger depends on more than wallets and requests.      *)
LEMMA LedgerUnchanged ==
  ASSUME Ledger, UNCHANGED <<balance, creditRow, req>>
  PROVE  Ledger'
BY DEF Ledger, OrderLockExclusive, WalletLockExclusive, CreditInProgress,
       CreditExactlyOnce, AllOrNone, CreditsAreSellers, OrderAt, Settled, HasCredit

(* A request that enters a phase without wallets, taking the order lock only *)
(* if nobody else has it, disturbs no other transaction.                     *)
LEMMA LedgerEnter ==
  ASSUME TypeOK, Ledger, NEW r \in Requests, NEW w,
         req' = [req EXCEPT ![r] = w],
         w.held = {}, w.added = {},
         w.phase \in TxPhases =>
           \A q \in Requests \ {r} :
             req[q].phase \in TxPhases => OrderAt(q) # OrderOf[w.intent],
         UNCHANGED <<balance, creditRow>>
  PROVE  Ledger'
<1>1. /\ req'[r] = w
      /\ \A q \in Requests \ {r} : req'[q] = req[q]
  BY DEF TypeOK
<1>2. OrderLockExclusive'
  BY <1>1 DEF Ledger, OrderLockExclusive, OrderAt
<1>3. WalletLockExclusive'
  BY <1>1 DEF Ledger, WalletLockExclusive
<1>4. CreditInProgress'
  BY <1>1 DEF Ledger, CreditInProgress, OrderAt, HasCredit
<1>5. CreditExactlyOnce' /\ AllOrNone' /\ CreditsAreSellers'
  BY DEF Ledger, CreditExactlyOnce, AllOrNone, CreditsAreSellers, Settled, HasCredit
<1> QED
  BY <1>2, <1>3, <1>4, <1>5 DEF Ledger

(* Locking one more wallet: its balance and its CREDIT row are read under   *)
(* the lock.                                                                *)
LEMMA LedgerCreditSeller ==
  ASSUME TypeOK, Ledger, NEW r \in Requests, NEW s \in Sellers, CreditSeller(r, s)
  PROVE  Ledger'
<1> DEFINE o == OrderAt(r)
<1>1. /\ req[r] \in Request /\ req[r].phase = "credit"
      /\ s \in SellersIn(o) /\ s \notin req[r].held
      /\ \A q \in Requests : s \notin req[q].held
  BY DEF CreditSeller, TypeOK, NextSeller, WalletLocked, SellersIn
<1>2. /\ \A q \in Requests \ {r} : req'[q] = req[q]
      /\ req'[r].phase = "credit" /\ req'[r].intent = req[r].intent
      /\ req'[r].held = req[r].held \cup {s}
      /\ HasCredit(s, o) => /\ req'[r].added = req[r].added
                            /\ req'[r].seen = req[r].seen
      /\ ~HasCredit(s, o) => /\ req'[r].added = req[r].added \cup {s}
                             /\ req'[r].seen = [req[r].seen EXCEPT ![s] = balance[s]]
  <2>1. PassOver(req[r], s).phase = "credit" /\ AddNet(req[r], s).phase = "credit"
    BY <1>1 DEF PassOver, AddNet, Request
  <2>2. /\ PassOver(req[r], s).intent = req[r].intent
        /\ PassOver(req[r], s).held = req[r].held \cup {s}
        /\ PassOver(req[r], s).added = req[r].added
        /\ PassOver(req[r], s).seen = req[r].seen
    BY <1>1 DEF PassOver, Request
  <2>3. /\ AddNet(req[r], s).intent = req[r].intent
        /\ AddNet(req[r], s).held = req[r].held \cup {s}
        /\ AddNet(req[r], s).added = req[r].added \cup {s}
        /\ AddNet(req[r], s).seen = [req[r].seen EXCEPT ![s] = balance[s]]
    BY <1>1 DEF AddNet, Request
  <2> QED
    BY <2>1, <2>2, <2>3 DEF CreditSeller, TypeOK
<1>3. UNCHANGED <<balance, creditRow>>
  BY DEF CreditSeller, walletVars
<1>4. OrderLockExclusive'
  BY <1>1, <1>2 DEF Ledger, OrderLockExclusive, OrderAt, TxPhases
<1>5. WalletLockExclusive'
  BY <1>1, <1>2 DEF Ledger, WalletLockExclusive
<1>6. CreditInProgress'
  <2>1. ASSUME NEW q \in Requests, q # r
        PROVE  CreditInProgress!(q)'
    BY <1>2, <1>3, <2>1 DEF Ledger, CreditInProgress, OrderAt, HasCredit
  <2>2. CreditInProgress!(r)'
    <3>1. OrderAt(r)' = o
      BY <1>2 DEF OrderAt
    <3>2. /\ req[r].added \subseteq req[r].held
          /\ req[r].held \subseteq SellersIn(o)
          /\ \A t \in req[r].held :
               IF t \in req[r].added
               THEN req[r].seen[t] = balance[t] /\ ~HasCredit(t, o)
               ELSE HasCredit(t, o)
      BY <1>1 DEF Ledger, CreditInProgress
    <3>3. req[r].held \subseteq Sellers /\ req[r].seen \in [Sellers -> NetCounts]
      BY <1>1 DEF Request
    <3>4. CASE HasCredit(s, o)
      BY <1>1, <1>2, <1>3, <3>1, <3>2, <3>4 DEF HasCredit
    <3>5. CASE ~HasCredit(s, o)
      BY <1>1, <1>2, <1>3, <3>1, <3>2, <3>3, <3>5 DEF HasCredit
    <3> QED
      BY <3>4, <3>5
  <2> QED
    BY <2>1, <2>2 DEF CreditInProgress
<1>7. CreditExactlyOnce' /\ AllOrNone' /\ CreditsAreSellers'
  BY <1>3 DEF Ledger, CreditExactlyOnce, AllOrNone, CreditsAreSellers, Settled, HasCredit
<1> QED
  BY <1>4, <1>5, <1>6, <1>7 DEF Ledger

(* The commit of an approval: what it writes to the wallets is what they    *)
(* hold plus the net of this order, which they did not contain.             *)
LEMMA CommitCredits ==
  ASSUME TypeOK, Ledger, NEW r \in Requests, WebhookCommit(r),
         NEW o, o = OrderAt(r), NEW A, A = req[r].added
  PROVE  /\ \A s \in A : /\ balance[s][o] = 0
                         /\ balance'[s] = [balance[s] EXCEPT ![o] = 1]
         /\ \A s \in Sellers \ A : balance'[s] = balance[s]
         /\ creditRow' = creditRow \cup (A \X {o})
         /\ SellersIn(o) \X {o} \subseteq creditRow'
         /\ A \subseteq SellersIn(o) /\ SellersIn(o) = req[r].held
         /\ o \in Orders /\ A \subseteq Sellers
         /\ \A s \in SellersIn(o) \ A : <<s, o>> \in creditRow
         /\ \A s \in A : <<s, o>> \notin creditRow
<1>1. /\ req[r].phase = "credit" /\ req[r].held = SellersIn(o)
      /\ o \in Orders /\ req[r] \in Request
  BY GetnetAssumption DEF WebhookCommit, CanCommit, OrderAt, TypeOK
<1>2. A \subseteq Sellers /\ SellersIn(o) \subseteq Sellers
  BY <1>1, SellersInType DEF Request
<1>3. /\ A \subseteq SellersIn(o)
      /\ \A s \in SellersIn(o) :
           IF s \in A
           THEN req[r].seen[s] = balance[s] /\ <<s, o>> \notin creditRow
           ELSE <<s, o>> \in creditRow
  BY <1>1 DEF Ledger, CreditInProgress, HasCredit
<1>4. creditRow' = creditRow \cup (A \X {o})
  BY DEF WebhookCommit, OrderAt
<1>5. SellersIn(o) \X {o} \subseteq creditRow'
  BY <1>3, <1>4
<1>6. ASSUME NEW s \in A
      PROVE  /\ balance[s][o] = 0
             /\ balance'[s] = [balance[s] EXCEPT ![o] = 1]
  <2>1. s \in Sellers /\ ~HasCredit(s, o) /\ req[r].seen[s] = balance[s]
    BY <1>2, <1>3 DEF HasCredit
  <2>2. balance[s][o] = 0
    BY <1>1, <2>1 DEF Ledger, CreditExactlyOnce
  <2>3. balance'[s] = [balance[s] EXCEPT ![o] = balance[s][o] + 1]
    BY <2>1 DEF WebhookCommit, OrderAt
  <2> QED
    BY <2>2, <2>3
<1>7. \A s \in Sellers \ A : balance'[s] = balance[s]
  BY DEF WebhookCommit
<1> QED
  BY <1>1, <1>2, <1>3, <1>4, <1>5, <1>6, <1>7

(* The commit keeps the ledger, other transactions included.                *)
LEMMA LedgerCommit ==
  ASSUME TypeOK, Ledger, NEW r \in Requests, WebhookCommit(r)
  PROVE  Ledger'
<1> SUFFICES ASSUME NEW o, o = OrderAt(r), NEW A, A = req[r].added
             PROVE  Ledger'
  OBVIOUS
<1>1. /\ \A s \in A : balance[s][o] = 0 /\ balance'[s] = [balance[s] EXCEPT ![o] = 1]
      /\ \A s \in Sellers \ A : balance'[s] = balance[s]
      /\ creditRow' = creditRow \cup (A \X {o})
      /\ SellersIn(o) \X {o} \subseteq creditRow'
      /\ A \subseteq SellersIn(o) /\ SellersIn(o) = req[r].held
      /\ o \in Orders /\ A \subseteq Sellers
      /\ \A s \in SellersIn(o) \ A : <<s, o>> \in creditRow
      /\ \A s \in A : <<s, o>> \notin creditRow
  BY CommitCredits
<1>2. /\ req'[r].phase = "notifyApproved" /\ req'[r].held = {} /\ req'[r].added = {}
      /\ \A q \in Requests \ {r} : req'[q] = req[q]
      /\ req[r].phase = "credit"
  BY DEF WebhookCommit, Enter, Working, TypeOK
<1>3. OrderLockExclusive'
  BY <1>2 DEF Ledger, OrderLockExclusive, OrderAt, TxPhases
<1>4. WalletLockExclusive'
  BY <1>2 DEF Ledger, WalletLockExclusive
<1>5. CreditInProgress'
  <2>1. ASSUME NEW q \in Requests, q # r
        PROVE  CreditInProgress!(q)'
    <3>1. req'[q] = req[q] /\ OrderAt(q)' = OrderAt(q)
      BY <1>2, <2>1 DEF OrderAt
    <3>2. CASE req[q].phase # "credit"
      BY <3>1, <3>2 DEF Ledger, CreditInProgress
    <3>3. CASE req[q].phase = "credit"
      <4>1. OrderAt(q) # o /\ OrderAt(q) \in Orders /\ req[q].held \subseteq Sellers
        BY <1>2, <2>1, <3>3, GetnetAssumption
        DEF Ledger, OrderLockExclusive, TxPhases, OrderAt, TypeOK, Request
      <4>2. req[q].held \cap A = {}
        BY <1>1, <2>1 DEF Ledger, WalletLockExclusive
      <4>3. \A s \in req[q].held :
              /\ balance'[s] = balance[s]
              /\ <<s, OrderAt(q)>> \in creditRow' <=> <<s, OrderAt(q)>> \in creditRow
        BY <1>1, <4>1, <4>2
      <4>4. \A s \in req[q].held :
               IF s \in req[q].added
               THEN req[q].seen[s] = balance[s] /\ <<s, OrderAt(q)>> \notin creditRow
               ELSE <<s, OrderAt(q)>> \in creditRow
        BY <3>3 DEF Ledger, CreditInProgress, HasCredit
      <4>5. /\ req[q].added \subseteq req[q].held
            /\ req[q].held \subseteq SellersIn(OrderAt(q))
        BY <3>3 DEF Ledger, CreditInProgress
      <4> QED
        BY <3>1, <3>3, <4>3, <4>4, <4>5 DEF HasCredit
    <3> QED
      BY <3>2, <3>3
  <2>2. CreditInProgress!(r)'
    BY <1>2
  <2> QED
    BY <2>1, <2>2 DEF CreditInProgress
<1>6. CreditExactlyOnce'
  <2> SUFFICES ASSUME NEW s \in Sellers, NEW p \in Orders
               PROVE  balance'[s][p] = IF <<s, p>> \in creditRow' THEN 1 ELSE 0
    BY DEF CreditExactlyOnce, HasCredit
  <2>1. balance[s][p] = IF <<s, p>> \in creditRow THEN 1 ELSE 0
    BY DEF Ledger, CreditExactlyOnce, HasCredit
  <2>2. CASE s \in A
    <3>1. balance[s] \in [Orders -> Nat] /\ balance'[s] = [balance[s] EXCEPT ![o] = 1]
      BY <1>1, <2>2 DEF TypeOK, NetCounts
    <3> QED
      BY <1>1, <2>1, <2>2, <3>1
  <2>3. CASE s \notin A
    BY <1>1, <2>1, <2>3
  <2> QED
    BY <2>2, <2>3
<1>7. AllOrNone'
  <2> SUFFICES ASSUME NEW p \in Orders
               PROVE  \/ SellersIn(p) \X {p} \subseteq creditRow'
                      \/ \A s \in Sellers : <<s, p>> \notin creditRow'
    BY DEF AllOrNone, Settled, HasCredit
  <2>1. CASE p = o
    BY <1>1, <2>1
  <2>2. CASE p # o
    <3>1. \/ SellersIn(p) \X {p} \subseteq creditRow
          \/ \A s \in Sellers : <<s, p>> \notin creditRow
      BY DEF Ledger, AllOrNone, Settled, HasCredit
    <3> QED
      BY <1>1, <2>2, <3>1
  <2> QED
    BY <2>1, <2>2
<1>8. CreditsAreSellers'
  BY <1>1 DEF Ledger, CreditsAreSellers, HasCredit
<1> QED
  BY <1>3, <1>4, <1>5, <1>6, <1>7, <1>8 DEF Ledger

LEMMA WorkingHoldsNothing ==
  ASSUME NEW p, NEW i
  PROVE  /\ Working(p, i).phase = p /\ Working(p, i).intent = i
         /\ Working(p, i).held = {} /\ Working(p, i).added = {}
BY DEF Working

(* Every step of the system keeps the ledger.                               *)
LEMMA LedgerStep ==
  ASSUME TypeOK, Ledger, [Next]_vars
  PROVE  Ledger'
<1> USE DEF walletVars
<1>1. ASSUME NEW r \in Requests, NEW p, p \notin TxPhases, NEW i, Enter(r, p, i),
             UNCHANGED <<balance, creditRow>>
      PROVE  Ledger'
  <2> DEFINE w == Working(p, i)
  <2>1. w.held = {} /\ w.added = {} /\ w.phase \notin TxPhases
    BY <1>1, WorkingHoldsNothing
  <2>2. req' = [req EXCEPT ![r] = w] /\ UNCHANGED <<balance, creditRow>>
    BY <1>1 DEF Enter
  <2> HIDE DEF w
  <2> QED
    BY <2>1, <2>2, LedgerEnter
<1>2. ASSUME NEW r \in Requests, Finish(r), UNCHANGED <<balance, creditRow>>
      PROVE  Ledger'
  BY <1>1, <1>2 DEF Finish, Idle, Enter, TxPhases
<1>3. ASSUME NEW r \in Requests, NEW i \in Intents, NEW p, Enter(r, p, i),
             \A q \in Requests \ {r} :
               req[q].phase \in TxPhases => OrderAt(q) # OrderOf[i],
             UNCHANGED <<balance, creditRow>>
      PROVE  Ledger'
  <2> DEFINE w == Working(p, i)
  <2>1. w.held = {} /\ w.added = {} /\ w.intent = i
    BY WorkingHoldsNothing
  <2>2. req' = [req EXCEPT ![r] = w] /\ UNCHANGED <<balance, creditRow>>
    BY <1>3 DEF Enter
  <2>3. \A q \in Requests \ {r} :
          req[q].phase \in TxPhases => OrderAt(q) # OrderOf[w.intent]
    BY <1>3, <2>1
  <2> HIDE DEF w
  <2> QED
    BY <2>1, <2>2, <2>3, LedgerEnter
<1>4. ASSUME NEW r \in Requests, CreateStep(r)
      PROVE  Ledger'
  <2>1. ASSUME NEW i \in Intents, CreateBegin(r, i)
        PROVE  Ledger'
    <3> DEFINE w == [Working("calling", i) EXCEPT !.stale = PendingAttempts(OrderOf[i])]
    <3>1. w.held = {} /\ w.added = {} /\ w.intent = i
      BY DEF Working
    <3>2. \A q \in Requests : req[q].phase \in TxPhases => OrderAt(q) # OrderOf[i]
      BY <2>1 DEF CreateBegin, Locked
    <3>3. req' = [req EXCEPT ![r] = w] /\ UNCHANGED <<balance, creditRow>>
      BY <2>1 DEF CreateBegin
    <3> HIDE DEF w
    <3> QED
      BY <3>1, <3>2, <3>3, LedgerEnter
  <2>2. CASE MintIntent(r)
    <3>1. req[r].phase \in TxPhases /\ req[r].intent \in Intents
      BY <2>2 DEF MintIntent, TxPhases, TypeOK
    <3>2. \A q \in Requests \ {r} :
            req[q].phase \in TxPhases => OrderAt(q) # OrderOf[req[r].intent]
      BY <3>1 DEF Ledger, OrderLockExclusive, OrderAt
    <3> DEFINE w == [req[r] EXCEPT !.phase = "minted"]
    <3>3. w.held = {} /\ w.added = {} /\ w.intent = req[r].intent
      BY <2>2 DEF MintIntent, Ledger, CreditInProgress, TypeOK, Request
    <3>4. req' = [req EXCEPT ![r] = w] /\ UNCHANGED <<balance, creditRow>>
      BY <2>2 DEF MintIntent
    <3> HIDE DEF w
    <3> QED
      BY <3>2, <3>3, <3>4, LedgerEnter
  <2>3. CASE CreateCommit(r)
    BY <2>3, <1>2 DEF CreateCommit
  <2>4. CASE CreateFail(r)
    BY <2>4, <1>1 DEF CreateFail, TxPhases
  <2>5. CASE CreationAudit(r)
    BY <2>5, <1>2 DEF CreationAudit
  <2> QED
    BY <1>4, <2>1, <2>2, <2>3, <2>4, <2>5 DEF CreateStep
<1>5. ASSUME NEW r \in Requests, WebhookStep(r)
      PROVE  Ledger'
  <2>1. ASSUME NEW i \in Intents, WebhookReject(r, i)
        PROVE  Ledger'
    BY <2>1, <1>1 DEF WebhookReject, TxPhases
  <2>2. ASSUME NEW i \in Intents, WebhookDuplicate(r, i)
        PROVE  Ledger'
    BY <2>2, <1>1 DEF WebhookDuplicate, TxPhases
  <2>3. ASSUME NEW i \in Intents, WebhookApproveBegin(r, i)
        PROVE  Ledger'
    <3>1. \A q \in Requests : req[q].phase \in TxPhases => OrderAt(q) # OrderOf[i]
      BY <2>3 DEF WebhookApproveBegin, Receives, Locked
    <3> QED
      BY <2>3, <3>1, <1>3 DEF WebhookApproveBegin
  <2>4. ASSUME NEW i \in Intents, WebhookFail(r, i)
        PROVE  Ledger'
    BY <2>4, <1>1 DEF WebhookFail, TxPhases
  <2>5. ASSUME NEW s \in Sellers, CreditSeller(r, s)
        PROVE  Ledger'
    BY <2>5, LedgerCreditSeller
  <2>6. CASE WebhookCommit(r)
    BY <2>6, LedgerCommit
  <2>7. CASE WebhookRollback(r)
    BY <2>7, <1>1 DEF WebhookRollback, TxPhases
  <2>8. CASE AuditRead(r)
    <3>1. UNCHANGED <<balance, creditRow>>
      BY <2>8 DEF AuditRead
    <3>2. CASE Finish(r)
      BY <3>1, <3>2, <1>2
    <3>3. CASE ~Finish(r)
      <4> DEFINE w == [Working("auditWrite", req[r].intent)
                         EXCEPT !.copy = attempt[req[r].intent]]
      <4>1. w.held = {} /\ w.added = {} /\ w.phase \notin TxPhases
        BY DEF Working, TxPhases
      <4>2. req' = [req EXCEPT ![r] = w]
        BY <2>8, <3>3 DEF AuditRead
      <4> HIDE DEF w
      <4> QED
        BY <3>1, <4>1, <4>2, LedgerEnter
    <3> QED
      BY <3>2, <3>3
  <2>9. CASE AuditWrite(r)
    BY <2>9, <1>2 DEF AuditWrite
  <2>10. CASE NotifyApproved(r)
    BY <2>10, <1>2 DEF NotifyApproved
  <2>11. CASE NotifyRejected(r)
    BY <2>11, <1>2 DEF NotifyRejected
  <2>12. CASE NotifyFail(r)
    BY <2>12, <1>2 DEF NotifyFail
  <2> QED
    BY <1>5, <2>1, <2>2, <2>3, <2>4, <2>5, <2>6, <2>7, <2>8, <2>9, <2>10, <2>11, <2>12
    DEF WebhookStep
<1>6. ASSUME NEW r \in Requests, Crash(r)
      PROVE  Ledger'
  BY <1>6, <1>2 DEF Crash
<1>7. CASE Environment
  <2>1. UNCHANGED <<balance, creditRow, req>>
    BY <1>7 DEF Environment, WebhookMismatch, WebhookTouchOnly, BuyerPays, Expire,
                CreateShipment, MarkDelivered, SyncMissingWallets
  <2> QED
    BY <2>1, LedgerUnchanged
<1>8. CASE UNCHANGED vars
  BY <1>8, LedgerUnchanged DEF vars
<1> QED
  BY <1>4, <1>5, <1>6, <1>7, <1>8 DEF Next

(* What may change about an order for its visible part to stay sound: it    *)
(* newly shows as paid or delivered, is newly being announced, shipped or   *)
(* notified only when all its sellers are credited.                         *)
LEMMA VisibleKept ==
  ASSUME Visible, creditRow \subseteq creditRow',
         \A o \in Orders :
           /\ status'[o] \in {"paid", "delivered"} =>
                status[o] \in {"paid", "delivered"} \/ SellersIn(o) \X {o} \subseteq creditRow'
           /\ o \in shipped' =>
                o \in shipped \/ SellersIn(o) \X {o} \subseteq creditRow'
           /\ ApprovedKeys(o) \cap notified' # {} =>
                ApprovedKeys(o) \cap notified # {} \/ SellersIn(o) \X {o} \subseteq creditRow',
         shipped' \subseteq Orders,
         \A q \in Requests :
           req'[q].phase = "notifyApproved" =>
             req'[q] = req[q] \/ LET o == OrderOf[req'[q].intent]
                                 IN  SellersIn(o) \X {o} \subseteq creditRow'
  PROVE  Visible'
<1>1. PaidIsSettled'
  BY DEF Visible, PaidIsSettled, Settled
<1>2. ApprovalSettled'
  BY DEF Visible, ApprovalSettled, Settled, OrderAt
<1>3. ShippedSettled'
  BY DEF Visible, ShippedSettled, Settled
<1>4. NotifiedAfterSettlement'
  BY DEF Visible, NotifiedAfterSettlement, Settled
<1> QED
  BY <1>1, <1>2, <1>3, <1>4 DEF Visible

(* The keys of a rejection are not those of an approval, and the keys of    *)
(* two orders differ.                                                       *)
LEMMA KeysApart ==
  ASSUME NEW o \in Orders, NEW p \in Orders
  PROVE  /\ ApprovedKeys(o) \cap RejectedKeys(p) = {}
         /\ o # p => ApprovedKeys(o) \cap ApprovedKeys(p) = {}
BY DEF ApprovedKeys, RejectedKeys, SellerKeys

(* What a request that notifies adds belongs to a settled order, unless it  *)
(* announces a rejection.                                                   *)
LEMMA NotifiedKeys ==
  ASSUME TypeOK, Visible, NEW r \in Requests,
         req[r].phase \in {"notifyApproved", "notifyRejected"},
         NEW K \in SUBSET KeysToSend(r), notified' = notified \cup K,
         UNCHANGED creditRow, NEW o \in Orders, ApprovedKeys(o) \cap notified' # {}
  PROVE  ApprovedKeys(o) \cap notified # {} \/ SellersIn(o) \X {o} \subseteq creditRow'
<1>1. OrderAt(r) \in Orders
  BY GetnetAssumption DEF TypeOK, OrderAt
<1>2. CASE ApprovedKeys(o) \cap K = {}
  BY <1>2
<1>3. CASE ApprovedKeys(o) \cap K # {}
  <2>1. req[r].phase = "notifyApproved" /\ OrderAt(r) = o
    BY <1>1, <1>3, KeysApart DEF KeysToSend
  <2> QED
    BY <2>1 DEF Visible, ApprovalSettled, Settled
<1> QED
  BY <1>2, <1>3

(* Every step of the system keeps the visible part.                         *)
LEMMA VisibleStep ==
  ASSUME TypeOK, TypeOK', Ledger, Visible, [Next]_vars
  PROVE  Visible'
<1> USE DEF orderVars, walletVars
<1>1. ASSUME UNCHANGED <<creditRow, shipped, notified>>,
             \A o \in Orders :
               status'[o] \in {"paid", "delivered"} =>
                 status[o] \in {"paid", "delivered"} \/ Settled(o),
             \A q \in Requests : req'[q].phase = "notifyApproved" =>
               req'[q] = req[q] \/ Settled(OrderOf[req'[q].intent])
      PROVE  Visible'
  BY <1>1, VisibleKept DEF TypeOK, Settled
<1>2. ASSUME UNCHANGED <<creditRow, shipped, notified, status>>,
             NEW r \in Requests, NEW w, req' = [req EXCEPT ![r] = w],
             w.phase # "notifyApproved"
      PROVE  Visible'
  BY <1>1, <1>2 DEF TypeOK
<1>3. ASSUME UNCHANGED <<creditRow, shipped, notified, status>>,
             NEW r \in Requests, NEW p, p # "notifyApproved", NEW i, Enter(r, p, i)
      PROVE  Visible'
  <2> DEFINE w == Working(p, i)
  <2>1. w.phase # "notifyApproved" /\ req' = [req EXCEPT ![r] = w]
    BY <1>3, WorkingHoldsNothing DEF Enter
  <2> HIDE DEF w
  <2> QED
    BY <1>2, <1>3, <2>1
<1>4. ASSUME UNCHANGED <<creditRow, shipped, notified, status>>,
             NEW r \in Requests, Finish(r)
      PROVE  Visible'
  BY <1>3, <1>4 DEF Finish, Idle, Enter
<1>5. ASSUME NEW r \in Requests, CreateStep(r)
      PROVE  Visible'
  <2>1. ASSUME NEW i \in Intents, CreateBegin(r, i)
        PROVE  Visible'
    <3> DEFINE w == [Working("calling", i) EXCEPT !.stale = PendingAttempts(OrderOf[i])]
    <3>1. w.phase # "notifyApproved"
      BY DEF Working
    <3>2. req' = [req EXCEPT ![r] = w] /\ UNCHANGED <<creditRow, shipped, notified, status>>
      BY <2>1 DEF CreateBegin
    <3> HIDE DEF w
    <3> QED
      BY <3>1, <3>2, <1>2
  <2>2. CASE MintIntent(r)
    <3> DEFINE w == [req[r] EXCEPT !.phase = "minted"]
    <3>1. w.phase # "notifyApproved"
      BY DEF TypeOK, Request
    <3>2. req' = [req EXCEPT ![r] = w] /\ UNCHANGED <<creditRow, shipped, notified, status>>
      BY <2>2 DEF MintIntent
    <3> HIDE DEF w
    <3> QED
      BY <3>1, <3>2, <1>2
  <2>3. CASE CreateCommit(r)
    BY <2>3, <1>4 DEF CreateCommit
  <2>4. CASE CreateFail(r)
    BY <2>4, <1>3 DEF CreateFail
  <2>5. CASE CreationAudit(r)
    BY <2>5, <1>4 DEF CreationAudit
  <2> QED
    BY <1>5, <2>1, <2>2, <2>3, <2>4, <2>5 DEF CreateStep
<1>6. ASSUME NEW r \in Requests, WebhookStep(r)
      PROVE  Visible'
  <2>1. ASSUME NEW i \in Intents, WebhookReject(r, i)
        PROVE  Visible'
    <3>1. /\ UNCHANGED <<creditRow, shipped, notified>>
          /\ \A o \in Orders : status'[o] \in {"paid", "delivered"} =>
                                 status[o] \in {"paid", "delivered"}
          /\ \A q \in Requests \ {r} : req'[q] = req[q]
          /\ req'[r].phase = "notifyRejected"
      BY <2>1 DEF WebhookReject, Enter, Working, TypeOK
    <3> QED
      BY <3>1, <1>1
  <2>2. ASSUME NEW i \in Intents, WebhookDuplicate(r, i)
        PROVE  Visible'
    <3>1. /\ UNCHANGED <<creditRow, shipped, notified, status>>
          /\ \A q \in Requests \ {r} : req'[q] = req[q]
          /\ req'[r].intent = i
      BY <2>2 DEF WebhookDuplicate, Enter, Working, TypeOK
    <3>2. Settled(OrderOf[i])
      BY <2>2, GetnetAssumption DEF WebhookDuplicate, AlreadyPaid, Visible, PaidIsSettled
    <3> QED
      BY <3>1, <3>2, <1>1
  <2>3. ASSUME NEW i \in Intents, WebhookApproveBegin(r, i)
        PROVE  Visible'
    BY <2>3, <1>3 DEF WebhookApproveBegin
  <2>4. ASSUME NEW i \in Intents, WebhookFail(r, i)
        PROVE  Visible'
    BY <2>4, <1>3 DEF WebhookFail
  <2>5. ASSUME NEW s \in Sellers, CreditSeller(r, s)
        PROVE  Visible'
    <3>1. /\ UNCHANGED <<creditRow, shipped, notified, status>>
          /\ \A q \in Requests \ {r} : req'[q] = req[q]
          /\ req[r] \in Request /\ req[r].phase = "credit"
      BY <2>5 DEF CreditSeller, TypeOK
    <3>2. PassOver(req[r], s).phase = "credit" /\ AddNet(req[r], s).phase = "credit"
      BY <3>1 DEF PassOver, AddNet, Request
    <3>3. req'[r].phase = "credit"
      BY <2>5, <3>2 DEF CreditSeller, TypeOK
    <3> QED
      BY <3>1, <3>3, <1>1
  <2>6. CASE WebhookCommit(r)
    <3> SUFFICES ASSUME NEW o, o = OrderAt(r), NEW A, A = req[r].added
                 PROVE  Visible'
      OBVIOUS
    <3>1. /\ creditRow' = creditRow \cup (A \X {o})
          /\ SellersIn(o) \X {o} \subseteq creditRow'
          /\ o \in Orders
      BY <2>6, CommitCredits
    <3>2. /\ UNCHANGED <<shipped, notified>>
          /\ \A p \in Orders \ {o} : status'[p] = status[p]
          /\ \A q \in Requests \ {r} : req'[q] = req[q]
          /\ OrderOf[req'[r].intent] = o
      BY <2>6 DEF WebhookCommit, Enter, Working, TypeOK, OrderAt
    <3> QED
      BY <3>1, <3>2, VisibleKept DEF TypeOK
  <2>7. CASE WebhookRollback(r)
    BY <2>7, <1>3 DEF WebhookRollback
  <2>8. CASE AuditRead(r)
    <3>1. UNCHANGED <<creditRow, shipped, notified, status>>
      BY <2>8 DEF AuditRead
    <3>2. CASE Finish(r)
      BY <3>1, <3>2, <1>4
    <3>3. CASE ~Finish(r)
      <4> DEFINE w == [Working("auditWrite", req[r].intent)
                         EXCEPT !.copy = attempt[req[r].intent]]
      <4>1. w.phase # "notifyApproved"
        BY DEF Working
      <4>2. req' = [req EXCEPT ![r] = w]
        BY <2>8, <3>3 DEF AuditRead
      <4> HIDE DEF w
      <4> QED
        BY <3>1, <4>1, <4>2, <1>2
    <3> QED
      BY <3>2, <3>3
  <2>9. CASE AuditWrite(r)
    BY <2>9, <1>4 DEF AuditWrite
  <2>10. ASSUME req[r].phase \in {"notifyApproved", "notifyRejected"},
                NEW K \in SUBSET KeysToSend(r), notified' = notified \cup K,
                Finish(r), UNCHANGED <<creditRow, shipped, status>>
         PROVE  Visible'
    <3>1. /\ \A q \in Requests \ {r} : req'[q] = req[q]
          /\ req'[r].phase # "notifyApproved"
      BY <2>10 DEF Finish, Idle, Working, TypeOK
    <3>2. \A o \in Orders :
            ApprovedKeys(o) \cap notified' # {} =>
              ApprovedKeys(o) \cap notified # {} \/ SellersIn(o) \X {o} \subseteq creditRow'
      BY <2>10, NotifiedKeys
    <3> QED
      BY <2>10, <3>1, <3>2, VisibleKept DEF TypeOK
  <2>11. CASE NotifyApproved(r)
    BY <2>10, <2>11 DEF NotifyApproved
  <2>12. CASE NotifyRejected(r)
    BY <2>10, <2>12 DEF NotifyRejected
  <2>13. CASE NotifyFail(r)
    BY <2>10, <2>13 DEF NotifyFail
  <2> QED
    BY <1>6, <2>1, <2>2, <2>3, <2>4, <2>5, <2>6, <2>7, <2>8, <2>9, <2>11, <2>12, <2>13
    DEF WebhookStep
<1>7. ASSUME NEW r \in Requests, Crash(r)
      PROVE  Visible'
  BY <1>7, <1>4 DEF Crash
<1>8. CASE Environment
  <2>1. ASSUME NEW o \in Orders, CreateShipment(o)
        PROVE  Visible'
    <3>1. shipped' = shipped \cup {o} /\ UNCHANGED <<status, creditRow, notified, req>>
      BY <2>1 DEF CreateShipment
    <3>2. SellersIn(o) \X {o} \subseteq creditRow'
      BY <2>1, <3>1 DEF CreateShipment, Visible, PaidIsSettled, Settled
    <3> QED
      BY <3>1, <3>2, VisibleKept DEF TypeOK
  <2>2. ASSUME NEW o \in Orders, MarkDelivered(o)
        PROVE  Visible'
    <3>1. UNCHANGED <<creditRow, shipped, notified, req>> /\ Settled(o)
      BY <2>2 DEF MarkDelivered, Visible, ShippedSettled
    <3>2. \A p \in Orders \ {o} : status'[p] = status[p]
      BY <2>2 DEF MarkDelivered, TypeOK
    <3> QED
      BY <3>1, <3>2, <1>1
  <2>3. CASE UNCHANGED <<status, creditRow, shipped, notified, req>>
    BY <2>3, <1>1
  <2> QED
    BY <1>8, <2>1, <2>2, <2>3
    DEF Environment, WebhookMismatch, WebhookTouchOnly, BuyerPays, Expire, SyncMissingWallets
<1>9. CASE UNCHANGED vars
  BY <1>9, <1>1 DEF vars
<1> QED
  BY <1>5, <1>6, <1>7, <1>8, <1>9 DEF Next

------------------------------------------------------------------------------
(* The theorems.                                                            *)

LEMMA IInvInit == Init => IInv
<1> SUFFICES ASSUME Init PROVE IInv
  OBVIOUS
<1>1. \A r \in Requests : req[r].phase = "idle" /\ req[r].held = {} /\ req[r].added = {}
  BY WorkingHoldsNothing DEF Init, Idle
<1>2. OrderLockExclusive /\ WalletLockExclusive /\ CreditInProgress /\ ApprovalSettled
  BY <1>1 DEF OrderLockExclusive, WalletLockExclusive, CreditInProgress, ApprovalSettled, TxPhases
<1>3. CreditExactlyOnce /\ AllOrNone /\ CreditsAreSellers
  BY DEF Init, CreditExactlyOnce, AllOrNone, CreditsAreSellers, HasCredit, ZeroCounts
<1>4. PaidIsSettled /\ ShippedSettled /\ NotifiedAfterSettlement
  BY DEF Init, PaidIsSettled, ShippedSettled, NotifiedAfterSettlement
<1> QED
  BY <1>2, <1>3, <1>4, TypeInit DEF IInv

LEMMA IInvStep == IInv /\ [Next]_vars => IInv'
BY TypeStep, LedgerStep, VisibleStep DEF IInv, Ledger, Visible

(* The inductive invariant holds in every reachable state.                  *)
THEOREM Inductive == Spec => []IInv
BY IInvInit, IInvStep, PTL DEF Spec

(* No interleaving of webhooks, rollbacks and crashes credits a seller      *)
(* twice for an order, or leaves a CREDIT row without its money.            *)
THEOREM CreditedOnce == Spec => []CreditExactlyOnce
<1>1. IInv => CreditExactlyOnce
  BY DEF IInv
<1> QED
  BY <1>1, Inductive, PTL

(* An order shown as paid or delivered has credited all its sellers.        *)
THEOREM PaidSettled == Spec => []PaidIsSettled
<1>1. IInv => PaidIsSettled
  BY DEF IInv
<1> QED
  BY <1>1, Inductive, PTL

(* Approval and sale notifications exist only for settled orders.           *)
THEOREM NotifiedSettled == Spec => []NotifiedAfterSettlement
<1>1. IInv => NotifiedAfterSettlement
  BY DEF IInv
<1> QED
  BY <1>1, Inductive, PTL

(* Only the commit of an approval touches balances and CREDIT rows.         *)
LEMMA OnlyCommitCredits ==
  ASSUME [Next]_vars, \A r \in Requests : ~WebhookCommit(r)
  PROVE  UNCHANGED <<balance, creditRow>>
<1> USE DEF walletVars
<1>1. ASSUME NEW r \in Requests, CreateStep(r)
      PROVE  UNCHANGED <<balance, creditRow>>
  BY <1>1 DEF CreateStep, CreateBegin, MintIntent, CreateCommit, CreateFail, CreationAudit
<1>2. ASSUME NEW r \in Requests, WebhookStep(r)
      PROVE  UNCHANGED <<balance, creditRow>>
  BY <1>2 DEF WebhookStep, WebhookReject, WebhookDuplicate, WebhookApproveBegin, WebhookFail,
              CreditSeller, WebhookRollback, AuditRead, AuditWrite, NotifyApproved,
              NotifyRejected, NotifyFail
<1>3. ASSUME NEW r \in Requests, Crash(r)
      PROVE  UNCHANGED <<balance, creditRow>>
  BY <1>3 DEF Crash
<1>4. CASE Environment
  BY <1>4 DEF Environment, WebhookMismatch, WebhookTouchOnly, BuyerPays, Expire,
              CreateShipment, MarkDelivered, SyncMissingWallets
<1>5. CASE UNCHANGED vars
  BY <1>5 DEF vars
<1> QED
  BY <1>1, <1>2, <1>3, <1>4, <1>5 DEF Next

(* A commit pays out a whole order that was not paid out before, or, when   *)
(* the order was settled already, changes no balance.                       *)
LEMMA CommitSettles ==
  ASSUME TypeOK, Ledger, NEW r \in Requests, WebhookCommit(r)
  PROVE  Settlement!Next \/ UNCHANGED balance
<1> SUFFICES ASSUME NEW o, o = OrderAt(r), NEW A, A = req[r].added
             PROVE  Settlement!Next \/ UNCHANGED balance
  OBVIOUS
<1>1. /\ \A s \in A : balance[s][o] = 0 /\ balance'[s] = [balance[s] EXCEPT ![o] = 1]
      /\ \A s \in Sellers \ A : balance'[s] = balance[s]
      /\ A \subseteq SellersIn(o)
      /\ o \in Orders /\ A \subseteq Sellers
      /\ \A s \in SellersIn(o) \ A : <<s, o>> \in creditRow
      /\ \A s \in A : <<s, o>> \notin creditRow
  BY CommitCredits
<1>2. /\ balance \in [Sellers -> [Orders -> Nat]]
      /\ balance' = [s \in Sellers |-> balance'[s]]
  BY DEF TypeOK, NetCounts, WebhookCommit
<1>3. CASE A = {}
  BY <1>1, <1>2, <1>3
<1>4. CASE A # {}
  <2>1. A = SellersIn(o)
    <3>1. SellersIn(o) \subseteq Sellers
      BY <1>1, SellersInType
    <3>2. \A s \in SellersIn(o) : <<s, o>> \notin creditRow
      BY <1>1, <1>4, <3>1 DEF Ledger, AllOrNone, Settled, HasCredit
    <3> QED
      BY <1>1, <3>2
  <2>2. \A s \in Sellers :
          balance'[s] = [p \in Orders |-> IF p = o /\ s \in SellersIn(o) THEN 1 ELSE balance[s][p]]
    <3> SUFFICES ASSUME NEW s \in Sellers
                 PROVE  balance'[s] = [p \in Orders |->
                          IF p = o /\ s \in SellersIn(o) THEN 1 ELSE balance[s][p]]
      OBVIOUS
    <3>1. balance[s] = [p \in Orders |-> balance[s][p]]
      BY <1>2
    <3>2. CASE s \in A
      BY <1>1, <2>1, <3>1, <3>2
    <3>3. CASE s \notin A
      BY <1>1, <2>1, <3>1, <3>3
    <3> QED
      BY <3>2, <3>3
  <2>3. balance' = [s \in Sellers |-> [p \in Orders |->
                      IF p = o /\ s \in SellersIn(o) THEN 1 ELSE balance[s][p]]]
    BY <1>2, <2>2
  <2>4. Settlement!Settle(o)
    <3> DEFINE payees == [p \in Orders |-> SellersIn(p)]
    <3>1. payees[o] = SellersIn(o)
      BY <1>1
    <3> HIDE DEF payees
    <3>2. \A s \in payees[o] : balance[s][o] = 0
      BY <1>1, <2>1, <3>1
    <3>3. balance' = [s \in Sellers |-> [p \in Orders |->
                        IF p = o /\ s \in payees[o] THEN 1 ELSE balance[s][p]]]
      BY <2>3, <3>1
    <3> QED
      BY <3>2, <3>3 DEF payees, Settlement!Settle
  <2> QED
    BY <1>1, <2>4 DEF Settlement!Next
<1> QED
  BY <1>3, <1>4

(* The checkout implements the abstract settlement: wallets receive the net *)
(* of an order for all its sellers at once, and once.                       *)
THEOREM Implements == Spec => SettledOnceAndWhole
<1>1. Init => Settlement!Init
  BY DEF Init, Settlement!Init, ZeroCounts
<1>2. IInv /\ [Next]_vars => [Settlement!Next]_balance
  <2> SUFFICES ASSUME IInv, [Next]_vars
               PROVE  Settlement!Next \/ UNCHANGED balance
    OBVIOUS
  <2>1. ASSUME NEW r \in Requests, WebhookCommit(r)
        PROVE  Settlement!Next \/ UNCHANGED balance
    BY <2>1, CommitSettles DEF IInv, Ledger
  <2> QED
    BY <2>1, OnlyCommitCredits
<1> QED
  BY <1>1, <1>2, Inductive, PTL DEF Spec, SettledOnceAndWhole, Settlement!Spec

(* The events and requests that leave orders.status alone.                  *)
LEMMA StatusKept ==
  ASSUME [Next]_vars,
         ~ \E r \in Requests : WebhookCommit(r),
         ~ \E r \in Requests, i \in Intents : WebhookReject(r, i),
         ~ \E o \in Orders : MarkDelivered(o)
  PROVE  status' = status
<1>1. ASSUME NEW r \in Requests, CreateStep(r)
      PROVE  status' = status
  BY <1>1 DEF CreateStep, CreateBegin, MintIntent, CreateCommit, CreateFail, CreationAudit,
              orderVars
<1>2. ASSUME NEW r \in Requests, WebhookStep(r)
      PROVE  status' = status
  BY <1>2 DEF WebhookStep, WebhookDuplicate, WebhookApproveBegin, WebhookFail, CreditSeller,
              WebhookRollback, AuditRead, AuditWrite, NotifyApproved, NotifyRejected,
              NotifyFail, orderVars
<1>3. ASSUME Environment
      PROVE  status' = status
  BY <1>3 DEF Environment, WebhookMismatch, WebhookTouchOnly, BuyerPays, Expire,
              CreateShipment, SyncMissingWallets, orderVars
<1>4. QED
  BY <1>1, <1>2, <1>3 DEF Next, Crash, vars, orderVars

(* Shipments are never taken back.                                          *)
LEMMA ShippedKept ==
  ASSUME [Next]_vars
  PROVE  shipped \subseteq shipped'
<1>1. ASSUME NEW r \in Requests, CreateStep(r)
      PROVE  shipped' = shipped
  BY <1>1 DEF CreateStep, CreateBegin, MintIntent, CreateCommit, CreateFail, CreationAudit
<1>2. ASSUME NEW r \in Requests, WebhookStep(r)
      PROVE  shipped' = shipped
  BY <1>2 DEF WebhookStep, WebhookReject, WebhookDuplicate, WebhookApproveBegin, WebhookFail,
              CreditSeller, WebhookCommit, WebhookRollback, AuditRead, AuditWrite,
              NotifyApproved, NotifyRejected, NotifyFail
<1>3. ASSUME Environment
      PROVE  shipped \subseteq shipped'
  BY <1>3 DEF Environment, WebhookMismatch, WebhookTouchOnly, BuyerPays, Expire,
              CreateShipment, MarkDelivered, SyncMissingWallets
<1>4. QED
  BY <1>1, <1>2, <1>3 DEF Next, Crash, vars

(* An order with a credit shows as paid until it is shipped, whatever the   *)
(* order in which rejections, approvals and shipments reach it: credits and *)
(* "paid" are committed together, and a rejection of a paid order is        *)
(* refused.                                                                 *)
THEOREM CreditedPaid == Spec => []CreditedIsPaid
<1>1. Init => CreditedIsPaid
  BY DEF Init, CreditedIsPaid, HasCredit
<1>2. TypeOK /\ CreditedIsPaid /\ [Next]_vars => CreditedIsPaid'
  <2> SUFFICES ASSUME TypeOK, CreditedIsPaid, [Next]_vars,
                      NEW s \in Sellers, NEW o \in Orders, HasCredit(s, o)'
               PROVE  status'[o] = "paid" \/ o \in shipped'
    BY DEF CreditedIsPaid
  <2>1. shipped \subseteq shipped'
    BY ShippedKept
  <2>2. ASSUME NEW r \in Requests, WebhookCommit(r)
        PROVE  status'[o] = "paid" \/ o \in shipped'
    <3>1. CASE o = OrderOf[req[r].intent]
      BY <2>2, <3>1 DEF WebhookCommit, TypeOK
    <3>2. CASE o # OrderOf[req[r].intent]
      <4>1. HasCredit(s, o) /\ status'[o] = status[o]
        BY <2>2, <3>2 DEF WebhookCommit, HasCredit, TypeOK
      <4> QED
        BY <2>1, <4>1 DEF CreditedIsPaid
    <3> QED
      BY <3>1, <3>2
  <2>3. ASSUME ~ \E r \in Requests : WebhookCommit(r)
        PROVE  HasCredit(s, o)
    BY <2>3, OnlyCommitCredits DEF HasCredit
  <2>4. ASSUME NEW r \in Requests, NEW i \in Intents, WebhookReject(r, i), HasCredit(s, o)
        PROVE  status'[o] = "paid" \/ o \in shipped'
    <3>1. status[o] # "paid" \/ status'[o] = status[o]
      BY <2>4 DEF WebhookReject, CanReject, TypeOK
    <3> QED
      BY <2>1, <2>4, <3>1 DEF CreditedIsPaid
  <2>5. ASSUME NEW p \in Orders, MarkDelivered(p), HasCredit(s, o)
        PROVE  status'[o] = "paid" \/ o \in shipped'
    <3>1. o \in shipped \/ status'[o] = status[o]
      BY <2>5 DEF MarkDelivered, TypeOK
    <3> QED
      BY <2>1, <2>5, <3>1 DEF CreditedIsPaid
  <2>6. ASSUME status' = status, HasCredit(s, o)
        PROVE  status'[o] = "paid" \/ o \in shipped'
    BY <2>1, <2>6 DEF CreditedIsPaid
  <2> QED
    BY <2>2, <2>3, <2>4, <2>5, <2>6, StatusKept
<1> QED
  BY <1>1, <1>2, TypeCorrect, PTL DEF Spec

(* A completed payment row is never demoted.                                *)
THEOREM CompletedStays == Spec => CompletedIsFinal
<1> DEFINE Kept == \A o \in Orders : payment[o] = "COMPLETED" => payment'[o] = "COMPLETED"
<1>1. TypeOK /\ [Next]_vars => [Kept]_payment
  <2> SUFFICES ASSUME TypeOK, [Next]_vars, NEW o \in Orders, payment[o] = "COMPLETED"
               PROVE  payment'[o] = "COMPLETED"
    OBVIOUS
  <2>1. \A i \in Intents : OrderOf[i] = o => TouchedPayment(i) = "COMPLETED"
    BY DEF TouchedPayment
  <2>2. ASSUME NEW r \in Requests, CreateStep(r)
        PROVE  payment'[o] = "COMPLETED"
    BY <2>2 DEF CreateStep, CreateBegin, MintIntent, CreateCommit, CreateFail, CreationAudit,
                orderVars, TypeOK
  <2>3. ASSUME NEW r \in Requests, NEW i \in Intents,
               WebhookReject(r, i) \/ WebhookDuplicate(r, i)
        PROVE  payment'[o] = "COMPLETED"
    BY <2>1, <2>3 DEF WebhookReject, WebhookDuplicate, AfterRejection, TypeOK
  <2>4. ASSUME NEW r \in Requests, WebhookCommit(r)
        PROVE  payment'[o] = "COMPLETED"
    <3>1. req[r].intent \in Intents
      BY <2>4 DEF WebhookCommit, TypeOK
    <3> QED
      BY <2>1, <2>4, <3>1 DEF WebhookCommit, AfterApproval, TypeOK
  <2>5. ASSUME NEW r \in Requests, WebhookStep(r)
        PROVE  \/ payment' = payment \/ WebhookCommit(r)
               \/ \E i \in Intents : WebhookReject(r, i) \/ WebhookDuplicate(r, i)
    BY <2>5 DEF WebhookStep, WebhookApproveBegin, WebhookFail, CreditSeller, WebhookRollback,
                AuditRead, AuditWrite, NotifyApproved, NotifyRejected, NotifyFail, orderVars
  <2>6. CASE Environment
    <3>1. ASSUME NEW i \in Intents, WebhookTouchOnly(i)
          PROVE  payment'[o] = "COMPLETED"
      BY <2>1, <3>1 DEF WebhookTouchOnly, TypeOK
    <3> QED
      BY <2>6, <3>1 DEF Environment, WebhookMismatch, BuyerPays, Expire, CreateShipment,
                        MarkDelivered, SyncMissingWallets, orderVars
  <2> QED
    BY <2>2, <2>3, <2>4, <2>5, <2>6 DEF Next, Crash, vars, orderVars
<1> HIDE DEF Kept
<1>2. Spec => [][Kept]_payment
  BY <1>1, TypeCorrect, PTL DEF Spec
<1> QED
  BY <1>2 DEF Kept, CompletedIsFinal

------------------------------------------------------------------------------
(* The page that is handed out again.                                       *)

(* The phases in which a request holds what ReuseInv speaks of.             *)
Bound == {"auditWrite", "calling", "minted"}

(* Initially no request has read an attempt, and none is PENDING.           *)
LEMMA ReuseInit == Init => ReuseInv
<1> SUFFICES ASSUME Init PROVE ReuseInv
  OBVIOUS
<1>1. \A r \in Requests : req[r].phase = "idle"
  BY DEF Init, Idle, Working
<1>2. AttemptsTell
  BY DEF Init, AttemptsTell, Tells
<1>3. CopiesTell /\ CreatesLast
  BY <1>1 DEF CopiesTell, CreatesLast, Auditing
<1>4. ReusableIsCurrent
  BY DEF Init, ReusableIsCurrent, Reusable, PendingAttempts
<1> QED
  BY <1>2, <1>3, <1>4 DEF ReuseInv

(* Requests that end, or do something else, while no attempt changes, no    *)
(* order goes back to awaiting its payment and expired attempts stay so.    *)
LEMMA ReuseFrame ==
  ASSUME TypeOK, ReuseInv,
         \A q \in Requests : req'[q] = req[q] \/ req'[q].phase \notin Bound,
         UNCHANGED <<preference, attempt>>, expired \subseteq expired',
         \A o \in Orders : status'[o] = "pending" => status[o] = "pending"
  PROVE  ReuseInv'
<1> USE GetnetAssumption
<1>1. \A i \in Intents : OrderOf[i] \in Orders
  OBVIOUS
<1>2. AttemptsTell'
  BY <1>1 DEF ReuseInv, AttemptsTell, Tells, AwaitsPayment
<1>3. CopiesTell'
  BY <1>1 DEF ReuseInv, CopiesTell, Tells, AwaitsPayment, MatchesOrder, Auditing, Bound, TypeOK
<1>4. CreatesLast'
  BY DEF ReuseInv, CreatesLast, PendingAttempts, Auditing, OrderAt, Bound
<1>5. ReusableIsCurrent'
  BY DEF ReuseInv, ReusableIsCurrent, Reusable, PendingAttempts, MatchesOrder
<1> QED
  BY <1>2, <1>3, <1>4, <1>5 DEF ReuseInv

(* A creation starts under the order's lock, when all its pending attempts  *)
(* have expired, and so has all that an audit may set back.                 *)
LEMMA ReuseBegin ==
  ASSUME TypeOK, ReuseInv, NEW r \in Requests, NEW i \in Intents, CreateBegin(r, i)
  PROVE  ReuseInv'
<1> USE GetnetAssumption
<1> DEFINE o == OrderOf[i]
           w == [Working("calling", i) EXCEPT !.stale = PendingAttempts(o)]
<1>1. w.phase = "calling" /\ w.intent = i /\ w.stale = PendingAttempts(o)
  BY DEF Working
<1>2. /\ req' = [req EXCEPT ![r] = w]
      /\ AwaitsPayment(o) /\ Reusable(o) = {}
      /\ UNCHANGED <<status, preference, attempt, expired>>
  BY <1>1 DEF CreateBegin, orderVars, attemptVars
<1> HIDE DEF w
<1>3. req'[r] = w /\ \A q \in Requests \ {r} : req'[q] = req[q]
  BY <1>2 DEF TypeOK
<1>4. AttemptsTell' /\ ReusableIsCurrent'
  BY <1>2 DEF ReuseInv, AttemptsTell, Tells, AwaitsPayment, ReusableIsCurrent, Reusable,
              PendingAttempts, MatchesOrder
<1>5. CopiesTell'
  BY <1>1, <1>2, <1>3 DEF ReuseInv, CopiesTell, Tells, AwaitsPayment, MatchesOrder, Auditing
<1>6. PendingAttempts(o) \subseteq expired
  BY <1>2 DEF Reusable
<1>7. ASSUME NEW q \in Requests, Auditing(q), req[q].copy = "PENDING", OrderAt(q) = o
      PROVE  req[q].intent \in expired
  <2>1. req[q].intent \in Intents
    BY <1>7 DEF Auditing, TypeOK
  <2>2. ASSUME req[q].intent \notin expired
        PROVE  attempt[req[q].intent] = "PENDING"
    BY <1>2, <1>7, <2>2 DEF ReuseInv, CopiesTell, OrderAt
  <2> QED
    BY <1>6, <1>7, <2>1, <2>2 DEF PendingAttempts, OrderAt
<1>8. CreatesLast'
  <2>1. CreatesLast
    BY DEF ReuseInv
  <2>2. ASSUME NEW p \in Requests, req'[p].phase \in {"calling", "minted"}
        PROVE  /\ req'[p].stale \cup PendingAttempts(OrderOf[req'[p].intent]) \subseteq expired
               /\ \A q \in Requests :
                    /\ req'[q].phase = "auditWrite" /\ req'[q].copy = "PENDING"
                    /\ OrderOf[req'[q].intent] = OrderOf[req'[p].intent]
                    => req'[q].intent \in expired
    <3>1. CASE p = r
      BY <1>1, <1>3, <1>6, <1>7, <3>1 DEF Auditing, OrderAt
    <3>2. CASE p # r
      BY <1>1, <1>3, <2>1, <2>2, <3>2 DEF CreatesLast, Auditing, OrderAt
    <3> QED
      BY <3>1, <3>2
  <2> QED
    BY <1>2, <2>2 DEF CreatesLast, Auditing, OrderAt, PendingAttempts
<1> QED
  BY <1>4, <1>5, <1>8 DEF ReuseInv

(* Minting changes nothing a creation relies on.                            *)
LEMMA ReuseMint ==
  ASSUME TypeOK, ReuseInv, NEW r \in Requests, MintIntent(r)
  PROVE  ReuseInv'
<1> DEFINE w == [req[r] EXCEPT !.phase = "minted"]
<1>1. /\ w.phase = "minted" /\ w.intent = req[r].intent /\ w.stale = req[r].stale
      /\ w.copy = req[r].copy
  BY DEF TypeOK, Request
<1>2. /\ req' = [req EXCEPT ![r] = w] /\ req[r].phase = "calling"
      /\ UNCHANGED <<status, preference, attempt, expired>>
  BY DEF MintIntent, orderVars, attemptVars
<1> HIDE DEF w
<1>3. req'[r] = w /\ \A q \in Requests \ {r} : req'[q] = req[q]
  BY <1>2 DEF TypeOK
<1>4. AttemptsTell' /\ ReusableIsCurrent'
  BY <1>2 DEF ReuseInv, AttemptsTell, Tells, AwaitsPayment, ReusableIsCurrent, Reusable,
              PendingAttempts, MatchesOrder
<1>5. CopiesTell'
  BY <1>1, <1>2, <1>3 DEF ReuseInv, CopiesTell, Tells, AwaitsPayment, MatchesOrder, Auditing
<1>6. CreatesLast'
  BY <1>1, <1>2, <1>3 DEF ReuseInv, CreatesLast, PendingAttempts, Auditing, OrderAt
<1> QED
  BY <1>4, <1>5, <1>6 DEF ReuseInv

(* The commit replaces the current intent: the attempts it closes, and all  *)
(* others of the order, have expired.                                       *)
LEMMA ReuseCommit ==
  ASSUME TypeOK, ReuseInv, OrderLockExclusive, NEW r \in Requests, CreateCommit(r)
  PROVE  ReuseInv'
<1> USE GetnetAssumption
<1> SUFFICES ASSUME NEW i, i = req[r].intent, NEW o, o = OrderOf[i]
             PROVE  ReuseInv'
  OBVIOUS
<1>1. /\ i \in Intents /\ o \in Orders /\ req[r].phase = "minted" /\ OrderAt(r) = o
      /\ req[r].stale \subseteq expired /\ PendingAttempts(o) \subseteq expired
  BY DEF CreateCommit, TypeOK, ReuseInv, CreatesLast, OrderAt
<1>2. /\ preference'[o] = i
      /\ \A p \in Orders \ {o} : preference'[p] = preference[p]
      /\ attempt'[i] = "PENDING"
      /\ \A j \in Intents \ {i} :
           \/ attempt'[j] = attempt[j]
           \/ j \in req[r].stale /\ attempt'[j] = "EXPIRED"
      /\ UNCHANGED <<status, expired>>
  <2>1. /\ preference' = [preference EXCEPT ![o] = i]
        /\ attempt' = [j \in Intents |-> IF j = i THEN "PENDING"
                         ELSE IF j \in req[r].stale THEN ClosedAs(j) ELSE attempt[j]]
        /\ UNCHANGED <<status, expired>>
    BY DEF CreateCommit
  <2>2. \A j \in req[r].stale : ClosedAs(j) = "EXPIRED"
    BY <1>1 DEF ClosedAs
  <2>3. preference'[o] = i /\ \A p \in Orders \ {o} : preference'[p] = preference[p]
    BY <1>1, <2>1 DEF TypeOK
  <2>4. attempt'[i] = "PENDING"
    BY <1>1, <2>1
  <2>5. ASSUME NEW j \in Intents \ {i}
        PROVE  \/ attempt'[j] = attempt[j]
               \/ j \in req[r].stale /\ attempt'[j] = "EXPIRED"
    BY <2>1, <2>2
  <2> QED
    BY <2>1, <2>3, <2>4, <2>5
<1>3. req'[r].phase = "idle" /\ \A q \in Requests \ {r} : req'[q] = req[q]
  BY DEF CreateCommit, Finish, Idle, Working, TypeOK
<1>4. AttemptsTell'
  BY <1>1, <1>2 DEF ReuseInv, AttemptsTell, Tells, AwaitsPayment
<1>5. CopiesTell'
  <2>1. ASSUME NEW q \in Requests, req'[q].phase = "auditWrite",
               NEW j, j = req'[q].intent
        PROVE  /\ req'[q].copy # "NONE" /\ req'[q].copy # "CANCELED"
               /\ req'[q].copy = "EXPIRED" => j \in expired
               /\ req'[q].copy \in {"APPROVED", "REJECTED"} => status[OrderOf[j]] # "pending"
               /\ req'[q].copy = "PENDING" /\ j \notin expired =>
                    /\ preference'[OrderOf[j]] = j
                    /\ status[OrderOf[j]] = "pending" => attempt'[j] = "PENDING"
    <3>1. q # r /\ req'[q] = req[q] /\ Auditing(q) /\ j \in Intents /\ j = req[q].intent
      BY <1>3, <2>1 DEF Auditing, TypeOK
    <3>2. /\ req[q].copy # "NONE" /\ Tells(j, req[q].copy)
          /\ req[q].copy = "PENDING" /\ j \notin expired =>
               /\ preference[OrderOf[j]] = j
               /\ status[OrderOf[j]] = "pending" => attempt[j] = "PENDING"
      BY <3>1 DEF ReuseInv, CopiesTell, MatchesOrder, AwaitsPayment
    <3>3. req[q].copy = "PENDING" /\ OrderOf[j] = o => j \in expired
      BY <1>1, <3>1 DEF ReuseInv, CreatesLast, OrderAt
    <3>4. OrderOf[j] \in Orders
      BY <3>1
    <3>5. j \notin expired => attempt'[j] = attempt[j] \/ attempt'[j] = "PENDING"
      BY <1>1, <1>2, <3>1
    <3> QED
      BY <1>2, <3>1, <3>2, <3>3, <3>4, <3>5 DEF Tells, AwaitsPayment
  <2> QED
    BY <1>2, <2>1 DEF CopiesTell, Tells, Auditing, MatchesOrder, AwaitsPayment
<1>6. CreatesLast'
  <2>1. ASSUME NEW p \in Requests, req'[p].phase \in {"calling", "minted"}
        PROVE  /\ req'[p].stale \subseteq expired
               /\ \A j \in Intents : OrderOf[j] = OrderOf[req'[p].intent]
                                       /\ attempt'[j] = "PENDING" => j \in expired
               /\ \A q \in Requests :
                    /\ req'[q].phase = "auditWrite" /\ req'[q].copy = "PENDING"
                    /\ OrderOf[req'[q].intent] = OrderOf[req'[p].intent]
                    => req'[q].intent \in expired
    <3>1. p # r /\ req'[p] = req[p] /\ OrderOf[req[p].intent] # o
      BY <1>1, <1>3, <2>1 DEF OrderLockExclusive, OrderAt, TxPhases
    <3>2. /\ req[p].stale \subseteq expired
          /\ PendingAttempts(OrderOf[req[p].intent]) \subseteq expired
          /\ \A q \in Requests :
               /\ req[q].phase = "auditWrite" /\ req[q].copy = "PENDING"
               /\ OrderOf[req[q].intent] = OrderOf[req[p].intent]
               => req[q].intent \in expired
      BY <2>1, <3>1 DEF ReuseInv, CreatesLast, Auditing, OrderAt
    <3>3. \A j \in Intents : OrderOf[j] = OrderOf[req'[p].intent]
                               /\ attempt'[j] = "PENDING" => j \in expired
      BY <1>2, <3>1, <3>2 DEF PendingAttempts
    <3> QED
      BY <1>3, <3>1, <3>2, <3>3
  <2> QED
    BY <1>2, <2>1 DEF CreatesLast, Auditing, OrderAt, PendingAttempts
<1>7. ReusableIsCurrent'
  <2>1. ASSUME NEW j \in Intents, attempt'[j] = "PENDING", j \notin expired
        PROVE  preference'[OrderOf[j]] = j
    <3>1. CASE OrderOf[j] = o
      BY <1>1, <1>2, <2>1, <3>1 DEF PendingAttempts
    <3>2. CASE OrderOf[j] # o
      BY <1>1, <1>2, <2>1, <3>2
         DEF ReuseInv, ReusableIsCurrent, Reusable, PendingAttempts, MatchesOrder
    <3> QED
      BY <3>1, <3>2
  <2> QED
    BY <1>2, <2>1 DEF ReusableIsCurrent, Reusable, PendingAttempts, MatchesOrder
<1> QED
  BY <1>4, <1>5, <1>6, <1>7 DEF ReuseInv

(* What an event does to the attempt of the intent its order stores, when   *)
(* no transaction has the order: it leaves it PENDING, or decides it        *)
(* together with the order.                                                 *)
LEMMA ReuseEvent ==
  ASSUME TypeOK, ReuseInv, NEW i \in Intents, NEW a,
         \A q \in Requests : req[q].phase \in {"calling", "minted"} => OrderAt(q) # OrderOf[i],
         \A q \in Requests : req'[q] = req[q] \/ req'[q].phase \notin Bound,
         attempt' = [attempt EXCEPT ![i] = a],
         UNCHANGED <<preference, expired>>,
         \A o \in Orders : status'[o] = "pending" => status[o] = "pending",
         \/ a = TouchedAttempt(i) /\ MatchesOrder(i)
         \/ a \in {"APPROVED", "REJECTED"} /\ status'[OrderOf[i]] # "pending"
  PROVE  ReuseInv'
<1> USE GetnetAssumption
<1>1. /\ attempt'[i] = a /\ \A j \in Intents \ {i} : attempt'[j] = attempt[j]
      /\ \A j \in Intents : OrderOf[j] \in Orders
  BY DEF TypeOK
<1>2. \/ a = attempt[i]
      \/ a = "PENDING" /\ MatchesOrder(i)
      \/ a \in {"APPROVED", "REJECTED"} /\ status'[OrderOf[i]] # "pending"
  BY DEF TouchedAttempt
<1>3. attempt[i] = "PENDING" => a = "PENDING" \/ status'[OrderOf[i]] # "pending"
  BY DEF TouchedAttempt, Backfills
<1>4. AttemptsTell'
  BY <1>1, <1>2 DEF ReuseInv, AttemptsTell, Tells, AwaitsPayment
<1>5. CopiesTell'
  <2>1. ASSUME NEW q \in Requests, req'[q].phase = "auditWrite",
               NEW j, j = req'[q].intent
        PROVE  /\ req'[q].copy # "NONE" /\ req'[q].copy # "CANCELED"
               /\ req'[q].copy = "EXPIRED" => j \in expired
               /\ req'[q].copy \in {"APPROVED", "REJECTED"} => status'[OrderOf[j]] # "pending"
               /\ req'[q].copy = "PENDING" /\ j \notin expired =>
                    /\ preference[OrderOf[j]] = j
                    /\ status'[OrderOf[j]] = "pending" => attempt'[j] = "PENDING"
    <3>1. req'[q] = req[q] /\ Auditing(q) /\ j \in Intents /\ j = req[q].intent
      BY <2>1 DEF Auditing, TypeOK, Bound
    <3>2. /\ req[q].copy # "NONE" /\ Tells(j, req[q].copy)
          /\ req[q].copy = "PENDING" /\ j \notin expired =>
               /\ preference[OrderOf[j]] = j
               /\ status[OrderOf[j]] = "pending" => attempt[j] = "PENDING"
      BY <3>1 DEF ReuseInv, CopiesTell, MatchesOrder, AwaitsPayment
    <3> QED
      BY <1>1, <1>3, <3>1, <3>2 DEF Tells, AwaitsPayment
  <2> QED
    BY <2>1 DEF CopiesTell, Tells, Auditing, MatchesOrder, AwaitsPayment
<1>6. CreatesLast'
  <2>1. ASSUME NEW p \in Requests, req'[p].phase \in {"calling", "minted"}
        PROVE  /\ req'[p] = req[p] /\ req[p].stale \subseteq expired
               /\ PendingAttempts(OrderAt(p)) \subseteq expired
               /\ OrderAt(p) # OrderOf[i]
               /\ \A q \in Requests :
                    Auditing(q) /\ req[q].copy = "PENDING" /\ OrderAt(q) = OrderAt(p)
                      => req[q].intent \in expired
    BY <2>1 DEF ReuseInv, CreatesLast, Bound
  <2>2. ASSUME NEW p \in Requests, req'[p].phase \in {"calling", "minted"}
        PROVE  \A j \in Intents : OrderOf[j] = OrderOf[req'[p].intent]
                                     /\ attempt'[j] = "PENDING" => j \in expired
    BY <1>1, <2>1, <2>2 DEF OrderAt, PendingAttempts
  <2>3. ASSUME NEW p \in Requests, req'[p].phase \in {"calling", "minted"},
               NEW q \in Requests, req'[q].phase = "auditWrite", req'[q].copy = "PENDING",
               OrderOf[req'[q].intent] = OrderOf[req'[p].intent]
        PROVE  req'[q].intent \in expired
    BY <2>1, <2>3 DEF OrderAt, Auditing, Bound
  <2> QED
    BY <2>1, <2>2, <2>3 DEF CreatesLast, Auditing, OrderAt, PendingAttempts
<1>7. ReusableIsCurrent'
  BY <1>1, <1>2 DEF ReuseInv, ReusableIsCurrent, Reusable, PendingAttempts, MatchesOrder
<1> QED
  BY <1>4, <1>5, <1>6, <1>7 DEF ReuseInv

(* The audit reads the attempt: a pending one that has not expired is the   *)
(* current one.                                                             *)
LEMMA ReuseAuditRead ==
  ASSUME TypeOK, ReuseInv, NEW r \in Requests, AuditRead(r)
  PROVE  ReuseInv'
<1> USE GetnetAssumption
<1> SUFFICES ASSUME NEW i, i = req[r].intent
             PROVE  ReuseInv'
  OBVIOUS
<1>1. i \in Intents /\ UNCHANGED <<status, preference, attempt, expired>>
  BY DEF AuditRead, TypeOK, orderVars, attemptVars
<1>2. CASE attempt[i] = "NONE"
  <2>1. \A q \in Requests : req'[q] = req[q] \/ req'[q].phase \notin Bound
    BY <1>2 DEF AuditRead, Finish, Idle, Working, Bound, TypeOK
  <2> QED
    BY <1>1, <2>1, ReuseFrame
<1>3. CASE attempt[i] # "NONE"
  <2> DEFINE w == [Working("auditWrite", i) EXCEPT !.copy = attempt[i]]
  <2>1. w.phase = "auditWrite" /\ w.intent = i /\ w.copy = attempt[i]
    BY DEF Working
  <2>2. req' = [req EXCEPT ![r] = w]
    BY <1>3 DEF AuditRead
  <2> HIDE DEF w
  <2>3. req'[r] = w /\ \A q \in Requests \ {r} : req'[q] = req[q]
    BY <2>2 DEF TypeOK
  <2>4. /\ Tells(i, attempt[i])
        /\ attempt[i] = "PENDING" /\ i \notin expired => MatchesOrder(i)
    BY <1>1 DEF ReuseInv, AttemptsTell, ReusableIsCurrent, Reusable, PendingAttempts
  <2>5. AttemptsTell' /\ ReusableIsCurrent'
    BY <1>1 DEF ReuseInv, AttemptsTell, Tells, AwaitsPayment, ReusableIsCurrent, Reusable,
                PendingAttempts, MatchesOrder
  <2>6. CopiesTell'
    BY <1>1, <1>3, <2>1, <2>3, <2>4
       DEF ReuseInv, CopiesTell, Tells, AwaitsPayment, MatchesOrder, Auditing
  <2>7. CreatesLast'
    <3>1. \A p \in Requests : /\ req[p].phase \in {"calling", "minted"}
                              /\ OrderOf[i] = OrderAt(p) /\ w.copy = "PENDING"
                              => i \in expired
      BY <1>1, <2>1 DEF ReuseInv, CreatesLast, PendingAttempts
    <3> QED
      <4>1. ASSUME NEW p \in Requests, req'[p].phase \in {"calling", "minted"}
            PROVE  /\ p # r /\ req'[p] = req[p]
                   /\ req[p].stale \cup PendingAttempts(OrderAt(p)) \subseteq expired
                   /\ \A q \in Requests :
                        Auditing(q) /\ req[q].copy = "PENDING" /\ OrderAt(q) = OrderAt(p)
                          => req[q].intent \in expired
        BY <2>1, <2>3, <4>1 DEF ReuseInv, CreatesLast
      <4>2. ASSUME NEW p \in Requests, req'[p].phase \in {"calling", "minted"},
                   NEW q \in Requests, req'[q].phase = "auditWrite",
                   req'[q].copy = "PENDING",
                   OrderOf[req'[q].intent] = OrderOf[req'[p].intent]
            PROVE  req'[q].intent \in expired
        <5>1. CASE q = r
          BY <2>1, <2>3, <3>1, <4>1, <4>2, <5>1 DEF OrderAt
        <5>2. CASE q # r
          BY <2>3, <4>1, <4>2, <5>2 DEF OrderAt, Auditing
        <5> QED
          BY <5>1, <5>2
      <4> QED
        BY <1>1, <4>1, <4>2 DEF CreatesLast, PendingAttempts, Auditing, OrderAt
  <2> QED
    BY <2>5, <2>6, <2>7 DEF ReuseInv
<1> QED
  BY <1>2, <1>3

(* The audit writes back the status it read: a later decision is lost from  *)
(* the attempt, but no page becomes reusable that is not the current one.   *)
LEMMA ReuseAuditWrite ==
  ASSUME TypeOK, ReuseInv, NEW r \in Requests, AuditWrite(r)
  PROVE  ReuseInv'
<1> USE GetnetAssumption
<1> SUFFICES ASSUME NEW i, i = req[r].intent, NEW a, a = req[r].copy
             PROVE  ReuseInv'
  OBVIOUS
<1>1. /\ i \in Intents /\ UNCHANGED <<status, preference, expired>>
      /\ attempt' = [attempt EXCEPT ![i] = a]
      /\ Auditing(r)
  BY DEF AuditWrite, TypeOK, orderVars, Auditing
<1>2. /\ attempt'[i] = a /\ \A j \in Intents \ {i} : attempt'[j] = attempt[j]
      /\ req'[r].phase = "idle" /\ \A q \in Requests \ {r} : req'[q] = req[q]
  BY <1>1 DEF AuditWrite, Finish, Idle, Working, TypeOK
<1>3. /\ a # "NONE" /\ Tells(i, a)
      /\ a = "PENDING" /\ i \notin expired =>
           /\ MatchesOrder(i)
           /\ AwaitsPayment(OrderOf[i]) => attempt[i] = "PENDING"
  BY <1>1 DEF ReuseInv, CopiesTell
<1>4. a \in AttemptStatus
  BY DEF TypeOK, Request
<1>5. AttemptsTell'
  BY <1>1, <1>2, <1>3 DEF ReuseInv, AttemptsTell, Tells, AwaitsPayment
<1>6. CopiesTell'
  <2>1. AwaitsPayment(OrderOf[i]) /\ i \notin expired => a = "PENDING"
    BY <1>3, <1>4 DEF Tells, AttemptStatus
  <2>2. ASSUME NEW q \in Requests, req'[q].phase = "auditWrite",
               NEW j, j = req'[q].intent
        PROVE  /\ req'[q].copy # "NONE" /\ Tells(j, req'[q].copy)
               /\ req'[q].copy = "PENDING" /\ j \notin expired =>
                    /\ MatchesOrder(j)
                    /\ AwaitsPayment(OrderOf[j]) => attempt'[j] = "PENDING"
    <3>1. q # r /\ req'[q] = req[q] /\ Auditing(q) /\ j \in Intents /\ j = req[q].intent
      BY <1>2, <2>2 DEF Auditing, TypeOK
    <3>2. /\ req[q].copy # "NONE" /\ Tells(j, req[q].copy)
          /\ req[q].copy = "PENDING" /\ j \notin expired =>
               /\ MatchesOrder(j)
               /\ AwaitsPayment(OrderOf[j]) => attempt[j] = "PENDING"
      BY <3>1 DEF ReuseInv, CopiesTell
    <3> QED
      BY <1>2, <2>1, <3>1, <3>2
  <2> QED
    BY <1>1, <2>2 DEF CopiesTell, Tells, Auditing, MatchesOrder, AwaitsPayment
<1>7. CreatesLast'
  <2>1. ASSUME NEW p \in Requests, req'[p].phase \in {"calling", "minted"}
        PROVE  /\ req'[p] = req[p] /\ req[p].stale \subseteq expired
               /\ PendingAttempts(OrderAt(p)) \subseteq expired
               /\ OrderAt(p) = OrderOf[i] /\ a = "PENDING" => i \in expired
               /\ \A q \in Requests :
                    Auditing(q) /\ req[q].copy = "PENDING" /\ OrderAt(q) = OrderAt(p)
                      => req[q].intent \in expired
    <3>1. p # r /\ req'[p] = req[p] /\ req[p].phase \in {"calling", "minted"}
      BY <1>2, <2>1
    <3>2. OrderAt(r) = OrderOf[i]
      BY DEF OrderAt
    <3> QED
      BY <1>1, <3>1, <3>2 DEF ReuseInv, CreatesLast
  <2>2. ASSUME NEW p \in Requests, req'[p].phase \in {"calling", "minted"}
        PROVE  \A j \in Intents : OrderOf[j] = OrderOf[req'[p].intent]
                                     /\ attempt'[j] = "PENDING" => j \in expired
    BY <1>2, <2>1, <2>2 DEF OrderAt, PendingAttempts
  <2>3. ASSUME NEW p \in Requests, req'[p].phase \in {"calling", "minted"},
               NEW q \in Requests, req'[q].phase = "auditWrite", req'[q].copy = "PENDING",
               OrderOf[req'[q].intent] = OrderOf[req'[p].intent]
        PROVE  req'[q].intent \in expired
    BY <1>2, <2>1, <2>3 DEF OrderAt, Auditing
  <2> QED
    BY <1>1, <2>1, <2>2, <2>3 DEF CreatesLast, Auditing, OrderAt, PendingAttempts
<1>8. ReusableIsCurrent'
  <2>1. ASSUME NEW j \in Intents, attempt'[j] = "PENDING", j \notin expired
        PROVE  MatchesOrder(j)
    BY <1>2, <1>3, <2>1 DEF ReuseInv, ReusableIsCurrent, Reusable, PendingAttempts
  <2> QED
    BY <1>1, <2>1 DEF ReusableIsCurrent, Reusable, PendingAttempts, MatchesOrder
<1> QED
  BY <1>5, <1>6, <1>7, <1>8 DEF ReuseInv

(* Every step keeps ReuseInv.                                               *)
LEMMA ReuseStep == IInv /\ ReuseInv /\ [Next]_vars => ReuseInv'
<1> SUFFICES ASSUME IInv, ReuseInv, [Next]_vars PROVE ReuseInv'
  OBVIOUS
<1> USE DEF orderVars, attemptVars
<1>1. TypeOK /\ OrderLockExclusive
  BY DEF IInv
<1>2. ASSUME NEW r \in Requests, NEW w, w.phase \notin Bound, req' = [req EXCEPT ![r] = w],
             UNCHANGED <<status, preference, attempt, expired>>
      PROVE  ReuseInv'
  <2>1. \A q \in Requests : req'[q] = req[q] \/ req'[q].phase \notin Bound
    BY <1>1, <1>2 DEF TypeOK
  <2> QED
    BY <1>1, <1>2, <2>1, ReuseFrame
<1>3. ASSUME NEW r \in Requests, NEW p, p \notin Bound, NEW i, Enter(r, p, i),
             UNCHANGED <<status, preference, attempt, expired>>
      PROVE  ReuseInv'
  <2> DEFINE w == Working(p, i)
  <2>1. w.phase \notin Bound /\ req' = [req EXCEPT ![r] = w]
    BY <1>3, WorkingHoldsNothing DEF Enter
  <2> HIDE DEF w
  <2> QED
    BY <1>2, <1>3, <2>1
<1>4. ASSUME NEW r \in Requests, Finish(r), UNCHANGED <<status, preference, attempt, expired>>
      PROVE  ReuseInv'
  BY <1>3, <1>4 DEF Finish, Idle, Enter, Bound
<1>5. ASSUME UNCHANGED <<req, preference, attempt>>, expired \subseteq expired',
             \A o \in Orders : status'[o] = "pending" => status[o] = "pending"
      PROVE  ReuseInv'
  BY <1>1, <1>5, ReuseFrame
<1>6. ASSUME NEW r \in Requests, CreateStep(r)
      PROVE  ReuseInv'
  <2>1. CASE CreateFail(r)
    BY <2>1, <1>3 DEF CreateFail, Bound
  <2>2. CASE CreationAudit(r)
    BY <2>2, <1>4 DEF CreationAudit
  <2> QED
    BY <1>1, <1>6, <2>1, <2>2, ReuseBegin, ReuseMint, ReuseCommit DEF CreateStep
<1>7. ASSUME NEW i \in Intents, Receives(i)
      PROVE  \A q \in Requests :
               req[q].phase \in {"calling", "minted"} => OrderAt(q) # OrderOf[i]
  BY <1>7 DEF Receives, Locked, TxPhases
<1>8. ASSUME NEW r \in Requests, WebhookStep(r)
      PROVE  ReuseInv'
  <2>1. ASSUME NEW p, p \notin Bound, NEW i, Enter(r, p, i)
        PROVE  \A q \in Requests : req'[q] = req[q] \/ req'[q].phase \notin Bound
    BY <1>1, <2>1, WorkingHoldsNothing DEF Enter, TypeOK
  <2>2. ASSUME NEW i \in Intents, WebhookReject(r, i)
        PROVE  ReuseInv'
    <3>1. /\ status' = [status EXCEPT ![OrderOf[i]] = "rejected"]
          /\ OrderOf[i] \in Orders
      BY <2>2, GetnetAssumption DEF WebhookReject
    <3>2. /\ status'[OrderOf[i]] # "pending"
          /\ \A o \in Orders : status'[o] = "pending" => status[o] = "pending"
      BY <1>1, <3>1 DEF TypeOK
    <3>3. \A q \in Requests : req'[q] = req[q] \/ req'[q].phase \notin Bound
      BY <2>1, <2>2 DEF WebhookReject, Bound
    <3>4. /\ attempt' = [attempt EXCEPT ![i] = "REJECTED"] /\ MatchesOrder(i) /\ Receives(i)
          /\ UNCHANGED <<preference, expired>>
      BY <2>2 DEF WebhookReject
    <3> QED
      BY <1>1, <1>7, <3>2, <3>3, <3>4, ReuseEvent
  <2>3. ASSUME NEW i \in Intents, WebhookDuplicate(r, i)
        PROVE  ReuseInv'
    <3>1. \A q \in Requests : req'[q] = req[q] \/ req'[q].phase \notin Bound
      BY <2>1, <2>3 DEF WebhookDuplicate, Bound
    <3>2. /\ attempt' = [attempt EXCEPT ![i] = TouchedAttempt(i)]
          /\ MatchesOrder(i) /\ Receives(i)
          /\ UNCHANGED <<status, preference, expired>>
      BY <2>3 DEF WebhookDuplicate
    <3> QED
      BY <1>1, <1>7, <3>1, <3>2, ReuseEvent
  <2>4. ASSUME NEW i \in Intents, WebhookApproveBegin(r, i)
        PROVE  ReuseInv'
    BY <2>4, <1>3 DEF WebhookApproveBegin, Bound
  <2>5. ASSUME NEW i \in Intents, WebhookFail(r, i)
        PROVE  ReuseInv'
    BY <2>5, <1>3 DEF WebhookFail, Bound
  <2>6. ASSUME NEW s \in Sellers, CreditSeller(r, s)
        PROVE  ReuseInv'
    <3>1. req[r] \in Request /\ req[r].phase = "credit"
      BY <1>1, <2>6 DEF CreditSeller, TypeOK
    <3>2. PassOver(req[r], s).phase = "credit" /\ AddNet(req[r], s).phase = "credit"
      BY <3>1 DEF PassOver, AddNet, Request
    <3>3. PICK w : w.phase = "credit" /\ req' = [req EXCEPT ![r] = w]
      BY <2>6, <3>2 DEF CreditSeller
    <3> QED
      BY <1>2, <2>6, <3>3 DEF CreditSeller, Bound
  <2>7. CASE WebhookRollback(r)
    BY <2>7, <1>3 DEF WebhookRollback, Bound
  <2>8. CASE NotifyApproved(r) \/ NotifyRejected(r) \/ NotifyFail(r)
    BY <2>8, <1>4 DEF NotifyApproved, NotifyRejected, NotifyFail
  <2>9. CASE WebhookCommit(r)
    <3> SUFFICES ASSUME NEW i, i = req[r].intent PROVE ReuseInv'
      OBVIOUS
    <3>1. i \in Intents /\ OrderOf[i] \in Orders /\ OrderAt(r) = OrderOf[i]
      BY <1>1, <2>9, GetnetAssumption DEF WebhookCommit, TypeOK, OrderAt
    <3>2. /\ status' = [status EXCEPT ![OrderOf[i]] = "paid"]
          /\ attempt' = [attempt EXCEPT ![i] = "APPROVED"]
          /\ UNCHANGED <<preference, expired>>
      BY <2>9 DEF WebhookCommit
    <3>3. /\ status'[OrderOf[i]] # "pending"
          /\ \A o \in Orders : status'[o] = "pending" => status[o] = "pending"
      BY <1>1, <3>1, <3>2 DEF TypeOK
    <3>4. \A q \in Requests : req'[q] = req[q] \/ req'[q].phase \notin Bound
      BY <2>1, <2>9 DEF WebhookCommit, Bound
    <3>5. \A q \in Requests :
            req[q].phase \in {"calling", "minted"} => OrderAt(q) # OrderOf[i]
      BY <1>1, <2>9, <3>1 DEF WebhookCommit, OrderLockExclusive, TxPhases
    <3> QED
      BY <1>1, <3>1, <3>2, <3>3, <3>4, <3>5, ReuseEvent
  <2> QED
    BY <1>1, <1>8, <2>2, <2>3, <2>4, <2>5, <2>6, <2>7, <2>8, <2>9,
       ReuseAuditRead, ReuseAuditWrite DEF WebhookStep
<1>9. ASSUME NEW r \in Requests, Crash(r)
      PROVE  ReuseInv'
  BY <1>4, <1>9 DEF Crash
<1>10. CASE Environment
  <2>1. ASSUME NEW i \in Intents, WebhookTouchOnly(i)
        PROVE  ReuseInv'
    <3>1. /\ attempt' = [attempt EXCEPT ![i] = TouchedAttempt(i)]
          /\ MatchesOrder(i) /\ Receives(i)
          /\ UNCHANGED <<status, preference, expired, req>>
      BY <2>1 DEF WebhookTouchOnly
    <3> QED
      BY <1>1, <1>7, <3>1, ReuseEvent
  <2>2. ASSUME NEW o \in Orders, MarkDelivered(o)
        PROVE  ReuseInv'
    BY <1>1, <1>5, <2>2 DEF MarkDelivered, TypeOK
  <2>3. ASSUME NEW i \in Intents, WebhookMismatch(i) \/ BuyerPays(i) \/ Expire(i)
        PROVE  ReuseInv'
    BY <1>5, <2>3 DEF WebhookMismatch, BuyerPays, Expire
  <2>4. ASSUME NEW o \in Orders, CreateShipment(o)
        PROVE  ReuseInv'
    BY <1>5, <2>4 DEF CreateShipment
  <2>5. CASE SyncMissingWallets
    BY <1>5, <2>5 DEF SyncMissingWallets
  <2> QED
    BY <1>10, <2>1, <2>2, <2>3, <2>4, <2>5 DEF Environment
<1>11. CASE UNCHANGED vars
  BY <1>5, <1>11 DEF vars
<1> QED
  BY <1>6, <1>8, <1>9, <1>10, <1>11 DEF Next

(* A repeated call never hands out a checkout page whose payment would be   *)
(* discarded as a mismatch, although the failure audit writes attempts back *)
(* without a lock (findReusableGetnetAttempt, closeStaleGetnetAttempts,     *)
(* recordGetnetWebhookFailureAudit).                                        *)
THEOREM ReusableCurrent == Spec => []ReusableIsCurrent
<1>1. ReuseInv => ReusableIsCurrent
  BY DEF ReuseInv
<1> QED
  BY <1>1, ReuseInit, ReuseStep, Inductive, PTL DEF Spec

==============================================================================
