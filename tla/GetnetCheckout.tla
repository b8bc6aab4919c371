---------------------------- MODULE GetnetCheckout ----------------------------
(***************************************************************************)
(* Getnet Web Checkout (PaymentsService): creation of payment intents and  *)
(* processing of the webhook that is the only source of truth for payment. *)
(*                                                                         *)
(* Every HTTP request is a slot r \in Requests.  A request that runs a     *)
(* database transaction holds the row lock of its order (SELECT ... FOR    *)
(* UPDATE) from its first to its last transactional phase; what it writes  *)
(* meanwhile is private to it and is published by the commit.  Reads       *)
(* outside a lock see the committed rows (READ COMMITTED).                 *)
(*                                                                         *)
(* An intent id names an attempt of Getnet to charge one order; the row of *)
(* payment_attempts that carries it is attempt[i].  A wallet balance is    *)
(* kept as multiplicities: balance[s][o] counts how often the net of order *)
(* o is contained in the balance of s.                                     *)
(***************************************************************************)
EXTENDS Naturals, Sequences

CONSTANTS
  Orders,         \* orders whose payment method is GETNET
  Sellers,        \* users selling the products of those orders
  SellersOf,      \* SellersOf[o]: the sellers of o, in the order of its items
  Intents,        \* payment_intent ids Getnet can mint (bound: a finite set)
  OrderOf,        \* OrderOf[i]: the order intent i is created for
  LegacyIntents,  \* preferences stored before payment_attempts existed
  NoIntent,       \* orders.paymentPreferenceId IS NULL; also an idle request
  Requests,       \* slots for requests in progress (bound: a finite set)
  MaxFaults       \* bound on crashes and failed calls

SellersIn(o) == {SellersOf[o][k] : k \in DOMAIN SellersOf[o]}

ASSUME GetnetAssumption ==
  /\ SellersOf \in [Orders -> Seq(Sellers)]
  /\ OrderOf \in [Intents -> Orders]
  /\ NoIntent \notin Intents
  /\ LegacyIntents \subseteq Intents
  /\ \A i, j \in LegacyIntents : OrderOf[i] = OrderOf[j] => i = j
  /\ MaxFaults \in Nat

VARIABLES
  status,      \* orders.status
  preference,  \* orders.paymentPreferenceId
  payment,     \* status of the order's row in payments, "NONE" without one
  attempt,     \* status of the row of payment_attempts with that intent id
  expired,     \* attempts whose expiresAt has passed
  errored,     \* orders with an attempt in ERROR left by a failed creation
  issued,      \* intents Getnet has minted, known to the backend or not
  approved,    \* intents the buyer has paid, the order's total in pesos
  due,         \* those whose approval has not been answered 200 yet
  wallets,     \* sellers that have a wallet row
  balance,     \* balance[s][o]: times o's net is in the balance of s
  creditRow,   \* CREDIT rows of wallet_transactions, as <<seller, order>>
  shipped,     \* orders that have a shipment
  notified,    \* eventKeys present in notifications
  req,         \* the requests in progress and their private data
  faults       \* crashes and failures so far

orderVars   == <<status, preference, payment>>
attemptVars == <<attempt, expired, errored>>
getnetVars  == <<issued, approved, due>>
walletVars  == <<wallets, balance, creditRow>>

vars == <<orderVars, attemptVars, getnetVars, walletVars, shipped, notified,
          req, faults>>

OrderStatus   == {"pending", "paid", "rejected", "delivered"}
PaymentStatus == {"NONE", "PENDING", "COMPLETED", "REJECTED"}
AttemptStatus == {"NONE", "PENDING", "APPROVED", "REJECTED", "CANCELED",
                  "EXPIRED"}
NetCounts     == [Orders -> Nat]

SellerKeys(o)   == {"sale", "balance"} \X {o} \X SellersIn(o)
ApprovedKeys(o) == SellerKeys(o) \cup {<<"payment-approved", o, "buyer">>}
RejectedKeys(o) == {<<"payment-rejected", o, "buyer">>}
EventKeys       == UNION {ApprovedKeys(o) \cup RejectedKeys(o) : o \in Orders}

(* createGetnetIntentWithinTransaction holds its lock in "calling" (waiting *)
(* for Getnet) and "minted", applyGetnetWebhookTransition in "credit".      *)
TxPhases == {"calling", "minted", "credit"}
Phases   == TxPhases \cup {"idle", "createAudit", "auditRead", "auditWrite",
                           "notifyApproved", "notifyRejected"}

Request == [phase  : Phases,
            intent : Intents \cup {NoIntent},
            stale  : SUBSET Intents,    \* attempts its transaction closes
            held   : SUBSET Sellers,    \* wallet rows it has locked
            added  : SUBSET Sellers,    \* those it credits
            seen   : [Sellers -> NetCounts],  \* their balances as read
            copy   : AttemptStatus]     \* attempt as read by the audit

ZeroCounts == [s \in Sellers |-> [o \in Orders |-> 0]]

Working(p, i) == [phase |-> p, intent |-> i, stale |-> {}, held |-> {},
                  added |-> {}, seen |-> ZeroCounts, copy |-> "NONE"]

Idle == Working("idle", NoIntent)

OrderAt(r) == OrderOf[req[r].intent]

TypeOK ==
  /\ status \in [Orders -> OrderStatus]
  /\ preference \in [Orders -> Intents \cup {NoIntent}]
  /\ payment \in [Orders -> PaymentStatus]
  /\ attempt \in [Intents -> AttemptStatus]
  /\ expired \subseteq Intents /\ errored \subseteq Orders
  /\ issued \subseteq Intents /\ approved \subseteq issued
  /\ due \subseteq approved
  /\ wallets \subseteq Sellers
  /\ balance \in [Sellers -> NetCounts]
  /\ creditRow \subseteq Sellers \X Orders
  /\ shipped \subseteq Orders /\ notified \subseteq EventKeys
  /\ req \in [Requests -> Request]
  /\ \A r \in Requests : req[r].phase # "idle" => req[r].intent \in Intents
  /\ faults \in 0..MaxFaults

Init ==
  /\ status = [o \in Orders |-> "pending"]
  /\ preference \in [Orders -> LegacyIntents \cup {NoIntent}]
  /\ \A o \in Orders : \A i \in LegacyIntents :
       preference[o] = i <=> OrderOf[i] = o
  /\ payment = [o \in Orders |-> "NONE"]
  /\ attempt = [i \in Intents |-> "NONE"]
  /\ expired = {} /\ errored = {}
  /\ issued = LegacyIntents /\ approved = {} /\ due = {}
  /\ wallets \in SUBSET Sellers
  /\ balance = ZeroCounts /\ creditRow = {}
  /\ shipped = {} /\ notified = {}
  /\ req = [r \in Requests |-> Idle]
  /\ faults = 0

------------------------------------------------------------------------------
(* Row locks.                                                               *)

(* variant: findOne without pessimistic_write                               *)
LockedNever(o) == FALSE

Locked(o) ==
  \E r \in Requests : req[r].phase \in TxPhases /\ OrderAt(r) = o

WalletLocked(s) == \E r \in Requests : s \in req[r].held

(* creditSellersFromOrderWithManager visits the sellers in item order.      *)
NextSeller(r, s) ==
  \E k \in DOMAIN SellersOf[OrderAt(r)] :
    /\ SellersOf[OrderAt(r)][k] = s /\ s \notin req[r].held
    /\ \A j \in 1..(k - 1) : SellersOf[OrderAt(r)][j] \in req[r].held

Waits(r, q) ==
  /\ req[r].phase = "credit"
  /\ \E s \in req[q].held : NextSeller(r, s)

(* variant: waits on a cycle are never broken                               *)
DeadlockedNever(r) == FALSE

(* PostgreSQL aborts a transaction that is on a cycle of waits.             *)
Deadlocked(r) ==
  \E D \in SUBSET Requests :
    /\ r \in D
    /\ \A q \in D : /\ \E p \in D : Waits(q, p)
                    /\ \E p \in D : Waits(p, q)

Fault == faults < MaxFaults /\ faults' = faults + 1

Enter(r, p, i) == req' = [req EXCEPT ![r] = Working(p, i)]
Finish(r)      == req' = [req EXCEPT ![r] = Idle]

------------------------------------------------------------------------------
(* POST /payments/getnet/create-order/:orderId.                             *)

PendingAttempts(o) ==
  {i \in Intents : OrderOf[i] = o /\ attempt[i] = "PENDING"}

(* The checkout pages of o a repeated call would hand out again.            *)
Reusable(o) == PendingAttempts(o) \ expired

(* Only an order still awaiting payment gets an intent.                     *)
AwaitsPayment(o) == status[o] = "pending"

(* Takes the order lock, validates, finds no attempt to reuse and asks      *)
(* Getnet for an intent.  With a reusable attempt the call changes nothing. *)
CreateBegin(r, i) ==
  LET o == OrderOf[i] IN
  /\ req[r].phase = "idle"
  /\ i \notin issued /\ \A q \in Requests : req[q].intent # i
  /\ ~Locked(o) /\ AwaitsPayment(o) /\ Reusable(o) = {}
  /\ req' = [req EXCEPT ![r] =
               [Working("calling", i) EXCEPT !.stale = PendingAttempts(o)]]
  /\ UNCHANGED <<orderVars, attemptVars, getnetVars, walletVars, shipped,
                 notified, faults>>

(* Getnet mints the intent; the answer may still be lost.                   *)
MintIntent(r) ==
  /\ req[r].phase = "calling"
  /\ req' = [req EXCEPT ![r].phase = "minted"]
  /\ issued' = issued \cup {req[r].intent}
  /\ UNCHANGED <<orderVars, attemptVars, approved, due, walletVars, shipped,
                 notified, faults>>

ClosedAs(i) == IF i \in expired THEN "EXPIRED" ELSE "CANCELED"

CreateCommit(r) ==
  LET i == req[r].intent
      o == OrderOf[i]
  IN
  /\ req[r].phase = "minted"
  /\ preference' = [preference EXCEPT ![o] = i]
  /\ payment' = [payment EXCEPT ![o] = IF @ = "NONE" THEN "PENDING" ELSE @]
  /\ attempt' = [j \in Intents |->
                   IF j = i THEN "PENDING"
                   ELSE IF j \in req[r].stale THEN ClosedAs(j)
                   ELSE attempt[j]]
  /\ Finish(r)
  /\ UNCHANGED <<status, expired, errored, getnetVars, walletVars, shipped,
                 notified, faults>>

(* Getnet or the database fails: rollback, then the failure is recorded.    *)
CreateFail(r) ==
  /\ req[r].phase \in {"calling", "minted"}
  /\ Fault
  /\ Enter(r, "createAudit", req[r].intent)
  /\ UNCHANGED <<orderVars, attemptVars, getnetVars, walletVars, shipped,
                 notified>>

(* Best effort, outside the transaction: an ERROR attempt, and the payment  *)
(* row it belongs to.  Inserting a payment waits for the order's row lock   *)
(* (foreign key).                                                           *)
CreationAudit(r) ==
  LET o == OrderAt(r) IN
  /\ req[r].phase = "createAudit"
  /\ Finish(r)
  /\ \/ /\ status[o] = "pending" /\ ~Locked(o)
        /\ payment' = [payment EXCEPT ![o] =
                         IF @ = "NONE" THEN "PENDING" ELSE @]
        /\ errored' = errored \cup {o}
     \/ UNCHANGED <<payment, errored>>
  /\ UNCHANGED <<status, preference, attempt, expired, getnetVars, walletVars,
                 shipped, notified, faults>>

------------------------------------------------------------------------------
(* POST /payments/getnet/webhook.  A rejection of a minted intent, an event *)
(* with another amount or currency, and an approval of a paid intent can be *)
(* delivered at any time, repeatedly and in any order.                      *)

(* The event is about the intent the order currently stores.                *)
MatchesOrder(i) == preference[OrderOf[i]] = i

(* variant: paid_order_cannot_be_rejected dropped                           *)
CanRejectAlways(o) == TRUE

CanReject(o) == status[o] # "paid"

(* backfillGetnetAttempt creates the rows a legacy preference lacks.        *)
Backfills(i) == attempt[i] = "NONE"
TouchedAttempt(i) == IF Backfills(i) THEN "PENDING" ELSE attempt[i]
TouchedPayment(i) ==
  LET o == OrderOf[i] IN
  IF Backfills(i) /\ payment[o] = "NONE" THEN "PENDING" ELSE payment[o]

Receives(i) ==
  /\ i \in issued
  /\ ~Locked(OrderOf[i])

Acknowledge(i) == due' = due \ {i}

(* payment_intent_mismatch: answered 200 without any effect.                *)
WebhookMismatch(i) ==
  /\ Receives(i) /\ ~MatchesOrder(i)
  /\ i \in due /\ Acknowledge(i)
  /\ UNCHANGED <<orderVars, attemptVars, issued, approved, walletVars,
                 shipped, notified, req, faults>>

(* currency_mismatch, amount_mismatch, paid_order_cannot_be_rejected: only  *)
(* the attempt's audit fields are written, and the answer is 200.  It is    *)
(* not the approval that "due" waits for: that one has the order's amount.  *)
WebhookTouchOnly(i) ==
  /\ Receives(i) /\ MatchesOrder(i)
  /\ attempt' = [attempt EXCEPT ![i] = TouchedAttempt(i)]
  /\ payment' = [payment EXCEPT ![OrderOf[i]] = TouchedPayment(i)]
  /\ UNCHANGED <<status, preference, expired, errored, getnetVars, walletVars,
                 shipped, notified, req, faults>>

(* The status the payment row takes when its order is rejected / approved.  *)
(* variant: a status its enum lacks is stored                               *)
AfterRejectionMistyped(p) == "CANCELED"

AfterRejection(p) == IF p = "COMPLETED" THEN p ELSE "REJECTED"
AfterApproval(p)  == IF p = "PENDING" THEN "COMPLETED" ELSE p

WebhookReject(r, i) ==
  LET o == OrderOf[i] IN
  /\ req[r].phase = "idle"
  /\ Receives(i) /\ MatchesOrder(i) /\ CanReject(o)
  /\ status' = [status EXCEPT ![o] = "rejected"]
  /\ attempt' = [attempt EXCEPT ![i] = "REJECTED"]
  /\ payment' = [payment EXCEPT ![o] = AfterRejection(TouchedPayment(i))]
  /\ Enter(r, "notifyRejected", i)
  /\ UNCHANGED <<preference, expired, errored, getnetVars, walletVars, shipped,
                 notified, faults>>

(* variant: every order no longer pending counts as paid                    *)
AlreadyPaidLoosely(o) == status[o] # "pending"

AlreadyPaid(o) == status[o] = "paid"

(* variant: a duplicate is answered 200 at once                             *)
WebhookDuplicateDropped(r, i) ==
  /\ req[r].phase = "idle"
  /\ i \in approved /\ Receives(i) /\ MatchesOrder(i)
  /\ AlreadyPaid(OrderOf[i]) /\ Acknowledge(i)
  /\ UNCHANGED <<orderVars, attemptVars, issued, approved, walletVars,
                 shipped, notified, req, faults>>

(* An approval of an order already paid only repeats the notifications.     *)
WebhookDuplicate(r, i) ==
  LET o == OrderOf[i] IN
  /\ req[r].phase = "idle"
  /\ i \in approved /\ Receives(i) /\ MatchesOrder(i) /\ AlreadyPaid(o)
  /\ attempt' = [attempt EXCEPT ![i] = TouchedAttempt(i)]
  /\ payment' = [payment EXCEPT ![o] = TouchedPayment(i)]
  /\ Enter(r, "notifyApproved", i)
  /\ UNCHANGED <<status, preference, expired, errored, getnetVars, walletVars,
                 shipped, notified, faults>>

WebhookApproveBegin(r, i) ==
  /\ req[r].phase = "idle"
  /\ i \in approved /\ Receives(i) /\ MatchesOrder(i)
  /\ ~AlreadyPaid(OrderOf[i])
  /\ Enter(r, "credit", i)
  /\ UNCHANGED <<orderVars, attemptVars, getnetVars, walletVars, shipped,
                 notified, faults>>

(* WalletService.creditFromOrder with a manager: locks the wallet, reads    *)
(* its balance and looks for the CREDIT row of this order.                  *)

(* variant: the existing CREDIT row is not looked for                       *)
HasCreditUnchecked(s, o) == FALSE

HasCredit(s, o) == <<s, o>> \in creditRow

PassOver(w, s) == [w EXCEPT !.held = @ \cup {s}]
AddNet(w, s)   == [w EXCEPT !.held = @ \cup {s}, !.added = @ \cup {s},
                            !.seen[s] = balance[s]]

CreditSeller(r, s) ==
  /\ req[r].phase = "credit"
  /\ NextSeller(r, s) /\ s \in wallets /\ ~WalletLocked(s)
  /\ req' = [req EXCEPT ![r] = IF HasCredit(s, OrderAt(r))
                                THEN PassOver(req[r], s)
                                ELSE AddNet(req[r], s)]
  /\ UNCHANGED <<orderVars, attemptVars, getnetVars, walletVars, shipped,
                 notified, faults>>

(* variant: the loop over the sellers is not awaited to its end             *)
CanCommitEarly(r) == req[r].held # {}

CanCommit(r) == req[r].held = SellersIn(OrderAt(r))

WebhookCommit(r) ==
  LET i == req[r].intent
      o == OrderOf[i]
  IN
  /\ req[r].phase = "credit" /\ CanCommit(r)
  /\ status' = [status EXCEPT ![o] = "paid"]
  /\ attempt' = [attempt EXCEPT ![i] = "APPROVED"]
  /\ payment' = [payment EXCEPT ![o] = AfterApproval(TouchedPayment(i))]
  /\ balance' = [s \in Sellers |->
                   IF s \in req[r].added
                   THEN [req[r].seen[s] EXCEPT ![o] = @ + 1]
                   ELSE balance[s]]
  /\ creditRow' = creditRow \cup (req[r].added \X {o})
  /\ Enter(r, "notifyApproved", i)
  /\ UNCHANGED <<preference, expired, errored, getnetVars, wallets, shipped,
                 notified, faults>>

(* "Billetera no encontrada" or a deadlock: everything is rolled back.      *)
WebhookRollback(r) ==
  /\ req[r].phase = "credit"
  /\ \/ \E s \in Sellers \ wallets : NextSeller(r, s)
     \/ Deadlocked(r)
  /\ Enter(r, "auditRead", req[r].intent)
  /\ UNCHANGED <<orderVars, attemptVars, getnetVars, walletVars, shipped,
                 notified, faults>>

(* Any other failure of a query of the webhook's transaction.               *)
WebhookFail(r, i) ==
  /\ \/ req[r].phase = "idle" /\ i \in issued
     \/ req[r].phase = "credit" /\ i = req[r].intent
  /\ Fault
  /\ Enter(r, "auditRead", i)
  /\ UNCHANGED <<orderVars, attemptVars, getnetVars, walletVars, shipped,
                 notified>>

(* recordGetnetWebhookFailureAudit, outside any lock: it reads the attempt  *)
(* and then saves the whole entity, status included; between the two other  *)
(* requests run.  Then the error goes to Getnet, which will retry.          *)
AuditRead(r) ==
  LET i == req[r].intent IN
  /\ req[r].phase = "auditRead"
  /\ IF attempt[i] = "NONE"
     THEN Finish(r)
     ELSE req' = [req EXCEPT ![r] =
                    [Working("auditWrite", i) EXCEPT !.copy = attempt[i]]]
  /\ UNCHANGED <<orderVars, attemptVars, getnetVars, walletVars, shipped,
                 notified, faults>>

AuditWrite(r) ==
  /\ req[r].phase = "auditWrite"
  /\ attempt' = [attempt EXCEPT ![req[r].intent] = req[r].copy]
  /\ Finish(r)
  /\ UNCHANGED <<orderVars, expired, errored, getnetVars, walletVars, shipped,
                 notified, faults>>

------------------------------------------------------------------------------
(* Notifications, after the commit; createOnce drops a repeated eventKey.   *)

KeysToSend(r) ==
  IF req[r].phase = "notifyApproved" THEN ApprovedKeys(OrderAt(r))
                                     ELSE RejectedKeys(OrderAt(r))

(* All inserts succeed and the webhook answers 200.                         *)
NotifyApproved(r) ==
  /\ req[r].phase = "notifyApproved"
  /\ notified' = notified \cup KeysToSend(r)
  /\ Acknowledge(req[r].intent)
  /\ Finish(r)
  /\ UNCHANGED <<orderVars, attemptVars, issued, approved, walletVars, shipped,
                 faults>>

NotifyRejected(r) ==
  /\ req[r].phase = "notifyRejected"
  /\ notified' = notified \cup KeysToSend(r)
  /\ Finish(r)
  /\ UNCHANGED <<orderVars, attemptVars, getnetVars, walletVars, shipped,
                 faults>>

(* Promise.all rejects: some of the inserts are done, Getnet gets a 5xx.    *)
NotifyFail(r) ==
  /\ req[r].phase \in {"notifyApproved", "notifyRejected"}
  /\ Fault
  /\ \E K \in SUBSET KeysToSend(r) : notified' = notified \cup K
  /\ Finish(r)
  /\ UNCHANGED <<orderVars, attemptVars, getnetVars, walletVars, shipped>>

------------------------------------------------------------------------------
(* The rest of the system, as far as it meets this flow.                    *)

(* The process or the connection dies: an open transaction is rolled back.  *)
Crash(r) ==
  /\ req[r].phase # "idle"
  /\ Fault
  /\ Finish(r)
  /\ UNCHANGED <<orderVars, attemptVars, getnetVars, walletVars, shipped,
                 notified>>

(* The buyer pays on the page of intent i; Getnet starts to notify.         *)
BuyerPays(i) ==
  /\ i \in issued \ approved
  /\ approved' = approved \cup {i} /\ due' = due \cup {i}
  /\ UNCHANGED <<orderVars, attemptVars, issued, walletVars, shipped, notified,
                 req, faults>>

(* expiresAt passes; backfilled attempts have none.                         *)
Expire(i) ==
  /\ attempt[i] = "PENDING" /\ i \notin LegacyIntents \cup expired
  /\ expired' = expired \cup {i}
  /\ UNCHANGED <<orderVars, attempt, errored, getnetVars, walletVars, shipped,
                 notified, req, faults>>

(* ShipmentsService.create and markDelivered (no guard on the order).       *)
CreateShipment(o) ==
  /\ status[o] = "paid" /\ o \notin shipped
  /\ shipped' = shipped \cup {o}
  /\ UNCHANGED <<orderVars, attemptVars, getnetVars, walletVars, notified, req,
                 faults>>

MarkDelivered(o) ==
  /\ o \in shipped /\ ~Locked(o)
  /\ status' = [status EXCEPT ![o] = "delivered"]
  /\ UNCHANGED <<preference, payment, attemptVars, getnetVars, walletVars,
                 shipped, notified, req, faults>>

(* WalletService.syncMissingWallets: users."walletId" is never written, so  *)
(* every user is found to have no wallet, and the unique wallets."userId"   *)
(* fails the save of them all as soon as one of them has.                   *)
SyncMissingWallets ==
  /\ wallets = {}
  /\ wallets' = Sellers
  /\ UNCHANGED <<orderVars, attemptVars, getnetVars, balance, creditRow,
                 shipped, notified, req, faults>>

------------------------------------------------------------------------------

CreateStep(r) ==
  \/ \E i \in Intents : CreateBegin(r, i)
  \/ MintIntent(r) \/ CreateCommit(r) \/ CreateFail(r) \/ CreationAudit(r)

WebhookStep(r) ==
  \/ \E i \in Intents : \/ WebhookReject(r, i) \/ WebhookDuplicate(r, i)
                        \/ WebhookApproveBegin(r, i) \/ WebhookFail(r, i)
  \/ \E s \in Sellers : CreditSeller(r, s)
  \/ WebhookCommit(r) \/ WebhookRollback(r)
  \/ AuditRead(r) \/ AuditWrite(r)
  \/ NotifyApproved(r) \/ NotifyRejected(r) \/ NotifyFail(r)

Environment ==
  \/ \E i \in Intents : \/ WebhookMismatch(i) \/ WebhookTouchOnly(i)
                        \/ BuyerPays(i) \/ Expire(i)
  \/ \E o \in Orders : CreateShipment(o) \/ MarkDelivered(o)
  \/ SyncMissingWallets

Next ==
  \/ \E r \in Requests : CreateStep(r) \/ WebhookStep(r) \/ Crash(r)
  \/ Environment

Spec == Init /\ [][Next]_vars

(* Node keeps running a request that is not waiting; a row lock is granted  *)
(* in the end to one that asks again and again; Getnet repeats a            *)
(* notification until it is answered 200.                                   *)
Redelivery(i) ==
  \/ WebhookMismatch(i)
  \/ \E r \in Requests :
       i \in due /\ (WebhookDuplicate(r, i) \/ WebhookApproveBegin(r, i))

RequestProgress(r) ==
  \/ MintIntent(r) \/ CreateCommit(r) \/ CreationAudit(r)
  \/ WebhookCommit(r) \/ WebhookRollback(r) \/ AuditRead(r) \/ AuditWrite(r)
  \/ NotifyApproved(r) \/ NotifyRejected(r)

Fairness ==
  /\ \A r \in Requests :
       /\ WF_vars(RequestProgress(r))
       /\ SF_vars(\E s \in Sellers : CreditSeller(r, s))
  /\ \A i \in Intents : SF_vars(Redelivery(i))

FairSpec == Spec /\ Fairness

------------------------------------------------------------------------------
(* Safety.                                                                  *)

Settled(o) == SellersIn(o) \X {o} \subseteq creditRow

(* A seller's balance contains the net of an order once if the order has a  *)
(* CREDIT row for the seller, and not at all otherwise, whatever duplicates,*)
(* concurrent orders of the same seller, rollbacks and crashes occur        *)
(* (creditFromOrder, wallet.service.ts:154).                                *)
CreditExactlyOnce ==
  \A s \in Sellers, o \in Orders :
    balance[s][o] = IF HasCredit(s, o) THEN 1 ELSE 0

(* An order that shows as paid or delivered has credited all its sellers:   *)
(* order and wallets commit together (applyGetnetWebhookTransition).        *)
PaidIsSettled ==
  \A o \in Orders : status[o] \in {"paid", "delivered"} => Settled(o)

(* A checkout page the backend still hands out belongs to the intent the    *)
(* order stores, so a payment made there is not discarded as a mismatch     *)
(* (findReusableGetnetAttempt, closeStaleGetnetAttempts).                   *)
ReusableIsCurrent ==
  \A o \in Orders : \A i \in Reusable(o) : MatchesOrder(i)

(* Nobody reads "your money is available" or "payment approved" before the  *)
(* wallets hold it: notifications follow the commit (handleGetnetWebhook).  *)
NotifiedAfterSettlement ==
  \A o \in Orders : ApprovedKeys(o) \cap notified # {} => Settled(o)

(* The wallets change only as the abstract specification allows: a whole    *)
(* order at a time and once.                                                *)
Settlement == INSTANCE OrderSettlement
                WITH PayeesOf <- [o \in Orders |-> SellersIn(o)]

SettledOnceAndWhole == Settlement!Spec

(* Whatever pages, rejections, repetitions, audits and crashes come after a *)
(* seller has been credited, the order shows as paid until it is shipped.   *)
(* Only after that is there a status, DELIVERED, from which a late event    *)
(* can take it back to REJECTED (payments.service.ts:1123), its money still *)
(* in the wallets.                                                          *)
CreditedIsPaid ==
  \A s \in Sellers, o \in Orders :
    HasCredit(s, o) => status[o] = "paid" \/ o \in shipped

(* A completed payment row stays completed, also when its order is rejected *)
(* after having been delivered (payments.service.ts:1139).                  *)
CompletedIsFinal ==
  [][\A o \in Orders :
       payment[o] = "COMPLETED" => payment'[o] = "COMPLETED"]_payment

------------------------------------------------------------------------------
(* Why the safety properties hold: the locks and what a transaction in      *)
(* progress may rely on.                                                    *)

(* One transaction at a time per order, and per wallet.                     *)
OrderLockExclusive ==
  \A r, q \in Requests :
    req[r].phase \in TxPhases /\ req[q].phase \in TxPhases /\ r # q
      => OrderAt(r) # OrderAt(q)

WalletLockExclusive ==
  \A r, q \in Requests : r # q => req[r].held \cap req[q].held = {}

(* Wallets are locked only while crediting.  What a transaction has read of *)
(* a wallet it is going to credit is what the wallet still holds, and it    *)
(* passes over a seller only because the seller has been credited.          *)
CreditInProgress ==
  \A r \in Requests :
    /\ req[r].phase # "credit" => req[r].held = {} /\ req[r].added = {}
    /\ req[r].phase = "credit" =>
         /\ req[r].added \subseteq req[r].held
         /\ req[r].held \subseteq SellersIn(OrderAt(r))
         /\ \A s \in req[r].held :
              IF s \in req[r].added
              THEN req[r].seen[s] = balance[s] /\ ~HasCredit(s, OrderAt(r))
              ELSE HasCredit(s, OrderAt(r))

(* The sellers of an order are credited together.                           *)
AllOrNone ==
  \A o \in Orders :
    Settled(o) \/ \A s \in Sellers : ~HasCredit(s, o)

CreditsAreSellers ==
  \A s \in Sellers, o \in Orders : HasCredit(s, o) => s \in SellersIn(o)

ApprovalSettled ==
  \A r \in Requests : req[r].phase = "notifyApproved" => Settled(OrderAt(r))

ShippedSettled == \A o \in shipped : Settled(o)

(* The inductive invariant: while a transaction credits an order, nobody    *)
(* else touches that order or the wallets it has locked, so what it read is *)
(* still true when it commits (the FOR UPDATE locks of orders and wallets). *)
IInv ==
  /\ TypeOK
  /\ OrderLockExclusive /\ WalletLockExclusive
  /\ CreditInProgress /\ CreditExactlyOnce
  /\ AllOrNone /\ CreditsAreSellers
  /\ PaidIsSettled /\ ApprovalSettled /\ ShippedSettled
  /\ NotifiedAfterSettlement

(* Why a page that is handed out again is the current one.  What status a   *)
(* of intent i says of the rest: an attempt is closed only after it has     *)
(* expired (so closeStaleGetnetAttempts never finds one to cancel), and it  *)
(* is decided only when its order is.                                       *)
Tells(i, a) ==
  /\ a # "CANCELED"
  /\ a = "EXPIRED" => i \in expired
  /\ a \in {"APPROVED", "REJECTED"} => ~AwaitsPayment(OrderOf[i])

AttemptsTell == \A i \in Intents : Tells(i, attempt[i])

Auditing(r) == req[r].phase = "auditWrite"

(* The failure audit may write back a status that others have replaced, but *)
(* it reopens no attempt that could still be paid unless its intent is the  *)
(* current one.                                                             *)
CopiesTell ==
  \A r \in Requests : Auditing(r) =>
    LET i == req[r].intent IN
    /\ req[r].copy # "NONE" /\ Tells(i, req[r].copy)
    /\ req[r].copy = "PENDING" /\ i \notin expired =>
         /\ MatchesOrder(i)
         /\ AwaitsPayment(OrderOf[i]) => attempt[i] = "PENDING"

(* While an intent is being created for an order, every other attempt of    *)
(* the order that is pending, or that an audit may set back, has expired.   *)
CreatesLast ==
  \A r \in Requests : req[r].phase \in {"calling", "minted"} =>
    /\ req[r].stale \cup PendingAttempts(OrderAt(r)) \subseteq expired
    /\ \A q \in Requests :
         Auditing(q) /\ req[q].copy = "PENDING" /\ OrderAt(q) = OrderAt(r)
           => req[q].intent \in expired

ReuseInv == AttemptsTell /\ CopiesTell /\ CreatesLast /\ ReusableIsCurrent
------------------------------------------------------------------------------
(* Liveness, under FairSpec.                                                *)

(* No request hangs: lock waits end, and deadlocks between two orders that  *)
(* lock the same wallets in opposite order are broken.                      *)
RequestsFinish ==
  \A r \in Requests : req[r].phase # "idle" ~> req[r].phase = "idle"

(* A paid intent that stays the order's current one is credited, once its   *)
(* sellers have wallets: Getnet's retries get it through.                   *)
PaymentEventuallySettles ==
  \A i \in Intents :
    (i \in due /\ SellersIn(OrderOf[i]) \subseteq wallets)
      ~> (Settled(OrderOf[i]) \/ ~MatchesOrder(i))

(* Notifications lost by a crash or a failed insert after the commit are    *)
(* recovered by the duplicate path.                                         *)
SettledEventuallyNotified ==
  \A o \in Orders :
    (creditRow \cap (Sellers \X {o}) # {}) ~> (ApprovedKeys(o) \subseteq notified)

------------------------------------------------------------------------------
(* What the documentation says and the code does not do.                    *)

(* "Un intento rechazado, cancelado o expirado permite generar uno nuevo"   *)
(* (README.md:969): an unpaid order whose attempt was rejected may get a    *)
(* new intent.                                                              *)
RejectedAllowsNewIntent ==
  \A i \in Intents :
    attempt[i] = "REJECTED" /\ ~Settled(OrderOf[i]) => AwaitsPayment(OrderOf[i])
==============================================================================
