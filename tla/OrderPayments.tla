--------------------------- MODULE OrderPayments ---------------------------
(***************************************************************************)
(* What the payment routes without an order-wide transaction share: the    *)
(* rows of orders, payments and payment_attempts, the providers' side of   *)
(* a payment, and what follows a decision, the sellers credited one by one *)
(* and the people told (PaymentsService.creditSellersFromOrder,            *)
(* WalletService.creditFromOrder without a manager).  MercadoPago,         *)
(* ManualPayment, GetnetQr and Payway add the routes; PaymentRoutes runs   *)
(* them together.  A save(entity) is one step and writes the whole row; a  *)
(* wallet read with its transactions is saved with them.                   *)
(***************************************************************************)
EXTENDS Naturals

CONSTANTS
  Orders,       \* orders that checkout has made
  Sellers,      \* users with a wallet
  PayeesOf,     \* PayeesOf[o]: the sellers of the items of order o
  Attempts,     \* ids of payment_attempts (bound: a finite set)
  Charges,      \* ids of payments at a provider (bound: a finite set)
  Requests,     \* slots for requests in progress
  None,         \* no row, no id
  MaxRequests,  \* bound on requests started
  MaxFaults     \* bound on crashes and failed queries

ASSUME PaymentsAssumption ==
  /\ PayeesOf \in [Orders -> SUBSET Sellers]
  /\ None \notin Orders \cup Sellers \cup Attempts \cup Charges
  /\ MaxRequests \in Nat /\ MaxFaults \in Nat

VARIABLES
  order,      \* rows of orders
  payment,    \* the row of payments of each order
  attempt,    \* rows of payment_attempts
  charge,     \* payments and links at the providers
  offered,    \* orders with a preference at Mercado Pago
  wallet,     \* wallet[s][o]: times order o is in the balance of s
  credits,    \* credits[o][s]: CREDIT transactions of the sale
  attached,   \* pairs <<o, s>> with one that refers to the wallet of s
  notices,    \* what buyer and sellers were told, by order
  req,        \* the requests in progress and what they have read
  started, faults,   \* requests and faults so far, for the bounds
  confirmed,  \* history: orders an administrator decided to be paid
  settled,    \* history: orders that were marked paid at least once
  disturbed,  \* history: orders on which requests overlapped or broke off
  crossed     \* history: orders whose credit met another one at a wallet

rows    == <<order, payment, attempt>>
money   == <<wallet, credits, attached, notices>>
outside == <<charge, offered>>
bounds  == <<started, faults>>
history == <<confirmed, settled, disturbed, crossed>>
vars    == <<rows, outside, money, req, bounds, history>>

Method        == {"MERCADO_PAGO", "TRANSFER", "GETNET_QR", "PAYWAY"}
OrderStatus   == {"PENDING", "PAID", "REJECTED", "CANCELLED"}
PaymentStatus == {"PENDING", "COMPLETED", "REJECTED"}
AttemptStatus == {"PENDING", "APPROVED", "REJECTED", "CANCELED", "EXPIRED", "ERROR"}

Order   == [method : Method, status : OrderStatus]
Payment == [status : PaymentStatus, proof : BOOLEAN]

(* charge is externalPaymentId, saved together with the QR payload or link; *)
(* due says that expiresAt has passed.                                      *)
Attempt == [order : Orders, status : AttemptStatus,
            charge : Charges \cup {None}, due : BOOLEAN]
Charge  == [order : Orders, status : AttemptStatus]

ASSUME NoRowAssumption == None \notin OrderStatus \cup Payment \cup Attempt \cup Charge

NewPayment == [status |-> "PENDING", proof |-> FALSE]

(* Phases of a request, named for the step it takes next.                   *)
Phases == {"idle", "insertPayment", "savePayment", "saveOrder",
           "expire", "insertAttempt", "mint", "saveAttempt", "apply", "link",
           "credit", "check", "saveWallet", "record", "notify"}

Request == [phase   : Phases, order : Orders \cup {None},
            status  : OrderStatus \cup {None},   \* to write to the order
            row     : Payment \cup {None},       \* to write to the payment
            outcome : {"none", "approved", "rejected"},  \* what follows
            pays    : BOOLEAN,                   \* whether sellers are credited
            todo    : SUBSET Sellers, seller : Sellers \cup {None},
            copy    : [Orders -> Nat],           \* the wallet as read
            attached : SUBSET Orders,            \* with the rows of these orders
            attempt : Attempts \cup {None}, charge : Charges \cup {None},
            target  : AttemptStatus,             \* status a provider reports
            stale   : SUBSET Attempts]           \* attempts read as expired

NoCopy == [o \in Orders |-> 0]

Idle == [phase |-> "idle", order |-> None, status |-> None, row |-> None,
         outcome |-> "none", pays |-> FALSE, todo |-> {}, seller |-> None,
         copy |-> NoCopy, attached |-> {}, attempt |-> None, charge |-> None,
         target |-> "PENDING", stale |-> {}]

TypeOK ==
  /\ order \in [Orders -> Order]
  /\ payment \in [Orders -> Payment \cup {None}]
  /\ attempt \in [Attempts -> Attempt \cup {None}]
  /\ charge \in [Charges -> Charge \cup {None}]
  /\ offered \subseteq Orders
  /\ wallet \in [Sellers -> [Orders -> Nat]]
  /\ credits \in [Orders -> [Sellers -> Nat]] /\ attached \subseteq Orders \X Sellers
  /\ notices \in [Orders -> SUBSET {"approved", "rejected"}]
  /\ req \in [Requests -> Request]
  /\ started \in 0..MaxRequests /\ faults \in 0..MaxFaults
  /\ confirmed \subseteq Orders /\ settled \subseteq Orders
  /\ disturbed \subseteq Orders /\ crossed \subseteq Orders

(* Checkout records a pending payment for transfers and QR, in a save of    *)
(* its own after the order's.                                               *)
Init ==
  /\ order \in [Orders -> [method : Method, status : {"PENDING"}]]
  /\ payment \in [Orders -> {NewPayment, None}]
  /\ \A o \in Orders : order[o].method \in {"MERCADO_PAGO", "PAYWAY"} =>
                         payment[o] = None
  /\ attempt = [a \in Attempts |-> None]
  /\ charge = [c \in Charges |-> None] /\ offered = {}
  /\ wallet = [s \in Sellers |-> NoCopy]
  /\ credits = [o \in Orders |-> [s \in Sellers |-> 0]] /\ attached = {}
  /\ notices = [o \in Orders |-> {}]
  /\ req = [r \in Requests |-> Idle]
  /\ started = 0 /\ faults = 0
  /\ confirmed = {} /\ settled = {} /\ disturbed = {} /\ crossed = {}

------------------------------------------------------------------------------
Busy(q, o) == req[q].phase # "idle" /\ req[q].order = o

(* A request that concerns order o has done its reads and goes on with w.   *)
Start(r, o, w) ==
  /\ req[r].phase = "idle"
  /\ started < MaxRequests /\ started' = started + 1
  /\ req' = [req EXCEPT ![r] = [w EXCEPT !.order = o]]
  /\ disturbed' = disturbed \cup
                    (IF \E q \in Requests : Busy(q, o) THEN {o} ELSE {})
  /\ UNCHANGED <<faults, crossed>>

Finish(r) == req' = [req EXCEPT ![r] = Idle]

(* What a job goes on with once its rows are saved: credit and tell, tell,  *)
(* or nothing.                                                              *)
Decided(w) ==
  LET o == w.order
      next == [Idle EXCEPT !.order = o, !.outcome = w.outcome, !.pays = w.pays,
                           !.todo = PayeesOf[o]]
  IN  IF w.outcome = "none" THEN Idle
      ELSE IF w.outcome = "approved" /\ w.pays THEN [next EXCEPT !.phase = "credit"]
      ELSE [next EXCEPT !.phase = "notify", !.todo = {}]

(* orderRepository.save(order): the row as read, with the status the route  *)
(* gave it.                                                                 *)
SaveOrder(r) ==
  LET o == req[r].order IN
  /\ req[r].phase = "saveOrder"
  /\ order' = [order EXCEPT ![o].status = req[r].status]
  /\ settled' = IF req[r].status = "PAID" THEN settled \cup {o} ELSE settled
  /\ req' = [req EXCEPT ![r] = Decided(@)]
  /\ UNCHANGED <<payment, attempt, outside, money, bounds, confirmed, disturbed, crossed>>

(* paymentRepository.save(payment): the row as read, with what was set.     *)
SavePayment(r) ==
  /\ req[r].phase = "savePayment"
  /\ payment' = [payment EXCEPT ![req[r].order] = req[r].row]
  /\ IF req[r].status = None THEN Finish(r)
                            ELSE req' = [req EXCEPT ![r].phase = "saveOrder"]
  /\ UNCHANGED <<order, attempt, outside, money, bounds, history>>

------------------------------------------------------------------------------
(* The sellers of an approved order, one after the other.                   *)

(* variant: a sale already credited is credited again                       *)
NeverCredited(o, s) == FALSE

HasCredit(o, s) == <<o, s>> \in attached

AttachedTo(s) == {o \in Orders : <<o, s>> \in attached}

(* History: the orders of those who are crediting s, once r begins as well. *)
Meeting(r, s) ==
  LET held == {q \in Requests : /\ req[q].phase \in {"check", "saveWallet", "record"}
                                /\ req[q].seller = s} IN
  IF held = {} THEN {} ELSE {req[q].order : q \in held \cup {r}}

Reading(w, s) ==
  [w EXCEPT !.phase = "check", !.seller = s, !.todo = @ \ {s},
            !.copy = wallet[s], !.attached = AttachedTo(s)]

(* findByUserId reads the wallet of the next seller with its transactions.  *)
CreditRead(r) ==
  /\ req[r].phase = "credit"
  /\ \/ /\ req[r].todo = {}
        /\ req' = [req EXCEPT ![r].phase = "notify"]
        /\ UNCHANGED crossed
     \/ \E s \in req[r].todo :
          /\ req' = [req EXCEPT ![r] = Reading(@, s)]
          /\ crossed' = crossed \cup Meeting(r, s)
  /\ UNCHANGED <<rows, outside, money, bounds, confirmed, settled, disturbed>>

(* Done with this seller.                                                   *)
NextSeller(w) ==
  [w EXCEPT !.phase = "credit", !.seller = None, !.copy = NoCopy, !.attached = {}]

(* A seller already credited is skipped.                                    *)
CreditCheck(r) ==
  /\ req[r].phase = "check"
  /\ req' = [req EXCEPT ![r] = IF HasCredit(@.order, @.seller) THEN NextSeller(@)
                              ELSE [@ EXCEPT !.phase = "saveWallet"]]
  /\ UNCHANGED <<rows, outside, money, bounds, history>>

Raised(copy, o) == [copy EXCEPT ![o] = @ + 1]

(* The copy is saved with its rows: one inserted since it was read no       *)
(* longer refers to the wallet, one detached since refers to it again.      *)
CreditSave(r) ==
  LET s == req[r].seller IN
  /\ req[r].phase = "saveWallet"
  /\ wallet' = [wallet EXCEPT ![s] = Raised(req[r].copy, req[r].order)]
  /\ attached' = {os \in attached : os[2] # s} \cup (req[r].attached \X {s})
  /\ req' = [req EXCEPT ![r].phase = "record", ![r].copy = NoCopy, ![r].attached = {}]
  /\ UNCHANGED <<rows, outside, credits, notices, bounds, history>>

(* The unique index on wallet, order and type refuses a second row that     *)
(* refers to the wallet, which ends the request half way.                   *)
CreditRecord(r) ==
  LET o == req[r].order
      s == req[r].seller
  IN
  /\ req[r].phase = "record"
  /\ IF HasCredit(o, s)
     THEN /\ disturbed' = disturbed \cup {o}
          /\ Finish(r)
          /\ UNCHANGED <<credits, attached>>
     ELSE /\ credits' = [credits EXCEPT ![o][s] = @ + 1]
          /\ attached' = attached \cup {<<o, s>>}
          /\ req' = [req EXCEPT ![r] = NextSeller(@)]
          /\ UNCHANGED disturbed
  /\ UNCHANGED <<rows, outside, wallet, notices, bounds, confirmed, settled, crossed>>

(* notifyApprovedOrder, notifyRejectedPayment: eventKeys make repetitions   *)
(* void.                                                                    *)
Notify(r) ==
  /\ req[r].phase = "notify"
  /\ notices' = [notices EXCEPT ![req[r].order] = @ \cup {req[r].outcome}]
  /\ Finish(r)
  /\ UNCHANGED <<rows, outside, wallet, credits, attached, bounds, history>>

------------------------------------------------------------------------------
(* Where a request that ends has left an order half decided.                *)
HalfDone(w) ==
  \/ w.phase \in {"credit", "check", "saveWallet", "record", "notify"}
  \/ w.phase = "saveOrder" /\ w.outcome # "none"

(* A crash, a failed query, a wallet that is not there.                     *)
BreakOff(r) ==
  /\ req[r].phase # "idle"
  /\ faults < MaxFaults /\ faults' = faults + 1
  /\ disturbed' = IF HalfDone(req[r]) THEN disturbed \cup {req[r].order}
                                      ELSE disturbed
  /\ Finish(r)
  /\ UNCHANGED <<rows, outside, money, started, confirmed, settled, crossed>>

SharedStep(r) ==
  \/ SaveOrder(r) \/ SavePayment(r)
  \/ CreditRead(r) \/ CreditCheck(r) \/ CreditSave(r) \/ CreditRecord(r) \/ Notify(r)
  \/ BreakOff(r)
==============================================================================
