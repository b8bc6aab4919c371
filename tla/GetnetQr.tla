------------------------------ MODULE GetnetQr ------------------------------
(***************************************************************************)
(* The interoperable QR of Getnet (GetnetQrService): attempts minted by    *)
(* requests that lock nothing, and a webhook that asks Getnet for the      *)
(* payment and then changes attempt, payment and order in one transaction. *)
(***************************************************************************)
EXTENDS OrderPayments

AttemptsOf(o) == {a \in Attempts : attempt[a] # None /\ attempt[a].order = o}

(* A QR that createPayment would answer with instead of making one.         *)
ActiveQr(o) == {a \in AttemptsOf(o) : attempt[a].status = "PENDING" /\
                                      attempt[a].charge # None /\ ~attempt[a].due}

ExpiredQr(o) == {a \in AttemptsOf(o) : attempt[a].status = "PENDING" /\ attempt[a].due}

AfterPayment(w) == [w EXCEPT !.row = None,
  !.phase = IF w.stale = {} THEN "insertAttempt" ELSE "expire"]

(* createPayment up to its first write.                                     *)
CreateQr(r, o) ==
  LET job == [Idle EXCEPT !.status = order[o].status, !.stale = ExpiredQr(o)] IN
  /\ order[o].method = "GETNET_QR" /\ order[o].status = "PENDING"
  /\ ActiveQr(o) = {}
  /\ Start(r, o, IF payment[o] = None
       THEN [job EXCEPT !.phase = "insertPayment", !.row = NewPayment]
       ELSE AfterPayment(job))
  /\ UNCHANGED <<rows, outside, money, confirmed, settled>>

(* The unique payments.orderId ends the request of whoever is second.       *)
InsertQrPayment(r) ==
  LET o == req[r].order IN
  /\ req[r].phase = "insertPayment" /\ order[o].method = "GETNET_QR"
  /\ IF payment[o] # None
     THEN Finish(r) /\ UNCHANGED payment
     ELSE /\ payment' = [payment EXCEPT ![o] = req[r].row]
          /\ req' = [req EXCEPT ![r] = AfterPayment(@)]
  /\ UNCHANGED <<order, attempt, outside, money, bounds, history>>

(* The attempts read as expired, whatever a webhook made of them since.     *)
ExpireQrs(r) ==
  /\ req[r].phase = "expire"
  /\ attempt' = [a \in Attempts |-> IF a \in req[r].stale
                   THEN [attempt[a] EXCEPT !.status = "EXPIRED"] ELSE attempt[a]]
  /\ req' = [req EXCEPT ![r].phase = "insertAttempt", ![r].stale = {}]
  /\ UNCHANGED <<order, payment, outside, money, bounds, history>>

InsertQrAttempt(r, a) ==
  /\ req[r].phase = "insertAttempt"
  /\ attempt[a] = None
  /\ attempt' = [attempt EXCEPT ![a] = [order |-> req[r].order, status |-> "PENDING",
                                        charge |-> None, due |-> FALSE]]
  /\ req' = [req EXCEPT ![r].phase = "mint", ![r].attempt = a]
  /\ UNCHANGED <<order, payment, outside, money, bounds, history>>

(* GetnetQrClient.createPayment.                                            *)
MintQr(r, c) ==
  /\ req[r].phase = "mint"
  /\ charge[c] = None
  /\ charge' = [charge EXCEPT ![c] = [order |-> req[r].order, status |-> "PENDING"]]
  /\ req' = [req EXCEPT ![r].phase = "saveAttempt", ![r].charge = c]
  /\ UNCHANGED <<rows, offered, money, bounds, history>>

(* The client or a save after it failed: the attempt as this request has it *)
(* is saved as an error, whatever a webhook made of it since.               *)
MintQrFails(r) ==
  /\ \/ req[r].phase \in {"mint", "saveAttempt"}
     \/ req[r].phase = "saveOrder" /\ req[r].attempt # None
  /\ faults < MaxFaults /\ faults' = faults + 1
  /\ attempt' = [attempt EXCEPT ![req[r].attempt].status = "ERROR",
                               ![req[r].attempt].charge = req[r].charge]
  /\ Finish(r)
  /\ UNCHANGED <<order, payment, outside, money, started, history>>

(* From here on the webhook finds the attempt; the order is saved next, as  *)
(* it was read before Getnet was asked.                                     *)
SaveQrAttempt(r) ==
  /\ req[r].phase = "saveAttempt"
  /\ attempt' = [attempt EXCEPT ![req[r].attempt].charge = req[r].charge]
  /\ req' = [req EXCEPT ![r].phase = "saveOrder"]
  /\ UNCHANGED <<order, payment, outside, money, bounds, history>>

------------------------------------------------------------------------------
(* handleWebhook: the attempt is found, the payment asked for at Getnet.    *)
QrWebhook(r, a) ==
  /\ attempt[a] # None /\ attempt[a].charge # None
  /\ LET o == attempt[a].order IN
     /\ order[o].method = "GETNET_QR"
     /\ Start(r, o, [Idle EXCEPT !.phase = "apply", !.attempt = a,
                       !.target = charge[attempt[a].charge].status])
  /\ UNCHANGED <<rows, outside, money, confirmed, settled>>

Refusals == {"REJECTED", "CANCELED", "ERROR"}

(* variant: a refusal is applied to an order that is already paid           *)
RefusesAnyOrder(st, was) == st \in Refusals

Refuses(st, was) == st \in Refusals /\ was # "PAID"

(* applyStatus in its transaction, and what handleWebhook does with it.     *)
ApplyQrStatus(r) ==
  LET a   == req[r].attempt
      o   == req[r].order
      st  == req[r].target
      was == order[o].status
      pay == [payment[o] EXCEPT !.status = IF st = "APPROVED" THEN "COMPLETED"
                                           ELSE "REJECTED"]
      follow == CASE st = "APPROVED" /\ was # "PAID"            -> "approved"
                  [] Refuses(st, was) /\ was # "REJECTED"       -> "rejected"
                  [] OTHER                                      -> "none"
  IN
  /\ req[r].phase = "apply"
  /\ attempt' = [attempt EXCEPT ![a].status = st]
  /\ IF st = "APPROVED" \/ Refuses(st, was)
     THEN /\ payment' = [payment EXCEPT ![o] = pay]
          /\ order' = [order EXCEPT ![o].status =
                         IF st = "APPROVED" THEN "PAID" ELSE "REJECTED"]
     ELSE UNCHANGED <<payment, order>>
  /\ settled' = IF st = "APPROVED" THEN settled \cup {o} ELSE settled
  /\ req' = [req EXCEPT ![r] = Decided([@ EXCEPT !.outcome = follow, !.pays = TRUE])]
  /\ UNCHANGED <<outside, money, bounds, confirmed, disturbed, crossed>>

(* applyStatus locks with joins to payment and order, a query that          *)
(* PostgreSQL is said to refuse (payments.service.ts:634): the webhook then *)
(* answers with an error, however often Getnet repeats it.                  *)
ApplyQrFails(r) ==
  /\ req[r].phase = "apply"
  /\ Finish(r)
  /\ UNCHANGED <<rows, outside, money, bounds, history>>

QrStep(r) ==
  \/ \E o \in Orders : CreateQr(r, o)
  \/ InsertQrPayment(r) \/ ExpireQrs(r)
  \/ \E a \in Attempts : InsertQrAttempt(r, a) \/ QrWebhook(r, a)
  \/ \E c \in Charges : MintQr(r, c)
  \/ MintQrFails(r) \/ SaveQrAttempt(r)
  \/ ApplyQrStatus(r) \/ ApplyQrFails(r)
==============================================================================
