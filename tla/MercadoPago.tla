---------------------------- MODULE MercadoPago ----------------------------
(***************************************************************************)
(* The Mercado Pago route of PaymentsService: a preference for an order,   *)
(* any number of payments with it, and a webhook that reads the payment at *)
(* the provider and writes its status to the order, whatever status the    *)
(* order had.                                                              *)
(***************************************************************************)
EXTENDS OrderPayments

(* createMercadoPagoPreference: the order is read, the preference created,  *)
(* and the order saved as it was read.                                      *)
CreatePreference(r, o) ==
  /\ order[o].method = "MERCADO_PAGO" /\ order[o].status = "PENDING"
  /\ Start(r, o, [Idle EXCEPT !.phase = "saveOrder", !.status = order[o].status])
  /\ offered' = offered \cup {o}
  /\ UNCHANGED <<rows, charge, money, confirmed, settled>>

(* External: the buyer pays with the preference, more than once if refused. *)
PayPreference(o, c) ==
  /\ o \in offered /\ charge[c] = None
  /\ charge' = [charge EXCEPT ![c] = [order |-> o, status |-> "PENDING"]]
  /\ UNCHANGED <<rows, offered, money, req, bounds, history>>

(* variant: an order takes the word the attempts have for a cancellation    *)
PaidStatusMisspelt(st, was) ==
  CASE st = "APPROVED" -> "PAID" [] st \in {"REJECTED", "CANCELED"} -> st [] OTHER -> was

(* What a payment with status st makes of an order that was in status was.  *)
PaidStatus(st, was) ==
  CASE st = "APPROVED" -> "PAID"      [] st = "REJECTED" -> "REJECTED"
    [] st = "CANCELED" -> "CANCELLED" [] OTHER -> was

(* variant: a payment still pending credits the sellers                     *)
FollowEager(st) ==
  CASE st \in {"APPROVED", "PENDING"} -> "approved" [] st = "REJECTED" -> "rejected"
    [] OTHER -> "none"

Follow(st) ==
  CASE st = "APPROVED" -> "approved" [] st = "REJECTED" -> "rejected"
    [] OTHER -> "none"

FirstApproval(was) == was # "PAID"

(* handleMercadoPagoWebhook up to its save.  Deliveries are lost, late and  *)
(* repeated at will: any payment is reported at any time.                   *)
MercadoPagoWebhook(r, c) ==
  /\ charge[c] # None
  /\ LET o   == charge[c].order
         st  == charge[c].status
         was == order[o].status
     IN  /\ order[o].method = "MERCADO_PAGO"
         /\ Start(r, o, [Idle EXCEPT
              !.phase = "saveOrder", !.status = PaidStatus(st, was),
              !.outcome = Follow(st), !.pays = FirstApproval(was)])
  /\ UNCHANGED <<rows, outside, money, confirmed, settled>>

MercadoPagoStep(r) ==
  \/ \E o \in Orders : CreatePreference(r, o)
  \/ \E c \in Charges : MercadoPagoWebhook(r, c)
==============================================================================
