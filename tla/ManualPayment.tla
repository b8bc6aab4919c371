--------------------------- MODULE ManualPayment ---------------------------
(***************************************************************************)
(* Payments an administrator decides: transfers, and QR payments with a    *)
(* proof (PaymentsService.notifyTransferPayment, uploadedTranferProof and  *)
(* updateManualPaymentStatus).  Payment and order are saved one after the  *)
(* other, each as it was read.                                             *)
(***************************************************************************)
EXTENDS OrderPayments

(* notifyTransferPayment up to its save; a payment that checkout did not    *)
(* get to save is made here.                                                *)
NotifyTransfer(r, o) ==
  /\ order[o].method = "TRANSFER" /\ order[o].status = "PENDING"
  /\ payment[o] # None => payment[o].status = "PENDING"
  /\ Start(r, o, IF payment[o] = None
       THEN [Idle EXCEPT !.phase = "insertPayment", !.row = NewPayment]
       ELSE [Idle EXCEPT !.phase = "savePayment", !.row = payment[o]])
  /\ UNCHANGED <<rows, outside, money, confirmed, settled>>

(* The unique payments.orderId lets one insertion through.                  *)
InsertTransferPayment(r) ==
  LET o == req[r].order IN
  /\ req[r].phase = "insertPayment" /\ order[o].method = "TRANSFER"
  /\ payment' = IF payment[o] = None THEN [payment EXCEPT ![o] = req[r].row]
                                     ELSE payment
  /\ Finish(r)
  /\ UNCHANGED <<order, attempt, outside, money, bounds, history>>

(* uploadedTranferProof up to its save, the upload in between.              *)
UploadProof(r, o) ==
  /\ payment[o] # None /\ payment[o].status = "PENDING"
  /\ Start(r, o, [Idle EXCEPT !.phase = "savePayment",
                              !.row = [payment[o] EXCEPT !.proof = TRUE]])
  /\ UNCHANGED <<rows, outside, money, confirmed, settled>>

Verdict == {"COMPLETED", "REJECTED"}

OrderAfter(verdict) == IF verdict = "COMPLETED" THEN "PAID" ELSE "REJECTED"

FollowVerdict(verdict) == IF verdict = "COMPLETED" THEN "approved" ELSE "rejected"

Decidable(o) == payment[o].status = "PENDING" /\ order[o].status = "PENDING"

(* The decision both rows already have: it is only announced again.         *)
SameVerdict(o, verdict) ==
  payment[o].status = verdict /\ order[o].status = OrderAfter(verdict)

(* updateManualPaymentStatus up to its first save.                          *)
DecideManually(r, o, verdict) ==
  LET job == [Idle EXCEPT !.outcome = FollowVerdict(verdict),
                          !.pays = verdict = "COMPLETED"]
  IN
  /\ order[o].method \in {"TRANSFER", "GETNET_QR"} /\ payment[o] # None
  /\ verdict = "COMPLETED" /\ order[o].method = "GETNET_QR" => payment[o].proof
  /\ IF Decidable(o)
     THEN /\ Start(r, o, [job EXCEPT !.phase = "savePayment",
                            !.row = [payment[o] EXCEPT !.status = verdict],
                            !.status = OrderAfter(verdict)])
          /\ confirmed' = IF verdict = "COMPLETED" THEN confirmed \cup {o}
                                                   ELSE confirmed
     ELSE /\ SameVerdict(o, verdict)
          /\ Start(r, o, [job EXCEPT !.phase = "notify", !.pays = FALSE])
          /\ UNCHANGED confirmed
  /\ UNCHANGED <<rows, outside, money, settled>>

ManualStep(r) ==
  \/ \E o \in Orders : NotifyTransfer(r, o) \/ UploadProof(r, o)
  \/ \E o \in Orders, verdict \in Verdict : DecideManually(r, o, verdict)
  \/ InsertTransferPayment(r)
==============================================================================
