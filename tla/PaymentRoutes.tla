--------------------------- MODULE PaymentRoutes ---------------------------
(***************************************************************************)
(* The payment routes other than Getnet Web Checkout, together: Mercado    *)
(* Pago, decisions by an administrator, Getnet QR and Payway.  A QR order  *)
(* may be paid at Getnet and decided by an administrator at once.          *)
(***************************************************************************)
EXTENDS MercadoPago, ManualPayment, GetnetQr, Payway

(* External: a provider decides a payment.                                  *)
ProviderDecides(c, st) ==
  /\ charge[c] # None /\ charge[c].status = "PENDING"
  /\ charge' = [charge EXCEPT ![c].status = st]
  /\ UNCHANGED <<rows, offered, money, req, bounds, history>>

(* External: the time of an attempt runs out.                               *)
TimePasses(a) ==
  /\ attempt[a] # None /\ attempt[a].charge # None /\ ~attempt[a].due
  /\ attempt' = [attempt EXCEPT ![a].due = TRUE]
  /\ UNCHANGED <<order, payment, outside, money, req, bounds, history>>

RouteStep(r) ==
  SharedStep(r) \/ MercadoPagoStep(r) \/ ManualStep(r) \/ QrStep(r) \/ PaywayStep(r)

Next ==
  \/ \E r \in Requests : RouteStep(r)
  \/ \E o \in Orders, c \in Charges : PayPreference(o, c)
  \/ \E c \in Charges, st \in AttemptStatus \ {"PENDING"} : ProviderDecides(c, st)
  \/ \E a \in Attempts : TimePasses(a)

Spec == Init /\ [][Next]_vars

------------------------------------------------------------------------------
(* What the routes promise.                                                 *)

Approved == confirmed \cup {o \in Orders : \E c \in Charges :
  charge[c] # None /\ charge[c].order = o /\ charge[c].status = "APPROVED"}

Credited == {os \in Orders \X Sellers : credits[os[1]][os[2]] > 0}

Told == {o \in Orders : "approved" \in notices[o]}

Promise == INSTANCE SalePromise WITH
  approved <- Approved, credited <- Credited, told <- Told

(* Under every overlap, loss, repetition and crash, what is credited and    *)
(* announced was approved by a provider or an administrator, and stays.     *)
KeepsPromise == Promise!Spec

(* So is every amount in a wallet, also between the save of the wallet and  *)
(* that of its CREDIT row (wallet.service.ts:205).                          *)
BalanceIsBacked ==
  \A s \in Sellers, o \in Orders :
    wallet[s][o] > 0 => o \in Approved /\ s \in PayeesOf[o]

(* "Dos llamadas simultaneas no generan dos links: la segunda reutiliza el  *)
(* intento vigente" (payway.service.ts:45): an order has one pending link,  *)
(* and no link is withdrawn before its time.                                *)
OneLinkAtATime ==
  \A o \in Orders : order[o].method = "PAYWAY" =>
    \A a, b \in LinksOf(o) :
      /\ attempt[a].status = "PENDING" /\ attempt[b].status = "PENDING" => a = b
      /\ attempt[a].status # "CANCELED"

Quiet(o) == o \notin disturbed /\ \A q \in Requests : ~Busy(q, o)

(* Of an order whose requests never overlapped nor broke off: whatever came *)
(* in whatever order, approvals, refusals, repetitions, every seller was    *)
(* credited once if it was ever marked paid, else not at all, and the buyer *)
(* knows.  Row and amount are there whatever was credited to the seller     *)
(* before or since, unless its credit met another one at a wallet: the save *)
(* of the one then takes away the amount and the row of the other           *)
(* (wallet.service.ts:194).                                                 *)
QuietSaleIsCreditedOnce ==
  \A o \in Orders : Quiet(o) =>
    LET times == IF o \in settled THEN 1 ELSE 0 IN
    /\ o \notin crossed =>
         \A s \in PayeesOf[o] : /\ credits[o][s] = times /\ wallet[s][o] = times
                                /\ <<o, s>> \in attached <=> o \in settled
    /\ o \in settled <=> o \in Told

(* Its payment and its order agree, and once paid it stays so, where the    *)
(* route keeps a payment (getnet-qr.service.ts:227, payments.service.ts:389). *)
QuietPaymentAgrees ==
  \A o \in Orders : Quiet(o) /\ order[o].method \in {"TRANSFER", "GETNET_QR"} =>
    /\ payment[o] # None => <<payment[o].status, order[o].status>> \in
         {<<"PENDING", "PENDING">>, <<"COMPLETED", "PAID">>, <<"REJECTED", "REJECTED">>}
    /\ o \in settled => order[o].status = "PAID"
==============================================================================
