------------------------- MODULE PaymentRoutesProofs -------------------------
(***************************************************************************)
(* Proofs about PaymentRoutes, for all orders, sellers, requests, attempts *)
(* and faults: the rows stay well formed, nothing is credited or announced *)
(* that nobody approved, and an order has one pending Payway link.         *)
(***************************************************************************)
EXTENDS PaymentRoutes, TLAPS

(* What a request has to bring to its next step.                            *)
Shaped(w) ==
  /\ w.phase # "idle" => w.order \in Orders
  /\ w.phase \in {"saveOrder", "expire", "insertAttempt", "mint", "saveAttempt"}
       => w.status \in OrderStatus
  /\ w.phase \in {"insertPayment", "savePayment"} => w.row \in Payment
  /\ w.phase = "insertPayment" /\ order[w.order].method = "GETNET_QR"
       => w.status \in OrderStatus
  /\ w.phase \in {"expire", "insertAttempt", "mint", "saveAttempt", "apply"}
       => order[w.order].method = "GETNET_QR" /\ payment[w.order] # None
  /\ w.phase \in {"mint", "saveAttempt", "apply"} => w.attempt \in Attempts
  /\ w.phase = "saveAttempt" => w.charge \in Charges
  /\ w.phase = "notify" => w.outcome # "none"
  /\ w.phase = "link" => order[w.order].method = "PAYWAY"

(* The attempts and the payment it refers to are there, and of its order.   *)
Linked(w) ==
  /\ w.attempt # None => /\ w.order \in Orders /\ attempt[w.attempt] # None
                         /\ attempt[w.attempt].order = w.order
                         /\ order[w.order].method = "GETNET_QR"
  /\ w.charge # None => charge[w.charge] # None /\ charge[w.charge].order = w.order
  /\ \A a \in w.stale : /\ w.order \in Orders /\ attempt[a] # None /\ attempt[a].order = w.order
                        /\ order[w.order].method = "GETNET_QR"

(* It credits and announces only what was approved.                         *)
Honest(w) ==
  /\ w.phase \in {"credit", "check", "saveWallet", "record"}
       => w.outcome = "approved" /\ w.todo \subseteq PayeesOf[w.order]
  /\ w.phase \in {"check", "saveWallet", "record"} => w.seller \in PayeesOf[w.order]
  /\ w.outcome = "approved" => w.order \in Approved
  /\ w.phase = "apply" /\ w.target = "APPROVED" => w.order \in Approved
  /\ w.row # None => (w.row.status = "COMPLETED" => w.order \in Approved)
  /\ w.phase \in {"check", "saveWallet"} =>
       \A o \in Orders : w.copy[o] > 0 => o \in Approved /\ w.seller \in PayeesOf[o]

Formed(w) == Shaped(w) /\ Linked(w) /\ Honest(w)

RequestsFormed == \A r \in Requests : Formed(req[r])

(* An attempt belongs to the QR of a recorded payment or is a Payway link,  *)
(* and what it names at the provider is of its order.                       *)
LinkedRow(att) ==
  LET o == att.order
      c == att.charge IN
  /\ c # None => charge[c] # None /\ charge[c].order = o
  /\ \/ order[o].method = "GETNET_QR" /\ payment[o] # None
     \/ order[o].method = "PAYWAY" /\ c # None

AttemptsLinked == \A a \in Attempts : attempt[a] # None => LinkedRow(attempt[a])

Backed ==
  /\ \A o \in Orders : payment[o] # None =>
       (payment[o].status = "COMPLETED" => o \in Approved)
  /\ BalanceIsBacked
  /\ \A o \in Orders, s \in Sellers :
       credits[o][s] > 0 => o \in Approved /\ s \in PayeesOf[o]
  /\ \A o \in Orders : "approved" \in notices[o] => o \in Approved

(* The rows, without the history of crossings, which no step reads.         *)
RowsTyped ==
  /\ order \in [Orders -> Order]
  /\ payment \in [Orders -> Payment \cup {None}]
  /\ attempt \in [Attempts -> Attempt \cup {None}]
  /\ charge \in [Charges -> Charge \cup {None}]
  /\ offered \subseteq Orders
  /\ wallet \in [Sellers -> [Orders -> Nat]]
  /\ credits \in [Orders -> [Sellers -> Nat]] /\ attached \subseteq Orders \X Sellers
  /\ notices \in [Orders -> SUBSET {"approved", "rejected"}]
  /\ started \in 0..MaxRequests /\ faults \in 0..MaxFaults
  /\ confirmed \subseteq Orders /\ settled \subseteq Orders
  /\ disturbed \subseteq Orders

Typed == RowsTyped /\ req \in [Requests -> Request]

(* The inductive invariant.                                                 *)
IInv == Typed /\ RequestsFormed /\ AttemptsLinked /\ Backed

LEMMA TypedParts == Typed <=> RowsTyped /\ req \in [Requests -> Request]
BY DEF Typed, RowsTyped

------------------------------------------------------------------------------
(* What no step takes back.                                                 *)
Grows ==
  /\ Approved \subseteq Approved'
  /\ \A a \in Attempts : attempt[a] # None =>
       attempt'[a] # None /\ attempt'[a].order = attempt[a].order
  /\ \A c \in Charges : charge[c] # None =>
       charge'[c] # None /\ charge'[c].order = charge[c].order
  /\ \A o \in Orders : payment[o] # None => payment'[o] # None
  /\ \A o \in Orders : order'[o].method = order[o].method

(* So what a request relies on stays true.                                  *)
LEMMA FormedStays ==
  ASSUME Grows, NEW w \in Request, Formed(w) PROVE Formed(w)'
<1>1. w.phase = "idle" \/ w.order \in Orders
  BY DEF Formed, Shaped
<1>2. w.order \in Approved => w.order \in Approved'
  BY DEF Grows
<1>3. w.order \in Orders => order'[w.order].method = order[w.order].method
  BY DEF Grows
<1>4. w.attempt \in Attempts \cup {None} /\ w.charge \in Charges \cup {None}
      /\ w.stale \subseteq Attempts
  BY DEF Request
<1>5. Shaped(w)'
  BY <1>1, <1>3 DEF Formed, Shaped, Grows
<1>6. Honest(w)'
  BY <1>2 DEF Formed, Honest, Grows
<1>7. Linked(w)'
  BY <1>3, <1>4 DEF Formed, Linked, Grows
<1> QED
  BY <1>5, <1>6, <1>7 DEF Formed

LEMMA IdleFormed == Idle \in Request /\ Formed(Idle)
<1>1. Idle \in Request
  BY DEF Idle, Request, NoCopy, Phases, AttemptStatus
<1> QED
  BY <1>1 DEF Idle, NoCopy, Formed, Shaped, Linked, Honest

(* Sellers are credited, and people told, one request at a time.            *)
LEMMA DecidedFormed ==
  ASSUME PaymentsAssumption, NEW w \in Request, w.order \in Orders,
         w.outcome = "approved" => w.order \in Approved
  PROVE  Decided(w) \in Request /\ Formed(Decided(w))
<1>1. PICK v : v = [Idle EXCEPT !.order = w.order, !.outcome = w.outcome,
                                !.pays = w.pays, !.todo = PayeesOf[w.order]]
  OBVIOUS
<1>2. v \in Request
  BY <1>1, IdleFormed DEF Request, PaymentsAssumption
<1>3. /\ v.order = w.order /\ v.outcome = w.outcome /\ v.todo = PayeesOf[w.order]
      /\ v.attempt = None /\ v.charge = None /\ v.row = None /\ v.stale = {}
      /\ v.copy = NoCopy
  BY <1>1, IdleFormed DEF Request, Idle
<1>4. CASE w.outcome = "none"
  BY <1>4, IdleFormed DEF Decided
<1>5. CASE w.outcome = "approved" /\ w.pays
  <2>1. PICK u : u = [v EXCEPT !.phase = "credit"]
    OBVIOUS
  <2>2. u \in Request /\ u.phase = "credit" /\ u.order = v.order /\ u.outcome = v.outcome
        /\ u.todo = v.todo /\ u.attempt = None /\ u.charge = None /\ u.row = None
        /\ u.stale = {} /\ u.copy = NoCopy
    BY <2>1, <1>2, <1>3 DEF Request, Phases
  <2>3. Formed(u)
    BY <2>2, <1>3, <1>5 DEF Formed, Shaped, Linked, Honest, NoCopy
  <2>4. Decided(w) = u
    BY <2>1, <1>1, <1>5 DEF Decided
  <2> QED
    BY <2>2, <2>3, <2>4
<1>6. CASE w.outcome # "none" /\ ~(w.outcome = "approved" /\ w.pays)
  <2>1. PICK u : u = [v EXCEPT !.phase = "notify", !.todo = {}]
    OBVIOUS
  <2>2. u \in Request /\ u.phase = "notify" /\ u.order = v.order /\ u.outcome = v.outcome
        /\ u.attempt = None /\ u.charge = None /\ u.row = None
        /\ u.stale = {} /\ u.copy = NoCopy
    BY <2>1, <1>2, <1>3 DEF Request, Phases
  <2>3. Formed(u)
    BY <2>2, <1>3, <1>6 DEF Formed, Shaped, Linked, Honest, NoCopy
  <2>4. Decided(w) = u
    BY <2>1, <1>1, <1>6 DEF Decided
  <2> QED
    BY <2>2, <2>3, <2>4
<1> QED
  BY <1>4, <1>5, <1>6

------------------------------------------------------------------------------
(* A step in which request r becomes w, or none does.                       *)
LEMMA RequestsMove ==
  ASSUME IInv, Grows, NEW r \in Requests, NEW w \in Request,
         req' = [req EXCEPT ![r] = w], Formed(w)'
  PROVE  req' \in [Requests -> Request] /\ RequestsFormed'
<1>1. req' \in [Requests -> Request]
      /\ \A q \in Requests : req'[q] = IF q = r THEN w ELSE req[q]
  BY DEF IInv, Typed, RowsTyped
<1>2. \A q \in Requests \ {r} : Formed(req[q])'
  <2> SUFFICES ASSUME NEW q \in Requests \ {r} PROVE Formed(req[q])'
    OBVIOUS
  <2>1. PICK v \in Request : v = req[q]
    BY DEF IInv, Typed, RowsTyped
  <2>2. Formed(v)'
    BY <2>1, FormedStays DEF IInv, RequestsFormed
  <2>3. req'[q] = v
    BY <2>1, <1>1
  <2> QED
    BY <2>2, <2>3 DEF Formed, Shaped, Linked, Honest
<1> QED
  BY <1>1, <1>2 DEF RequestsFormed, Formed, Shaped, Linked, Honest

(* A step that writes nothing others rely on.                               *)
LEMMA RowsKept ==
  ASSUME IInv, UNCHANGED <<rows, charge, money>>, confirmed \subseteq confirmed'
  PROVE  Grows /\ AttemptsLinked' /\ Backed'
<1>1. order' = order /\ payment' = payment /\ attempt' = attempt /\ charge' = charge
      /\ wallet' = wallet /\ credits' = credits /\ notices' = notices
  BY DEF rows, money
<1>2. Approved \subseteq Approved'
  BY <1>1 DEF Approved
<1>3. AttemptsLinked'
  BY <1>1 DEF IInv, AttemptsLinked, LinkedRow
<1>4. Backed'
  BY <1>1, <1>2 DEF IInv, Backed, BalanceIsBacked
<1> QED
  BY <1>1, <1>2, <1>3, <1>4 DEF Grows

LEMMA StillStep ==
  ASSUME IInv, NEW r \in Requests, NEW w \in Request, req' = [req EXCEPT ![r] = w],
         Formed(w) \/ Formed(w)',
         UNCHANGED <<rows, charge, money>>, offered' \subseteq Orders,
         confirmed \subseteq confirmed', confirmed' \subseteq Orders,
         settled' \subseteq Orders, disturbed' \subseteq Orders,
         started' \in 0..MaxRequests, faults' \in 0..MaxFaults
  PROVE  IInv'
<1>1. Grows /\ AttemptsLinked' /\ Backed'
  BY RowsKept
<1>2. Formed(w)'
  BY <1>1, FormedStays
<1>3. req' \in [Requests -> Request] /\ RequestsFormed'
  BY <1>1, <1>2, RequestsMove
<1>4. RowsTyped'
  BY DEF IInv, Typed, RowsTyped, rows, money
<1> QED
  BY <1>1, <1>3, <1>4, TypedParts DEF IInv, Typed, RowsTyped

LEMMA StartStep ==
  ASSUME IInv, NEW r \in Requests, NEW o \in Orders, NEW j, Start(r, o, j),
         NEW w \in Request, w = [j EXCEPT !.order = o], Formed(w) \/ Formed(w)',
         UNCHANGED <<rows, charge, money>>, offered' \subseteq Orders,
         confirmed \subseteq confirmed', confirmed' \subseteq Orders, settled' = settled
  PROVE  IInv'
<1>1. started' \in 0..MaxRequests /\ faults' \in 0..MaxFaults
  BY PaymentsAssumption DEF Start, IInv, Typed, RowsTyped
<1>2. disturbed' \subseteq Orders /\ settled' \subseteq Orders
  BY DEF Start, IInv, Typed, RowsTyped
<1>3. req' = [req EXCEPT ![r] = w]
  BY DEF Start
<1> QED
  BY <1>1, <1>2, <1>3, StillStep

(* A request that has only read so far.                                     *)
Fresh(w) == /\ w.attempt = None /\ w.charge = None /\ w.stale = {}
            /\ w.copy = NoCopy

LEMMA FreshLinked ==
  ASSUME NEW w \in Request, Fresh(w)
  PROVE  Linked(w) /\ \A o \in Orders : ~(w.copy[o] > 0)
BY DEF Fresh, Linked, NoCopy

------------------------------------------------------------------------------
(* The first steps of requests.                                             *)
LEMMA CreatePreferenceStep ==
  ASSUME IInv, NEW r \in Requests, NEW o \in Orders, CreatePreference(r, o)
  PROVE  IInv'
<1>1. PICK w : w = [[Idle EXCEPT !.phase = "saveOrder", !.status = order[o].status]
                      EXCEPT !.order = o]
  OBVIOUS
<1>2. order[o].status \in OrderStatus
  BY DEF IInv, Typed, RowsTyped, Order
<1>3. /\ w \in Request /\ Fresh(w) /\ w.phase = "saveOrder" /\ w.order = o
      /\ w.status = order[o].status /\ w.row = None /\ w.outcome = "none"
  BY <1>1, <1>2, IdleFormed DEF Request, Idle, Phases, Fresh
<1>4. Formed(w)
  BY <1>2, <1>3, FreshLinked DEF Formed, Shaped, Honest
<1>5. /\ offered' \subseteq Orders /\ UNCHANGED <<rows, charge, money>>
      /\ confirmed' = confirmed /\ settled' = settled /\ confirmed \subseteq Orders
  BY DEF CreatePreference, IInv, Typed, RowsTyped
<1> QED
  BY <1>1, <1>3, <1>4, <1>5, StartStep DEF CreatePreference

LEMMA WebhookStep ==
  ASSUME IInv, NEW r \in Requests, NEW c \in Charges, MercadoPagoWebhook(r, c)
  PROVE  IInv'
<1>1. PICK o : o = charge[c].order
  OBVIOUS
<1>2. PICK st : st = charge[c].status
  OBVIOUS
<1>3. PICK was : was = order[o].status
  OBVIOUS
<1>4. o \in Orders /\ st \in AttemptStatus /\ was \in OrderStatus /\ charge[c] # None
  BY <1>1, <1>2, <1>3 DEF MercadoPagoWebhook, IInv, Typed, RowsTyped, Charge, Order
<1>5. PICK w : w = [[Idle EXCEPT !.phase = "saveOrder", !.status = PaidStatus(st, was),
                       !.outcome = Follow(st), !.pays = FirstApproval(was)]
                      EXCEPT !.order = o]
  OBVIOUS
<1>6. PaidStatus(st, was) \in OrderStatus
  BY <1>4 DEF PaidStatus, OrderStatus
<1>7. /\ Follow(st) \in {"none", "approved", "rejected"}
      /\ Follow(st) = "approved" => st = "APPROVED"
  BY DEF Follow
<1>8. /\ w \in Request /\ Fresh(w) /\ w.phase = "saveOrder" /\ w.order = o
      /\ w.status = PaidStatus(st, was) /\ w.row = None /\ w.outcome = Follow(st)
  <2>1. PICK to \in OrderStatus, follow \in {"none", "approved", "rejected"}, pays \in BOOLEAN :
          to = PaidStatus(st, was) /\ follow = Follow(st) /\ pays = FirstApproval(was)
    BY <1>6, <1>7 DEF FirstApproval
  <2>2. w = [Idle EXCEPT !.phase = "saveOrder", !.status = to, !.outcome = follow,
                         !.pays = pays, !.order = o]
    BY <1>5, <2>1
  <2>3. Idle \in Request
    BY IdleFormed
  <2>4. w \in Request
    BY <1>4, <2>2, <2>3 DEF Request, Phases
  <2>5. Fresh(w) /\ w.row = None
    BY <2>2 DEF Idle, Fresh
  <2>6. w.phase = "saveOrder" /\ w.order = o /\ w.status = to /\ w.outcome = follow
    BY <2>2 DEF Idle
  <2> QED
    BY <2>1, <2>4, <2>5, <2>6
<1>9. st = "APPROVED" => o \in Approved
  BY <1>1, <1>2, <1>4 DEF Approved
<1>10. Formed(w)
  BY <1>6, <1>7, <1>8, <1>9, <1>4, FreshLinked DEF Formed, Shaped, Honest
<1>11. /\ offered' \subseteq Orders /\ UNCHANGED <<rows, charge, money>>
       /\ confirmed' = confirmed /\ settled' = settled /\ confirmed \subseteq Orders
  BY DEF MercadoPagoWebhook, IInv, Typed, RowsTyped, outside
<1>12. Start(r, o, [Idle EXCEPT !.phase = "saveOrder", !.status = PaidStatus(st, was),
                      !.outcome = Follow(st), !.pays = FirstApproval(was)])
  BY <1>1, <1>2, <1>3 DEF MercadoPagoWebhook
<1> QED
  BY <1>4, <1>5, <1>8, <1>10, <1>11, <1>12, StartStep

LEMMA NotifyTransferStep ==
  ASSUME IInv, NEW r \in Requests, NEW o \in Orders, NotifyTransfer(r, o)
  PROVE  IInv'
<1>1. PICK j : j = IF payment[o] = None
                   THEN [Idle EXCEPT !.phase = "insertPayment", !.row = NewPayment]
                   ELSE [Idle EXCEPT !.phase = "savePayment", !.row = payment[o]]
  OBVIOUS
<1>2. PICK w : w = [j EXCEPT !.order = o]
  OBVIOUS
<1>3. NewPayment \in Payment /\ NewPayment.status = "PENDING"
  BY DEF NewPayment, Payment, PaymentStatus
<1>4. payment[o] # None => payment[o] \in Payment /\ payment[o].status = "PENDING"
  BY DEF NotifyTransfer, IInv, Typed, RowsTyped
<1>5. /\ w \in Request /\ Fresh(w) /\ w.phase \in {"insertPayment", "savePayment"}
      /\ w.order = o /\ w.outcome = "none"
      /\ w.row \in Payment /\ w.row.status = "PENDING"
  <2>1. CASE payment[o] = None
    <3>1. PICK row \in Payment : row = NewPayment /\ row.status = "PENDING"
      BY <1>3
    <3>2. w = [[Idle EXCEPT !.phase = "insertPayment", !.row = row] EXCEPT !.order = o]
      BY <1>1, <1>2, <2>1, <3>1
    <3> QED
      BY <3>1, <3>2, IdleFormed DEF Request, Idle, Phases, Fresh
  <2>2. CASE payment[o] # None
    <3>1. PICK row \in Payment : row = payment[o] /\ row.status = "PENDING"
      BY <1>4, <2>2
    <3>2. w = [[Idle EXCEPT !.phase = "savePayment", !.row = row] EXCEPT !.order = o]
      BY <1>1, <1>2, <2>2, <3>1
    <3> QED
      BY <3>1, <3>2, IdleFormed DEF Request, Idle, Phases, Fresh
  <2> QED
    BY <2>1, <2>2
<1>6. order[o].method = "TRANSFER"
  BY DEF NotifyTransfer
<1>7. Formed(w)
  BY <1>5, <1>6, FreshLinked DEF Formed, Shaped, Honest
<1>8. /\ offered' \subseteq Orders /\ UNCHANGED <<rows, charge, money>>
      /\ confirmed' = confirmed /\ settled' = settled /\ confirmed \subseteq Orders
  BY DEF NotifyTransfer, IInv, Typed, RowsTyped, outside
<1>9. Start(r, o, j)
  BY <1>1 DEF NotifyTransfer
<1> QED
  BY <1>2, <1>5, <1>7, <1>8, <1>9, StartStep

LEMMA UploadProofStep ==
  ASSUME IInv, NEW r \in Requests, NEW o \in Orders, UploadProof(r, o)
  PROVE  IInv'
<1>1. PICK row : row = [payment[o] EXCEPT !.proof = TRUE]
  OBVIOUS
<1>2. PICK w : w = [[Idle EXCEPT !.phase = "savePayment", !.row = row] EXCEPT !.order = o]
  OBVIOUS
<1>3. row \in Payment /\ row.status = "PENDING"
  BY <1>1 DEF UploadProof, IInv, Typed, RowsTyped, Payment
<1>4. /\ w \in Request /\ Fresh(w) /\ w.phase = "savePayment"
      /\ w.order = o /\ w.outcome = "none" /\ w.row = row
  BY <1>2, <1>3, IdleFormed DEF Request, Idle, Phases, Fresh
<1>5. Formed(w)
  BY <1>3, <1>4, FreshLinked DEF Formed, Shaped, Honest
<1>6. /\ offered' \subseteq Orders /\ UNCHANGED <<rows, charge, money>>
      /\ confirmed' = confirmed /\ settled' = settled /\ confirmed \subseteq Orders
  BY DEF UploadProof, IInv, Typed, RowsTyped, outside
<1>7. Start(r, o, [Idle EXCEPT !.phase = "savePayment", !.row = row])
  BY <1>1 DEF UploadProof
<1> QED
  BY <1>2, <1>4, <1>5, <1>6, <1>7, StartStep

LEMMA DecideManuallyStep ==
  ASSUME IInv, NEW r \in Requests, NEW o \in Orders, NEW verdict \in Verdict,
         DecideManually(r, o, verdict)
  PROVE  IInv'
<1>1. PICK job : job = [Idle EXCEPT !.outcome = FollowVerdict(verdict),
                                    !.pays = verdict = "COMPLETED"]
  OBVIOUS
<1>2. /\ FollowVerdict(verdict) \in {"approved", "rejected"}
      /\ FollowVerdict(verdict) = "approved" <=> verdict = "COMPLETED"
      /\ verdict \in PaymentStatus /\ OrderAfter(verdict) \in OrderStatus
  BY DEF FollowVerdict, Verdict, OrderAfter, PaymentStatus, OrderStatus
<1>3. payment[o] \in Payment
  BY DEF DecideManually, IInv, Typed, RowsTyped
<1>4. CASE Decidable(o)
  <2>1. PICK row : row = [payment[o] EXCEPT !.status = verdict]
    OBVIOUS
  <2>2. row \in Payment /\ row.status = verdict
    BY <1>2, <1>3, <2>1 DEF Payment
  <2>3. PICK j : j = [job EXCEPT !.phase = "savePayment", !.row = row,
                                 !.status = OrderAfter(verdict)]
    OBVIOUS
  <2>4. PICK w : w = [j EXCEPT !.order = o]
    OBVIOUS
  <2>5. /\ w \in Request /\ Fresh(w) /\ w.phase = "savePayment" /\ w.order = o
        /\ w.row = row /\ w.outcome = FollowVerdict(verdict)
    <3>1. /\ job \in Request /\ Fresh(job) /\ job.outcome = FollowVerdict(verdict)
      BY <1>1, <1>2, IdleFormed DEF Request, Idle, Fresh
    <3>2. PICK st \in OrderStatus : st = OrderAfter(verdict)
      BY <1>2
    <3> QED
      BY <2>2, <2>3, <2>4, <3>1, <3>2 DEF Request, Phases, Fresh
  <2>6. Start(r, o, j)
    BY <1>1, <1>4, <2>1, <2>3 DEF DecideManually
  <2>7. /\ confirmed \subseteq confirmed' /\ confirmed' \subseteq Orders
        /\ verdict = "COMPLETED" => o \in Approved'
    BY <1>4 DEF DecideManually, IInv, Typed, RowsTyped, Approved
  <2>8. Formed(w)'
    BY <1>2, <2>2, <2>5, <2>7, FreshLinked DEF Formed, Shaped, Honest, Linked, Fresh, NoCopy
  <2>9. /\ offered' \subseteq Orders /\ UNCHANGED <<rows, charge, money>>
        /\ settled' = settled
    BY DEF DecideManually, IInv, Typed, RowsTyped, outside
  <2> QED
    BY <2>4, <2>5, <2>6, <2>7, <2>8, <2>9, StartStep
<1>5. CASE ~Decidable(o)
  <2>1. PICK j : j = [job EXCEPT !.phase = "notify", !.pays = FALSE]
    OBVIOUS
  <2>2. PICK w : w = [j EXCEPT !.order = o]
    OBVIOUS
  <2>3. /\ w \in Request /\ Fresh(w) /\ w.phase = "notify" /\ w.order = o
        /\ w.row = None /\ w.outcome = FollowVerdict(verdict)
    BY <1>1, <1>2, <2>1, <2>2, IdleFormed DEF Request, Idle, Phases, Fresh
  <2>4. Start(r, o, j) /\ confirmed' = confirmed /\ payment[o].status = verdict
    BY <1>1, <1>5, <2>1 DEF DecideManually, SameVerdict
  <2>5. verdict = "COMPLETED" => o \in Approved
    BY <2>4 DEF DecideManually, IInv, Backed
  <2>6. Formed(w)
    BY <1>2, <2>3, <2>5, FreshLinked DEF Formed, Shaped, Honest
  <2>7. /\ offered' \subseteq Orders /\ UNCHANGED <<rows, charge, money>>
        /\ settled' = settled /\ confirmed \subseteq Orders
    BY DEF DecideManually, IInv, Typed, RowsTyped, outside
  <2> QED
    BY <2>2, <2>3, <2>4, <2>6, <2>7, StartStep
<1> QED
  BY <1>4, <1>5

LEMMA QrWebhookStep ==
  ASSUME IInv, NEW r \in Requests, NEW a \in Attempts, QrWebhook(r, a)
  PROVE  IInv'
<1>1. PICK o : o = attempt[a].order
  OBVIOUS
<1>2. PICK c : c = attempt[a].charge
  OBVIOUS
<1>3. /\ attempt[a] # None /\ c # None /\ o \in Orders /\ c \in Charges
      /\ order[o].method = "GETNET_QR"
  BY <1>1, <1>2 DEF QrWebhook, IInv, Typed, RowsTyped, Attempt
<1>4. charge[c] # None /\ charge[c].order = o /\ payment[o] # None
  BY <1>1, <1>2, <1>3 DEF IInv, AttemptsLinked, LinkedRow
<1>5. PICK st \in AttemptStatus : st = charge[c].status
  BY <1>3, <1>4 DEF IInv, Typed, RowsTyped, Charge
<1>6. PICK j : j = [Idle EXCEPT !.phase = "apply", !.attempt = a, !.target = st]
  OBVIOUS
<1>7. PICK w : w = [j EXCEPT !.order = o]
  OBVIOUS
<1>8. /\ w \in Request /\ w.phase = "apply" /\ w.order = o /\ w.attempt = a
      /\ w.target = st /\ w.charge = None /\ w.stale = {} /\ w.copy = NoCopy
      /\ w.row = None /\ w.outcome = "none"
  BY <1>3, <1>5, <1>6, <1>7, IdleFormed DEF Request, Idle, Phases
<1>9. st = "APPROVED" => o \in Approved
  BY <1>3, <1>4, <1>5 DEF Approved
<1>10. Formed(w)
  BY <1>1, <1>3, <1>4, <1>8, <1>9 DEF Formed, Shaped, Linked, Honest, NoCopy
<1>11. Start(r, o, j)
  BY <1>1, <1>2, <1>5, <1>6 DEF QrWebhook
<1>12. /\ offered' \subseteq Orders /\ UNCHANGED <<rows, charge, money>>
       /\ confirmed' = confirmed /\ settled' = settled /\ confirmed \subseteq Orders
  BY DEF QrWebhook, IInv, Typed, RowsTyped, outside
<1> QED
  BY <1>3, <1>7, <1>8, <1>10, <1>11, <1>12, StartStep

LEMMA LockForLinkStep ==
  ASSUME IInv, NEW r \in Requests, NEW o \in Orders, LockForLink(r, o)
  PROVE  IInv'
<1>1. PICK w : w = [[Idle EXCEPT !.phase = "link"] EXCEPT !.order = o]
  OBVIOUS
<1>2. /\ w \in Request /\ Fresh(w) /\ w.phase = "link" /\ w.order = o
      /\ w.row = None /\ w.outcome = "none"
  BY <1>1, IdleFormed DEF Request, Idle, Phases, Fresh
<1>3. Formed(w)
  BY <1>2, FreshLinked DEF LockForLink, Formed, Shaped, Honest
<1>4. /\ offered' \subseteq Orders /\ UNCHANGED <<rows, charge, money>>
      /\ confirmed' = confirmed /\ settled' = settled /\ confirmed \subseteq Orders
  BY DEF LockForLink, IInv, Typed, RowsTyped, outside
<1> QED
  BY <1>1, <1>2, <1>3, <1>4, StartStep DEF LockForLink

(* createPayment, also once it has recorded the payment.                    *)
LEMMA AfterPaymentParts ==
  ASSUME NEW w \in Request, NEW v, v = AfterPayment(w)
  PROVE  /\ v \in Request /\ v.phase \in {"insertAttempt", "expire"}
         /\ v.order = w.order /\ v.status = w.status /\ v.row = None
         /\ v.outcome = w.outcome /\ v.copy = w.copy /\ v.stale = w.stale
         /\ v.attempt = w.attempt /\ v.charge = w.charge
BY DEF AfterPayment, Request, Phases

LEMMA AfterPaymentFormed ==
  ASSUME NEW w \in Request, w.order \in Orders, order[w.order].method = "GETNET_QR",
         payment[w.order] # None, w.status \in OrderStatus, Linked(w),
         w.outcome = "none", w.copy = NoCopy
  PROVE  AfterPayment(w) \in Request /\ Formed(AfterPayment(w))
<1>1. PICK v : v = AfterPayment(w)
  OBVIOUS
<1>2. /\ v \in Request /\ v.phase \in {"insertAttempt", "expire"}
      /\ v.order = w.order /\ v.status = w.status /\ v.row = None
      /\ v.outcome = "none" /\ v.copy = NoCopy /\ v.stale = w.stale
      /\ v.attempt = w.attempt /\ v.charge = w.charge
  BY <1>1, AfterPaymentParts
<1>3. Linked(v)
  BY <1>2 DEF Linked
<1>4. Formed(v)
  BY <1>2, <1>3 DEF Formed, Shaped, Honest, NoCopy
<1> QED
  BY <1>1, <1>2, <1>4

LEMMA CreateQrStep ==
  ASSUME IInv, NEW r \in Requests, NEW o \in Orders, CreateQr(r, o)
  PROVE  IInv'
<1>1. PICK job : job = [Idle EXCEPT !.status = order[o].status, !.stale = ExpiredQr(o)]
  OBVIOUS
<1>2. order[o].status \in OrderStatus /\ order[o].method = "GETNET_QR"
  BY DEF CreateQr, IInv, Typed, RowsTyped, Order
<1>3. /\ ExpiredQr(o) \subseteq Attempts
      /\ \A a \in ExpiredQr(o) : attempt[a] # None /\ attempt[a].order = o
  BY DEF ExpiredQr, AttemptsOf
<1>4. /\ offered' \subseteq Orders /\ UNCHANGED <<rows, charge, money>>
      /\ confirmed' = confirmed /\ settled' = settled /\ confirmed \subseteq Orders
  BY DEF CreateQr, IInv, Typed, RowsTyped, outside
<1>5. CASE payment[o] = None
  <2>1. PICK w : w = [[job EXCEPT !.phase = "insertPayment", !.row = NewPayment]
                        EXCEPT !.order = o]
    OBVIOUS
  <2>2. NewPayment \in Payment /\ NewPayment.status = "PENDING"
    BY DEF NewPayment, Payment, PaymentStatus
  <2>3. /\ w \in Request /\ w.phase = "insertPayment" /\ w.order = o
        /\ w.row = NewPayment /\ w.status = order[o].status /\ w.stale = ExpiredQr(o)
        /\ w.attempt = None /\ w.charge = None /\ w.outcome = "none" /\ w.copy = NoCopy
    BY <1>1, <1>2, <1>3, <2>1, <2>2, IdleFormed DEF Request, Idle, Phases
  <2>4. Formed(w)
    BY <1>2, <1>3, <2>2, <2>3 DEF Formed, Shaped, Linked, Honest, NoCopy
  <2> QED
    BY <1>1, <1>4, <1>5, <2>1, <2>3, <2>4, StartStep DEF CreateQr
<1>6. CASE payment[o] # None
  <2>1. PICK u : u = [job EXCEPT !.order = o]
    OBVIOUS
  <2>2. /\ u \in Request /\ u.order = o /\ u.status = order[o].status
        /\ u.stale = ExpiredQr(o) /\ u.attempt = None /\ u.charge = None
        /\ u.outcome = "none" /\ u.copy = NoCopy
    BY <1>1, <1>2, <1>3, <2>1, IdleFormed DEF Request, Idle
  <2>3. Linked(u)
    BY <1>2, <1>3, <2>2 DEF Linked
  <2>4. AfterPayment(u) \in Request /\ Formed(AfterPayment(u))
    BY <1>2, <1>6, <2>2, <2>3, AfterPaymentFormed
  <2>5. AfterPayment(u) = [AfterPayment(job) EXCEPT !.order = o]
    BY <1>1, <2>1, IdleFormed DEF AfterPayment, Idle
  <2>6. PICK w : w = [AfterPayment(job) EXCEPT !.order = o]
    OBVIOUS
  <2>7. w \in Request /\ Formed(w)
    BY <2>4, <2>5, <2>6
  <2> QED
    BY <1>1, <1>4, <1>6, <2>6, <2>7, StartStep DEF CreateQr
<1> QED
  BY <1>5, <1>6

------------------------------------------------------------------------------
(* Steps that write.                                                        *)
LEMMA StepDone ==
  ASSUME IInv, Grows, NEW r \in Requests, NEW w \in Request,
         req' = [req EXCEPT ![r] = w], Formed(w) \/ Formed(w)',
         RowsTyped', AttemptsLinked', Backed'
  PROVE  IInv'
<1>1. Formed(w)'
  BY FormedStays
<1>2. req' \in [Requests -> Request] /\ RequestsFormed'
  BY <1>1, RequestsMove
<1> QED
  BY <1>2, TypedParts DEF IInv, Typed, RowsTyped

LEMMA LinkedRowStays ==
  ASSUME IInv, Grows, NEW att \in Attempt, LinkedRow(att) PROVE LinkedRow(att)'
<1>1. att.order \in Orders /\ att.charge \in Charges \cup {None}
  BY DEF Attempt
<1> QED
  BY <1>1 DEF LinkedRow, Grows

LEMMA LinkedKept ==
  ASSUME IInv, Grows, attempt' = attempt PROVE AttemptsLinked'
<1> SUFFICES ASSUME NEW a \in Attempts, attempt[a] # None
             PROVE  LinkedRow(attempt[a])'
  BY DEF AttemptsLinked
<1>1. PICK att \in Attempt : att = attempt[a]
  BY DEF IInv, Typed, RowsTyped
<1>2. LinkedRow(att)'
  BY <1>1, LinkedRowStays DEF IInv, AttemptsLinked
<1> QED
  BY <1>1, <1>2 DEF LinkedRow

LEMMA BackedKept ==
  ASSUME IInv, UNCHANGED <<payment, money>>, Approved \subseteq Approved'
  PROVE  Backed'
BY DEF IInv, Backed, BalanceIsBacked, money

LEMMA ApprovedKept ==
  ASSUME confirmed' = confirmed,
         \A c \in Charges : charge[c] # None => charge'[c] = charge[c]
  PROVE  Approved \subseteq Approved'
BY DEF Approved

LEMMA SaveOrderStep ==
  ASSUME IInv, NEW r \in Requests, SaveOrder(r) PROVE IInv'
<1>1. PICK v \in Request : v = req[r]
  BY DEF IInv, Typed, RowsTyped
<1>2. Formed(v) /\ v.phase = "saveOrder"
  BY <1>1 DEF IInv, RequestsFormed, SaveOrder
<1>3. /\ v.order \in Orders /\ v.status \in OrderStatus
      /\ v.outcome = "approved" => v.order \in Approved
  BY <1>2 DEF Formed, Shaped, Honest
<1>4. PICK w : w = Decided(v)
  OBVIOUS
<1>5. w \in Request /\ Formed(w)
  BY <1>3, <1>4, DecidedFormed, PaymentsAssumption
<1>6. req' = [req EXCEPT ![r] = w]
  BY <1>1, <1>4 DEF SaveOrder
<1>7. order' = [order EXCEPT ![v.order].status = v.status]
      /\ UNCHANGED <<payment, attempt, charge, offered, money, started, faults,
                     confirmed, disturbed>>
      /\ settled' \in {settled, settled \cup {v.order}}
  BY <1>1 DEF SaveOrder, outside, bounds
<1>8. order' \in [Orders -> Order]
      /\ \A o \in Orders : order'[o].method = order[o].method
  BY <1>3, <1>7 DEF IInv, Typed, RowsTyped, Order
<1>9. RowsTyped'
  BY <1>3, <1>7, <1>8 DEF IInv, Typed, RowsTyped, money
<1>10. Approved \subseteq Approved'
  BY <1>7, ApprovedKept
<1>11. Grows
  BY <1>7, <1>8, <1>10 DEF Grows
<1>12. AttemptsLinked' /\ Backed'
  BY <1>7, <1>10, <1>11, LinkedKept, BackedKept
<1> QED
  BY <1>5, <1>6, <1>9, <1>11, <1>12, StepDone

LEMMA PaymentWritten ==
  ASSUME IInv, NEW r \in Requests, NEW w \in Request,
         req' = [req EXCEPT ![r] = w], Formed(w) \/ Formed(w)',
         NEW o \in Orders, NEW row \in Payment,
         payment' = payment \/ payment' = [payment EXCEPT ![o] = row],
         row.status = "COMPLETED" => o \in Approved,
         UNCHANGED <<order, attempt, charge, offered, money, started, faults,
                     confirmed, settled, disturbed>>
  PROVE  IInv'
<1>1. RowsTyped'
  BY DEF IInv, Typed, RowsTyped, money
<1>2. Approved \subseteq Approved'
  BY ApprovedKept
<1>3. \A p \in Orders : payment[p] # None => payment'[p] # None
  BY NoRowAssumption DEF IInv, Typed, RowsTyped
<1>4. Grows
  BY <1>2, <1>3 DEF Grows
<1>5. AttemptsLinked'
  BY <1>4, LinkedKept
<1>6. Backed'
  BY <1>2 DEF IInv, Backed, BalanceIsBacked, money, Typed, RowsTyped
<1> QED
  BY <1>1, <1>4, <1>5, <1>6, StepDone

LEMMA SavePaymentStep ==
  ASSUME IInv, NEW r \in Requests, SavePayment(r) PROVE IInv'
<1>1. PICK v \in Request : v = req[r]
  BY DEF IInv, Typed, RowsTyped
<1>2. Formed(v) /\ v.phase = "savePayment"
  BY <1>1 DEF IInv, RequestsFormed, SavePayment
<1>3. PICK o \in Orders : o = v.order
  BY <1>2 DEF Formed, Shaped
<1>4. PICK row \in Payment : row = v.row
  BY <1>2 DEF Formed, Shaped
<1>5. PICK w : w = IF v.status = None THEN Idle ELSE [v EXCEPT !.phase = "saveOrder"]
  OBVIOUS
<1>6. w \in Request /\ Formed(w)
  <2>1. CASE v.status = None
    BY <1>5, <2>1, IdleFormed
  <2>2. CASE v.status # None
    <3>1. PICK u : u = [v EXCEPT !.phase = "saveOrder"]
      OBVIOUS
    <3>2. u \in Request /\ u.phase = "saveOrder" /\ u.order = v.order
          /\ u.status = v.status /\ u.row = v.row /\ u.outcome = v.outcome
          /\ u.todo = v.todo /\ u.seller = v.seller /\ u.copy = v.copy
          /\ u.attempt = v.attempt /\ u.charge = v.charge /\ u.stale = v.stale
      BY <3>1 DEF Request, Phases
    <3>3. u.status \in OrderStatus
      BY <2>2, <3>2 DEF Request
    <3>4. Formed(u)
      BY <1>2, <3>2, <3>3 DEF Formed, Shaped, Linked, Honest
    <3> QED
      BY <1>5, <2>2, <3>1, <3>2, <3>4
  <2> QED
    BY <2>1, <2>2
<1>7. req' = [req EXCEPT ![r] = w]
  BY <1>1, <1>5 DEF SavePayment, Finish, IInv, Typed, RowsTyped
<1>8. payment' = [payment EXCEPT ![o] = row]
      /\ UNCHANGED <<order, attempt, charge, offered, money, started, faults,
                     confirmed, settled, disturbed>>
  BY <1>1, <1>3, <1>4 DEF SavePayment, outside, bounds, history
<1>9. row.status = "COMPLETED" => o \in Approved
  BY <1>2, <1>3, <1>4, NoRowAssumption DEF Formed, Honest
<1> QED
  BY <1>6, <1>7, <1>8, <1>9, PaymentWritten

LEMMA BreakOffStep ==
  ASSUME IInv, NEW r \in Requests, BreakOff(r) PROVE IInv'
<1>1. PICK w : w = Idle
  OBVIOUS
<1>2. w \in Request /\ Formed(w) /\ req' = [req EXCEPT ![r] = w]
  BY <1>1, IdleFormed DEF BreakOff, Finish
<1>3. req[r].phase # "idle" /\ Formed(req[r])
  BY DEF BreakOff, IInv, RequestsFormed
<1>4. disturbed' \subseteq Orders
  BY <1>3 DEF BreakOff, IInv, Typed, RowsTyped, Formed, Shaped
<1>5. faults' \in 0..MaxFaults /\ started' \in 0..MaxRequests
  BY PaymentsAssumption DEF BreakOff, IInv, Typed, RowsTyped
<1>6. /\ offered' \subseteq Orders /\ UNCHANGED <<rows, charge, money>>
      /\ confirmed' = confirmed /\ settled' \subseteq Orders /\ confirmed \subseteq Orders
  BY DEF BreakOff, IInv, Typed, RowsTyped, outside
<1> QED
  BY <1>2, <1>4, <1>5, <1>6, StillStep

LEMMA CreditReadStep ==
  ASSUME IInv, NEW r \in Requests, CreditRead(r) PROVE IInv'
<1>1. PICK v \in Request : v = req[r]
  BY DEF IInv, Typed, RowsTyped
<1>2. /\ Formed(v) /\ v.phase = "credit" /\ v.order \in Orders
      /\ v.outcome = "approved" /\ v.todo \subseteq PayeesOf[v.order]
      /\ v.order \in Approved
  BY <1>1 DEF IInv, RequestsFormed, CreditRead, Formed, Shaped, Honest
<1>3. PICK w : /\ req' = [req EXCEPT ![r] = w]
               /\ \/ w = [v EXCEPT !.phase = "notify"]
                  \/ \E s \in v.todo : w = Reading(v, s)
  <2>1. CASE req' = [req EXCEPT ![r].phase = "notify"]
    BY <1>1, <2>1 DEF IInv, Typed, RowsTyped
  <2>2. CASE \E s \in v.todo : req' = [req EXCEPT ![r] = Reading(v, s)]
    BY <2>2
  <2> QED
    BY <1>1, <2>1, <2>2 DEF CreditRead
<1>4. w \in Request /\ Formed(w)
  <2>1. CASE w = [v EXCEPT !.phase = "notify"]
    <3>1. /\ w \in Request /\ w.phase = "notify" /\ w.order = v.order
          /\ w.outcome = v.outcome /\ w.row = v.row /\ w.copy = v.copy
          /\ w.seller = v.seller /\ w.attempt = v.attempt /\ w.charge = v.charge
          /\ w.stale = v.stale
      BY <2>1 DEF Request, Phases
    <3> QED
      BY <1>2, <3>1 DEF Formed, Shaped, Linked, Honest
  <2>2. ASSUME NEW s \in v.todo, w = Reading(v, s)
        PROVE  w \in Request /\ Formed(w)
    <3>1. PICK todo, owns : todo = v.todo \ {s} /\ owns = AttachedTo(s)
      OBVIOUS
    <3>2. s \in Sellers /\ s \in PayeesOf[v.order] /\ wallet[s] \in [Orders -> Nat]
      BY <1>2 DEF Request, IInv, Typed, RowsTyped
    <3>3. todo \subseteq v.todo /\ todo \subseteq Sellers /\ owns \subseteq Orders
      BY <3>1 DEF Request, AttachedTo
    <3>4. w = [v EXCEPT !.phase = "check", !.seller = s, !.todo = todo,
                        !.copy = wallet[s], !.attached = owns]
      BY <2>2, <3>1 DEF Reading
    <3>5. /\ w \in Request /\ w.phase = "check" /\ w.order = v.order
          /\ w.outcome = v.outcome /\ w.row = v.row /\ w.copy = wallet[s]
          /\ w.seller = s /\ w.attempt = v.attempt /\ w.charge = v.charge
          /\ w.stale = v.stale /\ w.todo = todo
      BY <3>2, <3>3, <3>4 DEF Request, Phases
    <3>6. \A o \in Orders : w.copy[o] > 0 => o \in Approved /\ s \in PayeesOf[o]
      BY <3>2, <3>5 DEF IInv, Backed, BalanceIsBacked
    <3> QED
      BY <1>2, <3>2, <3>3, <3>5, <3>6 DEF Formed, Shaped, Linked, Honest
  <2> QED
    BY <1>3, <2>1, <2>2
<1>5. /\ UNCHANGED <<rows, charge, money, offered, confirmed, settled, disturbed,
                    started, faults>>
      /\ offered \subseteq Orders /\ confirmed \subseteq Orders /\ settled \subseteq Orders
      /\ disturbed \subseteq Orders /\ started \in 0..MaxRequests /\ faults \in 0..MaxFaults
  BY DEF CreditRead, IInv, Typed, RowsTyped, outside, bounds, history
<1> QED
  BY <1>3, <1>4, <1>5, StillStep

(* What becomes of a request that goes on to its next seller.               *)
LEMMA NextSellerFormed ==
  ASSUME NEW v \in Request, Formed(v), v.phase \in {"check", "record"}
  PROVE  /\ NextSeller(v) \in Request /\ NextSeller(v).phase = "credit"
         /\ NextSeller(v).order = v.order /\ NextSeller(v).todo = v.todo
         /\ Formed(NextSeller(v))
<1>1. PICK w : w = [v EXCEPT !.phase = "credit", !.seller = None, !.copy = NoCopy,
                             !.attached = {}]
  OBVIOUS
<1>2. /\ w \in Request /\ w.phase = "credit" /\ w.order = v.order
      /\ w.outcome = v.outcome /\ w.row = v.row /\ w.todo = v.todo
      /\ w.attempt = v.attempt /\ w.charge = v.charge /\ w.stale = v.stale
  BY <1>1 DEF Request, Phases, NoCopy
<1>3. Formed(w)
  BY <1>2 DEF Formed, Shaped, Linked, Honest
<1>4. NextSeller(v) = w
  BY <1>1 DEF NextSeller
<1> QED
  BY <1>2, <1>3, <1>4

LEMMA CreditCheckStep ==
  ASSUME IInv, NEW r \in Requests, CreditCheck(r) PROVE IInv'
<1>1. PICK v \in Request : v = req[r] /\ v.phase = "check" /\ Formed(v)
  BY DEF IInv, Typed, RowsTyped, CreditCheck, RequestsFormed
<1>2. PICK w : /\ req' = [req EXCEPT ![r] = w]
               /\ w = NextSeller(v) \/ w = [v EXCEPT !.phase = "saveWallet"]
  BY <1>1 DEF CreditCheck
<1>3. w \in Request /\ Formed(w)
  <2>1. CASE w = NextSeller(v)
    BY <1>1, <2>1, NextSellerFormed
  <2>2. CASE w = [v EXCEPT !.phase = "saveWallet"]
    <3>1. /\ w \in Request /\ w.phase = "saveWallet" /\ w.order = v.order
          /\ w.outcome = v.outcome /\ w.row = v.row /\ w.copy = v.copy
          /\ w.seller = v.seller /\ w.attempt = v.attempt /\ w.charge = v.charge
          /\ w.stale = v.stale /\ w.todo = v.todo
      BY <2>2 DEF Request, Phases
    <3> QED
      BY <1>1, <3>1 DEF Formed, Shaped, Linked, Honest
  <2> QED
    BY <1>2, <2>1, <2>2
<1>4. /\ UNCHANGED <<rows, charge, money, offered, confirmed, settled, disturbed,
                    started, faults>>
      /\ offered \subseteq Orders /\ confirmed \subseteq Orders /\ settled \subseteq Orders
      /\ disturbed \subseteq Orders /\ started \in 0..MaxRequests /\ faults \in 0..MaxFaults
  BY DEF CreditCheck, IInv, Typed, RowsTyped, outside, bounds, history
<1> QED
  BY <1>2, <1>3, <1>4, StillStep

LEMMA CreditSaveStep ==
  ASSUME IInv, NEW r \in Requests, CreditSave(r) PROVE IInv'
<1>1. PICK v \in Request : v = req[r]
  BY DEF IInv, Typed, RowsTyped
<1>2. /\ Formed(v) /\ v.phase = "saveWallet" /\ v.order \in Orders
      /\ v.outcome = "approved" /\ v.todo \subseteq PayeesOf[v.order]
      /\ v.order \in Approved /\ v.seller \in PayeesOf[v.order]
      /\ \A o \in Orders : v.copy[o] > 0 => o \in Approved /\ v.seller \in PayeesOf[o]
  BY <1>1 DEF IInv, RequestsFormed, CreditSave, Formed, Shaped, Honest
<1>3. v.seller \in Sellers /\ v.copy \in [Orders -> Nat]
  BY <1>2, PaymentsAssumption DEF Request
<1>4. PICK w : w = [v EXCEPT !.phase = "record", !.copy = NoCopy, !.attached = {}]
  OBVIOUS
<1>5. /\ w \in Request /\ w.phase = "record" /\ w.order = v.order
      /\ w.outcome = v.outcome /\ w.row = v.row /\ w.copy = NoCopy /\ w.todo = v.todo
      /\ w.seller = v.seller /\ w.attempt = v.attempt /\ w.charge = v.charge
      /\ w.stale = v.stale
  BY <1>4 DEF Request, Phases, NoCopy
<1>6. Formed(w)
  BY <1>2, <1>5 DEF Formed, Shaped, Linked, Honest, NoCopy
<1>7. req' = [req EXCEPT ![r] = w]
  BY <1>1, <1>4 DEF CreditSave, IInv, Typed, RowsTyped
<1>8. PICK copy : copy = [v.copy EXCEPT ![v.order] = @ + 1]
  OBVIOUS
<1>9. /\ copy \in [Orders -> Nat]
      /\ \A o \in Orders : copy[o] > 0 => o \in Approved /\ v.seller \in PayeesOf[o]
  BY <1>2, <1>3, <1>8
<1>10. /\ wallet' = [wallet EXCEPT ![v.seller] = copy]
       /\ UNCHANGED <<order, payment, attempt, charge, offered, credits, notices,
                      started, faults, confirmed, settled, disturbed>>
  BY <1>1, <1>8 DEF CreditSave, Raised, rows, outside, bounds, history
<1>18. attached' \subseteq Orders \X Sellers
  <2>1. v.attached \subseteq Orders
    BY DEF Request
  <2>2. attached' = {os \in attached : os[2] # v.seller} \cup (v.attached \X {v.seller})
    BY <1>1 DEF CreditSave
  <2> QED
    BY <1>3, <2>1, <2>2 DEF IInv, Typed, RowsTyped
<1>11. RowsTyped'
  BY <1>3, <1>9, <1>10, <1>18 DEF IInv, Typed, RowsTyped
<1>12. Approved \subseteq Approved'
  BY <1>10, ApprovedKept
<1>13. Grows
  BY <1>10, <1>12 DEF Grows
<1>14. AttemptsLinked'
  BY <1>10, <1>13, LinkedKept
<1>15. \A s \in Sellers : wallet'[s] = IF s = v.seller THEN copy ELSE wallet[s]
  BY <1>10 DEF IInv, Typed, RowsTyped
<1>16. BalanceIsBacked'
  BY <1>9, <1>12, <1>15 DEF IInv, Backed, BalanceIsBacked
<1>17. Backed'
  BY <1>10, <1>12, <1>16 DEF IInv, Backed
<1> QED
  BY <1>6, <1>5, <1>7, <1>11, <1>13, <1>14, <1>17, StepDone

LEMMA CreditRecordStep ==
  ASSUME IInv, NEW r \in Requests, CreditRecord(r) PROVE IInv'
<1>1. PICK v \in Request : v = req[r]
  BY DEF IInv, Typed, RowsTyped
<1>2. /\ Formed(v) /\ v.phase = "record" /\ v.order \in Orders
      /\ v.outcome = "approved" /\ v.todo \subseteq PayeesOf[v.order]
      /\ v.order \in Approved /\ v.seller \in PayeesOf[v.order]
      /\ v.seller \in Sellers
  BY <1>1, PaymentsAssumption
  DEF IInv, RequestsFormed, CreditRecord, Formed, Shaped, Honest
<1>3. CASE HasCredit(v.order, v.seller)
  <2>1. PICK w : w = Idle
    OBVIOUS
  <2>2. w \in Request /\ Formed(w) /\ req' = [req EXCEPT ![r] = w]
    BY <1>1, <1>3, <2>1, IdleFormed DEF CreditRecord, Finish
  <2>3. /\ UNCHANGED <<rows, charge, money, offered, confirmed, settled, started, faults>>
        /\ disturbed' = disturbed \cup {v.order}
    BY <1>1, <1>3 DEF CreditRecord, money, outside, bounds
  <2> QED
    BY <1>2, <2>2, <2>3, StillStep DEF IInv, Typed, RowsTyped
<1>4. CASE ~HasCredit(v.order, v.seller)
  <2>1. PICK w : w = NextSeller(v)
    OBVIOUS
  <2>2. w \in Request /\ Formed(w)
    BY <1>2, <2>1, NextSellerFormed
  <2>3. req' = [req EXCEPT ![r] = w]
    BY <1>1, <1>4, <2>1 DEF CreditRecord, IInv, Typed, RowsTyped
  <2>4. /\ credits' = [credits EXCEPT ![v.order][v.seller] = @ + 1]
        /\ attached' = attached \cup {<<v.order, v.seller>>}
        /\ UNCHANGED <<order, payment, attempt, charge, offered, wallet, notices,
                       started, faults, confirmed, settled, disturbed>>
    BY <1>1, <1>4 DEF CreditRecord, rows, outside, bounds
  <2>5. /\ credits' \in [Orders -> [Sellers -> Nat]]
        /\ \A o \in Orders, s \in Sellers : credits'[o][s] =
             IF o = v.order /\ s = v.seller THEN credits[o][s] + 1 ELSE credits[o][s]
    BY <1>2, <2>4 DEF IInv, Typed, RowsTyped
  <2>6. RowsTyped'
    BY <1>2, <2>4, <2>5 DEF IInv, Typed, RowsTyped
  <2>7. Approved \subseteq Approved'
    BY <2>4, ApprovedKept
  <2>8. Grows
    BY <2>4, <2>7 DEF Grows
  <2>9. AttemptsLinked'
    BY <2>4, <2>8, LinkedKept
  <2>10. Backed'
    BY <1>2, <2>4, <2>5, <2>7 DEF IInv, Backed, BalanceIsBacked
  <2> QED
    BY <2>2, <2>3, <2>6, <2>8, <2>9, <2>10, StepDone
<1> QED
  BY <1>3, <1>4

LEMMA NotifyStep ==
  ASSUME IInv, NEW r \in Requests, Notify(r) PROVE IInv'
<1>1. PICK v \in Request : v = req[r]
  BY DEF IInv, Typed, RowsTyped
<1>2. /\ Formed(v) /\ v.phase = "notify" /\ v.order \in Orders
      /\ v.outcome \in {"approved", "rejected"}
      /\ v.outcome = "approved" => v.order \in Approved
  BY <1>1 DEF IInv, RequestsFormed, Notify, Formed, Shaped, Honest, Request
<1>3. PICK w : w = Idle
  OBVIOUS
<1>4. w \in Request /\ Formed(w) /\ req' = [req EXCEPT ![r] = w]
  BY <1>3, IdleFormed DEF Notify, Finish
<1>5. /\ notices' = [notices EXCEPT ![v.order] = @ \cup {v.outcome}]
      /\ UNCHANGED <<order, payment, attempt, charge, offered, wallet, credits, attached,
                     started, faults, confirmed, settled, disturbed>>
  BY <1>1 DEF Notify, rows, outside, bounds, history
<1>6. RowsTyped'
  BY <1>2, <1>5 DEF IInv, Typed, RowsTyped
<1>7. Approved \subseteq Approved'
  BY <1>5, ApprovedKept
<1>8. Grows
  BY <1>5, <1>7 DEF Grows
<1>9. AttemptsLinked'
  BY <1>5, <1>8, LinkedKept
<1>10. Backed'
  BY <1>2, <1>5, <1>7 DEF IInv, Backed, BalanceIsBacked, Typed, RowsTyped
<1> QED
  BY <1>4, <1>6, <1>8, <1>9, <1>10, StepDone

LEMMA InsertTransferPaymentStep ==
  ASSUME IInv, NEW r \in Requests, InsertTransferPayment(r) PROVE IInv'
<1>1. PICK v \in Request : v = req[r]
  BY DEF IInv, Typed, RowsTyped
<1>2. Formed(v) /\ v.phase = "insertPayment"
  BY <1>1 DEF IInv, RequestsFormed, InsertTransferPayment
<1>3. PICK o \in Orders : o = v.order
  BY <1>2 DEF Formed, Shaped
<1>4. PICK row \in Payment : row = v.row
  BY <1>2 DEF Formed, Shaped
<1>5. PICK w : w = Idle
  OBVIOUS
<1>6. w \in Request /\ Formed(w) /\ req' = [req EXCEPT ![r] = w]
  BY <1>5, IdleFormed DEF InsertTransferPayment, Finish
<1>7. /\ payment' = [payment EXCEPT ![o] = row] \/ payment' = payment
      /\ UNCHANGED <<order, attempt, charge, offered, money, started, faults,
                     confirmed, settled, disturbed>>
  BY <1>1, <1>3, <1>4 DEF InsertTransferPayment, outside, bounds, history
<1>8. row.status = "COMPLETED" => o \in Approved
  BY <1>2, <1>3, <1>4, NoRowAssumption DEF Formed, Honest
<1> QED
  BY <1>3, <1>4, <1>6, <1>7, <1>8, PaymentWritten

LEMMA InsertQrPaymentStep ==
  ASSUME IInv, NEW r \in Requests, InsertQrPayment(r) PROVE IInv'
<1>1. PICK v \in Request : v = req[r]
  BY DEF IInv, Typed, RowsTyped
<1>2. Formed(v) /\ v.phase = "insertPayment" /\ order[v.order].method = "GETNET_QR"
  BY <1>1 DEF IInv, RequestsFormed, InsertQrPayment
<1>3. PICK o \in Orders : o = v.order
  BY <1>2 DEF Formed, Shaped
<1>4. PICK row \in Payment : row = v.row
  BY <1>2 DEF Formed, Shaped
<1>5. row.status = "COMPLETED" => o \in Approved
  BY <1>2, <1>3, <1>4, NoRowAssumption DEF Formed, Honest
<1>6. UNCHANGED <<order, attempt, charge, offered, money, started, faults,
                  confirmed, settled, disturbed>>
  BY DEF InsertQrPayment, outside, bounds, history
<1>7. CASE payment[o] # None
  <2>1. PICK w : w = Idle
    OBVIOUS
  <2>2. w \in Request /\ Formed(w) /\ req' = [req EXCEPT ![r] = w] /\ payment' = payment
    BY <1>1, <1>3, <1>7, <2>1, IdleFormed DEF InsertQrPayment, Finish
  <2> QED
    BY <1>4, <1>5, <1>6, <2>2, PaymentWritten
<1>8. CASE payment[o] = None
  <2>1. PICK w : w = AfterPayment(v)
    OBVIOUS
  <2>2. req' = [req EXCEPT ![r] = w] /\ payment' = [payment EXCEPT ![o] = row]
    BY <1>1, <1>3, <1>4, <1>8, <2>1 DEF InsertQrPayment
  <2>3. /\ w \in Request /\ w.phase \in {"insertAttempt", "expire"}
        /\ w.order = o /\ w.status = v.status /\ w.row = None
        /\ w.outcome = v.outcome /\ w.copy = v.copy /\ w.stale = v.stale
        /\ w.attempt = v.attempt /\ w.charge = v.charge
    BY <1>3, <2>1, AfterPaymentParts
  <2>4. Shaped(w)'
    BY <1>2, <1>3, <1>6, <2>2, <2>3, NoRowAssumption DEF Formed, Shaped, IInv, Typed, RowsTyped
  <2>5. Linked(w)'
    BY <1>2, <1>3, <1>6, <2>3 DEF Formed, Linked
  <2>6. Honest(w)'
    BY <1>2, <1>3, <1>6, <2>3 DEF Formed, Honest, Approved
  <2> QED
    BY <1>4, <1>5, <1>6, <2>2, <2>3, <2>4, <2>5, <2>6, PaymentWritten DEF Formed
<1> QED
  BY <1>7, <1>8

(* Steps that write attempts and nothing else.                              *)
LEMMA AttemptsWritten ==
  ASSUME IInv, NEW r \in Requests, NEW w \in Request,
         req' = [req EXCEPT ![r] = w], Formed(w) \/ Formed(w)',
         NEW f \in [Attempts -> Attempt \cup {None}], attempt' = f,
         \A a \in Attempts : attempt[a] # None =>
           f[a] # None /\ f[a].order = attempt[a].order,
         \A a \in Attempts : f[a] # None => LinkedRow(f[a]),
         UNCHANGED <<order, payment, charge, offered, money, started,
                     confirmed, settled, disturbed>>,
         faults' \in 0..MaxFaults
  PROVE  IInv'
<1>1. RowsTyped'
  BY DEF IInv, Typed, RowsTyped, money
<1>2. Approved \subseteq Approved'
  BY ApprovedKept
<1>3. Grows
  BY <1>2 DEF Grows
<1>4. AttemptsLinked'
  BY DEF AttemptsLinked, LinkedRow
<1>5. Backed'
  BY <1>2, BackedKept
<1> QED
  BY <1>1, <1>3, <1>4, <1>5, StepDone

LEMMA ExpireQrsStep ==
  ASSUME IInv, NEW r \in Requests, ExpireQrs(r) PROVE IInv'
<1>1. PICK v \in Request : v = req[r]
  BY DEF IInv, Typed, RowsTyped
<1>2. Formed(v) /\ v.phase = "expire"
  BY <1>1 DEF IInv, RequestsFormed, ExpireQrs
<1>3. \A a \in v.stale : a \in Attempts /\ attempt[a] # None
  BY <1>2 DEF Formed, Linked, Request
<1>4. PICK w : w = [v EXCEPT !.phase = "insertAttempt", !.stale = {}]
  OBVIOUS
<1>5. /\ w \in Request /\ w.phase = "insertAttempt" /\ w.order = v.order
      /\ w.status = v.status /\ w.outcome = v.outcome /\ w.row = v.row
      /\ w.stale = {} /\ w.attempt = v.attempt /\ w.charge = v.charge
  BY <1>4 DEF Request, Phases
<1>6. Formed(w)
  BY <1>2, <1>5 DEF Formed, Shaped, Linked, Honest
<1>7. req' = [req EXCEPT ![r] = w]
  BY <1>1, <1>4 DEF ExpireQrs, IInv, Typed, RowsTyped
<1>8. PICK f : f = [a \in Attempts |-> IF a \in v.stale
                      THEN [attempt[a] EXCEPT !.status = "EXPIRED"] ELSE attempt[a]]
  OBVIOUS
<1>9. attempt' = f
  BY <1>1, <1>8 DEF ExpireQrs
<1>10. ASSUME NEW a \in Attempts
       PROVE  /\ f[a] \in Attempt \cup {None}
              /\ f[a] # None => attempt[a] # None
              /\ attempt[a] # None => /\ f[a] # None /\ f[a].order = attempt[a].order
                                      /\ f[a].charge = attempt[a].charge
  <2>1. CASE a \notin v.stale
    BY <1>8, <2>1 DEF IInv, Typed, RowsTyped
  <2>2. CASE a \in v.stale
    <3>1. PICK att \in Attempt : att = attempt[a]
      BY <1>3, <2>2 DEF IInv, Typed, RowsTyped
    <3>2. f[a] = [att EXCEPT !.status = "EXPIRED"]
      BY <1>8, <2>2, <3>1
    <3>3. f[a] \in Attempt /\ f[a].order = att.order /\ f[a].charge = att.charge
      BY <3>2 DEF Attempt, AttemptStatus
    <3> QED
      BY <1>3, <2>2, <3>1, <3>3, NoRowAssumption
  <2> QED
    BY <2>1, <2>2
<1>11. f \in [Attempts -> Attempt \cup {None}]
  BY <1>8, <1>10
<1>12. \A a \in Attempts : f[a] # None => LinkedRow(f[a])
  BY <1>10 DEF IInv, AttemptsLinked, LinkedRow
<1>13. /\ UNCHANGED <<order, payment, charge, offered, money, started,
                      confirmed, settled, disturbed>>
       /\ faults' \in 0..MaxFaults
  BY DEF ExpireQrs, outside, bounds, history, IInv, Typed, RowsTyped
<1> QED
  BY <1>5, <1>6, <1>7, <1>9, <1>10, <1>11, <1>12, <1>13, AttemptsWritten

LEMMA InsertQrAttemptStep ==
  ASSUME IInv, NEW r \in Requests, NEW a \in Attempts, InsertQrAttempt(r, a)
  PROVE  IInv'
<1>1. PICK v \in Request : v = req[r]
  BY DEF IInv, Typed, RowsTyped
<1>2. /\ Formed(v) /\ v.phase = "insertAttempt" /\ v.order \in Orders
      /\ order[v.order].method = "GETNET_QR" /\ payment[v.order] # None
      /\ v.status \in OrderStatus
  BY <1>1 DEF IInv, RequestsFormed, InsertQrAttempt, Formed, Shaped
<1>3. PICK att : att = [order |-> v.order, status |-> "PENDING", charge |-> None,
                        due |-> FALSE]
  OBVIOUS
<1>4. att \in Attempt /\ LinkedRow(att) /\ att # None /\ att.order = v.order
  <2>1. att \in Attempt /\ att.order = v.order /\ att.charge = None
    BY <1>2, <1>3 DEF Attempt, AttemptStatus
  <2>2. LinkedRow(att)
    BY <1>2, <2>1 DEF LinkedRow
  <2> QED
    BY <2>1, <2>2, NoRowAssumption
<1>5. PICK f : f = [attempt EXCEPT ![a] = att]
  OBVIOUS
<1>6. /\ f \in [Attempts -> Attempt \cup {None}]
      /\ \A b \in Attempts : f[b] = IF b = a THEN att ELSE attempt[b]
  BY <1>4, <1>5 DEF IInv, Typed, RowsTyped
<1>7. attempt' = f /\ attempt[a] = None
  BY <1>1, <1>3, <1>5 DEF InsertQrAttempt
<1>8. PICK w : w = [v EXCEPT !.phase = "mint", !.attempt = a]
  OBVIOUS
<1>9. /\ w \in Request /\ w.phase = "mint" /\ w.order = v.order /\ w.attempt = a
      /\ w.status = v.status /\ w.outcome = v.outcome /\ w.row = v.row
      /\ w.stale = v.stale /\ w.charge = v.charge
  BY <1>8 DEF Request, Phases
<1>10. req' = [req EXCEPT ![r] = w]
  BY <1>1, <1>8 DEF InsertQrAttempt, IInv, Typed, RowsTyped
<1>11. /\ UNCHANGED <<order, payment, charge, offered, money, started,
                      confirmed, settled, disturbed>>
       /\ faults' \in 0..MaxFaults
  BY DEF InsertQrAttempt, outside, bounds, history, IInv, Typed, RowsTyped
<1>12. Shaped(w)'
  BY <1>2, <1>9, <1>11 DEF Formed, Shaped
<1>13. Linked(w)'
  BY <1>2, <1>4, <1>6, <1>7, <1>9, <1>11 DEF Formed, Linked, Request
<1>14. Honest(w)'
  BY <1>2, <1>9, <1>11 DEF Formed, Honest, Approved
<1>15. \A b \in Attempts : f[b] # None => LinkedRow(f[b])
  BY <1>4, <1>6 DEF IInv, AttemptsLinked
<1>16. \A b \in Attempts : attempt[b] # None =>
         f[b] # None /\ f[b].order = attempt[b].order
  BY <1>6, <1>7
<1> QED
  BY <1>6, <1>7, <1>9, <1>10, <1>11, <1>12, <1>13, <1>14, <1>15, <1>16,
     AttemptsWritten DEF Formed

(* A new payment or link at a provider.                                     *)
LEMMA ChargeAdded ==
  ASSUME IInv, NEW c \in Charges, charge[c] = None, NEW o \in Orders,
         charge' = [charge EXCEPT ![c] = [order |-> o, status |-> "PENDING"]],
         UNCHANGED <<order, payment, attempt, offered, money, started,
                     confirmed, settled, disturbed>>,
         faults' \in 0..MaxFaults
  PROVE  /\ RowsTyped' /\ Grows /\ AttemptsLinked' /\ Backed'
         /\ charge'[c] # None /\ charge'[c].order = o
<1>1. PICK ch : ch = [order |-> o, status |-> "PENDING"]
  OBVIOUS
<1>2. ch \in Charge /\ ch.order = o
  BY <1>1 DEF Charge, AttemptStatus
<1>3. ch # None
  BY <1>2, NoRowAssumption
<1>4. \A d \in Charges : charge'[d] = IF d = c THEN ch ELSE charge[d]
  BY <1>1 DEF IInv, Typed, RowsTyped
<1>5. charge' \in [Charges -> Charge \cup {None}]
  BY <1>1, <1>2 DEF IInv, Typed, RowsTyped
<1>6. RowsTyped'
  BY <1>5 DEF IInv, Typed, RowsTyped, money
<1>7. Approved \subseteq Approved'
  BY <1>4, ApprovedKept
<1>8. Grows
  BY <1>4, <1>7 DEF Grows
<1>9. AttemptsLinked' /\ Backed'
  BY <1>7, <1>8, LinkedKept, BackedKept
<1> QED
  BY <1>2, <1>3, <1>4, <1>6, <1>8, <1>9

LEMMA MintQrStep ==
  ASSUME IInv, NEW r \in Requests, NEW c \in Charges, MintQr(r, c) PROVE IInv'
<1>1. PICK v \in Request : v = req[r]
  BY DEF IInv, Typed, RowsTyped
<1>2. Formed(v) /\ v.phase = "mint" /\ v.order \in Orders
  BY <1>1 DEF IInv, RequestsFormed, MintQr, Formed, Shaped
<1>3. /\ charge[c] = None
      /\ charge' = [charge EXCEPT ![c] = [order |-> v.order, status |-> "PENDING"]]
      /\ UNCHANGED <<order, payment, attempt, offered, money, started,
                     confirmed, settled, disturbed>>
      /\ faults' \in 0..MaxFaults
  BY <1>1 DEF MintQr, rows, bounds, history, IInv, Typed, RowsTyped
<1>4. /\ RowsTyped' /\ Grows /\ AttemptsLinked' /\ Backed'
      /\ charge'[c] # None /\ charge'[c].order = v.order
  BY <1>2, <1>3, ChargeAdded
<1>5. PICK w : w = [v EXCEPT !.phase = "saveAttempt", !.charge = c]
  OBVIOUS
<1>6. /\ w \in Request /\ w.phase = "saveAttempt" /\ w.order = v.order
      /\ w.attempt = v.attempt /\ w.status = v.status /\ w.outcome = v.outcome
      /\ w.row = v.row /\ w.stale = v.stale /\ w.charge = c
  BY <1>5 DEF Request, Phases
<1>7. req' = [req EXCEPT ![r] = w]
  BY <1>1, <1>5 DEF MintQr, IInv, Typed, RowsTyped
<1>8. Formed(v)'
  BY <1>2, <1>4, FormedStays
<1>9. Formed(w)'
  BY <1>2, <1>4, <1>6, <1>8 DEF Formed, Shaped, Linked, Honest
<1> QED
  BY <1>4, <1>6, <1>7, <1>9, StepDone

LEMMA LoseLinkStep ==
  ASSUME IInv, NEW r \in Requests, NEW c \in Charges, LoseLink(r, c) PROVE IInv'
<1>1. PICK v \in Request : v = req[r]
  BY DEF IInv, Typed, RowsTyped
<1>2. Formed(v) /\ v.order \in Orders
  BY <1>1 DEF IInv, RequestsFormed, LoseLink, Formed, Shaped
<1>3. /\ charge[c] = None
      /\ charge' = [charge EXCEPT ![c] = [order |-> v.order, status |-> "PENDING"]]
      /\ UNCHANGED <<order, payment, attempt, offered, money, started,
                     confirmed, settled, disturbed>>
      /\ faults' \in 0..MaxFaults
  BY <1>1, PaymentsAssumption DEF LoseLink, rows, history, IInv, Typed, RowsTyped
<1>4. RowsTyped' /\ Grows /\ AttemptsLinked' /\ Backed'
  BY <1>2, <1>3, ChargeAdded
<1>5. PICK w : w = Idle
  OBVIOUS
<1>6. w \in Request /\ Formed(w) /\ req' = [req EXCEPT ![r] = w]
  BY <1>5, IdleFormed DEF LoseLink, Finish
<1> QED
  BY <1>4, <1>6, StepDone

LEMMA MintQrFailsStep ==
  ASSUME IInv, NEW r \in Requests, MintQrFails(r) PROVE IInv'
<1>1. PICK v \in Request : v = req[r]
  BY DEF IInv, Typed, RowsTyped
<1>2. /\ Formed(v)
      /\ \/ v.phase \in {"mint", "saveAttempt"}
         \/ v.phase = "saveOrder" /\ v.attempt # None
  BY <1>1 DEF IInv, RequestsFormed, MintQrFails
<1>3. PICK a \in Attempts : a = v.attempt
  BY <1>2 DEF Formed, Shaped, Request
<1>4. /\ attempt[a] # None /\ attempt[a].order = v.order
      /\ v.charge # None => charge[v.charge] # None /\ charge[v.charge].order = v.order
  BY <1>2, <1>3, PaymentsAssumption DEF Formed, Linked
<1>5. PICK att \in Attempt : att = attempt[a]
  BY <1>4 DEF IInv, Typed, RowsTyped
<1>6. PICK new : new = [att EXCEPT !.status = "ERROR", !.charge = v.charge]
  OBVIOUS
<1>7. new \in Attempt /\ new.order = att.order /\ new.charge = v.charge
  BY <1>6 DEF Attempt, AttemptStatus, Request
<1>8. LinkedRow(new)
  BY <1>2, <1>3, <1>4, <1>5, <1>7, PaymentsAssumption
  DEF LinkedRow, IInv, AttemptsLinked, Formed, Linked
<1>9. PICK f : f = [attempt EXCEPT ![a] = new]
  OBVIOUS
<1>10. attempt' = f
  BY <1>1, <1>3, <1>5, <1>6, <1>9 DEF MintQrFails, IInv, Typed, RowsTyped
<1>11. /\ f \in [Attempts -> Attempt \cup {None}]
       /\ \A b \in Attempts : attempt[b] # None =>
            f[b] # None /\ f[b].order = attempt[b].order
       /\ \A b \in Attempts : f[b] # None => LinkedRow(f[b])
  <2>1. /\ f \in [Attempts -> Attempt \cup {None}]
        /\ \A b \in Attempts : f[b] = IF b = a THEN new ELSE attempt[b]
    BY <1>7, <1>9 DEF IInv, Typed, RowsTyped
  <2> QED
    BY <1>4, <1>5, <1>7, <1>8, <2>1, NoRowAssumption DEF IInv, AttemptsLinked
<1>12. PICK w : w = Idle
  OBVIOUS
<1>13. w \in Request /\ Formed(w) /\ req' = [req EXCEPT ![r] = w]
  BY <1>12, IdleFormed DEF MintQrFails, Finish
<1>14. /\ UNCHANGED <<order, payment, charge, offered, money, started,
                      confirmed, settled, disturbed>>
       /\ faults' \in 0..MaxFaults
  BY PaymentsAssumption DEF MintQrFails, outside, history, IInv, Typed, RowsTyped
<1> QED
  BY <1>10, <1>11, <1>13, <1>14, AttemptsWritten

LEMMA SaveQrAttemptStep ==
  ASSUME IInv, NEW r \in Requests, SaveQrAttempt(r) PROVE IInv'
<1>1. PICK v \in Request : v = req[r]
  BY DEF IInv, Typed, RowsTyped
<1>2. /\ Formed(v) /\ v.phase = "saveAttempt" /\ v.status \in OrderStatus
      /\ v.order \in Orders
  BY <1>1 DEF IInv, RequestsFormed, SaveQrAttempt, Formed, Shaped
<1>3. PICK a \in Attempts : a = v.attempt
  BY <1>2 DEF Formed, Shaped
<1>4. /\ attempt[a] # None /\ attempt[a].order = v.order
      /\ v.charge # None => charge[v.charge] # None /\ charge[v.charge].order = v.order
  BY <1>2, <1>3, PaymentsAssumption DEF Formed, Linked
<1>5. PICK att \in Attempt : att = attempt[a]
  BY <1>4 DEF IInv, Typed, RowsTyped
<1>6. PICK new : new = [att EXCEPT !.charge = v.charge]
  OBVIOUS
<1>7. PICK f : /\ f = [attempt EXCEPT ![a] = new] /\ attempt' = f
  BY <1>1, <1>3, <1>5, <1>6 DEF SaveQrAttempt, IInv, Typed, RowsTyped
<1>8. PICK w : w = [v EXCEPT !.phase = "saveOrder"]
  OBVIOUS
<1>9. /\ w \in Request /\ w.phase = "saveOrder" /\ w.order = v.order
      /\ w.attempt = v.attempt /\ w.status = v.status /\ w.outcome = v.outcome
      /\ w.row = v.row /\ w.stale = v.stale /\ w.charge = v.charge
  BY <1>8 DEF Request, Phases
<1>10. Formed(w)
  BY <1>2, <1>9 DEF Formed, Shaped, Linked, Honest
<1>11. req' = [req EXCEPT ![r] = w]
  BY <1>1, <1>8 DEF SaveQrAttempt, IInv, Typed, RowsTyped
<1>12. /\ f \in [Attempts -> Attempt \cup {None}]
       /\ \A b \in Attempts : attempt[b] # None =>
            f[b] # None /\ f[b].order = attempt[b].order
       /\ \A b \in Attempts : f[b] # None => LinkedRow(f[b])
  <2>1. new \in Attempt /\ new.order = att.order /\ new.charge = v.charge
    BY <1>6 DEF Attempt, Request
  <2>2. LinkedRow(new)
    BY <1>2, <1>3, <1>4, <1>5, <2>1, PaymentsAssumption
    DEF LinkedRow, IInv, AttemptsLinked, Formed, Linked
  <2>3. /\ f \in [Attempts -> Attempt \cup {None}]
        /\ \A b \in Attempts : f[b] = IF b = a THEN new ELSE attempt[b]
    BY <1>7, <2>1 DEF IInv, Typed, RowsTyped
  <2> QED
    BY <1>4, <1>5, <2>1, <2>2, <2>3, NoRowAssumption DEF IInv, AttemptsLinked
<1>13. /\ UNCHANGED <<order, payment, charge, offered, money, started,
                      confirmed, settled, disturbed>>
       /\ faults' \in 0..MaxFaults
  BY DEF SaveQrAttempt, outside, bounds, history, IInv, Typed, RowsTyped
<1> QED
  BY <1>7, <1>9, <1>10, <1>11, <1>12, <1>13, AttemptsWritten

LEMMA ApplyQrFailsStep ==
  ASSUME IInv, NEW r \in Requests, ApplyQrFails(r) PROVE IInv'
<1>1. PICK w : w = Idle
  OBVIOUS
<1>2. w \in Request /\ Formed(w) /\ req' = [req EXCEPT ![r] = w]
  BY <1>1, IdleFormed DEF ApplyQrFails, Finish
<1>3. /\ UNCHANGED <<rows, charge, money, offered, confirmed, settled, disturbed,
                     started, faults>>
      /\ offered \subseteq Orders /\ confirmed \subseteq Orders /\ settled \subseteq Orders
      /\ disturbed \subseteq Orders /\ started \in 0..MaxRequests /\ faults \in 0..MaxFaults
  BY DEF ApplyQrFails, IInv, Typed, RowsTyped, outside, bounds, history
<1> QED
  BY <1>2, <1>3, StillStep

LEMMA ApplyQrStatusStep ==
  ASSUME IInv, NEW r \in Requests, ApplyQrStatus(r) PROVE IInv'
<1>1. PICK v \in Request : v = req[r]
  BY DEF IInv, Typed, RowsTyped
<1>2. PICK a : a = v.attempt
  OBVIOUS
<1>3. PICK o : o = v.order
  OBVIOUS
<1>4. PICK st \in AttemptStatus : st = v.target
  BY DEF Request
<1>5. /\ Formed(v) /\ v.phase = "apply" /\ a \in Attempts /\ o \in Orders
      /\ order[o].method = "GETNET_QR" /\ payment[o] # None
      /\ attempt[a] # None /\ attempt[a].order = o
      /\ st = "APPROVED" => o \in Approved
  BY <1>1, <1>2, <1>3, <1>4, PaymentsAssumption
  DEF IInv, RequestsFormed, ApplyQrStatus, Formed, Shaped, Linked, Honest
<1>6. PICK pay : pay = [payment[o] EXCEPT !.status = IF st = "APPROVED" THEN "COMPLETED"
                                                     ELSE "REJECTED"]
  OBVIOUS
<1>7. /\ pay \in Payment /\ pay # None
      /\ pay.status = "COMPLETED" => o \in Approved
  <2>1. PICK was \in Payment : was = payment[o]
    BY <1>5 DEF IInv, Typed, RowsTyped
  <2>2. pay \in Payment /\ pay.status = IF st = "APPROVED" THEN "COMPLETED" ELSE "REJECTED"
    BY <1>6, <2>1 DEF Payment, PaymentStatus
  <2> QED
    BY <1>5, <2>2, NoRowAssumption
<1>8. PICK u : u = [v EXCEPT
         !.outcome = CASE st = "APPROVED" /\ order[o].status # "PAID" -> "approved"
                       [] Refuses(st, order[o].status) /\ order[o].status # "REJECTED"
                                                                  -> "rejected"
                       [] OTHER -> "none", !.pays = TRUE]
  OBVIOUS
<1>9. /\ u \in Request /\ u.order = o
      /\ u.outcome = "approved" => o \in Approved
  <2>1. PICK out \in {"none", "approved", "rejected"} :
          /\ u = [v EXCEPT !.outcome = out, !.pays = TRUE]
          /\ out = "approved" => st = "APPROVED"
    BY <1>8 DEF Refuses, Refusals
  <2> QED
    BY <1>3, <1>5, <2>1 DEF Request
<1>10. PICK w : w = Decided(u)
  OBVIOUS
<1>11. w \in Request /\ Formed(w)
  BY <1>5, <1>9, <1>10, DecidedFormed, PaymentsAssumption
<1>12. req' = [req EXCEPT ![r] = w]
  BY <1>1, <1>3, <1>4, <1>8, <1>10 DEF ApplyQrStatus
<1>13. PICK f : f = [attempt EXCEPT ![a].status = st]
  OBVIOUS
<1>14. attempt' = f
  BY <1>1, <1>2, <1>4, <1>13 DEF ApplyQrStatus
<1>15. /\ \/ UNCHANGED <<payment, order>>
          \/ /\ payment' = [payment EXCEPT ![o] = pay]
             /\ \E s \in OrderStatus : order' = [order EXCEPT ![o].status = s]
       /\ settled' \in {settled, settled \cup {o}}
       /\ UNCHANGED <<charge, offered, money, started, faults, confirmed, disturbed>>
  BY <1>1, <1>3, <1>4, <1>6 DEF ApplyQrStatus, outside, bounds, OrderStatus
<1>16. /\ f \in [Attempts -> Attempt \cup {None}]
       /\ \A b \in Attempts : attempt[b] # None =>
            f[b] # None /\ f[b].order = attempt[b].order
       /\ \A b \in Attempts : f[b] # None => LinkedRow(f[b])
  <2>1. PICK att \in Attempt : att = attempt[a]
    BY <1>5 DEF IInv, Typed, RowsTyped
  <2>2. PICK new : new = [att EXCEPT !.status = st]
    OBVIOUS
  <2>3. new \in Attempt /\ new.order = att.order /\ new.charge = att.charge
    BY <2>2 DEF Attempt
  <2>4. LinkedRow(new)
    BY <1>5, <2>1, <2>3 DEF LinkedRow, IInv, AttemptsLinked
  <2>5. f = [attempt EXCEPT ![a] = new]
    BY <1>13, <2>1, <2>2 DEF IInv, Typed, RowsTyped
  <2>6. /\ f \in [Attempts -> Attempt \cup {None}]
        /\ \A b \in Attempts : f[b] = IF b = a THEN new ELSE attempt[b]
    BY <2>3, <2>5 DEF IInv, Typed, RowsTyped
  <2> QED
    BY <1>5, <2>1, <2>3, <2>4, <2>6, NoRowAssumption DEF IInv, AttemptsLinked
<1>17. /\ payment' \in [Orders -> Payment \cup {None}]
       /\ \A p \in Orders : \/ payment'[p] = payment[p]
                            \/ p = o /\ payment'[p] = pay
  BY <1>7, <1>15 DEF IInv, Typed, RowsTyped
<1>18. /\ order' \in [Orders -> Order]
       /\ \A p \in Orders : order'[p].method = order[p].method
  <2>1. CASE order' = order
    BY <2>1 DEF IInv, Typed, RowsTyped
  <2>2. ASSUME NEW s \in OrderStatus, order' = [order EXCEPT ![o].status = s]
        PROVE  /\ order' \in [Orders -> Order]
               /\ \A p \in Orders : order'[p].method = order[p].method
    BY <1>5, <2>2 DEF IInv, Typed, RowsTyped, Order
  <2> QED
    BY <1>15, <2>1, <2>2
<1>19. RowsTyped'
  BY <1>5, <1>14, <1>15, <1>16, <1>17, <1>18 DEF IInv, Typed, RowsTyped, money
<1>20. Approved \subseteq Approved'
  BY <1>15, ApprovedKept
<1>21. Grows
  BY <1>7, <1>14, <1>15, <1>16, <1>17, <1>18, <1>20 DEF Grows
<1>22. AttemptsLinked'
  <2> SUFFICES ASSUME NEW b \in Attempts, f[b] # None PROVE LinkedRow(f[b])'
    BY <1>14 DEF AttemptsLinked, LinkedRow
  <2>1. PICK att \in Attempt : att = f[b]
    BY <1>16
  <2>2. LinkedRow(att)'
    BY <1>16, <1>21, <2>1, LinkedRowStays
  <2> QED
    BY <2>1, <2>2
<1>23. Backed'
  BY <1>7, <1>15, <1>17, <1>20 DEF IInv, Backed, BalanceIsBacked, money
<1> QED
  BY <1>11, <1>12, <1>19, <1>21, <1>22, <1>23, StepDone

LEMMA CommitLinkStep ==
  ASSUME IInv, NEW r \in Requests, NEW a \in Attempts, NEW c \in Charges,
         CommitLink(r, a, c)
  PROVE  IInv'
<1>1. PICK v \in Request : v = req[r]
  BY DEF IInv, Typed, RowsTyped
<1>2. Formed(v) /\ v.phase = "link"
  BY <1>1 DEF IInv, RequestsFormed, CommitLink
<1>3. PICK o \in Orders : o = v.order /\ order[o].method = "PAYWAY"
  BY <1>2 DEF Formed, Shaped
<1>4. /\ attempt[a] = None /\ charge[c] = None
      /\ payment' = payment \/ payment' = [payment EXCEPT ![o] = NewPayment]
      /\ UNCHANGED <<order, offered, money, started, faults, confirmed, settled, disturbed>>
  BY <1>1, <1>3 DEF CommitLink, bounds, history
<1>5. PICK ch : /\ ch = [order |-> o, status |-> "PENDING"]
                /\ charge' = [charge EXCEPT ![c] = ch]
  BY <1>1, <1>3 DEF CommitLink
<1>6. /\ ch \in Charge /\ ch # None /\ ch.order = o
      /\ charge' \in [Charges -> Charge \cup {None}]
      /\ \A d \in Charges : charge'[d] = IF d = c THEN ch ELSE charge[d]
  <2>1. ch \in Charge /\ ch.order = o
    BY <1>5 DEF Charge, AttemptStatus
  <2> QED
    BY <1>5, <2>1, NoRowAssumption DEF IInv, Typed, RowsTyped
<1>7. PICK att : att = [order |-> o, status |-> "PENDING", charge |-> c, due |-> FALSE]
  OBVIOUS
<1>8. att \in Attempt /\ att.order = o /\ att.charge = c /\ att # None
  <2>1. att \in Attempt /\ att.order = o /\ att.charge = c
    BY <1>7 DEF Attempt, AttemptStatus
  <2> QED
    BY <2>1, NoRowAssumption
<1>9. PICK f : /\ f = [b \in Attempts |-> IF b = a THEN att
                         ELSE IF b \in LinksOf(o) THEN Closed(attempt[b]) ELSE attempt[b]]
               /\ attempt' = f
  BY <1>1, <1>3, <1>7 DEF CommitLink
<1>10. ASSUME NEW b \in Attempts, b # a
       PROVE  /\ f[b] \in Attempt \cup {None}
              /\ f[b] # None => attempt[b] # None
              /\ attempt[b] # None => /\ f[b] # None /\ f[b].order = attempt[b].order
                                      /\ f[b].charge = attempt[b].charge
  <2>1. CASE b \notin LinksOf(o)
    BY <1>9, <1>10, <2>1 DEF IInv, Typed, RowsTyped
  <2>2. CASE b \in LinksOf(o)
    <3>1. PICK old \in Attempt : old = attempt[b]
      BY <2>2 DEF LinksOf, IInv, Typed, RowsTyped
    <3>2. f[b] = Closed(old)
      BY <1>9, <1>10, <2>2, <3>1
    <3>3. /\ Closed(old) \in Attempt /\ Closed(old).order = old.order
          /\ Closed(old).charge = old.charge
      BY DEF Closed, Attempt, AttemptStatus
    <3> QED
      BY <2>2, <3>1, <3>2, <3>3, NoRowAssumption DEF LinksOf
  <2> QED
    BY <2>1, <2>2
<1>11. /\ f \in [Attempts -> Attempt \cup {None}]
       /\ f[a] = att
  BY <1>8, <1>9, <1>10
<1>12. /\ payment' \in [Orders -> Payment \cup {None}]
       /\ \A p \in Orders : payment[p] # None => payment'[p] # None
       /\ \A p \in Orders : \/ payment'[p] = payment[p]
                            \/ p = o /\ payment'[p].status = "PENDING"
  <2>1. NewPayment \in Payment /\ NewPayment.status = "PENDING"
    BY DEF NewPayment, Payment, PaymentStatus
  <2> QED
    BY <1>4, <2>1, NoRowAssumption DEF IInv, Typed, RowsTyped
<1>13. RowsTyped'
  BY <1>4, <1>6, <1>9, <1>11, <1>12 DEF IInv, Typed, RowsTyped, money
<1>14. Approved \subseteq Approved'
  BY <1>4, <1>6, ApprovedKept
<1>15. Grows
  BY <1>4, <1>6, <1>9, <1>10, <1>12, <1>14 DEF Grows
<1>16. AttemptsLinked'
  <2> SUFFICES ASSUME NEW b \in Attempts, f[b] # None PROVE LinkedRow(f[b])'
    BY <1>9 DEF AttemptsLinked, LinkedRow
  <2>1. CASE b = a
    BY <1>3, <1>4, <1>6, <1>8, <1>11, <2>1, PaymentsAssumption DEF LinkedRow
  <2>2. CASE b # a
    <3>1. PICK new \in Attempt : new = f[b]
      BY <1>11
    <3>2. LinkedRow(new)
      BY <1>10, <2>2, <3>1 DEF IInv, AttemptsLinked, LinkedRow
    <3>3. LinkedRow(new)'
      BY <1>15, <3>2, LinkedRowStays
    <3> QED
      BY <3>1, <3>3
  <2> QED
    BY <2>1, <2>2
<1>17. Backed'
  BY <1>4, <1>12, <1>14 DEF IInv, Backed, BalanceIsBacked, money
<1>18. PICK w : w = Idle
  OBVIOUS
<1>19. w \in Request /\ Formed(w) /\ req' = [req EXCEPT ![r] = w]
  BY <1>18, IdleFormed DEF CommitLink, Finish
<1> QED
  BY <1>13, <1>15, <1>16, <1>17, <1>19, StepDone

------------------------------------------------------------------------------
(* What happens outside.                                                    *)
LEMMA OutsideDone ==
  ASSUME IInv, Grows, req' = req, RowsTyped', AttemptsLinked', Backed'
  PROVE  IInv'
<1>1. RequestsFormed'
  <2> SUFFICES ASSUME NEW q \in Requests PROVE Formed(req[q])'
    BY DEF RequestsFormed
  <2>1. PICK v \in Request : v = req[q]
    BY DEF IInv, Typed, RowsTyped
  <2>2. Formed(v)'
    BY <2>1, FormedStays DEF IInv, RequestsFormed
  <2> QED
    BY <2>1, <2>2 DEF Formed, Shaped, Linked, Honest
<1> QED
  BY <1>1, TypedParts DEF IInv, Typed, RowsTyped

LEMMA PayPreferenceStep ==
  ASSUME IInv, NEW o \in Orders, NEW c \in Charges, PayPreference(o, c) PROVE IInv'
<1>1. /\ charge[c] = None
      /\ charge' = [charge EXCEPT ![c] = [order |-> o, status |-> "PENDING"]]
      /\ UNCHANGED <<order, payment, attempt, offered, money, started,
                     confirmed, settled, disturbed>>
      /\ faults' \in 0..MaxFaults /\ req' = req
  BY DEF PayPreference, rows, bounds, history, IInv, Typed, RowsTyped
<1>2. RowsTyped' /\ Grows /\ AttemptsLinked' /\ Backed'
  BY <1>1, ChargeAdded
<1> QED
  BY <1>1, <1>2, OutsideDone

LEMMA ProviderDecidesStep ==
  ASSUME IInv, NEW c \in Charges, NEW st \in AttemptStatus, ProviderDecides(c, st)
  PROVE  IInv'
<1>1. PICK old \in Charge : old = charge[c] /\ old.status = "PENDING"
  BY DEF ProviderDecides, IInv, Typed, RowsTyped
<1>2. PICK new : new = [old EXCEPT !.status = st]
  OBVIOUS
<1>3. new \in Charge /\ new.order = old.order /\ new # None
  <2>1. new \in Charge /\ new.order = old.order
    BY <1>2 DEF Charge
  <2> QED
    BY <2>1, NoRowAssumption
<1>4. charge' = [charge EXCEPT ![c] = new]
  BY <1>1, <1>2 DEF ProviderDecides, IInv, Typed, RowsTyped
<1>5. /\ charge' \in [Charges -> Charge \cup {None}]
      /\ \A d \in Charges : charge'[d] = IF d = c THEN new ELSE charge[d]
  BY <1>3, <1>4 DEF IInv, Typed, RowsTyped
<1>6. UNCHANGED <<order, payment, attempt, offered, money, req, started, faults,
                  confirmed, settled, disturbed>>
  BY DEF ProviderDecides, rows, bounds, history
<1>7. RowsTyped'
  BY <1>5, <1>6 DEF IInv, Typed, RowsTyped, money
<1>8. Approved \subseteq Approved'
  BY <1>1, <1>3, <1>5, <1>6 DEF Approved
<1>9. Grows
  BY <1>1, <1>3, <1>5, <1>6, <1>8 DEF Grows
<1>10. AttemptsLinked' /\ Backed'
  BY <1>6, <1>8, <1>9, LinkedKept, BackedKept
<1> QED
  BY <1>6, <1>7, <1>9, <1>10, OutsideDone

LEMMA TimePassesStep ==
  ASSUME IInv, NEW a \in Attempts, TimePasses(a) PROVE IInv'
<1>1. PICK old \in Attempt : old = attempt[a] /\ old # None
  BY DEF TimePasses, IInv, Typed, RowsTyped
<1>2. PICK new : new = [old EXCEPT !.due = TRUE]
  OBVIOUS
<1>3. new \in Attempt /\ new.order = old.order /\ new.charge = old.charge
  BY <1>2 DEF Attempt
<1>4. attempt' = [attempt EXCEPT ![a] = new]
  BY <1>1, <1>2 DEF TimePasses, IInv, Typed, RowsTyped
<1>5. /\ attempt' \in [Attempts -> Attempt \cup {None}]
      /\ \A b \in Attempts : attempt'[b] = IF b = a THEN new ELSE attempt[b]
  BY <1>3, <1>4 DEF IInv, Typed, RowsTyped
<1>6. UNCHANGED <<order, payment, charge, offered, money, req, started, faults,
                  confirmed, settled, disturbed>>
  BY DEF TimePasses, outside, bounds, history
<1>7. RowsTyped'
  BY <1>5, <1>6 DEF IInv, Typed, RowsTyped, money
<1>8. Approved \subseteq Approved'
  BY <1>6, ApprovedKept
<1>9. Grows
  BY <1>1, <1>3, <1>5, <1>6, <1>8, NoRowAssumption DEF Grows
<1>10. AttemptsLinked'
  BY <1>1, <1>3, <1>5, <1>6 DEF IInv, AttemptsLinked, LinkedRow
<1>11. Backed'
  BY <1>6, <1>8, BackedKept
<1> QED
  BY <1>6, <1>7, <1>9, <1>10, <1>11, OutsideDone

------------------------------------------------------------------------------
LEMMA InitIInv == Init => IInv
<1> SUFFICES ASSUME Init PROVE IInv
  OBVIOUS
<1>1. Typed
  <2>1. NewPayment \in Payment
    BY DEF NewPayment, Payment, PaymentStatus
  <2>2. order \in [Orders -> Order]
    BY DEF Init, Order, OrderStatus
  <2> QED
    BY <2>1, <2>2, IdleFormed, PaymentsAssumption DEF Init, Typed, RowsTyped, NoCopy
<1>2. RequestsFormed
  BY IdleFormed DEF Init, RequestsFormed
<1>3. AttemptsLinked
  BY DEF Init, AttemptsLinked
<1>4. Backed
  <2>1. NewPayment.status # "COMPLETED"
    BY DEF NewPayment
  <2> QED
    BY <2>1 DEF Init, Backed, BalanceIsBacked, NoCopy
<1> QED
  BY <1>1, <1>2, <1>3, <1>4 DEF IInv

LEMMA StepIInv == IInv /\ [Next]_vars => IInv'
<1> SUFFICES ASSUME IInv, [Next]_vars PROVE IInv'
  OBVIOUS
<1>1. ASSUME NEW r \in Requests, SharedStep(r) PROVE IInv'
  BY <1>1, SaveOrderStep, SavePaymentStep, CreditReadStep, CreditCheckStep,
     CreditSaveStep, CreditRecordStep, NotifyStep, BreakOffStep DEF SharedStep
<1>2. ASSUME NEW r \in Requests, MercadoPagoStep(r) PROVE IInv'
  BY <1>2, CreatePreferenceStep, WebhookStep DEF MercadoPagoStep
<1>3. ASSUME NEW r \in Requests, ManualStep(r) PROVE IInv'
  BY <1>3, NotifyTransferStep, UploadProofStep, DecideManuallyStep,
     InsertTransferPaymentStep DEF ManualStep
<1>4. ASSUME NEW r \in Requests, QrStep(r) PROVE IInv'
  BY <1>4, CreateQrStep, InsertQrPaymentStep, ExpireQrsStep, InsertQrAttemptStep,
     QrWebhookStep, MintQrStep, MintQrFailsStep, SaveQrAttemptStep,
     ApplyQrStatusStep, ApplyQrFailsStep DEF QrStep
<1>5. ASSUME NEW r \in Requests, PaywayStep(r) PROVE IInv'
  BY <1>5, LockForLinkStep, CommitLinkStep, LoseLinkStep DEF PaywayStep
<1>6. ASSUME NEW o \in Orders, NEW c \in Charges, PayPreference(o, c) PROVE IInv'
  BY <1>6, PayPreferenceStep
<1>7. ASSUME NEW c \in Charges, NEW st \in AttemptStatus, ProviderDecides(c, st)
      PROVE  IInv'
  BY <1>7, ProviderDecidesStep
<1>8. ASSUME NEW a \in Attempts, TimePasses(a) PROVE IInv'
  BY <1>8, TimePassesStep
<1>9. CASE UNCHANGED vars
  <2>1. UNCHANGED <<order, payment, attempt, charge, offered, money, req, started, faults,
                    confirmed, settled, disturbed>>
    BY <1>9 DEF vars, rows, outside, bounds, history
  <2>2. RowsTyped'
    BY <2>1 DEF IInv, Typed, RowsTyped, money
  <2>3. Approved \subseteq Approved'
    BY <2>1, ApprovedKept
  <2>4. Grows
    BY <2>1, <2>3 DEF Grows
  <2>5. AttemptsLinked' /\ Backed'
    BY <2>1, <2>3, <2>4, LinkedKept, BackedKept
  <2> QED
    BY <2>1, <2>2, <2>4, <2>5, OutsideDone
<1> QED
  BY <1>1, <1>2, <1>3, <1>4, <1>5, <1>6, <1>7, <1>8, <1>9 DEF Next, RouteStep

(* What a request of the four routes needs for its next step is there, the  *)
(* attempt and the payment it works on are of its order, and it credits or  *)
(* announces only what was approved, in every reachable state.              *)
THEOREM Inductive == Spec => []IInv
BY InitIInv, StepIInv, PTL DEF Spec

(* Credits meet where a wallet is read.                                     *)
LEMMA OnlyReadsCross ==
  ASSUME [Next]_vars
  PROVE  \/ crossed' = crossed
         \/ \E r \in Requests : /\ CreditRead(r)
                               /\ \E s \in req[r].todo : crossed' = crossed \cup Meeting(r, s)
<1>1. ASSUME NEW r \in Requests, SharedStep(r), ~CreditRead(r) PROVE crossed' = crossed
  BY <1>1 DEF SharedStep, SaveOrder, SavePayment, CreditCheck, CreditSave,
              CreditRecord, Notify, BreakOff, history
<1>2. ASSUME NEW r \in Requests, MercadoPagoStep(r) PROVE crossed' = crossed
  BY <1>2 DEF MercadoPagoStep, CreatePreference, MercadoPagoWebhook, Start
<1>3. ASSUME NEW r \in Requests, ManualStep(r) PROVE crossed' = crossed
  BY <1>3 DEF ManualStep, NotifyTransfer, UploadProof, DecideManually,
              InsertTransferPayment, Start, history
<1>4. ASSUME NEW r \in Requests, QrStep(r) PROVE crossed' = crossed
  BY <1>4 DEF QrStep, CreateQr, InsertQrPayment, ExpireQrs, InsertQrAttempt, QrWebhook,
              MintQr, MintQrFails, SaveQrAttempt, ApplyQrStatus, ApplyQrFails, Start, history
<1>5. ASSUME NEW r \in Requests, PaywayStep(r) PROVE crossed' = crossed
  BY <1>5 DEF PaywayStep, LockForLink, CommitLink, LoseLink, Start, history
<1>6. ASSUME NEW r \in Requests, CreditRead(r)
      PROVE  \/ crossed' = crossed
             \/ \E s \in req[r].todo : crossed' = crossed \cup Meeting(r, s)
  BY <1>6 DEF CreditRead
<1>7. CASE \/ \E o \in Orders, c \in Charges : PayPreference(o, c)
           \/ \E c \in Charges, st \in AttemptStatus : ProviderDecides(c, st)
           \/ \E a \in Attempts : TimePasses(a)
           \/ UNCHANGED vars
  BY <1>7 DEF PayPreference, ProviderDecides, TimePasses, vars, history
<1> QED
  BY <1>1, <1>2, <1>3, <1>4, <1>5, <1>6, <1>7 DEF Next, RouteStep

LEMMA MeetingTyped ==
  ASSUME IInv, NEW r \in Requests, CreditRead(r), NEW s \in req[r].todo
  PROVE  Meeting(r, s) \subseteq Orders
<1>1. \A q \in Requests : req[q].phase \in {"credit", "check", "saveWallet", "record"}
                              => req[q].order \in Orders
  BY DEF IInv, RequestsFormed, Formed, Shaped
<1> QED
  BY <1>1 DEF Meeting, CreditRead

(* The rows are well formed, whatever overlaps or fails.                    *)
THEOREM TypeCorrect == Spec => []TypeOK
<1>1. Init => crossed \subseteq Orders
  BY DEF Init
<1>2. IInv /\ crossed \subseteq Orders /\ [Next]_vars => (crossed \subseteq Orders)'
  BY OnlyReadsCross, MeetingTyped
<1>3. IInv /\ crossed \subseteq Orders => TypeOK
  BY DEF IInv, Typed, RowsTyped, TypeOK
<1> QED
  BY <1>1, <1>2, <1>3, Inductive, PTL DEF Spec

(* No wallet holds the amount of a sale that was not approved.              *)
THEOREM BalanceBacked == Spec => []BalanceIsBacked
<1>1. IInv => BalanceIsBacked
  BY DEF IInv, Backed
<1> QED
  BY <1>1, Inductive, PTL

------------------------------------------------------------------------------
(* The refinement: steps that approve, credit or announce.                  *)
Unpromised == UNCHANGED <<Approved, Credited, Told>>

LEMMA Silent ==
  ASSUME UNCHANGED <<charge, confirmed, credits, notices>> PROVE Unpromised
BY DEF Unpromised, Approved, Credited, Told

LEMMA SilentCharge ==
  ASSUME IInv, NEW c \in Charges, charge[c] = None, NEW o,
         charge' = [charge EXCEPT ![c] = [order |-> o, status |-> "PENDING"]],
         UNCHANGED <<confirmed, credits, notices>>
  PROVE  Unpromised
<1>1. PICK ch : ch = [order |-> o, status |-> "PENDING"]
  OBVIOUS
<1>2. ch.status # "APPROVED"
  BY <1>1
<1>3. \A d \in Charges : charge'[d] = IF d = c THEN ch ELSE charge[d]
  BY <1>1 DEF IInv, Typed, RowsTyped
<1>4. Approved' = Approved
  BY <1>2, <1>3 DEF Approved
<1> QED
  BY <1>4 DEF Unpromised, Credited, Told

LEMMA DecisionApproves ==
  ASSUME IInv, NEW r \in Requests, NEW o \in Orders, NEW verdict \in Verdict,
         DecideManually(r, o, verdict)
  PROVE  Promise!Approve(o) \/ Unpromised
<1>1. UNCHANGED <<charge, credits, notices>>
  BY DEF DecideManually, outside, money
<1>2. confirmed' = confirmed \/ confirmed' = confirmed \cup {o}
  BY DEF DecideManually
<1>3. CASE confirmed' = confirmed
  BY <1>1, <1>3, Silent
<1>4. CASE confirmed' = confirmed \cup {o}
  <2>1. Approved' = Approved \cup {o}
    BY <1>1, <1>4 DEF Approved
  <2> QED
    BY <1>1, <2>1 DEF Promise!Approve, Credited, Told
<1> QED
  BY <1>2, <1>3, <1>4

LEMMA ProviderApproves ==
  ASSUME IInv, NEW c \in Charges, NEW st \in AttemptStatus, ProviderDecides(c, st)
  PROVE  \/ \E o \in Orders : Promise!Approve(o)
         \/ Unpromised
<1>1. PICK old \in Charge : old = charge[c] /\ old.status = "PENDING"
  BY DEF ProviderDecides, IInv, Typed, RowsTyped
<1>2. PICK new : new = [old EXCEPT !.status = st]
  OBVIOUS
<1>3. new.order = old.order /\ new.status = st /\ new # None /\ old.order \in Orders
  <2>1. new \in Charge /\ new.order = old.order /\ new.status = st
    BY <1>2 DEF Charge
  <2> QED
    BY <2>1, NoRowAssumption DEF Charge
<1>4. charge' = [charge EXCEPT ![c] = new]
  BY <1>1, <1>2 DEF ProviderDecides, IInv, Typed, RowsTyped
<1>5. \A d \in Charges : charge'[d] = IF d = c THEN new ELSE charge[d]
  BY <1>4 DEF IInv, Typed, RowsTyped
<1>6. UNCHANGED <<confirmed, credits, notices>>
  BY DEF ProviderDecides, money, history
<1>7. CASE st = "APPROVED"
  <2>1. Approved' = Approved \cup {old.order}
    BY <1>1, <1>3, <1>5, <1>6, <1>7 DEF Approved
  <2> QED
    BY <1>3, <1>6, <2>1 DEF Promise!Approve, Credited, Told
<1>8. CASE st # "APPROVED"
  <2>1. Approved' = Approved
    BY <1>1, <1>3, <1>5, <1>6, <1>8 DEF Approved
  <2> QED
    BY <1>6, <2>1 DEF Unpromised, Credited, Told
<1> QED
  BY <1>7, <1>8

LEMMA RecordCredits ==
  ASSUME IInv, NEW r \in Requests, CreditRecord(r)
  PROVE  \/ \E o \in Orders : \E s \in PayeesOf[o] : Promise!Credit(o, s)
         \/ Unpromised
<1>1. PICK v \in Request : v = req[r]
  BY DEF IInv, Typed, RowsTyped
<1>2. PICK o \in Orders, s \in Sellers :
        /\ o = v.order /\ s = v.seller /\ o \in Approved /\ s \in PayeesOf[o]
  BY <1>1, PaymentsAssumption
  DEF IInv, RequestsFormed, CreditRecord, Formed, Shaped, Honest
<1>7. UNCHANGED <<charge, notices, confirmed>>
  BY DEF CreditRecord, outside
<1>8. CASE credits' = credits
  BY <1>7, <1>8, Silent
<1> SUFFICES ASSUME credits' # credits PROVE Promise!Credit(o, s)
  BY <1>2, <1>8
<1>3. /\ credits' = [credits EXCEPT ![o][s] = @ + 1]
      /\ UNCHANGED <<charge, notices, confirmed>>
  BY <1>1, <1>2, <1>7 DEF CreditRecord
<1>4. \A p \in Orders, t \in Sellers : /\ credits[p][t] \in Nat
        /\ credits'[p][t] = IF p = o /\ t = s THEN credits[p][t] + 1 ELSE credits[p][t]
  BY <1>3 DEF IInv, Typed, RowsTyped
<1>5. Credited' = Credited \cup {<<o, s>>}
  BY <1>2, <1>4 DEF Credited
<1>6. Approved' = Approved /\ Told' = Told
  BY <1>3 DEF Approved, Told
<1> QED
  BY <1>2, <1>5, <1>6 DEF Promise!Credit

LEMMA NotifyAnnounces ==
  ASSUME IInv, NEW r \in Requests, Notify(r)
  PROVE  \/ \E o \in Orders : Promise!Announce(o)
         \/ Unpromised
<1>1. PICK v \in Request : v = req[r]
  BY DEF IInv, Typed, RowsTyped
<1>2. PICK o \in Orders :
        /\ o = v.order /\ v.outcome \in {"approved", "rejected"}
        /\ v.outcome = "approved" => o \in Approved
  BY <1>1 DEF IInv, RequestsFormed, Notify, Formed, Shaped, Honest, Request
<1>3. /\ notices' = [notices EXCEPT ![o] = @ \cup {v.outcome}]
      /\ UNCHANGED <<charge, credits, confirmed>>
  BY <1>1, <1>2 DEF Notify, outside, history
<1>4. \A p \in Orders :
        notices'[p] = IF p = o THEN notices[p] \cup {v.outcome} ELSE notices[p]
  BY <1>3 DEF IInv, Typed, RowsTyped
<1>5. Approved' = Approved /\ Credited' = Credited
  BY <1>3 DEF Approved, Credited
<1>6. CASE v.outcome = "approved"
  <2>1. Told' = Told \cup {o}
    BY <1>4, <1>6 DEF Told
  <2> QED
    BY <1>2, <1>5, <1>6, <2>1 DEF Promise!Announce
<1>7. CASE v.outcome = "rejected"
  <2>1. ASSUME NEW p \in Orders
        PROVE  "approved" \in notices'[p] <=> "approved" \in notices[p]
    <3>1. notices'[p] = notices[p] \/ notices'[p] = notices[p] \cup {"rejected"}
      BY <1>4, <1>7
    <3> QED
      BY <3>1
  <2>2. Told' = Told
    BY <2>1 DEF Told
  <2> QED
    BY <1>5, <2>2 DEF Unpromised
<1> QED
  BY <1>2, <1>6, <1>7

LEMMA StepKeepsPromise ==
  ASSUME IInv, [Next]_vars PROVE Promise!Next \/ Unpromised
<1>1. ASSUME NEW r \in Requests, SharedStep(r) PROVE Promise!Next \/ Unpromised
  <2>1. CASE \/ SaveOrder(r) \/ SavePayment(r) \/ CreditRead(r) \/ CreditCheck(r)
             \/ CreditSave(r) \/ BreakOff(r)
    BY <2>1, Silent
    DEF SaveOrder, SavePayment, CreditRead, CreditCheck, CreditSave, BreakOff, outside, money, history
  <2>2. CASE CreditRecord(r)
    BY <2>2, RecordCredits DEF Promise!Next
  <2>3. CASE Notify(r)
    BY <2>3, NotifyAnnounces DEF Promise!Next
  <2> QED
    BY <1>1, <2>1, <2>2, <2>3 DEF SharedStep
<1>2. ASSUME NEW r \in Requests, MercadoPagoStep(r) PROVE Unpromised
  BY <1>2, Silent DEF MercadoPagoStep, CreatePreference, MercadoPagoWebhook, outside, money
<1>3. ASSUME NEW r \in Requests, ManualStep(r) PROVE Promise!Next \/ Unpromised
  <2>1. ASSUME NEW o \in Orders, NotifyTransfer(r, o) \/ UploadProof(r, o)
        PROVE  Unpromised
    BY <2>1, Silent DEF NotifyTransfer, UploadProof, outside, money
  <2>2. CASE InsertTransferPayment(r)
    BY <2>2, Silent DEF InsertTransferPayment, outside, money, history
  <2>3. ASSUME NEW o \in Orders, NEW verdict \in Verdict, DecideManually(r, o, verdict)
        PROVE  Promise!Next \/ Unpromised
    BY <2>3, DecisionApproves DEF Promise!Next
  <2> QED
    BY <1>3, <2>1, <2>2, <2>3 DEF ManualStep
<1>4. ASSUME NEW r \in Requests, QrStep(r) PROVE Unpromised
  <2>1. ASSUME NEW c \in Charges, MintQr(r, c) PROVE Unpromised
    BY <2>1, SilentCharge DEF MintQr, money, history
  <2>2. ASSUME NEW o \in Orders, CreateQr(r, o) PROVE Unpromised
    BY <2>2, Silent DEF CreateQr, outside, money
  <2>3. ASSUME NEW a \in Attempts, InsertQrAttempt(r, a) \/ QrWebhook(r, a)
        PROVE  Unpromised
    BY <2>3, Silent DEF InsertQrAttempt, QrWebhook, outside, money, history
  <2>4. CASE InsertQrPayment(r) \/ ExpireQrs(r) \/ MintQrFails(r) \/ SaveQrAttempt(r)
             \/ ApplyQrStatus(r) \/ ApplyQrFails(r)
    BY <2>4, Silent DEF InsertQrPayment, ExpireQrs, MintQrFails, SaveQrAttempt,
                        ApplyQrStatus, ApplyQrFails, outside, money, history
  <2> QED
    BY <1>4, <2>1, <2>2, <2>3, <2>4 DEF QrStep
<1>5. ASSUME NEW r \in Requests, PaywayStep(r) PROVE Unpromised
  <2>1. ASSUME NEW o \in Orders, LockForLink(r, o) PROVE Unpromised
    BY <2>1, Silent DEF LockForLink, outside, money
  <2>2. ASSUME NEW a \in Attempts, NEW c \in Charges, CommitLink(r, a, c) PROVE Unpromised
    BY <2>2, SilentCharge DEF CommitLink, money, history
  <2>3. ASSUME NEW c \in Charges, LoseLink(r, c) PROVE Unpromised
    BY <2>3, SilentCharge DEF LoseLink, money, history
  <2> QED
    BY <1>5, <2>1, <2>2, <2>3 DEF PaywayStep
<1>6. ASSUME NEW o \in Orders, NEW c \in Charges, PayPreference(o, c) PROVE Unpromised
  BY <1>6, SilentCharge DEF PayPreference, money, history
<1>7. ASSUME NEW c \in Charges, NEW st \in AttemptStatus, ProviderDecides(c, st)
      PROVE  Promise!Next \/ Unpromised
  BY <1>7, ProviderApproves DEF Promise!Next
<1>8. ASSUME NEW a \in Attempts, TimePasses(a) PROVE Unpromised
  BY <1>8, Silent DEF TimePasses, outside, money, history
<1>9. CASE UNCHANGED vars
  BY <1>9, Silent DEF vars, outside, money, history
<1> QED
  BY <1>1, <1>2, <1>3, <1>4, <1>5, <1>6, <1>7, <1>8, <1>9 DEF Next, RouteStep

(* All routes together implement the promise: only what a provider or an    *)
(* administrator approved is credited and announced, and it stays so.       *)
THEOREM Implements == Spec => KeepsPromise
<1>1. Init => Promise!Init
  BY DEF Init, Promise!Init, Approved, Credited, Told
<1>2. IInv /\ [Next]_vars => [Promise!Next]_(Promise!promise)
  BY StepKeepsPromise DEF Unpromised, Promise!promise
<1> QED
  BY <1>1, <1>2, Inductive, PTL DEF Spec, KeepsPromise, Promise!Spec

------------------------------------------------------------------------------
(* One pending link at a time: who holds the lock of the order has found    *)
(* all its links decided or past their time.                                *)
LinkDue(w) ==
  w.phase = "link" =>
    \A a \in Attempts : attempt[a] # None /\ attempt[a].order = w.order
                          /\ attempt[a].status = "PENDING" => attempt[a].due

LockAlone ==
  \A q, r \in Requests : req[q].phase = "link" /\ req[r].phase = "link"
                            /\ req[q].order = req[r].order => q = r

Links == /\ \A r \in Requests : LinkDue(req[r])
         /\ LockAlone /\ OneLinkAtATime

(* A step of another route leaves links alone, but for their time.          *)
OtherAttempts ==
  \A a \in Attempts : attempt'[a] # None =>
    \/ attempt'[a] = attempt[a]
    \/ order[attempt'[a].order].method = "GETNET_QR"
    \/ /\ attempt[a] # None /\ attempt'[a].due
       /\ attempt'[a].order = attempt[a].order /\ attempt'[a].status = attempt[a].status

MethodsKept == \A o \in Orders : order'[o].method = order[o].method

LEMMA LinksKept ==
  ASSUME IInv, IInv', Links, OtherAttempts, MethodsKept,
         \A q \in Requests : req'[q].phase = "link" => req'[q] = req[q]
  PROVE  Links'
<1>1. ASSUME NEW q \in Requests PROVE LinkDue(req[q])'
  <2> SUFFICES ASSUME req'[q].phase = "link", NEW a \in Attempts, attempt'[a] # None,
                      attempt'[a].order = req'[q].order, attempt'[a].status = "PENDING"
               PROVE  attempt'[a].due
    BY DEF LinkDue
  <2>1. PICK v \in Request : v = req[q] /\ v = req'[q] /\ v.phase = "link"
    BY DEF IInv, Typed, RowsTyped
  <2>2. order[v.order].method = "PAYWAY"
    BY <2>1 DEF IInv, RequestsFormed, Formed, Shaped
  <2>3. CASE attempt'[a] = attempt[a]
    BY <2>1, <2>3 DEF Links, LinkDue
  <2>4. CASE attempt'[a] # attempt[a]
    BY <2>1, <2>2, <2>4 DEF OtherAttempts
  <2> QED
    BY <2>3, <2>4
<1>2. LockAlone'
  BY DEF Links, LockAlone
<1>3. ASSUME NEW o \in Orders, order'[o].method = "PAYWAY", NEW a \in LinksOf(o)'
      PROVE  /\ a \in LinksOf(o) /\ attempt'[a].status = attempt[a].status
             /\ order[o].method = "PAYWAY"
  BY <1>3 DEF LinksOf, OtherAttempts, MethodsKept
<1>4. OneLinkAtATime'
  BY <1>3 DEF Links, OneLinkAtATime
<1> QED
  BY <1>1, <1>2, <1>4 DEF Links

(* A request that goes on, starts or ends on another step than the link.    *)
LEMMA LinksFrame ==
  ASSUME IInv, IInv', Links, OtherAttempts, MethodsKept,
         NEW r \in Requests, NEW w, req' = [req EXCEPT ![r] = w], w.phase # "link"
  PROVE  Links'
<1>1. \A q \in Requests : req'[q] = IF q = r THEN w ELSE req[q]
  BY DEF IInv, Typed, RowsTyped
<1> QED
  BY <1>1, LinksKept

LEMMA StartFrame ==
  ASSUME IInv, IInv', Links, attempt' = attempt, order' = order,
         NEW r \in Requests, NEW o \in Orders, NEW w \in Request,
         Start(r, o, w), w.phase # "link"
  PROVE  Links'
<1>1. PICK v : v = [w EXCEPT !.order = o]
  OBVIOUS
<1>2. v.phase # "link" /\ req' = [req EXCEPT ![r] = v]
  BY <1>1 DEF Start, Request
<1>3. OtherAttempts /\ MethodsKept
  BY DEF OtherAttempts, MethodsKept
<1> QED
  BY <1>2, <1>3, LinksFrame

LEMMA IdleFree == Idle.phase # "link"
BY DEF Idle

LEMMA SharedLinks ==
  ASSUME IInv, IInv', Links, NEW r \in Requests, SharedStep(r) PROVE Links'
<1>1. PICK v \in Request : v = req[r]
  BY DEF IInv, Typed, RowsTyped
<1>2. attempt' = attempt
  BY DEF SharedStep, SaveOrder, SavePayment, CreditRead, CreditCheck, CreditSave,
         CreditRecord, Notify, BreakOff, rows
<1>3. MethodsKept
  <2>1. CASE SaveOrder(r)
    <3>1. Formed(v) /\ v.phase = "saveOrder"
      BY <1>1, <2>1 DEF IInv, RequestsFormed, SaveOrder
    <3>2. PICK o \in Orders : o = v.order
      BY <3>1 DEF Formed, Shaped
    <3>3. order' = [order EXCEPT ![o].status = v.status]
      BY <1>1, <2>1, <3>2 DEF SaveOrder
    <3> QED
      BY <3>3 DEF MethodsKept, IInv, Typed, RowsTyped, Order
  <2>2. CASE ~SaveOrder(r)
    BY <2>2 DEF SharedStep, SavePayment, CreditRead, CreditCheck, CreditSave,
                CreditRecord, Notify, BreakOff, rows, MethodsKept
  <2> QED
    BY <2>1, <2>2
<1>4. PICK w : req' = [req EXCEPT ![r] = w] /\ w.phase # "link"
  <2>1. CASE SaveOrder(r)
    <3>1. Decided(v).phase # "link"
      BY DEF Decided, Idle
    <3>2. req' = [req EXCEPT ![r] = Decided(v)]
      BY <1>1, <2>1 DEF SaveOrder
    <3> QED
      BY <3>1, <3>2
  <2>2. CASE Notify(r) \/ BreakOff(r)
    BY <2>2, IdleFree DEF Notify, BreakOff, Finish
  <2>3. CASE CreditRead(r)
    <3>1. CASE req' = [req EXCEPT ![r].phase = "notify"]
      <4>1. PICK w : w = [v EXCEPT !.phase = "notify"]
        OBVIOUS
      <4>2. w.phase = "notify" /\ req' = [req EXCEPT ![r] = w]
        BY <1>1, <3>1, <4>1 DEF IInv, Typed, RowsTyped, Request
      <4> QED
        BY <4>2
    <3>2. ASSUME NEW s, req' = [req EXCEPT ![r] = Reading(v, s)]
          PROVE  \E w : req' = [req EXCEPT ![r] = w] /\ w.phase # "link"
      <4>1. Reading(v, s).phase = "check"
        BY DEF Reading, Request
      <4> QED
        BY <3>2, <4>1
    <3> QED
      BY <1>1, <2>3, <3>1, <3>2 DEF CreditRead
  <2>4. ASSUME NEW w, \/ w = [v EXCEPT !.phase = "saveOrder"]
                      \/ w = [v EXCEPT !.phase = "saveWallet"]
                      \/ w = [v EXCEPT !.phase = "record", !.copy = NoCopy, !.attached = {}]
                      \/ w = NextSeller(v)
        PROVE  w.phase # "link"
    BY <2>4 DEF Request, NextSeller
  <2>5. CASE SavePayment(r)
    <3>1. CASE req' = [req EXCEPT ![r] = Idle]
      BY <3>1, IdleFree
    <3>2. CASE req' = [req EXCEPT ![r].phase = "saveOrder"]
      <4>1. req' = [req EXCEPT ![r] = [v EXCEPT !.phase = "saveOrder"]]
        BY <1>1, <3>2 DEF IInv, Typed, RowsTyped
      <4> QED
        BY <2>4, <4>1
    <3> QED
      BY <2>5, <3>1, <3>2 DEF SavePayment, Finish
  <2>6. CASE CreditSave(r)
    <3>1. req' = [req EXCEPT ![r] = [v EXCEPT !.phase = "record", !.copy = NoCopy,
                                              !.attached = {}]]
      BY <1>1, <2>6 DEF CreditSave, IInv, Typed, RowsTyped
    <3> QED
      BY <2>4, <3>1
  <2>7. CASE CreditRecord(r)
    <3>1. req' = [req EXCEPT ![r] = NextSeller(v)] \/ req' = [req EXCEPT ![r] = Idle]
      BY <1>1, <2>7 DEF CreditRecord, Finish, IInv, Typed, RowsTyped
    <3> QED
      BY <2>4, <3>1, IdleFree
  <2>8. CASE CreditCheck(r)
    <3>1. \/ req' = [req EXCEPT ![r] = NextSeller(v)]
          \/ req' = [req EXCEPT ![r] = [v EXCEPT !.phase = "saveWallet"]]
      BY <1>1, <2>8 DEF CreditCheck, IInv, Typed, RowsTyped
    <3> QED
      BY <2>4, <3>1
  <2> QED
    BY <2>1, <2>2, <2>3, <2>5, <2>6, <2>7, <2>8 DEF SharedStep
<1> QED
  BY <1>2, <1>3, <1>4, LinksFrame DEF OtherAttempts

LEMMA StartLinks ==
  ASSUME IInv, IInv', Links, NEW r \in Requests,
         \/ \E o \in Orders : CreatePreference(r, o)
         \/ \E c \in Charges : MercadoPagoWebhook(r, c)
         \/ \E o \in Orders : NotifyTransfer(r, o) \/ UploadProof(r, o)
         \/ \E o \in Orders, verdict \in Verdict : DecideManually(r, o, verdict)
         \/ \E o \in Orders : CreateQr(r, o)
         \/ \E a \in Attempts : QrWebhook(r, a)
  PROVE  Links'
<1>1. attempt' = attempt /\ order' = order
  BY DEF CreatePreference, MercadoPagoWebhook, NotifyTransfer, UploadProof,
         DecideManually, CreateQr, QrWebhook, rows
<1>2. PICK w : req' = [req EXCEPT ![r] = w] /\ w.phase # "link"
  <2>1. ASSUME NEW o \in Orders, CreatePreference(r, o)
        PROVE  \E w : req' = [req EXCEPT ![r] = w] /\ w.phase # "link"
    <3>1. PICK j : /\ Start(r, o, j)
                   /\ j = [Idle EXCEPT !.phase = "saveOrder", !.status = order[o].status]
      BY <2>1 DEF CreatePreference
    <3>2. PICK w : w = [j EXCEPT !.order = o]
      OBVIOUS
    <3>3. w.phase # "link" /\ req' = [req EXCEPT ![r] = w]
      BY <3>1, <3>2 DEF Start, Idle
    <3> QED
      BY <3>3
  <2>2. ASSUME NEW c \in Charges, MercadoPagoWebhook(r, c)
        PROVE  \E w : req' = [req EXCEPT ![r] = w] /\ w.phase # "link"
    <3>1. PICK j : /\ Start(r, charge[c].order, j)
                   /\ j = [Idle EXCEPT !.phase = "saveOrder",
                        !.status = PaidStatus(charge[c].status, order[charge[c].order].status),
                        !.outcome = Follow(charge[c].status),
                        !.pays = FirstApproval(order[charge[c].order].status)]
      BY <2>2 DEF MercadoPagoWebhook
    <3>2. PICK w : w = [j EXCEPT !.order = charge[c].order]
      OBVIOUS
    <3>3. w.phase # "link" /\ req' = [req EXCEPT ![r] = w]
      BY <3>1, <3>2 DEF Start, Idle
    <3> QED
      BY <3>3
  <2>3. ASSUME NEW o \in Orders, NotifyTransfer(r, o)
        PROVE  \E w : req' = [req EXCEPT ![r] = w] /\ w.phase # "link"
    <3>1. PICK j : /\ Start(r, o, j)
                   /\ \/ j = [Idle EXCEPT !.phase = "insertPayment", !.row = NewPayment]
                      \/ j = [Idle EXCEPT !.phase = "savePayment", !.row = payment[o]]
      BY <2>3 DEF NotifyTransfer
    <3>2. PICK w : w = [j EXCEPT !.order = o]
      OBVIOUS
    <3>3. w.phase # "link" /\ req' = [req EXCEPT ![r] = w]
      <4>1. CASE j = [Idle EXCEPT !.phase = "insertPayment", !.row = NewPayment]
        BY <3>1, <3>2, <4>1 DEF Start, Idle
      <4>2. CASE j = [Idle EXCEPT !.phase = "savePayment", !.row = payment[o]]
        BY <3>1, <3>2, <4>2 DEF Start, Idle
      <4> QED
        BY <3>1, <4>1, <4>2
    <3> QED
      BY <3>3
  <2>4. ASSUME NEW o \in Orders, UploadProof(r, o)
        PROVE  \E w : req' = [req EXCEPT ![r] = w] /\ w.phase # "link"
    <3>1. PICK j : /\ Start(r, o, j)
                   /\ j = [Idle EXCEPT !.phase = "savePayment",
                                        !.row = [payment[o] EXCEPT !.proof = TRUE]]
      BY <2>4 DEF UploadProof
    <3>2. PICK w : w = [j EXCEPT !.order = o]
      OBVIOUS
    <3>3. w.phase # "link" /\ req' = [req EXCEPT ![r] = w]
      BY <3>1, <3>2 DEF Start, Idle
    <3> QED
      BY <3>3
  <2>5. ASSUME NEW o \in Orders, NEW verdict \in Verdict, DecideManually(r, o, verdict)
        PROVE  \E w : req' = [req EXCEPT ![r] = w] /\ w.phase # "link"
    <3>1. PICK j : /\ Start(r, o, j)
                   /\ \/ j = [[Idle EXCEPT !.outcome = FollowVerdict(verdict),
                                          !.pays = verdict = "COMPLETED"]
                             EXCEPT !.phase = "savePayment",
                                    !.row = [payment[o] EXCEPT !.status = verdict],
                                    !.status = OrderAfter(verdict)]
                      \/ j = [[Idle EXCEPT !.outcome = FollowVerdict(verdict),
                                          !.pays = verdict = "COMPLETED"]
                             EXCEPT !.phase = "notify", !.pays = FALSE]
      BY <2>5 DEF DecideManually
    <3>2. PICK w : w = [j EXCEPT !.order = o]
      OBVIOUS
    <3>3. w.phase # "link" /\ req' = [req EXCEPT ![r] = w]
      <4>1. CASE j = [[Idle EXCEPT !.outcome = FollowVerdict(verdict),
                                          !.pays = verdict = "COMPLETED"]
                             EXCEPT !.phase = "savePayment",
                                    !.row = [payment[o] EXCEPT !.status = verdict],
                                    !.status = OrderAfter(verdict)]
        BY <3>1, <3>2, <4>1 DEF Start, Idle
      <4>2. CASE j = [[Idle EXCEPT !.outcome = FollowVerdict(verdict),
                                          !.pays = verdict = "COMPLETED"]
                             EXCEPT !.phase = "notify", !.pays = FALSE]
        BY <3>1, <3>2, <4>2 DEF Start, Idle
      <4> QED
        BY <3>1, <4>1, <4>2
    <3> QED
      BY <3>3
  <2>6. ASSUME NEW o \in Orders, CreateQr(r, o)
        PROVE  \E w : req' = [req EXCEPT ![r] = w] /\ w.phase # "link"
    <3>1. PICK j : /\ Start(r, o, j)
                   /\ \/ j = [[Idle EXCEPT !.status = order[o].status, !.stale = ExpiredQr(o)]
                             EXCEPT !.phase = "insertPayment", !.row = NewPayment]
                      \/ j = AfterPayment([Idle EXCEPT !.status = order[o].status,
                                                   !.stale = ExpiredQr(o)])
      BY <2>6 DEF CreateQr
    <3>2. PICK w : w = [j EXCEPT !.order = o]
      OBVIOUS
    <3>3. w.phase # "link" /\ req' = [req EXCEPT ![r] = w]
      <4>1. CASE j = [[Idle EXCEPT !.status = order[o].status, !.stale = ExpiredQr(o)]
                             EXCEPT !.phase = "insertPayment", !.row = NewPayment]
        BY <3>1, <3>2, <4>1 DEF Start, Idle, AfterPayment
      <4>2. CASE j = AfterPayment([Idle EXCEPT !.status = order[o].status,
                                                   !.stale = ExpiredQr(o)])
        BY <3>1, <3>2, <4>2 DEF Start, Idle, AfterPayment
      <4> QED
        BY <3>1, <4>1, <4>2
    <3> QED
      BY <3>3
  <2>7. ASSUME NEW a \in Attempts, QrWebhook(r, a)
        PROVE  \E w : req' = [req EXCEPT ![r] = w] /\ w.phase # "link"
    <3>1. PICK j : /\ Start(r, attempt[a].order, j)
                   /\ j = [Idle EXCEPT !.phase = "apply", !.attempt = a,
                                        !.target = charge[attempt[a].charge].status]
      BY <2>7 DEF QrWebhook
    <3>2. PICK w : w = [j EXCEPT !.order = attempt[a].order]
      OBVIOUS
    <3>3. w.phase # "link" /\ req' = [req EXCEPT ![r] = w]
      BY <3>1, <3>2 DEF Start, Idle
    <3> QED
      BY <3>3
  <2> QED
    BY <2>1, <2>2, <2>3, <2>4, <2>5, <2>6, <2>7
<1> QED
  BY <1>1, <1>2, LinksFrame DEF OtherAttempts, MethodsKept

LEMMA QrLinks ==
  ASSUME IInv, IInv', Links, NEW r \in Requests,
         \/ InsertTransferPayment(r) \/ InsertQrPayment(r) \/ ExpireQrs(r)
         \/ \E a \in Attempts : InsertQrAttempt(r, a)
         \/ \E c \in Charges : MintQr(r, c)
         \/ MintQrFails(r) \/ SaveQrAttempt(r) \/ ApplyQrStatus(r) \/ ApplyQrFails(r)
  PROVE  Links'
<1>1. PICK v \in Request : v = req[r]
  BY DEF IInv, Typed, RowsTyped
<1>2. Formed(v)
  BY <1>1 DEF IInv, RequestsFormed
<1>3. CASE InsertTransferPayment(r) \/ InsertQrPayment(r) \/ ApplyQrFails(r)
           \/ \E c \in Charges : MintQr(r, c)
  <2>1. attempt' = attempt /\ order' = order
    BY <1>3 DEF InsertTransferPayment, InsertQrPayment, ApplyQrFails, MintQr, rows
  <2>2. PICK w : req' = [req EXCEPT ![r] = w] /\ w.phase # "link"
    <3>1. CASE InsertTransferPayment(r) \/ ApplyQrFails(r)
      BY <3>1, IdleFree DEF InsertTransferPayment, ApplyQrFails, Finish
    <3>2. CASE InsertQrPayment(r)
      <4>1. AfterPayment(v).phase # "link"
        BY DEF AfterPayment, Request
      <4>2. req' = [req EXCEPT ![r] = Idle] \/ req' = [req EXCEPT ![r] = AfterPayment(v)]
        BY <1>1, <3>2 DEF InsertQrPayment, Finish
      <4> QED
        BY <4>1, <4>2, IdleFree
    <3>3. ASSUME NEW c \in Charges, MintQr(r, c)
          PROVE  \E w : req' = [req EXCEPT ![r] = w] /\ w.phase # "link"
      <4>1. PICK w : w = [v EXCEPT !.phase = "saveAttempt", !.charge = c]
        OBVIOUS
      <4>2. w.phase # "link" /\ req' = [req EXCEPT ![r] = w]
        BY <1>1, <3>3, <4>1 DEF MintQr, IInv, Typed, RowsTyped, Request
      <4> QED
        BY <4>2
    <3> QED
      BY <1>3, <3>1, <3>2, <3>3
  <2> QED
    BY <2>1, <2>2, LinksFrame DEF OtherAttempts, MethodsKept
<1>4. CASE ExpireQrs(r)
  <2>1. \A a \in v.stale : attempt[a] \in Attempt /\ order[attempt[a].order].method = "GETNET_QR"
    BY <1>2 DEF Formed, Linked, IInv, Typed, RowsTyped, Request
  <2>2. OtherAttempts
    <3> SUFFICES ASSUME NEW a \in Attempts, attempt'[a] # attempt[a]
                 PROVE  order[attempt'[a].order].method = "GETNET_QR"
      BY DEF OtherAttempts
    <3>1. a \in v.stale /\ attempt'[a] = [attempt[a] EXCEPT !.status = "EXPIRED"]
      BY <1>1, <1>4 DEF ExpireQrs
    <3>2. attempt'[a].order = attempt[a].order
      BY <2>1, <3>1 DEF Attempt
    <3> QED
      BY <2>1, <3>1, <3>2
  <2>3. PICK w : w = [v EXCEPT !.phase = "insertAttempt", !.stale = {}]
    OBVIOUS
  <2>4. w.phase # "link" /\ req' = [req EXCEPT ![r] = w]
    BY <1>1, <1>4, <2>3 DEF ExpireQrs, IInv, Typed, RowsTyped, Request
  <2> QED
    BY <1>4, <2>2, <2>4, LinksFrame DEF ExpireQrs, MethodsKept
<1>5. ASSUME NEW a \in Attempts, InsertQrAttempt(r, a) PROVE Links'
  <2>1. order[v.order].method = "GETNET_QR"
    BY <1>1, <1>2, <1>5 DEF InsertQrAttempt, Formed, Shaped
  <2>2. PICK att : /\ att = [order |-> v.order, status |-> "PENDING", charge |-> None,
                             due |-> FALSE]
                   /\ attempt' = [attempt EXCEPT ![a] = att]
    BY <1>1, <1>5 DEF InsertQrAttempt
  <2>3. OtherAttempts
    BY <2>1, <2>2 DEF OtherAttempts, IInv, Typed, RowsTyped
  <2>4. PICK w : w = [v EXCEPT !.phase = "mint", !.attempt = a]
    OBVIOUS
  <2>5. w.phase # "link" /\ req' = [req EXCEPT ![r] = w]
    BY <1>1, <1>5, <2>4 DEF InsertQrAttempt, IInv, Typed, RowsTyped, Request
  <2> QED
    BY <1>5, <2>3, <2>5, LinksFrame DEF InsertQrAttempt, MethodsKept
<1>6. CASE MintQrFails(r) \/ SaveQrAttempt(r) \/ ApplyQrStatus(r)
  <2>1. PICK a \in Attempts : a = v.attempt
    BY <1>1, <1>2, <1>6 DEF MintQrFails, SaveQrAttempt, ApplyQrStatus, Formed, Shaped, Request
  <2>2. PICK att \in Attempt : att = attempt[a] /\ order[att.order].method = "GETNET_QR"
    BY <1>2, <2>1, PaymentsAssumption DEF Formed, Linked, IInv, Typed, RowsTyped
  <2>3. PICK new : /\ attempt' = [attempt EXCEPT ![a] = new]
                   /\ \/ new = [att EXCEPT !.status = "ERROR", !.charge = v.charge]
                      \/ new = [att EXCEPT !.charge = v.charge]
                      \/ new = [att EXCEPT !.status = v.target]
    <3>1. CASE MintQrFails(r)
      <4>1. attempt' = [attempt EXCEPT ![a] = [att EXCEPT !.status = "ERROR",
                                                         !.charge = v.charge]]
        BY <1>1, <2>1, <2>2, <3>1 DEF MintQrFails, IInv, Typed, RowsTyped
      <4> QED
        BY <4>1
    <3>2. CASE SaveQrAttempt(r)
      <4>1. attempt' = [attempt EXCEPT ![a] = [att EXCEPT !.charge = v.charge]]
        BY <1>1, <2>1, <2>2, <3>2 DEF SaveQrAttempt, IInv, Typed, RowsTyped
      <4> QED
        BY <4>1
    <3>3. CASE ApplyQrStatus(r)
      <4>1. attempt' = [attempt EXCEPT ![a] = [att EXCEPT !.status = v.target]]
        BY <1>1, <2>1, <2>2, <3>3 DEF ApplyQrStatus, IInv, Typed, RowsTyped
      <4> QED
        BY <4>1
    <3> QED
      BY <1>6, <3>1, <3>2, <3>3
  <2>4. new.order = att.order
    BY <2>3 DEF Attempt
  <2>5. \A b \in Attempts : attempt'[b] = IF b = a THEN new ELSE attempt[b]
    BY <2>3 DEF IInv, Typed, RowsTyped
  <2>6. OtherAttempts
    BY <2>2, <2>4, <2>5 DEF OtherAttempts
  <2>7. MethodsKept
    <3>1. CASE order' = order
      BY <3>1 DEF MethodsKept
    <3>2. ASSUME NEW o, NEW st, order' = [order EXCEPT ![o].status = st]
          PROVE  MethodsKept
      BY <3>2 DEF MethodsKept, IInv, Typed, RowsTyped, Order
    <3> QED
      BY <1>6, <3>1, <3>2 DEF MintQrFails, SaveQrAttempt, ApplyQrStatus
  <2>8. PICK w : req' = [req EXCEPT ![r] = w] /\ w.phase # "link"
    <3>1. CASE MintQrFails(r)
      BY <3>1, IdleFree DEF MintQrFails, Finish
    <3>2. CASE SaveQrAttempt(r)
      <4>1. PICK w : w = [v EXCEPT !.phase = "saveOrder"]
        OBVIOUS
      <4>2. w.phase # "link" /\ req' = [req EXCEPT ![r] = w]
        BY <1>1, <3>2, <4>1 DEF SaveQrAttempt, IInv, Typed, RowsTyped, Request
      <4> QED
        BY <4>2
    <3>3. CASE ApplyQrStatus(r)
      <4>1. PICK u : req' = [req EXCEPT ![r] = Decided(u)]
        BY <3>3 DEF ApplyQrStatus
      <4>2. Decided(u).phase # "link"
        BY DEF Decided, Idle
      <4> QED
        BY <4>1, <4>2
    <3> QED
      BY <1>6, <3>1, <3>2, <3>3
  <2> QED
    BY <2>6, <2>7, <2>8, LinksFrame
<1> QED
  BY <1>3, <1>4, <1>5, <1>6

(* The lock is free and every link of the order is decided or out of time.  *)
LEMMA LockLinks ==
  ASSUME IInv, IInv', Links, NEW r \in Requests, NEW o \in Orders, LockForLink(r, o)
  PROVE  Links'
<1>1. PICK w : w = [[Idle EXCEPT !.phase = "link"] EXCEPT !.order = o]
  OBVIOUS
<1>2. w.phase = "link" /\ w.order = o /\ req' = [req EXCEPT ![r] = w]
  BY <1>1 DEF LockForLink, Start, Idle
<1>3. \A q \in Requests : req'[q] = IF q = r THEN w ELSE req[q]
  BY <1>2 DEF IInv, Typed, RowsTyped
<1>4. attempt' = attempt /\ order' = order /\ order[o].method = "PAYWAY"
  BY DEF LockForLink, rows
<1>5. \A q \in Requests : ~(req[q].phase = "link" /\ req[q].order = o)
  BY DEF LockForLink, Locked
<1>6. LinkDue(w)'
  <2> SUFFICES ASSUME NEW a \in Attempts, attempt[a] # None, attempt[a].order = o,
                      attempt[a].status = "PENDING"
               PROVE  attempt[a].due
    BY <1>2, <1>4 DEF LinkDue
  <2>1. attempt[a].charge # None
    BY <1>4 DEF IInv, AttemptsLinked, LinkedRow
  <2>2. a \notin ReusableLinks(o)
    BY DEF LockForLink
  <2>3. attempt[a] \in Attempt
    BY DEF IInv, Typed, RowsTyped
  <2> QED
    BY <2>1, <2>2, <2>3 DEF ReusableLinks, LinksOf, Attempt
<1>7. ASSUME NEW q \in Requests PROVE LinkDue(req[q])'
  <2>1. CASE q = r
    BY <1>3, <1>6, <2>1 DEF LinkDue
  <2>2. CASE q # r
    BY <1>3, <1>4, <2>2 DEF LinkDue, Links
  <2> QED
    BY <2>1, <2>2
<1>8. LockAlone'
  BY <1>2, <1>3, <1>5 DEF Links, LockAlone
<1>9. OneLinkAtATime'
  BY <1>4 DEF Links, OneLinkAtATime, LinksOf
<1> QED
  BY <1>7, <1>8, <1>9 DEF Links

LEMMA CommitLinks ==
  ASSUME IInv, IInv', Links, NEW r \in Requests, NEW a \in Attempts, NEW c \in Charges,
         CommitLink(r, a, c)
  PROVE  Links'
<1>1. PICK v \in Request : v = req[r] /\ v.phase = "link"
  BY DEF CommitLink, IInv, Typed, RowsTyped
<1>2. PICK o \in Orders : o = v.order /\ order[o].method = "PAYWAY"
  BY <1>1 DEF IInv, RequestsFormed, Formed, Shaped
<1>3. order' = order /\ attempt[a] = None
  BY DEF CommitLink
<1>4. PICK att : att = [order |-> o, status |-> "PENDING", charge |-> c, due |-> FALSE]
  OBVIOUS
<1>5. \A b \in Attempts : attempt'[b] =
        IF b = a THEN att ELSE IF b \in LinksOf(o) THEN Closed(attempt[b]) ELSE attempt[b]
  BY <1>1, <1>2, <1>4 DEF CommitLink
<1>6. att.order = o /\ att.status = "PENDING"
  BY <1>4
<1>7. ASSUME NEW b \in LinksOf(o)
      PROVE  /\ Closed(attempt[b]).order = o /\ Closed(attempt[b]).status # "PENDING"
             /\ Closed(attempt[b]).status # "CANCELED"
  <2>1. PICK old \in Attempt : old = attempt[b] /\ old.order = o
    BY DEF LinksOf, IInv, Typed, RowsTyped
  <2>2. old.status = "PENDING" => old.due
    BY <1>1, <1>2, <2>1 DEF LinksOf, Links, LinkDue
  <2>3. old.status # "CANCELED"
    BY <1>2, <2>1 DEF Links, OneLinkAtATime
  <2> QED
    BY <2>1, <2>2, <2>3 DEF Closed, Attempt
<1>8. \A q \in Requests : req'[q] = IF q = r THEN Idle ELSE req[q]
  BY DEF CommitLink, Finish, IInv, Typed, RowsTyped
<1>9. ASSUME NEW q \in Requests, req'[q].phase = "link"
      PROVE  q # r /\ req'[q] = req[q] /\ req[q].order # o
  BY <1>1, <1>2, <1>8, <1>9, IdleFree DEF Links, LockAlone
<1>10. ASSUME NEW q \in Requests PROVE LinkDue(req[q])'
  <2> SUFFICES ASSUME req'[q].phase = "link", NEW b \in Attempts, attempt'[b] # None,
                      attempt'[b].order = req'[q].order, attempt'[b].status = "PENDING"
               PROVE  attempt'[b].due
    BY DEF LinkDue
  <2>1. req'[q] = req[q] /\ req[q].order # o
    BY <1>9
  <2>2. b # a /\ b \notin LinksOf(o)
    BY <1>5, <1>6, <1>7, <2>1
  <2>3. attempt'[b] = attempt[b]
    BY <1>5, <2>2
  <2> QED
    BY <2>1, <2>3 DEF Links, LinkDue
<1>11. LockAlone'
  BY <1>9 DEF Links, LockAlone
<1>12. OneLinkAtATime'
  <2> SUFFICES ASSUME NEW p \in Orders, order[p].method = "PAYWAY",
                      NEW b \in LinksOf(p)', NEW d \in LinksOf(p)'
               PROVE  /\ attempt'[b].status = "PENDING" /\ attempt'[d].status = "PENDING"
                           => b = d
                      /\ attempt'[b].status # "CANCELED"
    BY <1>3 DEF OneLinkAtATime
  <2>1. CASE p = o
    <3>1. ASSUME NEW e \in LinksOf(o)', e # a
          PROVE  attempt'[e].status \notin {"PENDING", "CANCELED"}
      <4>1. e \in LinksOf(o)
        BY <1>5, <3>1 DEF LinksOf
      <4> QED
        BY <1>5, <1>7, <3>1, <4>1 DEF LinksOf
    <3>2. attempt'[a].status = "PENDING"
      BY <1>5, <1>6
    <3> QED
      BY <2>1, <3>1, <3>2
  <2>2. CASE p # o
    <3>1. ASSUME NEW e \in LinksOf(p)' PROVE e \in LinksOf(p) /\ attempt'[e] = attempt[e]
      <4>1. e \in Attempts /\ attempt'[e] # None /\ attempt'[e].order = p
        BY DEF LinksOf
      <4>2. e # a /\ e \notin LinksOf(o)
        BY <1>5, <1>6, <1>7, <2>2, <4>1
      <4>3. attempt'[e] = attempt[e]
        BY <1>5, <4>1, <4>2
      <4> QED
        BY <4>1, <4>3 DEF LinksOf
    <3> QED
      BY <3>1 DEF Links, OneLinkAtATime
  <2> QED
    BY <2>1, <2>2
<1> QED
  BY <1>10, <1>11, <1>12 DEF Links

LEMMA StepLinks == IInv /\ IInv' /\ Links /\ [Next]_vars => Links'
<1> SUFFICES ASSUME IInv, IInv', Links, [Next]_vars PROVE Links'
  OBVIOUS
<1>1. ASSUME NEW r \in Requests, RouteStep(r) PROVE Links'
  <2>1. CASE SharedStep(r)
    BY <2>1, SharedLinks
  <2>2. CASE MercadoPagoStep(r)
    BY <2>2, StartLinks DEF MercadoPagoStep
  <2>3. CASE ManualStep(r)
    BY <2>3, StartLinks, QrLinks DEF ManualStep
  <2>4. CASE QrStep(r)
    BY <2>4, StartLinks, QrLinks DEF QrStep
  <2>5. ASSUME NEW c \in Charges, LoseLink(r, c) PROVE Links'
    BY <2>5, IdleFree, LinksFrame DEF LoseLink, Finish, rows, OtherAttempts, MethodsKept
  <2>6. CASE PaywayStep(r)
    BY <2>5, <2>6, LockLinks, CommitLinks DEF PaywayStep
  <2> QED
    BY <1>1, <2>1, <2>2, <2>3, <2>4, <2>6 DEF RouteStep
<1>2. ASSUME req' = req, order' = order, OtherAttempts PROVE Links'
  BY <1>2, LinksKept DEF MethodsKept
<1>3. ASSUME NEW o \in Orders, NEW c \in Charges, PayPreference(o, c) PROVE Links'
  BY <1>2, <1>3 DEF PayPreference, rows, OtherAttempts
<1>4. ASSUME NEW c \in Charges, NEW st \in AttemptStatus, ProviderDecides(c, st)
      PROVE  Links'
  BY <1>2, <1>4 DEF ProviderDecides, rows, OtherAttempts
<1>5. ASSUME NEW a \in Attempts, TimePasses(a) PROVE Links'
  <2>1. PICK old \in Attempt : old = attempt[a] /\ old # None
    BY <1>5 DEF TimePasses, IInv, Typed, RowsTyped
  <2>2. PICK new : new = [old EXCEPT !.due = TRUE]
    OBVIOUS
  <2>3. new.due /\ new.order = old.order /\ new.status = old.status
    BY <2>2 DEF Attempt
  <2>4. \A b \in Attempts : attempt'[b] = IF b = a THEN new ELSE attempt[b]
    BY <1>5, <2>1, <2>2 DEF TimePasses, IInv, Typed, RowsTyped
  <2>5. OtherAttempts
    BY <2>1, <2>3, <2>4 DEF OtherAttempts
  <2> QED
    BY <1>2, <1>5, <2>5 DEF TimePasses
<1>6. CASE UNCHANGED vars
  BY <1>2, <1>6 DEF vars, rows, OtherAttempts
<1> QED
  BY <1>1, <1>3, <1>4, <1>5, <1>6 DEF Next

(* Two calls for one order never leave two pending links, and no link is    *)
(* withdrawn before its time (payway.service.ts:45).                        *)
THEOREM OneLink == Spec => []OneLinkAtATime
<1>1. Init => Links
  BY IdleFree DEF Init, Links, LinkDue, LockAlone, OneLinkAtATime, LinksOf
<1>2. Links => OneLinkAtATime
  BY DEF Links
<1> QED
  BY <1>1, <1>2, StepLinks, Inductive, PTL DEF Spec

------------------------------------------------------------------------------
(* Orders whose requests never overlapped nor broke off.                    *)

(* Who is about to save a wallet has read what is still in it, amounts and  *)
(* rows of all orders whose credit did not meet another one there.          *)
Holding(w) == w.phase \in {"check", "saveWallet", "record"}

CopyTrue(w) == w.phase \in {"check", "saveWallet"} =>
  \A o \in Orders : o \notin crossed =>
    /\ w.copy[o] = wallet[w.seller][o]
    /\ o \in w.attached <=> <<o, w.seller>> \in attached

HeldApart ==
  \A p, q \in Requests : p # q /\ Holding(req[p]) /\ Holding(req[q])
                           /\ req[p].seller = req[q].seller
                         => req[p].order \in crossed /\ req[q].order \in crossed

CopiesTrue == HeldApart /\ \A q \in Requests : CopyTrue(req[q])

(* What is true of an order once nobody works on it.                        *)
Times(o) == IF o \in settled THEN 1 ELSE 0

LedgerDone(o) == o \notin crossed =>
  \A s \in PayeesOf[o] : /\ credits[o][s] = Times(o) /\ wallet[s][o] = Times(o)
                         /\ <<o, s>> \in attached <=> o \in settled

Announced(o) == o \in settled <=> "approved" \in notices[o]

Agreed == {<<"PENDING", "PENDING">>, <<"COMPLETED", "PAID">>, <<"REJECTED", "REJECTED">>}

KeepsPayment(o) == order[o].method \in {"TRANSFER", "GETNET_QR"}

AgreesOn(o, st) ==
  KeepsPayment(o) => /\ payment[o] # None => <<payment[o].status, st>> \in Agreed
                     /\ o \in settled => st = "PAID"

PaidOnce(o) == order[o].status = "PAID" => o \in settled

AtRest(o) == LedgerDone(o) /\ Announced(o) /\ AgreesOn(o, order[o].status)

(* What its only request needs for that to be true when it ends: what it    *)
(* read is still so, what it writes fits, and the sellers it has not come   *)
(* to are the ones not yet credited.                                        *)
StillPending(w) ==
  w.phase \in {"insertPayment", "expire", "insertAttempt", "mint", "saveAttempt"} =>
    /\ order[w.order].status = "PENDING" /\ w.outcome = "none"
    /\ w.phase = "insertPayment" => w.row.status = "PENDING"
    /\ w.phase # "insertPayment" \/ order[w.order].method = "GETNET_QR"
         => w.status = "PENDING"

Follows(w) ==
  /\ w.status = "PAID" => w.order \in settled \/ (w.outcome = "approved" /\ w.pays)
  /\ w.outcome = "approved" => w.status = "PAID" /\ (w.pays \/ w.order \in settled)

WritesPayment(w) == w.phase = "savePayment" =>
  /\ payment[w.order] # None
  /\ w.status = None => w.row.status = payment[w.order].status
  /\ w.status # None => /\ KeepsPayment(w.order) /\ order[w.order].status = "PENDING"
                        /\ <<w.row.status, w.status>> \in Agreed /\ Follows(w)
                        /\ w.outcome # "none" /\ w.attempt = None

WritesOrder(w) == w.phase = "saveOrder" =>
  /\ AgreesOn(w.order, w.status) /\ Follows(w)
  /\ w.attempt # None => w.outcome = "none"

Working == {"credit", "check", "saveWallet", "record"}

AtSeller(w, s) == w.phase # "credit" /\ s = w.seller

(* Seller s of order o has been credited n times, the amount amount times.  *)
Ledger(o, s, n, amount) ==
  /\ credits[o][s] = n /\ wallet[s][o] = amount
  /\ <<o, s>> \in attached <=> n = 1

Crediting(w) == w.phase \in Working =>
  /\ w.order \in settled
  /\ w.order \notin crossed => \A s \in PayeesOf[w.order] :
       /\ AtSeller(w, s) => s \notin w.todo
       /\ AtSeller(w, s) /\ w.phase = "saveWallet" => Ledger(w.order, s, 0, 0)
       /\ AtSeller(w, s) /\ w.phase = "record" => Ledger(w.order, s, 0, 1)
       /\ ~AtSeller(w, s) \/ w.phase = "check" =>
            Ledger(w.order, s, 0, 0) \/ Ledger(w.order, s, 1, 1)
       /\ ~AtSeller(w, s) /\ s \notin w.todo => Ledger(w.order, s, 1, 1)

Telling(w) == w.phase = "notify" =>
  /\ LedgerDone(w.order)
  /\ w.outcome = "approved" => w.order \in settled
  /\ w.outcome # "approved" => Announced(w.order)

OnCourse(w) ==
  /\ w.phase \notin Working \cup {"notify"} => LedgerDone(w.order) /\ Announced(w.order)
  /\ w.phase # "saveOrder" \/ w.outcome = "none" => AgreesOn(w.order, order[w.order].status)
  /\ StillPending(w) /\ WritesPayment(w) /\ WritesOrder(w) /\ Crediting(w) /\ Telling(w)

Exact(o) ==
  /\ \A p, q \in Requests : Busy(p, o) /\ Busy(q, o) => p = q
  /\ PaidOnce(o)
  /\ \A q \in Requests : Busy(q, o) => OnCourse(req[q])
  /\ (\A q \in Requests : ~Busy(q, o)) => AtRest(o)

QuietExact == \A o \in Orders : o \notin disturbed => Exact(o)

QuietInv == CopiesTrue /\ QuietExact

------------------------------------------------------------------------------
(* What a step on another order leaves as it was.                           *)
Kept(p) ==
  /\ order'[p] = order[p] /\ payment'[p] = payment[p] /\ credits'[p] = credits[p]
  /\ notices'[p] = notices[p] /\ (p \in settled' <=> p \in settled)
  /\ crossed \subseteq crossed'
  /\ p \notin crossed' => \A s \in Sellers :
       wallet'[s][p] = wallet[s][p] /\ (<<p, s>> \in attached' <=> <<p, s>> \in attached)

LEMMA FactsStay ==
  ASSUME NEW p \in Orders, Kept(p)
  PROVE  /\ LedgerDone(p) => LedgerDone(p)'
         /\ Announced(p) => Announced(p)'
         /\ PaidOnce(p) => PaidOnce(p)'
         /\ \A st : AgreesOn(p, st) => AgreesOn(p, st)'
<1>1. PayeesOf[p] \subseteq Sellers
  BY PaymentsAssumption
<1>2. Times(p)' = Times(p)
  BY DEF Kept, Times
<1>3. LedgerDone(p) => LedgerDone(p)'
  BY <1>1, <1>2 DEF LedgerDone, Kept
<1>4. Announced(p) => Announced(p)'
  BY DEF Announced, Kept
<1>5. PaidOnce(p) => PaidOnce(p)'
  BY DEF PaidOnce, Kept
<1>6. \A st : AgreesOn(p, st) => AgreesOn(p, st)'
  BY DEF AgreesOn, KeepsPayment, Kept
<1> QED
  BY <1>3, <1>4, <1>5, <1>6

LEMMA RestStays ==
  ASSUME NEW p \in Orders, Kept(p), AtRest(p) PROVE AtRest(p)'
<1>1. PICK st : st = order[p].status
  OBVIOUS
<1>2. AgreesOn(p, st) /\ LedgerDone(p) /\ Announced(p)
  BY <1>1 DEF AtRest
<1>3. AgreesOn(p, st)' /\ LedgerDone(p)' /\ Announced(p)'
  BY <1>2, FactsStay
<1>4. order'[p].status = st
  BY <1>1 DEF Kept
<1> QED
  BY <1>3, <1>4 DEF AtRest, AgreesOn, KeepsPayment

LEMMA CourseStays ==
  ASSUME NEW w \in Request, w.order \in Orders, Kept(w.order), OnCourse(w)
  PROVE  OnCourse(w)'
<1>1. PICK p \in Orders : p = w.order
  OBVIOUS
<1>2. PICK st : st = order[p].status
  OBVIOUS
<1>3. Kept(p) /\ order'[p].status = st /\ PayeesOf[p] \subseteq Sellers
  BY <1>1, <1>2, PaymentsAssumption DEF Kept
<1>4. /\ LedgerDone(p) => LedgerDone(p)'
      /\ Announced(p) => Announced(p)'
      /\ \A st1 : AgreesOn(p, st1) => AgreesOn(p, st1)'
  BY <1>3, FactsStay
<1>5. w.phase \notin Working \cup {"notify"} => LedgerDone(p)' /\ Announced(p)'
  BY <1>1, <1>4 DEF OnCourse
<1>6. (w.phase # "saveOrder" \/ w.outcome = "none") => AgreesOn(p, st)'
  BY <1>1, <1>2, <1>4 DEF OnCourse
<1>7. (w.phase # "saveOrder" \/ w.outcome = "none") => AgreesOn(p, order[p].status)'
  BY <1>3, <1>6 DEF AgreesOn, KeepsPayment
<1>8. StillPending(w)'
  BY <1>1, <1>3 DEF OnCourse, StillPending, Kept
<1>9. Follows(w) => Follows(w)'
  BY <1>1, <1>3 DEF Follows, Kept
<1>10. WritesPayment(w)'
  BY <1>1, <1>3, <1>9 DEF OnCourse, WritesPayment, KeepsPayment, Kept
<1>11. WritesOrder(w)'
  BY <1>1, <1>4, <1>9 DEF OnCourse, WritesOrder
<1>12. Crediting(w)'
  BY <1>1, <1>3 DEF OnCourse, Crediting, AtSeller, Ledger, Kept
<1>13. Telling(w)'
  BY <1>1, <1>3, <1>4 DEF OnCourse, Telling, Kept
<1> QED
  BY <1>1, <1>5, <1>7, <1>8, <1>10, <1>11, <1>12, <1>13 DEF OnCourse

------------------------------------------------------------------------------
(* Request r, which works on o or on nothing, becomes w.                    *)
LEMMA ExactMoves ==
  ASSUME IInv, QuietExact, NEW o \in Orders, NEW r \in Requests, NEW w \in Request,
         req' = [req EXCEPT ![r] = w],
         Busy(r, o) \/ req[r].phase = "idle", w.phase = "idle" \/ w.order = o,
         \A p \in Orders \ {o} : Kept(p), disturbed \subseteq disturbed',
         o \notin disturbed' =>
           /\ \A q \in Requests \ {r} : ~Busy(q, o)
           /\ PaidOnce(o)'
           /\ w.phase = "idle" => AtRest(o)'
           /\ w.phase # "idle" => OnCourse(w)'
  PROVE  QuietExact'
<1>1. /\ \A q \in Requests : req[q] \in Request /\ Formed(req[q])
      /\ \A q \in Requests : req'[q] = IF q = r THEN w ELSE req[q]
  BY DEF IInv, Typed, RequestsFormed
<1> SUFFICES ASSUME NEW p \in Orders, p \notin disturbed' PROVE Exact(p)'
  BY DEF QuietExact
<1>2. Exact(p) /\ p \notin disturbed
  BY DEF QuietExact
<1>3. \A q \in Requests \ {r} : Busy(q, p)' <=> Busy(q, p)
  BY <1>1 DEF Busy
<1>4. Busy(r, p)' <=> (w.phase # "idle" /\ p = o)
  BY <1>1 DEF Busy
<1>5. CASE p = o
  <2>1. /\ \A q \in Requests \ {r} : ~Busy(q, o)
        /\ PaidOnce(o)'
        /\ w.phase = "idle" => AtRest(o)'
        /\ w.phase # "idle" => OnCourse(w)'
    BY <1>5
  <2>2. \A q \in Requests : Busy(q, o)' => (q = r /\ w.phase # "idle")
    BY <1>3, <1>4, <1>5, <2>1
  <2>3. w.phase # "idle" => OnCourse(req[r])'
    BY <1>1, <2>1 DEF OnCourse, StillPending, WritesPayment, WritesOrder, Crediting,
                      AtSeller, Telling, Follows
  <2>4. \A q \in Requests : Busy(q, o)' => OnCourse(req[q])'
    BY <2>2, <2>3
  <2>5. (\A q \in Requests : ~Busy(q, o)') => AtRest(o)'
    BY <1>4, <1>5, <2>1
  <2>6. \A q1, q2 \in Requests : Busy(q1, o)' /\ Busy(q2, o)' => q1 = q2
    BY <2>2
  <2> QED
    BY <1>5, <2>1, <2>4, <2>5, <2>6 DEF Exact
<1>6. CASE p # o
  <2>1. Kept(p)
    BY <1>6
  <2>2. ~Busy(r, p) /\ ~Busy(r, p)'
    BY <1>4, <1>6 DEF Busy
  <2>3. \A q \in Requests : Busy(q, p)' <=> Busy(q, p)
    BY <1>3, <2>2
  <2>4. PaidOnce(p)'
    BY <1>2, <2>1, FactsStay DEF Exact
  <2>5. ASSUME NEW q \in Requests, Busy(q, p) PROVE OnCourse(req[q])'
    <3>1. q # r
      BY <2>2, <2>5
    <3>2. PICK v \in Request : v = req[q]
      BY <1>1
    <3>3. v.order = p /\ OnCourse(v)
      BY <1>2, <2>5, <3>2 DEF Exact, Busy
    <3>4. OnCourse(v)'
      BY <2>1, <3>3, CourseStays
    <3>5. req'[q] = v
      BY <1>1, <3>1, <3>2
    <3> QED
      BY <3>4, <3>5 DEF OnCourse, StillPending, WritesPayment, WritesOrder, Crediting,
                        AtSeller, Telling, Follows
  <2>6. (\A q \in Requests : ~Busy(q, p)') => AtRest(p)'
    BY <1>2, <2>1, <2>3, RestStays DEF Exact
  <2>7. \A q1, q2 \in Requests : Busy(q1, p)' /\ Busy(q2, p)' => q1 = q2
    BY <1>2, <2>3 DEF Exact
  <2> QED
    BY <2>3, <2>4, <2>5, <2>6, <2>7 DEF Exact
<1> QED
  BY <1>5, <1>6

LEMMA CopiesKept ==
  ASSUME IInv, CopiesTrue, NEW r \in Requests, NEW w \in Request,
         req' = [req EXCEPT ![r] = w], ~Holding(w), UNCHANGED <<wallet, attached, crossed>>
  PROVE  CopiesTrue'
<1>1. \A q \in Requests : req'[q] = IF q = r THEN w ELSE req[q]
  BY DEF IInv, Typed
<1>2. \A q \in Requests : Holding(req[q])' => (q # r /\ Holding(req[q]) /\ req'[q] = req[q])
  BY <1>1 DEF Holding
<1>3. HeldApart'
  BY <1>2 DEF CopiesTrue, HeldApart
<1>4. \A q \in Requests : CopyTrue(req[q])'
  BY <1>2 DEF CopiesTrue, CopyTrue, Holding
<1> QED
  BY <1>3, <1>4 DEF CopiesTrue

(* A request starts on an order on which nothing else goes on.              *)
Starts(r, o, w) ==
  /\ req' = [req EXCEPT ![r] = w] /\ req[r].phase = "idle" /\ crossed' = crossed
  /\ disturbed \subseteq disturbed'
  /\ (\E q \in Requests : Busy(q, o)) => o \in disturbed'

LEMMA StartStarts ==
  ASSUME NEW r, NEW o, NEW j, Start(r, o, j), NEW w, w = [j EXCEPT !.order = o]
  PROVE  Starts(r, o, w)
BY DEF Start, Starts

LEMMA QuietStart ==
  ASSUME IInv, QuietInv, NEW r \in Requests, NEW o \in Orders, NEW w \in Request,
         Starts(r, o, w), w.order = o, w.phase # "idle", ~Holding(w),
         UNCHANGED <<order, payment, credits, attached, notices, wallet, settled>>,
         PaidOnce(o) /\ AtRest(o) => OnCourse(w)
  PROVE  QuietInv'
<1>1. /\ req' = [req EXCEPT ![r] = w] /\ req[r].phase = "idle" /\ crossed' = crossed
      /\ disturbed \subseteq disturbed'
      /\ (\E q \in Requests : Busy(q, o)) => o \in disturbed'
  BY DEF Starts
<1>2. \A p \in Orders : Kept(p)
  BY <1>1 DEF Kept
<1>3. CopiesTrue'
  BY <1>1, CopiesKept DEF QuietInv
<1>4. ASSUME o \notin disturbed'
      PROVE  /\ \A q \in Requests \ {r} : ~Busy(q, o)
             /\ PaidOnce(o)'
             /\ w.phase # "idle" => OnCourse(w)'
  <2>1. \A q \in Requests : ~Busy(q, o)
    BY <1>1, <1>4
  <2>2. PaidOnce(o) /\ AtRest(o)
    BY <1>1, <1>4, <2>1 DEF QuietInv, QuietExact, Exact
  <2>3. OnCourse(w)
    BY <2>2
  <2> QED
    BY <1>2, <2>1, <2>2, <2>3, CourseStays, FactsStay
<1>5. QuietExact'
  BY <1>1, <1>2, <1>4, ExactMoves DEF QuietInv
<1> QED
  BY <1>3, <1>5 DEF QuietInv

(* It goes on, and becomes w.                                               *)
LEMMA ExactRuns ==
  ASSUME IInv, QuietInv, NEW r \in Requests, NEW v \in Request, v = req[r],
         v.phase # "idle", NEW w \in Request, req' = [req EXCEPT ![r] = w],
         w.phase = "idle" \/ w.order = v.order,
         \A p \in Orders \ {v.order} : Kept(p), disturbed \subseteq disturbed',
         v.order \notin disturbed' /\ PaidOnce(v.order) /\ OnCourse(v) =>
           /\ PaidOnce(v.order)'
           /\ w.phase = "idle" => AtRest(v.order)'
           /\ w.phase # "idle" => OnCourse(w)'
  PROVE  QuietExact'
<1>1. PICK o \in Orders : o = v.order
  BY DEF IInv, RequestsFormed, Formed, Shaped
<1>2. Busy(r, o)
  BY <1>1 DEF Busy
<1>3. ASSUME o \notin disturbed'
      PROVE  (\A q \in Requests \ {r} : ~Busy(q, o)) /\ PaidOnce(o) /\ OnCourse(v)
  BY <1>2, <1>3 DEF QuietInv, QuietExact, Exact
<1> QED
  BY <1>1, <1>2, <1>3, ExactMoves DEF QuietInv

LEMMA QuietRun ==
  ASSUME IInv, QuietInv, NEW r \in Requests, NEW v \in Request, v = req[r],
         v.phase # "idle", NEW w \in Request, req' = [req EXCEPT ![r] = w],
         w.phase = "idle" \/ w.order = v.order, ~Holding(w),
         \A p \in Orders \ {v.order} : Kept(p), disturbed \subseteq disturbed',
         UNCHANGED <<wallet, attached, crossed>>,
         v.order \notin disturbed' /\ PaidOnce(v.order) /\ OnCourse(v) =>
           /\ PaidOnce(v.order)'
           /\ w.phase = "idle" => AtRest(v.order)'
           /\ w.phase # "idle" => OnCourse(w)'
  PROVE  QuietInv'
<1>1. QuietExact'
  BY ExactRuns
<1>2. CopiesTrue'
  BY CopiesKept DEF QuietInv
<1> QED
  BY <1>1, <1>2 DEF QuietInv

(* It goes on or ends, and no row of an order changes.                      *)
LEMMA QuietRunsAside ==
  ASSUME IInv, QuietInv, NEW r \in Requests, NEW v \in Request, v = req[r],
         v.phase # "idle", NEW w \in Request, req' = [req EXCEPT ![r] = w],
         w.phase = "idle" \/ w.order = v.order, ~Holding(w),
         UNCHANGED <<order, payment, credits, attached, notices, wallet, settled, crossed>>,
         disturbed \subseteq disturbed',
         v.order \notin disturbed' /\ PaidOnce(v.order) /\ OnCourse(v) =>
           /\ w.phase = "idle" => AtRest(v.order)
           /\ w.phase # "idle" => OnCourse(w)
  PROVE  QuietInv'
<1>1. PICK o \in Orders : o = v.order
  BY DEF IInv, RequestsFormed, Formed, Shaped
<1>2. \A p \in Orders : Kept(p)
  BY DEF Kept
<1>3. AtRest(o) => AtRest(o)'
  BY <1>2, RestStays
<1>4. PaidOnce(o) => PaidOnce(o)'
  BY <1>2, FactsStay
<1>5. OnCourse(w) /\ w.phase # "idle" => OnCourse(w)'
  BY <1>1, <1>2, CourseStays
<1> QED
  BY <1>1, <1>2, <1>3, <1>4, <1>5, QuietRun DEF Holding

(* Steps that write nothing of this.                                        *)
LEMMA QuietSame ==
  ASSUME QuietInv, UNCHANGED <<order, payment, credits, attached, notices, wallet, settled, crossed,
                               disturbed, req>>
  PROVE  QuietInv'
<1>1. CopiesTrue'
  BY DEF QuietInv, CopiesTrue, HeldApart, CopyTrue, Holding
<1>2. QuietExact'
  <2> SUFFICES ASSUME NEW p \in Orders, p \notin disturbed PROVE Exact(p)'
    BY DEF QuietExact
  <2>1. Exact(p)
    BY DEF QuietInv, QuietExact
  <2>2. Kept(p)
    BY DEF Kept
  <2> QED
    BY <2>1 DEF Exact, Busy, PaidOnce, AtRest, LedgerDone, Times, Announced, AgreesOn,
                KeepsPayment, OnCourse, StillPending, WritesPayment, WritesOrder, Follows,
                Crediting, AtSeller, Ledger, Telling
<1> QED
  BY <1>1, <1>2 DEF QuietInv

------------------------------------------------------------------------------
(* The requests that start.                                                 *)
LEMMA QuietCreatePreference ==
  ASSUME IInv, QuietInv, NEW r \in Requests, NEW o \in Orders, CreatePreference(r, o)
  PROVE  QuietInv'
<1>1. PICK st : st = order[o].status
  OBVIOUS
<1>2. st = "PENDING" /\ order[o].method = "MERCADO_PAGO" /\ st \in OrderStatus
  BY <1>1 DEF CreatePreference, OrderStatus
<1>3. PICK w : w = [[Idle EXCEPT !.phase = "saveOrder", !.status = st] EXCEPT !.order = o]
  OBVIOUS
<1>4. /\ w \in Request /\ w.phase = "saveOrder" /\ w.order = o /\ w.status = st
      /\ w.outcome = "none" /\ w.attempt = None
  BY <1>2, <1>3, IdleFormed DEF Request, Idle, Phases
<1>5. Starts(r, o, w)
  BY <1>1, <1>3, StartStarts DEF CreatePreference
<1>6. AtRest(o) => OnCourse(w)
  BY <1>1, <1>2, <1>4 DEF OnCourse, AtRest, StillPending, WritesPayment, WritesOrder,
     Follows, AgreesOn, KeepsPayment, Crediting, Telling, Working
<1>7. UNCHANGED <<order, payment, credits, attached, notices, wallet, settled>>
  BY DEF CreatePreference, rows, money
<1> QED
  BY <1>4, <1>5, <1>6, <1>7, QuietStart DEF Holding

LEMMA QuietWebhook ==
  ASSUME IInv, QuietInv, NEW r \in Requests, NEW c \in Charges, MercadoPagoWebhook(r, c)
  PROVE  QuietInv'
<1>1. PICK o : o = charge[c].order
  OBVIOUS
<1>2. PICK st : st = charge[c].status
  OBVIOUS
<1>3. PICK was : was = order[o].status
  OBVIOUS
<1>4. /\ o \in Orders /\ st \in AttemptStatus /\ was \in OrderStatus
      /\ order[o].method = "MERCADO_PAGO"
  BY <1>1, <1>2, <1>3 DEF MercadoPagoWebhook, IInv, Typed, RowsTyped, Charge, Order
<1>5. PICK w : w = [[Idle EXCEPT !.phase = "saveOrder", !.status = PaidStatus(st, was),
                       !.outcome = Follow(st), !.pays = FirstApproval(was)]
                      EXCEPT !.order = o]
  OBVIOUS
<1>6. /\ PaidStatus(st, was) \in OrderStatus
      /\ Follow(st) \in {"none", "approved", "rejected"}
      /\ FirstApproval(was) \in BOOLEAN
  BY <1>4 DEF PaidStatus, OrderStatus, Follow, FirstApproval
<1>7. /\ w \in Request /\ w.phase = "saveOrder" /\ w.order = o /\ w.attempt = None
      /\ w.status = PaidStatus(st, was) /\ w.outcome = Follow(st)
      /\ w.pays = FirstApproval(was)
  BY <1>4, <1>5, <1>6, IdleFormed DEF Request, Idle, Phases
<1>8. Starts(r, o, w)
  BY <1>1, <1>2, <1>3, <1>5, StartStarts DEF MercadoPagoWebhook
<1>9. ASSUME PaidOnce(o) PROVE Follows(w)
  <2>1. was = "PAID" => o \in settled
    BY <1>3, <1>9 DEF PaidOnce
  <2>2. PaidStatus(st, was) = "PAID" => (st = "APPROVED" \/ was = "PAID")
    BY DEF PaidStatus
  <2>3. Follow(st) = "approved" <=> st = "APPROVED"
    BY DEF Follow
  <2>4. st = "APPROVED" => PaidStatus(st, was) = "PAID"
    BY DEF PaidStatus
  <2>5. FirstApproval(was) <=> was # "PAID"
    BY DEF FirstApproval
  <2> QED
    BY <1>7, <2>1, <2>2, <2>3, <2>4, <2>5 DEF Follows
<1>10. PaidOnce(o) /\ AtRest(o) => OnCourse(w)
  BY <1>4, <1>7, <1>9 DEF OnCourse, AtRest, StillPending, WritesPayment, WritesOrder,
     AgreesOn, KeepsPayment, Crediting, Telling, Working
<1>11. UNCHANGED <<order, payment, credits, attached, notices, wallet, settled>>
  BY DEF MercadoPagoWebhook, rows, money
<1> QED
  BY <1>4, <1>7, <1>8, <1>10, <1>11, QuietStart DEF Holding

LEMMA NewPaymentTyped == NewPayment \in Payment /\ NewPayment.status = "PENDING"
BY DEF NewPayment, Payment, PaymentStatus

LEMMA QuietNotifyTransfer ==
  ASSUME IInv, QuietInv, NEW r \in Requests, NEW o \in Orders, NotifyTransfer(r, o)
  PROVE  QuietInv'
<1>1. /\ order[o].status = "PENDING" /\ order[o].method = "TRANSFER"
      /\ payment[o] # None => payment[o].status = "PENDING"
  BY DEF NotifyTransfer
<1>2. UNCHANGED <<order, payment, credits, attached, notices, wallet, settled>>
  BY DEF NotifyTransfer, rows, money
<1>3. CASE payment[o] = None
  <2>1. PICK row \in Payment : row = NewPayment /\ row.status = "PENDING"
    BY NewPaymentTyped
  <2>2. PICK w : w = [[Idle EXCEPT !.phase = "insertPayment", !.row = row] EXCEPT !.order = o]
    OBVIOUS
  <2>3. /\ w \in Request /\ w.phase = "insertPayment" /\ w.order = o
        /\ w.outcome = "none" /\ w.row = row
    BY <2>2, IdleFormed DEF Request, Idle, Phases
  <2>4. Starts(r, o, w)
    BY <1>3, <2>1, <2>2, StartStarts DEF NotifyTransfer
  <2>5. AtRest(o) => OnCourse(w)
    BY <1>1, <2>1, <2>3 DEF OnCourse, AtRest, StillPending, WritesPayment, WritesOrder,
       Crediting, Telling, Working
  <2> QED
    BY <1>2, <2>3, <2>4, <2>5, QuietStart DEF Holding
<1>4. CASE payment[o] # None
  <2>1. PICK row \in Payment : row = payment[o]
    BY <1>4 DEF IInv, Typed, RowsTyped
  <2>2. PICK w : w = [[Idle EXCEPT !.phase = "savePayment", !.row = row] EXCEPT !.order = o]
    OBVIOUS
  <2>3. /\ w \in Request /\ w.phase = "savePayment" /\ w.order = o /\ w.status = None
        /\ w.row = row
    BY <2>2, IdleFormed DEF Request, Idle, Phases
  <2>4. Starts(r, o, w)
    BY <1>4, <2>1, <2>2, StartStarts DEF NotifyTransfer
  <2>5. AtRest(o) => OnCourse(w)
    BY <1>4, <2>1, <2>3 DEF OnCourse, AtRest, StillPending, WritesPayment, WritesOrder,
       Crediting, Telling, Working
  <2> QED
    BY <1>2, <2>3, <2>4, <2>5, QuietStart DEF Holding
<1> QED
  BY <1>3, <1>4

LEMMA QuietUploadProof ==
  ASSUME IInv, QuietInv, NEW r \in Requests, NEW o \in Orders, UploadProof(r, o)
  PROVE  QuietInv'
<1>1. PICK row : row = [payment[o] EXCEPT !.proof = TRUE]
  OBVIOUS
<1>2. row \in Payment /\ row.status = payment[o].status /\ payment[o] # None
  BY <1>1 DEF UploadProof, IInv, Typed, RowsTyped, Payment
<1>3. PICK w : w = [[Idle EXCEPT !.phase = "savePayment", !.row = row] EXCEPT !.order = o]
  OBVIOUS
<1>4. /\ w \in Request /\ w.phase = "savePayment" /\ w.order = o /\ w.status = None
      /\ w.row = row
  BY <1>2, <1>3, IdleFormed DEF Request, Idle, Phases
<1>5. Starts(r, o, w)
  BY <1>1, <1>3, StartStarts DEF UploadProof
<1>6. AtRest(o) => OnCourse(w)
  BY <1>2, <1>4 DEF OnCourse, AtRest, StillPending, WritesPayment, WritesOrder,
     Crediting, Telling, Working
<1>7. UNCHANGED <<order, payment, credits, attached, notices, wallet, settled>>
  BY DEF UploadProof, rows, money
<1> QED
  BY <1>4, <1>5, <1>6, <1>7, QuietStart DEF Holding

LEMMA QuietDecideManually ==
  ASSUME IInv, QuietInv, NEW r \in Requests, NEW o \in Orders, NEW verdict \in Verdict,
         DecideManually(r, o, verdict)
  PROVE  QuietInv'
<1>1. PICK job : job = [Idle EXCEPT !.outcome = FollowVerdict(verdict),
                                    !.pays = verdict = "COMPLETED"]
  OBVIOUS
<1>2. /\ FollowVerdict(verdict) \in {"approved", "rejected"}
      /\ FollowVerdict(verdict) = "approved" <=> verdict = "COMPLETED"
      /\ verdict \in PaymentStatus /\ OrderAfter(verdict) \in OrderStatus
      /\ OrderAfter(verdict) = "PAID" <=> verdict = "COMPLETED"
      /\ <<verdict, OrderAfter(verdict)>> \in Agreed
  BY DEF FollowVerdict, Verdict, OrderAfter, PaymentStatus, OrderStatus, Agreed
<1>3. payment[o] \in Payment /\ payment[o] # None
      /\ order[o].method \in {"TRANSFER", "GETNET_QR"}
  BY DEF DecideManually, IInv, Typed, RowsTyped
<1>4. UNCHANGED <<order, payment, credits, attached, notices, wallet, settled>>
  BY DEF DecideManually, rows, money
<1>6. CASE Decidable(o)
  <2>1. PICK row : row = [payment[o] EXCEPT !.status = verdict]
    OBVIOUS
  <2>2. row \in Payment /\ row.status = verdict
    BY <1>2, <1>3, <2>1 DEF Payment
  <2>3. PICK st \in OrderStatus : st = OrderAfter(verdict) /\ st # None
    BY <1>2, NoRowAssumption
  <2>4. PICK j : j = [job EXCEPT !.phase = "savePayment", !.row = row, !.status = st]
    OBVIOUS
  <2>5. PICK w : w = [j EXCEPT !.order = o]
    OBVIOUS
  <2>6. /\ w \in Request /\ w.phase = "savePayment" /\ w.order = o /\ w.row = row
        /\ w.status = st /\ w.outcome = FollowVerdict(verdict) /\ w.attempt = None
        /\ w.pays = (verdict = "COMPLETED")
    <3>1. PICK follow \in {"approved", "rejected"} : follow = FollowVerdict(verdict)
      BY <1>2
    <3>2. PICK pays \in BOOLEAN : pays = (verdict = "COMPLETED")
      OBVIOUS
    <3>3. w = [[Idle EXCEPT !.outcome = follow, !.pays = pays, !.phase = "savePayment",
                            !.row = row, !.status = st] EXCEPT !.order = o]
      BY <1>1, <2>4, <2>5, <3>1, <3>2
    <3>4. /\ w \in Request /\ w.phase = "savePayment" /\ w.order = o /\ w.row = row
          /\ w.status = st /\ w.outcome = follow /\ w.attempt = None /\ w.pays = pays
      BY <2>2, <3>3, IdleFormed DEF Request, Idle, Phases
    <3> QED
      BY <3>1, <3>2, <3>4
  <2>7. Starts(r, o, w)
    <3>1. Start(r, o, j)
      BY <1>1, <1>6, <2>1, <2>3, <2>4 DEF DecideManually
    <3> QED
      BY <2>5, <3>1, StartStarts
  <2>8. Follows(w)
    BY <1>2, <2>3, <2>6 DEF Follows
  <2>9. WritesPayment(w)
    BY <1>2, <1>3, <1>6, <2>2, <2>3, <2>6, <2>8 DEF WritesPayment, KeepsPayment, Decidable
  <2>10. AtRest(o) => OnCourse(w)
    BY <2>6, <2>9 DEF OnCourse, AtRest, StillPending, WritesOrder, Crediting, Telling, Working
  <2> QED
    BY <1>4, <2>6, <2>7, <2>10, QuietStart DEF Holding
<1>7. CASE ~Decidable(o)
  <2>1. PICK j : j = [job EXCEPT !.phase = "notify", !.pays = FALSE]
    OBVIOUS
  <2>2. PICK w : w = [j EXCEPT !.order = o]
    OBVIOUS
  <2>3. /\ w \in Request /\ w.phase = "notify" /\ w.order = o
        /\ w.outcome = FollowVerdict(verdict)
    <3>1. PICK follow \in {"approved", "rejected"} : follow = FollowVerdict(verdict)
      BY <1>2
    <3>2. w = [[Idle EXCEPT !.outcome = follow, !.pays = FALSE, !.phase = "notify"]
                 EXCEPT !.order = o]
      BY <1>1, <2>1, <2>2, <3>1 DEF Idle
    <3> QED
      BY <3>1, <3>2, IdleFormed DEF Request, Idle, Phases
  <2>4. Starts(r, o, w)
    <3>1. Start(r, o, j)
      BY <1>1, <1>7, <2>1 DEF DecideManually
    <3> QED
      BY <2>2, <3>1, StartStarts
  <2>5. order[o].status = OrderAfter(verdict)
    BY <1>7 DEF DecideManually, SameVerdict
  <2>6. PaidOnce(o) /\ AtRest(o) => OnCourse(w)
    BY <1>2, <2>3, <2>5 DEF PaidOnce, OnCourse, AtRest, StillPending, WritesPayment,
       WritesOrder, Crediting, Telling, Working
  <2> QED
    BY <1>4, <2>3, <2>4, <2>6, QuietStart DEF Holding
<1> QED
  BY <1>6, <1>7

LEMMA QuietCreateQr ==
  ASSUME IInv, QuietInv, NEW r \in Requests, NEW o \in Orders, CreateQr(r, o)
  PROVE  QuietInv'
<1>1. PICK st \in OrderStatus : st = order[o].status /\ st = "PENDING"
  BY DEF CreateQr, IInv, Typed, RowsTyped, OrderStatus
<1>2. PICK stale \in SUBSET Attempts : stale = ExpiredQr(o)
  BY DEF ExpiredQr, AttemptsOf
<1>3. PICK job : job = [Idle EXCEPT !.status = st, !.stale = stale]
  OBVIOUS
<1>5. UNCHANGED <<order, payment, credits, attached, notices, wallet, settled>>
  BY DEF CreateQr, rows, money
<1>6. CASE payment[o] = None
  <2>1. PICK row \in Payment : row = NewPayment /\ row.status = "PENDING"
    BY NewPaymentTyped
  <2>2. PICK w : w = [[job EXCEPT !.phase = "insertPayment", !.row = row] EXCEPT !.order = o]
    OBVIOUS
  <2>3. /\ w \in Request /\ w.phase = "insertPayment" /\ w.order = o
        /\ w.outcome = "none" /\ w.row = row /\ w.status = st
    BY <1>1, <1>2, <1>3, <2>1, <2>2, IdleFormed DEF Request, Idle, Phases
  <2>4. Starts(r, o, w)
    BY <1>1, <1>2, <1>3, <1>6, <2>1, <2>2, StartStarts DEF CreateQr
  <2>5. AtRest(o) => OnCourse(w)
    BY <1>1, <2>1, <2>3 DEF OnCourse, AtRest, StillPending, WritesPayment, WritesOrder,
       Crediting, Telling, Working
  <2> QED
    BY <1>5, <2>3, <2>4, <2>5, QuietStart DEF Holding
<1>7. CASE payment[o] # None
  <2>1. PICK w : w = [AfterPayment(job) EXCEPT !.order = o]
    OBVIOUS
  <2>2. /\ w \in Request /\ w.phase \in {"insertAttempt", "expire"} /\ w.order = o
        /\ w.outcome = "none" /\ w.status = st
    <3>1. PICK ph \in {"insertAttempt", "expire"} :
            ph = IF stale = {} THEN "insertAttempt" ELSE "expire"
      OBVIOUS
    <3>2. w = [[Idle EXCEPT !.status = st, !.stale = stale, !.row = None, !.phase = ph]
                 EXCEPT !.order = o]
      BY <1>3, <2>1, <3>1 DEF AfterPayment, Idle
    <3> QED
      BY <3>2, IdleFormed DEF Request, Idle, Phases
  <2>3. Starts(r, o, w)
    BY <1>1, <1>2, <1>3, <1>7, <2>1, StartStarts DEF CreateQr
  <2>4. AtRest(o) => OnCourse(w)
    BY <1>1, <2>2 DEF OnCourse, AtRest, StillPending, WritesPayment, WritesOrder,
       Crediting, Telling, Working
  <2> QED
    BY <1>5, <2>2, <2>3, <2>4, QuietStart DEF Holding
<1> QED
  BY <1>6, <1>7

LEMMA QuietQrWebhook ==
  ASSUME IInv, QuietInv, NEW r \in Requests, NEW a \in Attempts, QrWebhook(r, a)
  PROVE  QuietInv'
<1>1. PICK o : o = attempt[a].order
  OBVIOUS
<1>2. PICK c : c = attempt[a].charge
  OBVIOUS
<1>3. attempt[a] # None /\ c # None /\ o \in Orders /\ c \in Charges
  BY <1>1, <1>2 DEF QrWebhook, IInv, Typed, RowsTyped, Attempt
<1>4. charge[c] # None
  BY <1>1, <1>2, <1>3 DEF IInv, AttemptsLinked, LinkedRow
<1>5. PICK st \in AttemptStatus : st = charge[c].status
  BY <1>3, <1>4 DEF IInv, Typed, RowsTyped, Charge
<1>6. PICK w : w = [[Idle EXCEPT !.phase = "apply", !.attempt = a, !.target = st]
                      EXCEPT !.order = o]
  OBVIOUS
<1>7. w \in Request /\ w.phase = "apply" /\ w.order = o /\ w.outcome = "none"
  BY <1>3, <1>5, <1>6, IdleFormed DEF Request, Idle, Phases
<1>8. Starts(r, o, w)
  BY <1>1, <1>2, <1>5, <1>6, StartStarts DEF QrWebhook
<1>9. AtRest(o) => OnCourse(w)
  BY <1>7 DEF OnCourse, AtRest, StillPending, WritesPayment, WritesOrder,
     Crediting, Telling, Working
<1>10. UNCHANGED <<order, payment, credits, attached, notices, wallet, settled>>
  BY DEF QrWebhook, rows, money
<1> QED
  BY <1>3, <1>7, <1>8, <1>9, <1>10, QuietStart DEF Holding

LEMMA QuietLockForLink ==
  ASSUME IInv, QuietInv, NEW r \in Requests, NEW o \in Orders, LockForLink(r, o)
  PROVE  QuietInv'
<1>1. PICK w : w = [[Idle EXCEPT !.phase = "link"] EXCEPT !.order = o]
  OBVIOUS
<1>2. w \in Request /\ w.phase = "link" /\ w.order = o /\ w.outcome = "none"
  BY <1>1, IdleFormed DEF Request, Idle, Phases
<1>3. Starts(r, o, w)
  BY <1>1, StartStarts DEF LockForLink
<1>4. AtRest(o) => OnCourse(w)
  BY <1>2 DEF OnCourse, AtRest, StillPending, WritesPayment, WritesOrder,
     Crediting, Telling, Working
<1>5. UNCHANGED <<order, payment, credits, attached, notices, wallet, settled>>
  BY DEF LockForLink, rows, money
<1> QED
  BY <1>2, <1>3, <1>4, <1>5, QuietStart DEF Holding

------------------------------------------------------------------------------
(* The requests that go on and write no row of their order.                 *)
LEMMA CourseEnds ==
  ASSUME NEW v, OnCourse(v), v.phase \notin Working \cup {"notify"},
         v.phase # "saveOrder" \/ v.outcome = "none"
  PROVE  AtRest(v.order)
BY DEF OnCourse, AtRest

LEMMA QuietExpireQrs ==
  ASSUME IInv, QuietInv, NEW r \in Requests, ExpireQrs(r) PROVE QuietInv'
<1>1. PICK v \in Request : v = req[r] /\ v.phase = "expire"
  BY DEF IInv, Typed, ExpireQrs
<1>2. PICK w : w = [v EXCEPT !.phase = "insertAttempt", !.stale = {}]
  OBVIOUS
<1>3. /\ w \in Request /\ w.phase = "insertAttempt" /\ w.order = v.order
      /\ w.status = v.status /\ w.outcome = v.outcome
  BY <1>2 DEF Request, Phases
<1>4. req' = [req EXCEPT ![r] = w]
  BY <1>1, <1>2 DEF ExpireQrs, IInv, Typed
<1>5. UNCHANGED <<order, payment, credits, attached, notices, wallet, settled, crossed, disturbed>>
  BY DEF ExpireQrs, money, history
<1>6. OnCourse(v) => OnCourse(w)
  BY <1>1, <1>3 DEF OnCourse, StillPending, WritesPayment, WritesOrder, Crediting,
                    Telling, Working
<1> QED
  BY <1>1, <1>3, <1>4, <1>5, <1>6, QuietRunsAside DEF Holding

LEMMA QuietInsertQrAttempt ==
  ASSUME IInv, QuietInv, NEW r \in Requests, NEW a \in Attempts, InsertQrAttempt(r, a)
  PROVE  QuietInv'
<1>1. PICK v \in Request : v = req[r] /\ v.phase = "insertAttempt"
  BY DEF IInv, Typed, InsertQrAttempt
<1>2. PICK w : w = [v EXCEPT !.phase = "mint", !.attempt = a]
  OBVIOUS
<1>3. /\ w \in Request /\ w.phase = "mint" /\ w.order = v.order
      /\ w.status = v.status /\ w.outcome = v.outcome
  BY <1>2 DEF Request, Phases
<1>4. req' = [req EXCEPT ![r] = w]
  BY <1>1, <1>2 DEF InsertQrAttempt, IInv, Typed
<1>5. UNCHANGED <<order, payment, credits, attached, notices, wallet, settled, crossed, disturbed>>
  BY DEF InsertQrAttempt, money, history
<1>6. OnCourse(v) => OnCourse(w)
  BY <1>1, <1>3 DEF OnCourse, StillPending, WritesPayment, WritesOrder, Crediting,
                    Telling, Working
<1> QED
  BY <1>1, <1>3, <1>4, <1>5, <1>6, QuietRunsAside DEF Holding

LEMMA QuietMintQr ==
  ASSUME IInv, QuietInv, NEW r \in Requests, NEW c \in Charges, MintQr(r, c)
  PROVE  QuietInv'
<1>1. PICK v \in Request : v = req[r] /\ v.phase = "mint"
  BY DEF IInv, Typed, MintQr
<1>2. PICK w : w = [v EXCEPT !.phase = "saveAttempt", !.charge = c]
  OBVIOUS
<1>3. /\ w \in Request /\ w.phase = "saveAttempt" /\ w.order = v.order
      /\ w.status = v.status /\ w.outcome = v.outcome
  BY <1>2 DEF Request, Phases
<1>4. req' = [req EXCEPT ![r] = w]
  BY <1>1, <1>2 DEF MintQr, IInv, Typed
<1>5. UNCHANGED <<order, payment, credits, attached, notices, wallet, settled, crossed, disturbed>>
  BY DEF MintQr, rows, money, history
<1>6. OnCourse(v) => OnCourse(w)
  BY <1>1, <1>3 DEF OnCourse, StillPending, WritesPayment, WritesOrder, Crediting,
                    Telling, Working
<1> QED
  BY <1>1, <1>3, <1>4, <1>5, <1>6, QuietRunsAside DEF Holding

(* The order is saved as it was read, before Getnet was asked.              *)
LEMMA QuietSaveQrAttempt ==
  ASSUME IInv, QuietInv, NEW r \in Requests, SaveQrAttempt(r) PROVE QuietInv'
<1>1. PICK v \in Request : v = req[r] /\ v.phase = "saveAttempt"
  BY DEF IInv, Typed, SaveQrAttempt
<1>2. PICK w : w = [v EXCEPT !.phase = "saveOrder"]
  OBVIOUS
<1>3. /\ w \in Request /\ w.phase = "saveOrder" /\ w.order = v.order
      /\ w.status = v.status /\ w.outcome = v.outcome
  BY <1>2 DEF Request, Phases
<1>4. req' = [req EXCEPT ![r] = w]
  BY <1>1, <1>2 DEF SaveQrAttempt, IInv, Typed
<1>5. UNCHANGED <<order, payment, credits, attached, notices, wallet, settled, crossed, disturbed>>
  BY DEF SaveQrAttempt, money, history
<1>6. ASSUME OnCourse(v) PROVE OnCourse(w)
  <2>1. /\ order[v.order].status = "PENDING" /\ v.outcome = "none" /\ v.status = "PENDING"
        /\ AgreesOn(v.order, order[v.order].status)
    BY <1>1, <1>6 DEF OnCourse, StillPending
  <2>2. WritesOrder(w)
    BY <1>3, <2>1 DEF WritesOrder, Follows
  <2> QED
    BY <1>1, <1>3, <1>6, <2>1, <2>2 DEF OnCourse, StillPending, WritesPayment, Crediting,
                                        Telling, Working
<1> QED
  BY <1>1, <1>3, <1>4, <1>5, <1>6, QuietRunsAside DEF Holding

LEMMA QuietMintQrFails ==
  ASSUME IInv, QuietInv, NEW r \in Requests, MintQrFails(r) PROVE QuietInv'
<1>1. PICK v \in Request :
        /\ v = req[r]
        /\ v.phase \in {"mint", "saveAttempt"} \/ (v.phase = "saveOrder" /\ v.attempt # None)
  BY DEF IInv, Typed, MintQrFails
<1>2. PICK w \in Request : w = Idle /\ w.phase = "idle"
  BY IdleFormed DEF Idle
<1>3. req' = [req EXCEPT ![r] = w]
  BY <1>2 DEF MintQrFails, Finish
<1>4. UNCHANGED <<order, payment, credits, attached, notices, wallet, settled, crossed, disturbed>>
  BY DEF MintQrFails, money, history
<1>5. OnCourse(v) => AtRest(v.order)
  BY <1>1, CourseEnds DEF OnCourse, WritesOrder, Working
<1> QED
  BY <1>1, <1>2, <1>3, <1>4, <1>5, QuietRunsAside DEF Holding

LEMMA QuietApplyQrFails ==
  ASSUME IInv, QuietInv, NEW r \in Requests, ApplyQrFails(r) PROVE QuietInv'
<1>1. PICK v \in Request : v = req[r] /\ v.phase = "apply"
  BY DEF IInv, Typed, ApplyQrFails
<1>2. PICK w \in Request : w = Idle /\ w.phase = "idle"
  BY IdleFormed DEF Idle
<1>3. req' = [req EXCEPT ![r] = w]
  BY <1>2 DEF ApplyQrFails, Finish
<1>4. UNCHANGED <<order, payment, credits, attached, notices, wallet, settled, crossed, disturbed>>
  BY DEF ApplyQrFails, rows, money, history
<1>5. OnCourse(v) => AtRest(v.order)
  BY <1>1, CourseEnds DEF Working
<1> QED
  BY <1>1, <1>2, <1>3, <1>4, <1>5, QuietRunsAside DEF Holding

LEMMA QuietLoseLink ==
  ASSUME IInv, QuietInv, NEW r \in Requests, NEW c \in Charges, LoseLink(r, c)
  PROVE  QuietInv'
<1>1. PICK v \in Request : v = req[r] /\ v.phase = "link"
  BY DEF IInv, Typed, LoseLink
<1>2. PICK w \in Request : w = Idle /\ w.phase = "idle"
  BY IdleFormed DEF Idle
<1>3. req' = [req EXCEPT ![r] = w]
  BY <1>2 DEF LoseLink, Finish
<1>4. UNCHANGED <<order, payment, credits, attached, notices, wallet, settled, crossed, disturbed>>
  BY DEF LoseLink, rows, money, history
<1>5. OnCourse(v) => AtRest(v.order)
  BY <1>1, CourseEnds DEF Working
<1> QED
  BY <1>1, <1>2, <1>3, <1>4, <1>5, QuietRunsAside DEF Holding

LEMMA QuietBreakOff ==
  ASSUME IInv, QuietInv, NEW r \in Requests, BreakOff(r) PROVE QuietInv'
<1>1. PICK v \in Request : v = req[r] /\ v.phase # "idle"
  BY DEF IInv, Typed, BreakOff
<1>2. PICK w \in Request : w = Idle /\ w.phase = "idle"
  BY IdleFormed DEF Idle
<1>3. req' = [req EXCEPT ![r] = w]
  BY <1>2 DEF BreakOff, Finish
<1>4. UNCHANGED <<order, payment, credits, attached, notices, wallet, settled, crossed>>
  BY DEF BreakOff, rows, money
<1>5. disturbed \subseteq disturbed' /\ (HalfDone(v) => v.order \in disturbed')
  BY <1>1 DEF BreakOff
<1>6. ASSUME v.order \notin disturbed', OnCourse(v) PROVE AtRest(v.order)
  <2>1. ~HalfDone(v)
    BY <1>5, <1>6
  <2> QED
    BY <1>6, <2>1, CourseEnds DEF HalfDone, Working
<1> QED
  BY <1>1, <1>2, <1>3, <1>4, <1>5, <1>6, QuietRunsAside DEF Holding

------------------------------------------------------------------------------
(* The requests that write a row of their order.                            *)
LEMMA DecidedWork ==
  ASSUME NEW v \in Request, v.order \in Orders
  PROVE  /\ v.outcome = "none" => Decided(v) = Idle
         /\ v.outcome = "approved" /\ v.pays =>
              /\ Decided(v).phase = "credit" /\ Decided(v).order = v.order
              /\ Decided(v).outcome = v.outcome /\ Decided(v).todo = PayeesOf[v.order]
         /\ v.outcome # "none" /\ ~(v.outcome = "approved" /\ v.pays) =>
              /\ Decided(v).phase = "notify" /\ Decided(v).order = v.order
              /\ Decided(v).outcome = v.outcome
<1>1. PICK pays \in BOOLEAN : pays = v.pays
  BY DEF Request
<1>2. CASE v.outcome = "none"
  BY <1>2 DEF Decided
<1>3. CASE v.outcome = "approved" /\ v.pays
  BY <1>3 DEF Decided, Idle
<1>4. CASE v.outcome # "none" /\ ~(v.outcome = "approved" /\ v.pays)
  BY <1>4 DEF Decided, Idle
<1> QED
  BY <1>2, <1>3, <1>4

(* What an order is once a decision has been saved and its work is to do.   *)
LEMMA DecidedOnCourse ==
  ASSUME NEW v \in Request, NEW o \in Orders, o = v.order, NEW w, w = Decided(v),
         PaymentsAssumption,
         UNCHANGED <<credits, attached, wallet, crossed, notices>>,
         LedgerDone(o), Announced(o), AgreesOn(o, order[o].status)',
         o \in settled => o \in settled',
         v.outcome # "approved" \/ ~v.pays => (o \in settled' => o \in settled),
         v.outcome = "approved" => o \in settled'
  PROVE  /\ w.phase = "idle" => AtRest(o)'
         /\ w.phase # "idle" => OnCourse(w)'
<1>1. PayeesOf[o] \subseteq Sellers
  BY PaymentsAssumption
<1>2. ASSUME v.outcome # "approved" \/ ~v.pays PROVE LedgerDone(o)' /\ Announced(o)'
  <2>1. o \in settled' <=> o \in settled
    BY <1>2
  <2>2. Times(o)' = Times(o)
    BY <2>1 DEF Times
  <2> QED
    BY <2>1, <2>2 DEF LedgerDone, Announced
<1>3. CASE v.outcome = "none"
  <2>1. w.phase = "idle"
    BY <1>3, DecidedWork DEF Idle
  <2> QED
    BY <1>2, <1>3, <2>1 DEF AtRest
<1>4. CASE v.outcome = "approved" /\ v.pays
  <2>1. w.phase = "credit" /\ w.order = o /\ w.todo = PayeesOf[o]
    BY <1>4, DecidedWork
  <2>2. o \notin crossed =>
          \A s \in PayeesOf[o] : Ledger(o, s, 0, 0) \/ Ledger(o, s, 1, 1)
    BY DEF LedgerDone, Times, Ledger
  <2>3. Crediting(w)'
    BY <1>4, <2>1, <2>2 DEF Crediting, AtSeller, Ledger, Working
  <2> QED
    BY <2>1, <2>3 DEF OnCourse, StillPending, WritesPayment, WritesOrder, Telling, Working
<1>5. CASE v.outcome # "none" /\ ~(v.outcome = "approved" /\ v.pays)
  <2>1. w.phase = "notify" /\ w.order = o /\ w.outcome = v.outcome
    BY <1>5, DecidedWork
  <2>2. LedgerDone(o)' /\ Announced(o)'
    BY <1>2, <1>5
  <2>3. Telling(w)'
    BY <2>1, <2>2 DEF Telling
  <2> QED
    BY <2>1, <2>3 DEF OnCourse, StillPending, WritesPayment, WritesOrder, Crediting, Working
<1> QED
  BY <1>3, <1>4, <1>5

LEMMA QuietSaveOrder ==
  ASSUME IInv, QuietInv, NEW r \in Requests, SaveOrder(r) PROVE QuietInv'
<1>1. PICK v \in Request : v = req[r] /\ v.phase = "saveOrder"
  BY DEF IInv, Typed, SaveOrder
<1>2. PICK o \in Orders : o = v.order
  BY <1>1 DEF IInv, RequestsFormed, Formed, Shaped
<1>3. Formed(v) /\ v.status \in OrderStatus /\ (v.outcome = "approved" => v.order \in Approved)
  BY <1>1 DEF IInv, RequestsFormed, Formed, Shaped, Honest
<1>4. PICK w \in Request : w = Decided(v)
  BY <1>2, <1>3, DecidedFormed, PaymentsAssumption
<1>5. req' = [req EXCEPT ![r] = w]
  BY <1>1, <1>4 DEF SaveOrder
<1>6. w.phase \in {"idle", "credit", "notify"} /\ (w.phase = "idle" \/ w.order = v.order)
  BY <1>2, <1>4, DecidedWork DEF Idle, Request
<1>7. /\ order' = [order EXCEPT ![o].status = v.status]
      /\ settled' = IF v.status = "PAID" THEN settled \cup {o} ELSE settled
      /\ UNCHANGED <<payment, credits, attached, notices, wallet, crossed, disturbed>>
  BY <1>1, <1>2 DEF SaveOrder, money
<1>8. /\ \A p \in Orders \ {o} : order'[p] = order[p]
      /\ order'[o].status = v.status /\ order'[o].method = order[o].method
  BY <1>2, <1>7 DEF IInv, Typed, RowsTyped, Order
<1>9. \A p \in Orders \ {o} : Kept(p)
  BY <1>7, <1>8 DEF Kept
<1>10. ASSUME PaidOnce(o), OnCourse(v)
       PROVE  /\ PaidOnce(o)'
              /\ w.phase = "idle" => AtRest(o)'
              /\ w.phase # "idle" => OnCourse(w)'
  <2>1. /\ AgreesOn(o, v.status) /\ LedgerDone(o) /\ Announced(o) /\ Follows(v)
    BY <1>1, <1>2, <1>10 DEF OnCourse, WritesOrder, Working
  <2>2. PaidOnce(o)'
    BY <1>7, <1>8 DEF PaidOnce
  <2>3. AgreesOn(o, order[o].status)'
    BY <1>7, <1>8, <2>1 DEF AgreesOn, KeepsPayment
  <2>4. /\ o \in settled => o \in settled'
        /\ v.outcome # "approved" \/ ~v.pays => (o \in settled' => o \in settled)
        /\ v.outcome = "approved" => o \in settled'
    BY <1>2, <1>7, <2>1 DEF Follows
  <2> QED
    BY <1>2, <1>4, <1>7, <2>1, <2>2, <2>3, <2>4, DecidedOnCourse, PaymentsAssumption
<1> QED
  BY <1>1, <1>2, <1>5, <1>6, <1>7, <1>9, <1>10, QuietRun DEF Holding

LEMMA QuietApplyQrStatus ==
  ASSUME IInv, QuietInv, NEW r \in Requests, ApplyQrStatus(r) PROVE QuietInv'
<1>1. PICK v \in Request : v = req[r] /\ v.phase = "apply"
  BY DEF IInv, Typed, ApplyQrStatus
<1>2. PICK o \in Orders : o = v.order
  BY <1>1 DEF IInv, RequestsFormed, Formed, Shaped
<1>3. /\ Formed(v) /\ payment[o] # None /\ payment[o] \in Payment
      /\ v.target = "APPROVED" => o \in Approved
  BY <1>1, <1>2 DEF IInv, RequestsFormed, Formed, Shaped, Honest, Typed, RowsTyped
<1>4. PICK st \in AttemptStatus : st = v.target
  BY DEF Request
<1>5. PICK was \in OrderStatus : was = order[o].status
  BY DEF IInv, Typed, RowsTyped, Order
<1>6. PICK follow \in {"none", "approved", "rejected"} :
        follow = CASE st = "APPROVED" /\ was # "PAID"            -> "approved"
                   [] Refuses(st, was) /\ was # "REJECTED"       -> "rejected"
                   [] OTHER                                      -> "none"
  OBVIOUS
<1>7. PICK u : u = [v EXCEPT !.outcome = follow, !.pays = TRUE]
  OBVIOUS
<1>8. u \in Request /\ u.order = o /\ u.outcome = follow /\ u.pays = TRUE
  BY <1>2, <1>7 DEF Request
<1>9. follow = "approved" <=> (st = "APPROVED" /\ was # "PAID")
  BY <1>6 DEF Refuses, Refusals
<1>10. PICK w \in Request : w = Decided(u)
  <2>1. Decided(u) \in Request
    BY <1>3, <1>4, <1>8, <1>9, DecidedFormed, PaymentsAssumption
  <2> QED
    BY <2>1
<1>11. req' = [req EXCEPT ![r] = w]
  BY <1>1, <1>2, <1>4, <1>5, <1>6, <1>7, <1>10 DEF ApplyQrStatus
<1>12. w.phase \in {"idle", "credit", "notify"} /\ (w.phase = "idle" \/ w.order = o)
  BY <1>8, <1>10, DecidedWork DEF Idle
<1>13. PICK pay : pay = [payment[o] EXCEPT !.status =
                           IF st = "APPROVED" THEN "COMPLETED" ELSE "REJECTED"]
  OBVIOUS
<1>14. /\ pay \in Payment /\ pay # None
       /\ pay.status = IF st = "APPROVED" THEN "COMPLETED" ELSE "REJECTED"
  <2>1. pay \in Payment /\ pay.status = IF st = "APPROVED" THEN "COMPLETED" ELSE "REJECTED"
    BY <1>3, <1>13 DEF Payment, PaymentStatus
  <2> QED
    BY <2>1, NoRowAssumption
<1>15. /\ IF st = "APPROVED" \/ Refuses(st, was)
          THEN /\ payment' = [payment EXCEPT ![o] = pay]
               /\ order' = [order EXCEPT ![o].status =
                              IF st = "APPROVED" THEN "PAID" ELSE "REJECTED"]
          ELSE UNCHANGED <<payment, order>>
       /\ settled' = IF st = "APPROVED" THEN settled \cup {o} ELSE settled
       /\ UNCHANGED <<credits, attached, notices, wallet, crossed, disturbed>>
  BY <1>1, <1>2, <1>4, <1>5, <1>13 DEF ApplyQrStatus, money
<1>16. /\ \A p \in Orders \ {o} : order'[p] = order[p] /\ payment'[p] = payment[p]
       /\ order'[o].method = order[o].method
       /\ st = "APPROVED" => order'[o].status = "PAID" /\ payment'[o].status = "COMPLETED"
       /\ st # "APPROVED" /\ Refuses(st, was) =>
            order'[o].status = "REJECTED" /\ payment'[o].status = "REJECTED"
       /\ st # "APPROVED" /\ ~Refuses(st, was) =>
            order'[o] = order[o] /\ payment'[o] = payment[o]
  BY <1>14, <1>15 DEF IInv, Typed, RowsTyped, Order
<1>17. \A p \in Orders \ {o} : Kept(p)
  BY <1>15, <1>16 DEF Kept
<1>18. ASSUME PaidOnce(o), OnCourse(v)
       PROVE  /\ PaidOnce(o)'
              /\ w.phase = "idle" => AtRest(o)'
              /\ w.phase # "idle" => OnCourse(w)'
  <2>1. AgreesOn(o, was) /\ LedgerDone(o) /\ Announced(o)
    BY <1>1, <1>2, <1>5, <1>18 DEF OnCourse, Working
  <2>2. PaidOnce(o)'
    BY <1>5, <1>15, <1>16, <1>18 DEF PaidOnce
  <2>3. was = "PAID" => o \in settled
    BY <1>5, <1>18 DEF PaidOnce
  <2>4. KeepsPayment(o)
    BY <1>1, <1>2, <1>3 DEF KeepsPayment, Formed, Shaped
  <2>5. AgreesOn(o, order[o].status)'
    <3>1. CASE st = "APPROVED"
      BY <1>16, <3>1 DEF AgreesOn, Agreed
    <3>2. CASE st # "APPROVED" /\ Refuses(st, was)
      <4>1. o \notin settled
        BY <2>1, <2>4, <3>2 DEF AgreesOn, Refuses
      <4> QED
        BY <1>15, <1>16, <3>2, <4>1 DEF AgreesOn, Agreed
    <3>3. CASE st # "APPROVED" /\ ~Refuses(st, was)
      BY <1>5, <1>15, <1>16, <2>1, <3>3 DEF AgreesOn, KeepsPayment
    <3> QED
      BY <3>1, <3>2, <3>3
  <2>6. /\ o \in settled => o \in settled'
        /\ u.outcome # "approved" \/ ~u.pays => (o \in settled' => o \in settled)
        /\ u.outcome = "approved" => o \in settled'
    BY <1>8, <1>9, <1>15, <2>3
  <2> QED
    BY <1>8, <1>10, <1>15, <2>1, <2>2, <2>5, <2>6, DecidedOnCourse, PaymentsAssumption
<1> QED
  BY <1>1, <1>2, <1>11, <1>12, <1>15, <1>17, <1>18, QuietRun DEF Holding

LEMMA QuietSavePayment ==
  ASSUME IInv, QuietInv, NEW r \in Requests, SavePayment(r) PROVE QuietInv'
<1>1. PICK v \in Request : v = req[r] /\ v.phase = "savePayment"
  BY DEF IInv, Typed, SavePayment
<1>2. PICK o \in Orders : o = v.order
  BY <1>1 DEF IInv, RequestsFormed, Formed, Shaped
<1>3. PICK row \in Payment : row = v.row
  BY <1>1 DEF IInv, RequestsFormed, Formed, Shaped
<1>4. /\ payment' = [payment EXCEPT ![o] = row]
      /\ UNCHANGED <<order, credits, attached, notices, wallet, settled, crossed, disturbed>>
  BY <1>1, <1>2, <1>3 DEF SavePayment, money, history
<1>5. payment'[o] = row /\ \A p \in Orders \ {o} : payment'[p] = payment[p]
  BY <1>2, <1>4 DEF IInv, Typed, RowsTyped
<1>6. \A p \in Orders \ {o} : Kept(p)
  BY <1>4, <1>5 DEF Kept
<1>7. ASSUME OnCourse(v)
      PROVE  /\ LedgerDone(o)' /\ Announced(o)' /\ WritesPayment(v)
             /\ AgreesOn(o, order[o].status)
  BY <1>1, <1>2, <1>4, <1>7 DEF OnCourse, Working, LedgerDone, Announced, Times
<1>8. PaidOnce(o) => PaidOnce(o)'
  BY <1>4 DEF PaidOnce
<1>9. CASE v.status = None
  <2>1. PICK w \in Request : w = Idle /\ w.phase = "idle"
    BY IdleFormed DEF Idle
  <2>2. req' = [req EXCEPT ![r] = w]
    BY <1>1, <1>9, <2>1 DEF SavePayment, Finish
  <2>3. ASSUME OnCourse(v) PROVE AtRest(o)'
    <3>1. AgreesOn(o, order[o].status)'
      BY <1>1, <1>2, <1>3, <1>4, <1>5, <1>7, <1>9, <2>3, NoRowAssumption
      DEF AgreesOn, KeepsPayment, WritesPayment
    <3> QED
      BY <1>7, <2>3, <3>1 DEF AtRest
  <2> QED
    BY <1>1, <1>2, <1>4, <1>6, <1>8, <2>1, <2>2, <2>3, QuietRun DEF Holding
<1>10. CASE v.status # None
  <2>1. PICK w : w = [v EXCEPT !.phase = "saveOrder"]
    OBVIOUS
  <2>2. /\ w \in Request /\ w.phase = "saveOrder" /\ w.order = v.order
        /\ w.status = v.status /\ w.outcome = v.outcome /\ w.pays = v.pays
        /\ w.attempt = v.attempt
    BY <2>1 DEF Request, Phases
  <2>3. req' = [req EXCEPT ![r] = w]
    BY <1>1, <1>10, <2>1 DEF SavePayment, IInv, Typed
  <2>4. ASSUME OnCourse(v) PROVE OnCourse(w)'
    <3>1. /\ KeepsPayment(o) /\ order[o].status = "PENDING"
          /\ <<row.status, v.status>> \in Agreed /\ Follows(v)
          /\ v.outcome # "none" /\ v.attempt = None
      BY <1>1, <1>2, <1>3, <1>7, <1>10, <2>4 DEF WritesPayment
    <3>2. o \notin settled
      BY <1>7, <2>4, <3>1 DEF AgreesOn
    <3>3. AgreesOn(w.order, w.status)'
      BY <1>2, <1>4, <1>5, <2>2, <3>1, <3>2 DEF AgreesOn
    <3>4. Follows(w)'
      BY <1>4, <2>2, <3>1 DEF Follows
    <3>5. WritesOrder(w)'
      BY <2>2, <3>1, <3>3, <3>4 DEF WritesOrder
    <3> QED
      BY <1>2, <1>7, <2>2, <2>4, <3>1, <3>5 DEF OnCourse, StillPending, WritesPayment,
                                                Crediting, Telling, Working
  <2> QED
    BY <1>1, <1>2, <1>4, <1>6, <1>8, <2>2, <2>3, <2>4, QuietRun DEF Holding
<1> QED
  BY <1>9, <1>10

LEMMA QuietInsertTransferPayment ==
  ASSUME IInv, QuietInv, NEW r \in Requests, InsertTransferPayment(r) PROVE QuietInv'
<1>1. PICK v \in Request : v = req[r] /\ v.phase = "insertPayment"
  BY DEF IInv, Typed, InsertTransferPayment
<1>2. PICK o \in Orders : o = v.order
  BY <1>1 DEF IInv, RequestsFormed, Formed, Shaped
<1>3. PICK row \in Payment : row = v.row
  BY <1>1 DEF IInv, RequestsFormed, Formed, Shaped
<1>4. /\ payment' = IF payment[o] = None THEN [payment EXCEPT ![o] = row] ELSE payment
      /\ UNCHANGED <<order, credits, attached, notices, wallet, settled, crossed, disturbed>>
  BY <1>1, <1>2, <1>3 DEF InsertTransferPayment, money, history
<1>5. /\ payment[o] = None => payment'[o] = row
      /\ payment[o] # None => payment'[o] = payment[o]
      /\ \A p \in Orders \ {o} : payment'[p] = payment[p]
  BY <1>2, <1>4 DEF IInv, Typed, RowsTyped
<1>6. \A p \in Orders \ {o} : Kept(p)
  BY <1>4, <1>5 DEF Kept
<1>7. PICK w \in Request : w = Idle /\ w.phase = "idle"
  BY IdleFormed DEF Idle
<1>8. req' = [req EXCEPT ![r] = w]
  BY <1>7 DEF InsertTransferPayment, Finish
<1>9. ASSUME OnCourse(v) PROVE AtRest(o)'
  <2>1. /\ AtRest(o) /\ order[o].status = "PENDING" /\ row.status = "PENDING"
    BY <1>1, <1>2, <1>3, <1>9, CourseEnds DEF OnCourse, StillPending, Working
  <2>2. LedgerDone(o)' /\ Announced(o)'
    BY <1>4, <2>1 DEF AtRest, LedgerDone, Announced, Times
  <2>3. AgreesOn(o, order[o].status)'
    BY <1>4, <1>5, <2>1 DEF AtRest, AgreesOn, KeepsPayment, Agreed
  <2> QED
    BY <2>2, <2>3 DEF AtRest
<1>10. PaidOnce(o) => PaidOnce(o)'
  BY <1>4 DEF PaidOnce
<1> QED
  BY <1>1, <1>2, <1>4, <1>6, <1>7, <1>8, <1>9, <1>10, QuietRun DEF Holding

LEMMA QuietInsertQrPayment ==
  ASSUME IInv, QuietInv, NEW r \in Requests, InsertQrPayment(r) PROVE QuietInv'
<1>1. PICK v \in Request : v = req[r] /\ v.phase = "insertPayment"
  BY DEF IInv, Typed, InsertQrPayment
<1>2. PICK o \in Orders : o = v.order /\ order[o].method = "GETNET_QR"
  BY <1>1 DEF IInv, RequestsFormed, Formed, Shaped, InsertQrPayment
<1>3. PICK row \in Payment : row = v.row
  BY <1>1 DEF IInv, RequestsFormed, Formed, Shaped
<1>4. UNCHANGED <<order, credits, attached, notices, wallet, settled, crossed, disturbed>>
  BY DEF InsertQrPayment, money, history
<1>5. PaidOnce(o) => PaidOnce(o)'
  BY <1>4 DEF PaidOnce
<1>6. CASE payment[o] # None
  <2>1. PICK w \in Request : w = Idle /\ w.phase = "idle"
    BY IdleFormed DEF Idle
  <2>2. req' = [req EXCEPT ![r] = w] /\ payment' = payment
    BY <1>1, <1>2, <1>6, <2>1 DEF InsertQrPayment, Finish
  <2>3. OnCourse(v) => AtRest(o)
    BY <1>1, <1>2, CourseEnds DEF Working
  <2> QED
    BY <1>1, <1>2, <1>4, <2>1, <2>2, <2>3, QuietRunsAside DEF Holding
<1>7. CASE payment[o] = None
  <2>1. PICK w : w = AfterPayment(v)
    OBVIOUS
  <2>2. /\ w \in Request /\ w.phase \in {"insertAttempt", "expire"}
        /\ w.order = o /\ w.status = v.status /\ w.outcome = v.outcome
    BY <1>2, <2>1, AfterPaymentParts
  <2>3. req' = [req EXCEPT ![r] = w] /\ payment' = [payment EXCEPT ![o] = row]
    BY <1>1, <1>2, <1>3, <1>7, <2>1 DEF InsertQrPayment
  <2>4. payment'[o] = row /\ \A p \in Orders \ {o} : payment'[p] = payment[p]
    BY <1>2, <2>3 DEF IInv, Typed, RowsTyped
  <2>5. \A p \in Orders \ {o} : Kept(p)
    BY <1>4, <2>4 DEF Kept
  <2>6. ASSUME OnCourse(v) PROVE OnCourse(w)'
    <3>1. /\ AtRest(o) /\ order[o].status = "PENDING" /\ row.status = "PENDING"
          /\ v.status = "PENDING" /\ v.outcome = "none"
      BY <1>1, <1>2, <1>3, <2>6, CourseEnds DEF OnCourse, StillPending, Working
    <3>2. LedgerDone(o)' /\ Announced(o)'
      BY <1>4, <3>1 DEF AtRest, LedgerDone, Announced, Times
    <3>3. AgreesOn(o, order[o].status)'
      BY <1>4, <2>4, <3>1 DEF AtRest, AgreesOn, KeepsPayment, Agreed
    <3>4. StillPending(w)'
      BY <1>4, <2>2, <3>1 DEF StillPending
    <3> QED
      BY <2>2, <3>2, <3>3, <3>4 DEF OnCourse, WritesPayment, WritesOrder, Crediting,
                                    Telling, Working
  <2> QED
    BY <1>1, <1>2, <1>4, <1>5, <2>2, <2>3, <2>5, <2>6, QuietRun DEF Holding
<1> QED
  BY <1>6, <1>7

LEMMA QuietCommitLink ==
  ASSUME IInv, QuietInv, NEW r \in Requests, NEW a \in Attempts, NEW c \in Charges,
         CommitLink(r, a, c)
  PROVE  QuietInv'
<1>1. PICK v \in Request : v = req[r] /\ v.phase = "link"
  BY DEF IInv, Typed, CommitLink
<1>2. PICK o \in Orders : o = v.order /\ order[o].method = "PAYWAY"
  BY <1>1 DEF IInv, RequestsFormed, Formed, Shaped
<1>3. /\ payment' = IF payment[o] = None THEN [payment EXCEPT ![o] = NewPayment] ELSE payment
      /\ UNCHANGED <<order, credits, attached, notices, wallet, settled, crossed, disturbed>>
  BY <1>1, <1>2 DEF CommitLink, money, history
<1>4. \A p \in Orders \ {o} : payment'[p] = payment[p]
  BY <1>3 DEF IInv, Typed, RowsTyped
<1>5. \A p \in Orders \ {o} : Kept(p)
  BY <1>3, <1>4 DEF Kept
<1>6. PICK w \in Request : w = Idle /\ w.phase = "idle"
  BY IdleFormed DEF Idle
<1>7. req' = [req EXCEPT ![r] = w]
  BY <1>6 DEF CommitLink, Finish
<1>8. ASSUME OnCourse(v) PROVE AtRest(o)'
  <2>1. AtRest(o)
    BY <1>1, <1>2, <1>8, CourseEnds DEF Working
  <2>2. LedgerDone(o)' /\ Announced(o)'
    BY <1>3, <2>1 DEF AtRest, LedgerDone, Announced, Times
  <2>3. AgreesOn(o, order[o].status)'
    BY <1>2, <1>3 DEF AgreesOn, KeepsPayment
  <2> QED
    BY <2>2, <2>3 DEF AtRest
<1>9. PaidOnce(o) => PaidOnce(o)'
  BY <1>3 DEF PaidOnce
<1> QED
  BY <1>1, <1>2, <1>3, <1>5, <1>6, <1>7, <1>8, <1>9, QuietRun DEF Holding

LEMMA QuietNotify ==
  ASSUME IInv, QuietInv, NEW r \in Requests, Notify(r) PROVE QuietInv'
<1>1. PICK v \in Request : v = req[r] /\ v.phase = "notify"
  BY DEF IInv, Typed, Notify
<1>2. PICK o \in Orders : o = v.order
  BY <1>1 DEF IInv, RequestsFormed, Formed, Shaped
<1>3. /\ notices' = [notices EXCEPT ![o] = @ \cup {v.outcome}]
      /\ UNCHANGED <<order, payment, credits, attached, wallet, settled, crossed, disturbed>>
  BY <1>1, <1>2 DEF Notify, rows, history
<1>4. /\ notices'[o] = notices[o] \cup {v.outcome}
      /\ \A p \in Orders \ {o} : notices'[p] = notices[p]
  BY <1>2, <1>3 DEF IInv, Typed, RowsTyped
<1>5. \A p \in Orders \ {o} : Kept(p)
  BY <1>3, <1>4 DEF Kept
<1>6. PICK w \in Request : w = Idle /\ w.phase = "idle"
  BY IdleFormed DEF Idle
<1>7. req' = [req EXCEPT ![r] = w]
  BY <1>6 DEF Notify, Finish
<1>8. ASSUME OnCourse(v) PROVE AtRest(o)'
  <2>1. /\ LedgerDone(o) /\ AgreesOn(o, order[o].status)
        /\ v.outcome = "approved" => o \in settled
        /\ v.outcome # "approved" => Announced(o)
    BY <1>1, <1>2, <1>8 DEF OnCourse, Telling
  <2>2. LedgerDone(o)'
    BY <1>3, <2>1 DEF LedgerDone, Times
  <2>3. Announced(o)'
    BY <1>3, <1>4, <2>1 DEF Announced
  <2>4. AgreesOn(o, order[o].status)'
    BY <1>3, <2>1 DEF AgreesOn, KeepsPayment
  <2> QED
    BY <2>2, <2>3, <2>4 DEF AtRest
<1>9. PaidOnce(o) => PaidOnce(o)'
  BY <1>3 DEF PaidOnce
<1> QED
  BY <1>1, <1>2, <1>3, <1>5, <1>6, <1>7, <1>8, <1>9, QuietRun DEF Holding

------------------------------------------------------------------------------
(* The crediting of one seller after the other.                             *)
LEMMA CreditingFacts ==
  ASSUME NEW v, OnCourse(v), v.phase \in Working
  PROVE  Crediting(v) /\ AgreesOn(v.order, order[v.order].status)
BY DEF OnCourse, Working

LEMMA CreditingCourse ==
  ASSUME NEW w, w.phase \in Working, Crediting(w), AgreesOn(w.order, order[w.order].status)
  PROVE  OnCourse(w)
BY DEF OnCourse, Working, StillPending, WritesPayment, WritesOrder, Telling

(* All sellers have been seen to.                                           *)
LEMMA QuietCreditDone ==
  ASSUME IInv, QuietInv, NEW r \in Requests, CreditRead(r), req[r].todo = {},
         req' = [req EXCEPT ![r].phase = "notify"], crossed' = crossed
  PROVE  QuietInv'
<1>1. PICK v \in Request : v = req[r] /\ v.phase = "credit" /\ v.todo = {}
  BY DEF IInv, Typed, CreditRead
<1>2. v.outcome = "approved"
  BY <1>1 DEF IInv, RequestsFormed, Formed, Honest
<1>3. PICK w : w = [v EXCEPT !.phase = "notify"]
  OBVIOUS
<1>4. w \in Request /\ w.phase = "notify" /\ w.order = v.order /\ w.outcome = "approved"
  BY <1>2, <1>3 DEF Request, Phases
<1>5. req' = [req EXCEPT ![r] = w]
  BY <1>1, <1>3 DEF IInv, Typed
<1>6. UNCHANGED <<order, payment, credits, attached, notices, wallet, settled, crossed, disturbed>>
  BY DEF CreditRead, rows, money
<1>7. ASSUME OnCourse(v) PROVE OnCourse(w)
  <2>1. Crediting(v) /\ AgreesOn(v.order, order[v.order].status)
    BY <1>1, <1>7, CreditingFacts DEF Working
  <2>2. LedgerDone(v.order) /\ v.order \in settled
    BY <1>1, <2>1 DEF Crediting, AtSeller, Ledger, LedgerDone, Times, Working
  <2>3. Telling(w)
    BY <1>4, <2>2 DEF Telling
  <2> QED
    BY <1>4, <2>1, <2>3 DEF OnCourse, Working, StillPending, WritesPayment, WritesOrder,
                            Crediting
<1> QED
  BY <1>1, <1>4, <1>5, <1>6, <1>7, QuietRunsAside DEF Holding

(* r reads the wallet of s; whoever else is crediting s is met there.       *)
LEMMA QuietReading ==
  ASSUME IInv, QuietInv, NEW r \in Requests, CreditRead(r), NEW s \in req[r].todo,
         req' = [req EXCEPT ![r] = Reading(req[r], s)],
         crossed' = crossed \cup Meeting(r, s)
  PROVE  QuietInv'
<1>1. PICK v \in Request : v = req[r] /\ v.phase = "credit" /\ s \in v.todo
  BY DEF IInv, Typed, CreditRead
<1>2. PICK o \in Orders : o = v.order
  BY <1>1 DEF IInv, RequestsFormed, Formed, Shaped
<1>3. PICK copy \in [Orders -> Nat] : copy = wallet[s]
  BY <1>1 DEF Request, IInv, Typed, RowsTyped
<1>4. PICK w : w = Reading(v, s)
  OBVIOUS
<1>5. /\ w \in Request /\ w.phase = "check" /\ w.order = o /\ w.seller = s
      /\ w.copy = copy /\ w.todo = v.todo \ {s} /\ w.attached = AttachedTo(s)
  <2>1. PICK todo \in SUBSET Sellers, owns \in SUBSET Orders :
          todo = v.todo \ {s} /\ owns = AttachedTo(s)
    BY DEF Request, AttachedTo
  <2>2. s \in Sellers
    BY <1>1 DEF Request
  <2>3. w = [v EXCEPT !.phase = "check", !.seller = s, !.todo = todo, !.copy = copy,
                      !.attached = owns]
    BY <1>3, <1>4, <2>1 DEF Reading
  <2> QED
    BY <1>2, <2>1, <2>2, <2>3 DEF Request, Phases
<1>6. req' = [req EXCEPT ![r] = w]
  BY <1>1, <1>4
<1>7. \A q \in Requests : req'[q] = IF q = r THEN w ELSE req[q]
  BY <1>6 DEF IInv, Typed
<1>8. UNCHANGED <<order, payment, credits, attached, notices, wallet, settled, disturbed>>
  BY DEF CreditRead, rows, money
<1>9. \A p \in Orders : Kept(p)
  BY <1>8 DEF Kept
<1>10. \A q \in Requests : Holding(req[q]) /\ req[q].seller = s =>
         req[q].order \in crossed' /\ o \in crossed'
  BY <1>1, <1>2 DEF Meeting, Holding
<1>11. HeldApart'
  <2> SUFFICES ASSUME NEW p \in Requests, NEW q \in Requests, p # q,
                      Holding(req'[p]), Holding(req'[q]), req'[p].seller = req'[q].seller
               PROVE  req'[p].order \in crossed' /\ req'[q].order \in crossed'
    BY DEF HeldApart, Holding
  <2>1. CASE p # r /\ q # r
    BY <1>7, <2>1 DEF QuietInv, CopiesTrue, HeldApart, Holding
  <2>2. CASE p = r
    BY <1>5, <1>7, <1>10, <2>2 DEF Holding
  <2>3. CASE q = r
    BY <1>5, <1>7, <1>10, <2>3 DEF Holding
  <2> QED
    BY <2>1, <2>2, <2>3
<1>12. \A q \in Requests : CopyTrue(req[q])'
  <2>1. \A p \in Orders : /\ w.copy[p] = wallet[w.seller][p]
                          /\ p \in w.attached <=> <<p, w.seller>> \in attached
    BY <1>3, <1>5 DEF AttachedTo
  <2> SUFFICES ASSUME NEW q \in Requests, req'[q].phase \in {"check", "saveWallet"},
                      NEW p \in Orders, p \notin crossed'
               PROVE  /\ req'[q].copy[p] = wallet'[req'[q].seller][p]
                      /\ p \in req'[q].attached <=> <<p, req'[q].seller>> \in attached'
    BY DEF CopyTrue
  <2>2. CASE q = r
    BY <1>7, <1>8, <2>1, <2>2
  <2>3. CASE q # r
    BY <1>7, <1>8, <2>3 DEF QuietInv, CopiesTrue, CopyTrue
  <2> QED
    BY <2>2, <2>3
<1>13. ASSUME OnCourse(v) PROVE OnCourse(w)
  <2>1. Crediting(v) /\ AgreesOn(o, order[o].status)
    BY <1>1, <1>2, <1>13, CreditingFacts DEF Working
  <2>2. Crediting(w)
    BY <1>1, <1>2, <1>5, <2>1 DEF Crediting, AtSeller, Working
  <2> QED
    BY <1>5, <2>1, <2>2, CreditingCourse DEF Working
<1>14. OnCourse(v) => OnCourse(w)'
  BY <1>2, <1>5, <1>9, <1>13, CourseStays
<1>15. PaidOnce(o) => PaidOnce(o)'
  BY <1>9, FactsStay
<1>16. QuietExact'
  <2>1. /\ v.phase # "idle" /\ w.phase # "idle" /\ w.order = v.order
        /\ \A p \in Orders \ {v.order} : Kept(p)
        /\ disturbed \subseteq disturbed'
    BY <1>1, <1>2, <1>5, <1>8, <1>9
  <2>2. PaidOnce(v.order) => PaidOnce(v.order)'
    BY <1>2, <1>15
  <2> QED
    BY <1>1, <1>5, <1>6, <1>14, <2>1, <2>2, ExactRuns
<1> QED
  BY <1>11, <1>12, <1>16 DEF QuietInv, CopiesTrue

LEMMA QuietCreditRead ==
  ASSUME IInv, QuietInv, NEW r \in Requests, CreditRead(r) PROVE QuietInv'
<1>1. CASE req[r].todo = {} /\ req' = [req EXCEPT ![r].phase = "notify"]
             /\ crossed' = crossed
  BY <1>1, QuietCreditDone
<1>2. ASSUME NEW s \in req[r].todo, req' = [req EXCEPT ![r] = Reading(req[r], s)],
             crossed' = crossed \cup Meeting(r, s)
      PROVE  QuietInv'
  BY <1>2, QuietReading
<1>3. \A s : [req EXCEPT ![r] = Reading(@, s)] = [req EXCEPT ![r] = Reading(req[r], s)]
  BY DEF IInv, Typed
<1> QED
  BY <1>1, <1>2, <1>3 DEF CreditRead

(* A seller already credited is skipped, the others come to their wallet.   *)
LEMMA QuietCreditCheck ==
  ASSUME IInv, QuietInv, NEW r \in Requests, CreditCheck(r) PROVE QuietInv'
<1>1. PICK v \in Request : v = req[r] /\ v.phase = "check" /\ Formed(v)
  BY DEF IInv, Typed, CreditCheck, RequestsFormed
<1>2. PICK o \in Orders, s \in Sellers : o = v.order /\ s = v.seller /\ s \in PayeesOf[o]
  BY <1>1, PaymentsAssumption DEF Formed, Shaped, Honest
<1>3. UNCHANGED <<order, payment, credits, attached, notices, wallet, settled, crossed, disturbed>>
  BY DEF CreditCheck, rows, money, history
<1>4. CASE HasCredit(o, s)
  <2>1. PICK w : w = NextSeller(v)
    OBVIOUS
  <2>2. w \in Request /\ w.phase = "credit" /\ w.order = o /\ w.todo = v.todo
    BY <1>1, <1>2, <2>1, NextSellerFormed
  <2>3. req' = [req EXCEPT ![r] = w]
    BY <1>1, <1>2, <1>4, <2>1 DEF CreditCheck
  <2>4. ASSUME OnCourse(v) PROVE OnCourse(w)
    <3>1. Crediting(v) /\ AgreesOn(o, order[o].status)
      BY <1>1, <1>2, <2>4, CreditingFacts DEF Working
    <3>2. o \notin crossed => Ledger(o, s, 1, 1)
      BY <1>1, <1>2, <1>4, <3>1 DEF Crediting, AtSeller, Working, HasCredit, Ledger
    <3>3. Crediting(w)
      BY <1>1, <1>2, <2>2, <3>1, <3>2 DEF Crediting, AtSeller, Working
    <3> QED
      BY <2>2, <3>1, <3>3, CreditingCourse DEF Working
  <2> QED
    BY <1>1, <1>2, <1>3, <2>2, <2>3, <2>4, QuietRunsAside DEF Holding
<1>5. CASE ~HasCredit(o, s)
  <2>1. PICK w : w = [v EXCEPT !.phase = "saveWallet"]
    OBVIOUS
  <2>2. /\ w \in Request /\ w.phase = "saveWallet" /\ w.order = o /\ w.seller = s
        /\ w.todo = v.todo /\ w.copy = v.copy /\ w.attached = v.attached
    BY <1>2, <2>1 DEF Request, Phases
  <2>3. req' = [req EXCEPT ![r] = w]
    BY <1>1, <1>2, <1>5, <2>1 DEF CreditCheck
  <2>4. \A q \in Requests : req'[q] = IF q = r THEN w ELSE req[q]
    BY <2>3 DEF IInv, Typed
  <2>5. HeldApart'
    <3>1. \A q \in Requests : /\ Holding(req[q])' <=> Holding(req[q])
                              /\ req'[q].seller = req[q].seller /\ req'[q].order = req[q].order
      BY <1>1, <1>2, <2>2, <2>4 DEF Holding
    <3> QED
      BY <1>3, <3>1 DEF QuietInv, CopiesTrue, HeldApart
  <2>6. \A q \in Requests : CopyTrue(req[q])'
    <3>1. \A q \in Requests :
            /\ req'[q].phase \in {"check", "saveWallet"} => req[q].phase \in {"check", "saveWallet"}
            /\ req'[q].seller = req[q].seller /\ req'[q].copy = req[q].copy
            /\ req'[q].attached = req[q].attached
      BY <1>1, <1>2, <2>2, <2>4
    <3> QED
      BY <1>3, <3>1 DEF QuietInv, CopiesTrue, CopyTrue
  <2>7. ASSUME OnCourse(v) PROVE OnCourse(w)
    <3>1. Crediting(v) /\ AgreesOn(o, order[o].status)
      BY <1>1, <1>2, <2>7, CreditingFacts DEF Working
    <3>2. o \notin crossed => Ledger(o, s, 0, 0)
      BY <1>1, <1>2, <1>5, <3>1 DEF Crediting, AtSeller, Working, HasCredit, Ledger
    <3>3. Crediting(w)
      BY <1>1, <1>2, <2>2, <3>1, <3>2 DEF Crediting, AtSeller, Working
    <3> QED
      BY <2>2, <3>1, <3>3, CreditingCourse DEF Working
  <2>8. \A p \in Orders : Kept(p)
    BY <1>3 DEF Kept
  <2>9. OnCourse(v) => OnCourse(w)'
    BY <2>2, <2>7, <2>8, CourseStays
  <2>10. PaidOnce(o) => PaidOnce(o)'
    BY <2>8, FactsStay
  <2>11. QuietExact'
    <3>1. /\ v.phase # "idle" /\ w.phase # "idle" /\ w.order = v.order
          /\ \A p \in Orders \ {v.order} : Kept(p)
          /\ disturbed \subseteq disturbed'
      BY <1>1, <1>2, <1>3, <2>2, <2>8
    <3>2. PaidOnce(v.order) => PaidOnce(v.order)'
      BY <1>2, <2>10
    <3> QED
      BY <1>1, <2>2, <2>3, <2>9, <3>1, <3>2, ExactRuns
  <2> QED
    BY <2>5, <2>6, <2>11 DEF QuietInv, CopiesTrue
<1> QED
  BY <1>4, <1>5

(* The copy is saved: of orders whose credit met no other, nothing changes. *)
LEMMA QuietCreditSave ==
  ASSUME IInv, QuietInv, NEW r \in Requests, CreditSave(r) PROVE QuietInv'
<1>1. PICK v \in Request : v = req[r] /\ v.phase = "saveWallet"
  BY DEF IInv, Typed, CreditSave
<1>2. PICK o \in Orders : o = v.order
  BY <1>1 DEF IInv, RequestsFormed, Formed, Shaped
<1>3. PICK s \in Sellers : s = v.seller /\ s \in PayeesOf[o]
  BY <1>1, <1>2, PaymentsAssumption DEF IInv, RequestsFormed, Formed, Honest
<1>4. PICK copy : copy = [v.copy EXCEPT ![o] = @ + 1]
  OBVIOUS
<1>5. /\ copy[o] = v.copy[o] + 1 /\ v.copy \in [Orders -> Nat]
      /\ \A p \in Orders \ {o} : copy[p] = v.copy[p]
  BY <1>2, <1>4 DEF Request
<1>6. PICK w : w = [v EXCEPT !.phase = "record", !.copy = NoCopy, !.attached = {}]
  OBVIOUS
<1>7. /\ w \in Request /\ w.phase = "record" /\ w.order = o /\ w.seller = s /\ w.todo = v.todo
  BY <1>2, <1>3, <1>6 DEF Request, Phases, NoCopy
<1>8. req' = [req EXCEPT ![r] = w]
  BY <1>1, <1>6 DEF CreditSave, IInv, Typed
<1>9. \A q \in Requests : req'[q] = IF q = r THEN w ELSE req[q]
  BY <1>8 DEF IInv, Typed
<1>10. /\ wallet' = [wallet EXCEPT ![s] = copy]
       /\ attached' = {os \in attached : os[2] # s} \cup (v.attached \X {s})
       /\ UNCHANGED <<order, payment, credits, notices, settled, crossed, disturbed>>
  BY <1>1, <1>2, <1>3, <1>4 DEF CreditSave, Raised, rows, history
<1>11. wallet'[s] = copy /\ \A t \in Sellers \ {s} : wallet'[t] = wallet[t]
  BY <1>3, <1>10 DEF IInv, Typed, RowsTyped
<1>12. \A p \in Orders : p \notin crossed => /\ v.copy[p] = wallet[s][p]
                                             /\ p \in v.attached <=> <<p, s>> \in attached
  BY <1>1, <1>3 DEF QuietInv, CopiesTrue, CopyTrue
<1>13. ASSUME NEW p \in Orders, p \notin crossed, NEW t \in Sellers
       PROVE  <<p, t>> \in attached' <=> <<p, t>> \in attached
  BY <1>10, <1>12, <1>13
<1>14. \A p \in Orders \ {o} : p \notin crossed =>
         \A t \in Sellers : wallet'[t][p] = wallet[t][p]
  BY <1>5, <1>11, <1>12
<1>15. \A p \in Orders \ {o} : Kept(p)
  BY <1>10, <1>13, <1>14 DEF Kept
<1>16. HeldApart'
  <2>1. \A q \in Requests : /\ Holding(req[q])' <=> Holding(req[q])
                            /\ req'[q].seller = req[q].seller /\ req'[q].order = req[q].order
    BY <1>1, <1>2, <1>3, <1>7, <1>9 DEF Holding
  <2> QED
    BY <1>10, <2>1 DEF QuietInv, CopiesTrue, HeldApart
<1>17. \A q \in Requests : CopyTrue(req[q])'
  <2> SUFFICES ASSUME NEW q \in Requests, req'[q].phase \in {"check", "saveWallet"},
                      NEW p \in Orders, p \notin crossed'
               PROVE  /\ req'[q].copy[p] = wallet'[req'[q].seller][p]
                      /\ p \in req'[q].attached <=> <<p, req'[q].seller>> \in attached'
    BY DEF CopyTrue
  <2>1. q # r /\ req'[q] = req[q] /\ Holding(req[q]) /\ p \notin crossed
    BY <1>7, <1>9, <1>10 DEF Holding
  <2>2. /\ req[q].copy[p] = wallet[req[q].seller][p]
        /\ p \in req[q].attached <=> <<p, req[q].seller>> \in attached
    BY <2>1 DEF QuietInv, CopiesTrue, CopyTrue
  <2>3. req[q].seller \in Sellers
    BY <2>1, PaymentsAssumption DEF IInv, RequestsFormed, Formed, Honest, Shaped, Holding
  <2>4. wallet'[req[q].seller][p] = wallet[req[q].seller][p]
    <3>1. CASE req[q].seller = s
      <4>1. o \in crossed
        BY <1>1, <1>2, <1>3, <2>1, <3>1 DEF QuietInv, CopiesTrue, HeldApart, Holding
      <4> QED
        BY <1>14, <2>1, <2>3, <4>1
    <3>2. CASE req[q].seller # s
      BY <1>11, <2>3, <3>2
    <3> QED
      BY <3>1, <3>2
  <2> QED
    BY <1>13, <2>1, <2>2, <2>3, <2>4
<1>18. PaidOnce(o) => PaidOnce(o)'
  BY <1>10 DEF PaidOnce
<1>19. ASSUME OnCourse(v) PROVE OnCourse(w)'
  <2>1. Crediting(v) /\ AgreesOn(o, order[o].status)
    BY <1>1, <1>2, <1>19, CreditingFacts DEF Working
  <2>2. AgreesOn(o, order[o].status)'
    BY <1>10, <2>1 DEF AgreesOn, KeepsPayment
  <2>3. PayeesOf[o] \subseteq Sellers
    BY PaymentsAssumption
  <2>4. o \notin crossed =>
          /\ Ledger(o, s, 0, 0) /\ s \notin v.todo
          /\ \A t \in PayeesOf[o] \ {s} :
               /\ Ledger(o, t, 0, 0) \/ Ledger(o, t, 1, 1)
               /\ t \notin v.todo => Ledger(o, t, 1, 1)
    BY <1>1, <1>2, <1>3, <2>1 DEF Crediting, AtSeller, Working
  <2>5. o \notin crossed => Ledger(o, s, 0, 1)'
    BY <1>3, <1>5, <1>10, <1>11, <1>12, <1>13, <2>4 DEF Ledger
  <2>6. o \notin crossed => \A t \in PayeesOf[o] \ {s}, n \in {0, 1} :
          Ledger(o, t, n, n) => Ledger(o, t, n, n)'
    BY <1>10, <1>11, <1>13, <2>3 DEF Ledger
  <2>7. o \in settled' /\ crossed' = crossed
    BY <1>1, <1>2, <1>10, <2>1 DEF Crediting, Working
  <2>8. Crediting(w)'
    <3> SUFFICES ASSUME o \notin crossed, NEW t \in PayeesOf[o]
                 PROVE  /\ t = s => t \notin w.todo /\ Ledger(o, t, 0, 1)'
                        /\ t # s => /\ Ledger(o, t, 0, 0)' \/ Ledger(o, t, 1, 1)'
                                    /\ t \notin w.todo => Ledger(o, t, 1, 1)'
      BY <1>7, <2>7 DEF Crediting, AtSeller
    <3> QED
      BY <1>7, <2>4, <2>5, <2>6
  <2> QED
    BY <1>7, <2>2, <2>8 DEF OnCourse, Working, StillPending, WritesPayment, WritesOrder, Telling
<1>20. QuietExact'
  BY <1>1, <1>2, <1>7, <1>8, <1>10, <1>15, <1>18, <1>19, ExactRuns
<1> QED
  BY <1>16, <1>17, <1>20 DEF QuietInv, CopiesTrue

(* The unique index refuses the row: the request ends half way.             *)
LEMMA QuietRecordRefused ==
  ASSUME IInv, QuietInv, NEW r \in Requests, CreditRecord(r),
         HasCredit(req[r].order, req[r].seller)
  PROVE  QuietInv'
<1>1. PICK v \in Request : v = req[r] /\ v.phase = "record"
  BY DEF IInv, Typed, CreditRecord
<1>2. PICK w \in Request : w = Idle /\ w.phase = "idle"
  BY IdleFormed DEF Idle
<1>3. req' = [req EXCEPT ![r] = w] /\ disturbed' = disturbed \cup {v.order}
  BY <1>1, <1>2 DEF CreditRecord, Finish
<1>4. UNCHANGED <<order, payment, credits, attached, notices, wallet, settled, crossed>>
  BY DEF CreditRecord, rows
<1> QED
  BY <1>1, <1>2, <1>3, <1>4, QuietRunsAside DEF Holding

(* The row is inserted: only copies of credits that met lack it.            *)
LEMMA QuietRecorded ==
  ASSUME IInv, QuietInv, NEW r \in Requests, CreditRecord(r),
         ~HasCredit(req[r].order, req[r].seller)
  PROVE  QuietInv'
<1>1. PICK v \in Request : v = req[r] /\ v.phase = "record" /\ Formed(v)
  BY DEF IInv, Typed, CreditRecord, RequestsFormed
<1>2. PICK o \in Orders : o = v.order
  BY <1>1 DEF Formed, Shaped
<1>3. PICK s \in Sellers : s = v.seller /\ s \in PayeesOf[o]
  BY <1>1, <1>2, PaymentsAssumption DEF Formed, Honest
<1>4. PICK w : w = NextSeller(v)
  OBVIOUS
<1>5. w \in Request /\ w.phase = "credit" /\ w.order = o /\ w.todo = v.todo
  BY <1>1, <1>2, <1>4, NextSellerFormed
<1>6. req' = [req EXCEPT ![r] = w]
  BY <1>1, <1>4 DEF CreditRecord
<1>7. /\ credits' = [credits EXCEPT ![o][s] = @ + 1] /\ attached' = attached \cup {<<o, s>>}
      /\ UNCHANGED <<order, payment, wallet, notices, settled, crossed, disturbed>>
  BY <1>1, <1>2, <1>3 DEF CreditRecord, rows
<1>8. /\ credits'[o][s] = credits[o][s] + 1
      /\ \A t \in Sellers \ {s} : credits'[o][t] = credits[o][t]
      /\ \A p \in Orders \ {o} : credits'[p] = credits[p]
  BY <1>2, <1>3, <1>7 DEF IInv, Typed, RowsTyped
<1>9. \A p \in Orders \ {o} : Kept(p)
  BY <1>7, <1>8 DEF Kept
<1>10. PaidOnce(o) => PaidOnce(o)'
  BY <1>7 DEF PaidOnce
<1>11. \A q \in Requests : req'[q] = IF q = r THEN w ELSE req[q]
  BY <1>6 DEF IInv, Typed
<1>12. \A q \in Requests : Holding(req[q])' => (q # r /\ Holding(req[q]) /\ req'[q] = req[q])
  BY <1>5, <1>11 DEF Holding
<1>13. HeldApart'
  BY <1>7, <1>12 DEF QuietInv, CopiesTrue, HeldApart
<1>14. \A q \in Requests : CopyTrue(req[q])'
  <2> SUFFICES ASSUME NEW q \in Requests, req'[q].phase \in {"check", "saveWallet"},
                      NEW p \in Orders, p \notin crossed'
               PROVE  /\ req'[q].copy[p] = wallet'[req'[q].seller][p]
                      /\ p \in req'[q].attached <=> <<p, req'[q].seller>> \in attached'
    BY DEF CopyTrue
  <2>1. q # r /\ req'[q] = req[q] /\ Holding(req[q]) /\ p \notin crossed
    BY <1>7, <1>12 DEF Holding
  <2>2. /\ req[q].copy[p] = wallet[req[q].seller][p]
        /\ p \in req[q].attached <=> <<p, req[q].seller>> \in attached
    BY <2>1 DEF QuietInv, CopiesTrue, CopyTrue
  <2>3. <<p, req[q].seller>> # <<o, s>>
    BY <1>1, <1>2, <1>3, <2>1 DEF QuietInv, CopiesTrue, HeldApart, Holding
  <2> QED
    BY <1>7, <2>1, <2>2, <2>3
<1>15. ASSUME OnCourse(v) PROVE OnCourse(w)'
  <2>1. Crediting(v) /\ AgreesOn(o, order[o].status)
    BY <1>1, <1>2, <1>15, CreditingFacts DEF Working
  <2>2. AgreesOn(o, order[o].status)'
    BY <1>7, <2>1 DEF AgreesOn, KeepsPayment
  <2>3. PayeesOf[o] \subseteq Sellers
    BY PaymentsAssumption
  <2>4. o \notin crossed =>
          /\ Ledger(o, s, 0, 1) /\ s \notin v.todo
          /\ \A t \in PayeesOf[o] \ {s} :
               /\ Ledger(o, t, 0, 0) \/ Ledger(o, t, 1, 1)
               /\ t \notin v.todo => Ledger(o, t, 1, 1)
    BY <1>1, <1>2, <1>3, <2>1 DEF Crediting, AtSeller, Working
  <2>5. o \notin crossed => Ledger(o, s, 1, 1)'
    BY <1>3, <1>7, <1>8, <2>4 DEF Ledger
  <2>6. o \notin crossed => \A t \in PayeesOf[o] \ {s}, n \in {0, 1} :
          Ledger(o, t, n, n) => Ledger(o, t, n, n)'
    BY <1>7, <1>8, <2>3 DEF Ledger
  <2>7. o \in settled' /\ crossed' = crossed
    BY <1>1, <1>2, <1>7, <2>1 DEF Crediting, Working
  <2>8. Crediting(w)'
    <3> SUFFICES ASSUME o \notin crossed, NEW t \in PayeesOf[o]
                 PROVE  /\ Ledger(o, t, 0, 0)' \/ Ledger(o, t, 1, 1)'
                        /\ t \notin w.todo => Ledger(o, t, 1, 1)'
      BY <1>5, <2>7 DEF Crediting, AtSeller
    <3> QED
      BY <1>5, <2>4, <2>5, <2>6
  <2> QED
    BY <1>5, <2>2, <2>8 DEF OnCourse, Working, StillPending, WritesPayment, WritesOrder, Telling
<1>16. QuietExact'
  BY <1>1, <1>2, <1>5, <1>6, <1>7, <1>9, <1>10, <1>15, ExactRuns
<1> QED
  BY <1>13, <1>14, <1>16 DEF QuietInv, CopiesTrue

LEMMA QuietCreditRecord ==
  ASSUME IInv, QuietInv, NEW r \in Requests, CreditRecord(r) PROVE QuietInv'
BY QuietRecordRefused, QuietRecorded

------------------------------------------------------------------------------
LEMMA InitQuiet == Init => QuietInv
<1> SUFFICES ASSUME Init PROVE QuietInv
  OBVIOUS
<1>1. \A r \in Requests : req[r].phase = "idle"
  BY DEF Init, Idle
<1>2. CopiesTrue
  BY <1>1 DEF CopiesTrue, HeldApart, CopyTrue, Holding
<1>3. ASSUME NEW o \in Orders PROVE Exact(o)
  <2>1. /\ order[o].status = "PENDING" /\ o \notin settled /\ notices[o] = {}
        /\ \A s \in Sellers : credits[o][s] = 0 /\ wallet[s][o] = 0 /\ <<o, s>> \notin attached
        /\ payment[o] \in {NewPayment, None}
    BY DEF Init, NoCopy
  <2>2. PayeesOf[o] \subseteq Sellers
    BY PaymentsAssumption
  <2>3. PaidOnce(o) /\ LedgerDone(o) /\ Announced(o)
    BY <2>1, <2>2 DEF PaidOnce, LedgerDone, Times, Announced
  <2>4. AgreesOn(o, order[o].status)
    BY <2>1, NewPaymentTyped DEF AgreesOn, Agreed
  <2> QED
    BY <1>1, <2>3, <2>4 DEF Exact, Busy, AtRest
<1> QED
  BY <1>2, <1>3 DEF QuietInv, QuietExact

LEMMA StepQuiet == IInv /\ QuietInv /\ [Next]_vars => QuietInv'
<1> SUFFICES ASSUME IInv, QuietInv, [Next]_vars PROVE QuietInv'
  OBVIOUS
<1>1. ASSUME NEW r \in Requests, SharedStep(r) PROVE QuietInv'
  BY <1>1, QuietSaveOrder, QuietSavePayment, QuietCreditRead, QuietCreditCheck,
     QuietCreditSave, QuietCreditRecord, QuietNotify, QuietBreakOff DEF SharedStep
<1>2. ASSUME NEW r \in Requests, MercadoPagoStep(r) PROVE QuietInv'
  BY <1>2, QuietCreatePreference, QuietWebhook DEF MercadoPagoStep
<1>3. ASSUME NEW r \in Requests, ManualStep(r) PROVE QuietInv'
  BY <1>3, QuietNotifyTransfer, QuietUploadProof, QuietDecideManually,
     QuietInsertTransferPayment DEF ManualStep
<1>4. ASSUME NEW r \in Requests, QrStep(r) PROVE QuietInv'
  BY <1>4, QuietCreateQr, QuietInsertQrPayment, QuietExpireQrs, QuietInsertQrAttempt,
     QuietQrWebhook, QuietMintQr, QuietMintQrFails, QuietSaveQrAttempt,
     QuietApplyQrStatus, QuietApplyQrFails DEF QrStep
<1>5. ASSUME NEW r \in Requests, PaywayStep(r) PROVE QuietInv'
  BY <1>5, QuietLockForLink, QuietCommitLink, QuietLoseLink DEF PaywayStep
<1>6. CASE \/ \E o \in Orders, c \in Charges : PayPreference(o, c)
           \/ \E c \in Charges, st \in AttemptStatus : ProviderDecides(c, st)
           \/ \E a \in Attempts : TimePasses(a)
           \/ UNCHANGED vars
  <2>1. UNCHANGED <<order, payment, credits, attached, notices, wallet, settled, crossed, disturbed, req>>
    BY <1>6 DEF PayPreference, ProviderDecides, TimePasses, vars, rows, money, history
  <2> QED
    BY <2>1, QuietSame
<1> QED
  BY <1>1, <1>2, <1>3, <1>4, <1>5, <1>6 DEF Next, RouteStep

LEMMA QuietInductive == Spec => []QuietInv
BY InitQuiet, StepQuiet, Inductive, PTL DEF Spec

LEMMA QuietAtRest ==
  ASSUME QuietInv, NEW o \in Orders, Quiet(o) PROVE AtRest(o)
BY DEF QuietInv, QuietExact, Exact, Quiet

(* Without overlap or failure on an order the buyer knows if it was ever    *)
(* paid; and where its credit never met another one at a wallet each of its *)
(* sellers is then credited once, row and amount, whatever is done to the   *)
(* wallets before or after.                                                 *)
THEOREM SaleCreditedOnce == Spec => []QuietSaleIsCreditedOnce
<1>1. QuietInv => QuietSaleIsCreditedOnce
  BY QuietAtRest DEF QuietSaleIsCreditedOnce, AtRest, LedgerDone, Times, Announced, Told
<1> QED
  BY <1>1, QuietInductive, PTL

(* Without overlap or failure on an order, its payment and its status agree *)
(* and it stays paid, where the route records a payment.                    *)
THEOREM PaymentAgrees == Spec => []QuietPaymentAgrees
<1>1. QuietInv => QuietPaymentAgrees
  BY QuietAtRest DEF QuietPaymentAgrees, AtRest, AgreesOn, Agreed, KeepsPayment
<1> QED
  BY <1>1, QuietInductive, PTL
==============================================================================
