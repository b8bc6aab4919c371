--------------------------- MODULE ShipmentsProofs ---------------------------
(***************************************************************************)
(* Proofs about Shipments for all orders, drivers, concurrent requests and *)
(* faults.  Under every overlap a row that will be saved is that of a paid *)
(* order and has the driver it needs; as long as requests on an order do   *)
(* not overlap, what a request has read is still so when it saves.         *)
(***************************************************************************)
EXTENDS Shipments, TLAPS

(* A row that may be stored for order o: on its way it has a driver.        *)
Staffed(o, row) ==
  row.type = "LOCAL_DELIVERY" /\ o \notin retyped /\ row.status \in Moving
    => row.driver # None

(* The order of a delivered shipment was closed or decided since.           *)
Closed(o) == order[o] = "DELIVERED" \/ o \in rewritten

(* What a request relies on under every overlap.                            *)
Sound(w) ==
  w.phase # "idle" =>
    /\ w.order \in Orders /\ w.order \in paidOnce
    /\ w.phase \in {"insert", "save"} => w.row \in Shipment /\ Staffed(w.order, w.row)
    /\ w.phase \in {"save", "close"} => Exists(w.order)

(* What a request that is alone with its order relies on.                   *)
Steady(w) ==
  w.phase # "idle" /\ w.order \notin disturbed =>
    /\ w.phase = "insert" => /\ ~Exists(w.order)
                             /\ w.row.driver = assigned[w.order]
                             /\ w.row.status # "DELIVERED"
    /\ w.phase = "save" => /\ w.row.driver = assigned[w.order]
                           /\ w.row.status = "DELIVERED" => w.closes \/ Closed(w.order)
    /\ w.phase = "close" => shipment[w.order].driver = assigned[w.order]

RequestsSound == \A r \in Requests : Sound(req[r]) /\ Steady(req[r])

(* Of an undisturbed order one request is in progress at most.              *)
Alone ==
  \A o \in Orders : o \notin disturbed =>
    \A q, r \in Requests : Busy(q, o) /\ Busy(r, o) => q = r

(* The stored shipments, and those nobody is working on.                    *)
Stored ==
  \A o \in Orders :
    /\ Exists(o) => o \in paidOnce /\ Staffed(o, shipment[o])
    /\ ~Exists(o) => assigned[o] = None

AtRest ==
  \A o \in Orders : Quiet(o) /\ Exists(o) =>
    /\ shipment[o].driver = assigned[o]
    /\ shipment[o].status = "DELIVERED" => Closed(o)

PaidKnown == \A o \in Orders : order[o] = "PAID" => o \in paidOnce

(* The inductive invariant.                                                 *)
IInv ==
  /\ TypeOK /\ RequestsSound /\ Alone /\ Stored /\ AtRest
  /\ PaidKnown /\ DeliveredWasPaid

LEMMA InitIInv == Init => IInv
<1> SUFFICES ASSUME Init PROVE IInv
  OBVIOUS
<1> USE ShipmentsAssumption
<1>1. Idle \in Request /\ Idle.phase = "idle"
  BY DEF Idle, Request
<1>2. \A r \in Requests : req[r] = Idle
  BY DEF Init
<1>3. TypeOK
  BY <1>1, <1>2 DEF Init, TypeOK, OrderStatus
<1>4. RequestsSound /\ Alone
  BY <1>1, <1>2 DEF RequestsSound, Sound, Steady, Alone, Busy
<1>5. \A o \in Orders : ~Exists(o) /\ assigned[o] = None /\ order[o] = "PENDING"
  BY DEF Init, Exists
<1> QED
  BY <1>3, <1>4, <1>5 DEF IInv, Stored, AtRest, PaidKnown, DeliveredWasPaid

(* A request that has read its rows and will insert or save row w.row.      *)
LEMMA StartStep ==
  ASSUME IInv, NEW r \in Requests, NEW o \in Orders, NEW w \in Request,
         Start(r, o, w), w.order = o, w.phase \in {"insert", "save"},
         w.row \in Shipment, o \in paidOnce,
         retyped' = retyped \/ retyped' = retyped \cup {o},
         Staffed(o, w.row)',
         assigned' \in [Orders -> Drivers \cup {None}],
         \A p \in Orders \ {o} : assigned'[p] = assigned[p],
         w.phase = "insert" => /\ ~Exists(o) /\ assigned' = assigned
                               /\ w.row.driver = None /\ w.row.status # "DELIVERED",
         w.phase = "save" =>
           /\ Exists(o)
           /\ \/ w.row.driver = shipment[o].driver /\ assigned'[o] = assigned[o]
              \/ w.row.driver = assigned'[o]
           /\ w.row.status = "DELIVERED" => w.closes \/ shipment[o].status = "DELIVERED"
  PROVE  IInv'
<1>1. /\ req[r].phase = "idle" /\ started' = started + 1 /\ started < MaxRequests
      /\ req' = [req EXCEPT ![r] = w]
      /\ disturbed' = disturbed \cup
                        (IF \E q \in Requests : Busy(q, o) THEN {o} ELSE {})
      /\ order' = order /\ shipment' = shipment /\ faults' = faults
      /\ paidOnce' = paidOnce /\ rewritten' = rewritten
  BY DEF Start
<1>2. TypeOK'
  <2>1. started' \in 0..MaxRequests
    BY <1>1, ShipmentsAssumption DEF IInv, TypeOK
  <2>2. req' \in [Requests -> Request]
    BY <1>1 DEF IInv, TypeOK
  <2>3. \A q \in Requests : req'[q].phase # "idle" => req'[q].order \in Orders
    BY <1>1 DEF IInv, TypeOK
  <2>4. retyped' \subseteq Orders /\ disturbed' \subseteq Orders
    BY <1>1 DEF IInv, TypeOK
  <2> QED
    BY <1>1, <2>1, <2>2, <2>3, <2>4 DEF IInv, TypeOK
<1>3. \A q \in Requests \ {r} : req'[q] = req[q]
  BY <1>1 DEF IInv, TypeOK
<1>4. req'[r] = w
  BY <1>1 DEF IInv, TypeOK
<1>5. \A p \in Orders : p \notin disturbed' =>
        /\ p \notin disturbed
        /\ p = o => \A q \in Requests : ~Busy(q, o)
  BY <1>1
<1>6. \A p \in Orders : \A row \in Shipment : Staffed(p, row) => Staffed(p, row)'
  BY <1>1 DEF Staffed
<1>7. \A p : (Exists(p)' <=> Exists(p)) /\ (Closed(p)' <=> Closed(p))
  BY <1>1 DEF Exists, Closed
<1>8. w.phase = "save" /\ o \notin disturbed' =>
        /\ w.row.driver = assigned'[o]
        /\ w.row.status = "DELIVERED" => w.closes \/ Closed(o)
  <2> SUFFICES ASSUME w.phase = "save", o \notin disturbed'
               PROVE  /\ w.row.driver = assigned'[o]
                      /\ w.row.status = "DELIVERED" => w.closes \/ Closed(o)
    OBVIOUS
  <2>1. Quiet(o) /\ Exists(o)
    BY <1>5 DEF Quiet
  <2>2. /\ shipment[o].driver = assigned[o]
        /\ shipment[o].status = "DELIVERED" => Closed(o)
    BY <2>1 DEF IInv, AtRest
  <2> QED
    BY <2>2
<1>9. Sound(w)' /\ Steady(w)'
  <2>1. Sound(w)'
    BY <1>1, <1>7 DEF Sound
  <2>2. w.phase = "insert" => w.row.driver = assigned'[o]
    BY DEF IInv, Stored
  <2> QED
    BY <1>7, <1>8, <2>1, <2>2 DEF Steady
<1>10. \A q \in Requests \ {r} : Sound(req[q])' /\ Steady(req[q])'
  <2> SUFFICES ASSUME NEW q \in Requests \ {r} PROVE Sound(req[q])' /\ Steady(req[q])'
    OBVIOUS
  <2>1. Sound(req[q]) /\ Steady(req[q]) /\ req'[q] = req[q]
    BY <1>3 DEF IInv, RequestsSound
  <2>2. Sound(req[q])'
    BY <2>1, <1>1, <1>6, <1>7 DEF Sound
  <2>3. req[q].phase # "idle" /\ req[q].order \notin disturbed'
          => /\ req[q].order \notin disturbed /\ req[q].order \in Orders
             /\ assigned'[req[q].order] = assigned[req[q].order]
    BY <1>5, <2>1 DEF Sound, Busy
  <2> QED
    BY <2>1, <2>2, <2>3, <1>1, <1>7 DEF Steady
<1>11. RequestsSound'
  BY <1>3, <1>4, <1>9, <1>10 DEF RequestsSound
<1>12. Alone'
  BY <1>3, <1>4, <1>5 DEF IInv, Alone, Busy
<1>13. Stored'
  <2> SUFFICES ASSUME NEW p \in Orders
               PROVE  /\ Exists(p) => p \in paidOnce' /\ Staffed(p, shipment[p])'
                      /\ ~Exists(p) => assigned'[p] = None
    BY <1>7 DEF Stored
  <2>1. Exists(p) => shipment[p] \in Shipment
    BY DEF IInv, TypeOK, Exists
  <2> QED
    BY <2>1, <1>1, <1>6 DEF IInv, Stored
<1>14. AtRest'
  <2> SUFFICES ASSUME NEW p \in Orders, Quiet(p)', Exists(p)'
               PROVE  /\ shipment'[p].driver = assigned'[p]
                      /\ shipment'[p].status = "DELIVERED" => Closed(p)'
    BY DEF AtRest
  <2>1. p # o
    BY <1>4 DEF Quiet, Busy
  <2>2. Quiet(p) /\ Exists(p)
    BY <1>1, <1>3, <1>5, <1>7 DEF Quiet, Busy
  <2> QED
    BY <2>1, <2>2, <1>1, <1>7 DEF IInv, AtRest
<1> QED
  BY <1>1, <1>2, <1>7, <1>11, <1>12, <1>13, <1>14 DEF IInv, PaidKnown, DeliveredWasPaid

------------------------------------------------------------------------------
(* Each operation reads what StartStep asks for.                            *)
LEMMA ReadRow ==
  ASSUME IInv, NEW o \in Orders, Exists(o)
  PROVE  /\ shipment[o] \in Shipment /\ o \in paidOnce /\ Staffed(o, shipment[o])
         /\ assigned \in [Orders -> Drivers \cup {None}]
BY DEF IInv, TypeOK, Stored, Exists

(* An operation that changes neither type nor driver.                       *)
LEMMA SavesStep ==
  ASSUME IInv, NEW r \in Requests, NEW o \in Orders, Exists(o),
         NEW st \in ShipmentStatus, NEW c \in BOOLEAN,
         Start(r, o, [phase |-> "save", order |-> o, closes |-> c,
                      row |-> [shipment[o] EXCEPT !.status = st]]),
         st = "DELIVERED" => c \/ shipment[o].status = "DELIVERED",
         Staffed(o, [shipment[o] EXCEPT !.status = st]),
         retyped' = retyped, assigned' = assigned
  PROVE  IInv'
<1>a. PICK row : row = [shipment[o] EXCEPT !.status = st]
  OBVIOUS
<1>b. PICK w : w = [phase |-> "save", order |-> o, closes |-> c, row |-> row]
  OBVIOUS
<1>1. /\ shipment[o] \in Shipment /\ o \in paidOnce
      /\ assigned \in [Orders -> Drivers \cup {None}]
  BY ReadRow
<1>2. /\ row \in Shipment /\ row.status = st /\ row.type = shipment[o].type
      /\ row.driver = shipment[o].driver
  BY <1>a, <1>1 DEF Shipment
<1>3. w \in Request /\ w.phase = "save" /\ w.order = o /\ w.closes = c /\ w.row = row
  BY <1>b, <1>2 DEF Request
<1>4. Staffed(o, row)'
  BY <1>a, <1>2 DEF Staffed
<1>5. Start(r, o, w)
  BY <1>a, <1>b
<1> QED
  BY <1>1, <1>2, <1>3, <1>4, <1>5, StartStep

LEMMA CreateStep ==
  ASSUME IInv, NEW r \in Requests, NEW o \in Orders, NEW type \in Type,
         Create(r, o, type)
  PROVE  IInv'
<1>a. PICK row : row = New(type)
  OBVIOUS
<1>b. PICK w : w = [phase |-> "insert", order |-> o, row |-> row, closes |-> FALSE]
  OBVIOUS
<1>1. /\ row \in Shipment /\ row.driver = None
      /\ row.status \notin Moving
  BY <1>a DEF New, Shipment, Moving, ShipmentStatus
<1>2. w \in Request /\ w.phase = "insert" /\ w.order = o /\ w.row = row
  BY <1>b, <1>1 DEF Request
<1>3. /\ Start(r, o, w) /\ ~Exists(o) /\ o \in paidOnce
      /\ retyped' = retyped /\ assigned' = assigned
      /\ assigned \in [Orders -> Drivers \cup {None}]
  BY <1>a, <1>b DEF Create, Shippable, IInv, PaidKnown, TypeOK
<1>4. Staffed(o, row)' /\ row.status # "DELIVERED"
  BY <1>1 DEF Staffed, Moving
<1> QED
  BY <1>1, <1>2, <1>3, <1>4, StartStep

LEMMA UpdateStep ==
  ASSUME IInv, NEW r \in Requests, NEW o \in Orders, NEW type \in Type,
         Update(r, o, type)
  PROVE  IInv'
<1>a. PICK row : row = [shipment[o] EXCEPT !.type = type]
  OBVIOUS
<1>b. PICK w : w = [phase |-> "save", order |-> o, row |-> row, closes |-> FALSE]
  OBVIOUS
<1>1. /\ Exists(o) /\ shipment[o] \in Shipment /\ o \in paidOnce
      /\ Staffed(o, shipment[o]) /\ assigned \in [Orders -> Drivers \cup {None}]
  BY ReadRow DEF Update
<1>2. /\ row \in Shipment /\ row.status = shipment[o].status /\ row.type = type
      /\ row.driver = shipment[o].driver
  BY <1>a, <1>1 DEF Shipment
<1>3. w \in Request /\ w.phase = "save" /\ w.order = o /\ w.row = row
  BY <1>b, <1>2 DEF Request
<1>4. /\ Start(r, o, w) /\ assigned' = assigned
      /\ retyped' = IF type # shipment[o].type THEN retyped \cup {o} ELSE retyped
  BY <1>a, <1>b DEF Update, Saves, Edited
<1>5. Staffed(o, row)' /\ (retyped' = retyped \/ retyped' = retyped \cup {o})
  BY <1>1, <1>2, <1>4 DEF Staffed
<1> QED
  BY <1>1, <1>2, <1>3, <1>4, <1>5, StartStep

LEMMA AssignStep ==
  ASSUME IInv, NEW r \in Requests, NEW o \in Orders, NEW d \in Drivers,
         AssignDriver(r, o, d)
  PROVE  IInv'
<1>a. PICK row : row = [shipment[o] EXCEPT !.driver = d, !.status = "DRIVER_ASSIGNED"]
  OBVIOUS
<1>b. PICK w : w = [phase |-> "save", order |-> o, row |-> row, closes |-> FALSE]
  OBVIOUS
<1>1. /\ Exists(o) /\ shipment[o] \in Shipment /\ o \in paidOnce
      /\ assigned \in [Orders -> Drivers \cup {None}]
  BY ReadRow DEF AssignDriver
<1>2. row \in Shipment /\ row.status = "DRIVER_ASSIGNED" /\ row.driver = d
  BY <1>a, <1>1 DEF Shipment, ShipmentStatus
<1>3. w \in Request /\ w.phase = "save" /\ w.order = o /\ w.row = row
  BY <1>b, <1>2 DEF Request
<1>4. /\ Start(r, o, w) /\ retyped' = retyped
      /\ assigned' = [assigned EXCEPT ![o] = d]
  BY <1>a, <1>b DEF AssignDriver, Saves
<1>5. Staffed(o, row)'
  BY <1>2, ShipmentsAssumption DEF Staffed
<1>6. assigned' \in [Orders -> Drivers \cup {None}] /\ assigned'[o] = d
      /\ \A p \in Orders \ {o} : assigned'[p] = assigned[p]
  BY <1>1, <1>4
<1> QED
  BY <1>1, <1>2, <1>3, <1>4, <1>5, <1>6, StartStep

(* The operations that move a shipment on: by its driver, or by anybody     *)
(* where there is none to be.                                               *)
LEMMA MoveStep ==
  ASSUME IInv, NEW r \in Requests, NEW o \in Orders, NEW u,
         \/ /\ u \in Drivers
            /\ MarkPickedUp(r, o, u) \/ MarkInTransit(r, o, u) \/ MarkDelivered(r, o, u)
         \/ UpdateTracking(r, o) \/ Cancel(r, o)
  PROVE  IInv'
<1>1. Exists(o) /\ shipment[o] \in Shipment
  <2>1. Exists(o)
    BY DEF MarkPickedUp, MarkInTransit, MarkDelivered, UpdateTracking, Cancel
  <2> QED
    BY <2>1, ReadRow
<1>2. \A st \in ShipmentStatus :
        LET row == [shipment[o] EXCEPT !.status = st]
        IN  row.status = st /\ row.type = shipment[o].type /\ row.driver = shipment[o].driver
  BY <1>1 DEF Shipment
<1>3. \A st \in ShipmentStatus :
        \/ shipment[o].type = "NATIONAL_SHIPPING"
        \/ u \in Drivers /\ shipment[o].driver = u
        \/ st \notin Moving
        => Staffed(o, [shipment[o] EXCEPT !.status = st])
  BY <1>2, ShipmentsAssumption DEF Staffed
<1>4. CASE u \in Drivers /\ MarkPickedUp(r, o, u)
  <2>1. Staffed(o, [shipment[o] EXCEPT !.status = "PICKED_UP"])
    BY <1>3, <1>4 DEF MarkPickedUp, IsDriver, ShipmentStatus
  <2> QED
    BY <1>1, <1>4, <2>1, SavesStep DEF MarkPickedUp, Saves, ShipmentStatus
<1>5. CASE u \in Drivers /\ MarkInTransit(r, o, u)
  <2>1. Staffed(o, [shipment[o] EXCEPT !.status = "IN_TRANSIT"])
    BY <1>1, <1>3, <1>5 DEF MarkInTransit, Entitled, IsDriver, ShipmentStatus, Shipment, Type
  <2> QED
    BY <1>1, <1>5, <2>1, SavesStep DEF MarkInTransit, Saves, ShipmentStatus
<1>6. CASE u \in Drivers /\ MarkDelivered(r, o, u)
  <2>1. Staffed(o, [shipment[o] EXCEPT !.status = "DELIVERED"])
    BY <1>1, <1>3, <1>6 DEF MarkDelivered, Entitled, IsDriver, ShipmentStatus, Shipment, Type
  <2> QED
    BY <1>1, <1>6, <2>1, SavesStep DEF MarkDelivered, Closes, ShipmentStatus
<1>7. CASE UpdateTracking(r, o)
  <2>1. Staffed(o, [shipment[o] EXCEPT !.status = "IN_TRANSIT"])
    BY <1>3, <1>7 DEF UpdateTracking, ShipmentStatus
  <2> QED
    BY <1>1, <1>7, <2>1, SavesStep DEF UpdateTracking, Saves, ShipmentStatus
<1>8. CASE Cancel(r, o)
  <2>1. Staffed(o, [shipment[o] EXCEPT !.status = "CANCELLED"])
    BY <1>3 DEF Moving, ShipmentStatus
  <2> QED
    BY <1>1, <1>8, <2>1, SavesStep DEF Cancel, Saves, ShipmentStatus
<1> QED
  BY <1>4, <1>5, <1>6, <1>7, <1>8

------------------------------------------------------------------------------
(* A request that saves, closes or ends.                                    *)

(* What a step of request r on order o must leave to the other requests.    *)
LEMMA OthersKept ==
  ASSUME IInv, NEW r \in Requests, NEW w \in Request, NEW o \in Orders,
         req[r].phase # "idle", req[r].order = o,
         w.phase # "idle" => w.order = o,
         req' = [req EXCEPT ![r] = w], Sound(w)', Steady(w)',
         paidOnce' = paidOnce, retyped' = retyped, assigned' = assigned,
         \A p \in Orders \ {o} : /\ order'[p] = order[p] /\ shipment'[p] = shipment[p]
                                 /\ (p \in rewritten' <=> p \in rewritten),
         disturbed \subseteq disturbed',
         Exists(o) => Exists(o)'
  PROVE  /\ RequestsSound' /\ Alone'
         /\ req' \in [Requests -> Request]
         /\ \A q \in Requests : req'[q].phase # "idle" => req'[q].order \in Orders
         /\ \A p \in Orders \ {o} : Quiet(p)' /\ Exists(p)' => Quiet(p) /\ Exists(p)
<1>1. \A q \in Requests : req'[q] = IF q = r THEN w ELSE req[q]
  BY DEF IInv, TypeOK
<1>2. \A p \in Orders \ {o} : (Exists(p)' <=> Exists(p)) /\ (Closed(p)' <=> Closed(p))
  BY DEF Exists, Closed
<1>3. \A q \in Requests \ {r} : Sound(req[q])' /\ Steady(req[q])'
  <2> SUFFICES ASSUME NEW q \in Requests \ {r} PROVE Sound(req[q])' /\ Steady(req[q])'
    OBVIOUS
  <2>1. Sound(req[q]) /\ Steady(req[q]) /\ req'[q] = req[q]
    BY <1>1 DEF IInv, RequestsSound
  <2>2. Sound(req[q])'
    BY <2>1, <1>2 DEF Sound, Staffed
  <2>3. req[q].phase # "idle" /\ req[q].order \notin disturbed' =>
          req[q].order # o /\ req[q].order \notin disturbed /\ req[q].order \in Orders
    BY <2>1 DEF IInv, Alone, Busy, Sound
  <2> QED
    BY <2>1, <2>2, <2>3, <1>2 DEF Steady
<1>4. RequestsSound'
  BY <1>1, <1>3 DEF RequestsSound
<1>5. Alone'
  BY <1>1 DEF IInv, Alone, Busy
<1>6. \A p \in Orders \ {o} : Quiet(p)' /\ Exists(p)' => Quiet(p) /\ Exists(p)
  BY <1>1, <1>2 DEF Quiet, Busy
<1> QED
  BY <1>1, <1>4, <1>5, <1>6 DEF IInv, TypeOK

LEMMA IdleSound == Idle \in Request /\ Idle.phase = "idle" /\ Sound(Idle)' /\ Steady(Idle)'
BY DEF Idle, Request, Sound, Steady

LEMMA InsertStep ==
  ASSUME IInv, NEW r \in Requests, InsertShipment(r)
  PROVE  IInv'
<1>a. PICK o : o = req[r].order
  OBVIOUS
<1>b. PICK w : w = Idle
  OBVIOUS
<1>1. /\ req[r].phase = "insert" /\ Sound(req[r]) /\ Steady(req[r])
      /\ o \in Orders /\ o \in paidOnce /\ req[r].row \in Shipment
      /\ Staffed(o, req[r].row)
  BY <1>a DEF InsertShipment, IInv, RequestsSound, Sound
<1>2. /\ shipment' = IF Exists(o) THEN shipment ELSE [shipment EXCEPT ![o] = req[r].row]
      /\ req' = [req EXCEPT ![r] = w]
      /\ UNCHANGED <<order, bounds, history>>
  BY <1>a, <1>b DEF InsertShipment, Finish
<1>3. /\ shipment' \in [Orders -> Shipment \cup {None}]
      /\ \A p \in Orders \ {o} : shipment'[p] = shipment[p]
      /\ shipment'[o] = IF Exists(o) THEN shipment[o] ELSE req[r].row
  BY <1>1, <1>2 DEF IInv, TypeOK
<1>4. Exists(o)' /\ \A p \in Orders \ {o} : Exists(p)' <=> Exists(p)
  BY <1>1, <1>3, NoRowAssumption DEF Exists
<1>5. w \in Request /\ w.phase = "idle" /\ Sound(w)' /\ Steady(w)'
  BY <1>b, IdleSound
<1>6. /\ RequestsSound' /\ Alone' /\ req' \in [Requests -> Request]
      /\ \A q \in Requests : req'[q].phase # "idle" => req'[q].order \in Orders
      /\ \A p \in Orders \ {o} : Quiet(p)' /\ Exists(p)' => Quiet(p) /\ Exists(p)
  BY <1>1, <1>2, <1>3, <1>4, <1>5, <1>a, OthersKept DEF history
<1>7. TypeOK'
  BY <1>2, <1>3, <1>6 DEF IInv, TypeOK, bounds, history
<1>8. Stored'
  BY <1>1, <1>2, <1>3, <1>4 DEF IInv, Stored, Staffed, history
<1>9. AtRest'
  <2> SUFFICES ASSUME NEW p \in Orders, Quiet(p)', Exists(p)'
               PROVE  /\ shipment'[p].driver = assigned'[p]
                      /\ shipment'[p].status = "DELIVERED" => Closed(p)'
    BY DEF AtRest
  <2>1. CASE p = o
    BY <2>1, <1>a, <1>1, <1>2, <1>3 DEF Steady, Quiet, history
  <2>2. CASE p # o
    BY <2>2, <1>2, <1>3, <1>6 DEF IInv, AtRest, Closed, history
  <2> QED
    BY <2>1, <2>2
<1>10. PaidKnown' /\ DeliveredWasPaid'
  BY <1>2, <1>4 DEF IInv, PaidKnown, DeliveredWasPaid, history
<1> QED
  BY <1>6, <1>7, <1>8, <1>9, <1>10 DEF IInv

LEMMA SaveStep ==
  ASSUME IInv, NEW r \in Requests, SaveShipment(r)
  PROVE  IInv'
<1>a. PICK o : o = req[r].order
  OBVIOUS
<1>b. PICK w : w = IF req[r].closes THEN [req[r] EXCEPT !.phase = "close"] ELSE Idle
  OBVIOUS
<1>1. /\ req[r].phase = "save" /\ Sound(req[r]) /\ Steady(req[r])
      /\ o \in Orders /\ o \in paidOnce /\ req[r].row \in Shipment /\ Exists(o)
      /\ Staffed(o, req[r].row) /\ req[r] \in Request
  BY <1>a DEF SaveShipment, IInv, RequestsSound, Sound, TypeOK
<1>2. /\ shipment' = [shipment EXCEPT ![o] = req[r].row]
      /\ req' = [req EXCEPT ![r] = w]
      /\ UNCHANGED <<order, bounds, history>>
  BY <1>a, <1>b DEF SaveShipment, Finish
<1>3. /\ shipment' \in [Orders -> Shipment \cup {None}]
      /\ \A p \in Orders \ {o} : shipment'[p] = shipment[p]
      /\ shipment'[o] = req[r].row
  BY <1>1, <1>2 DEF IInv, TypeOK
<1>4. Exists(o)' /\ \A p \in Orders \ {o} : Exists(p)' <=> Exists(p)
  BY <1>1, <1>3, NoRowAssumption DEF Exists
<1>5. /\ w \in Request
      /\ w.phase # "idle" => w.phase = "close" /\ w.order = o
      /\ w.phase = "idle" => ~req[r].closes
  BY <1>a, <1>b, <1>1, IdleSound DEF Request
<1>6. Sound(w)' /\ Steady(w)'
  BY <1>a, <1>1, <1>2, <1>3, <1>4, <1>5 DEF Sound, Steady, history
<1>7. /\ RequestsSound' /\ Alone' /\ req' \in [Requests -> Request]
      /\ \A q \in Requests : req'[q].phase # "idle" => req'[q].order \in Orders
      /\ \A p \in Orders \ {o} : Quiet(p)' /\ Exists(p)' => Quiet(p) /\ Exists(p)
  BY <1>1, <1>2, <1>3, <1>4, <1>5, <1>6, <1>a, OthersKept DEF history
<1>8. TypeOK'
  BY <1>2, <1>3, <1>7 DEF IInv, TypeOK, bounds, history
<1>9. Stored'
  BY <1>1, <1>2, <1>3, <1>4 DEF IInv, Stored, Staffed, history
<1>10. AtRest'
  <2> SUFFICES ASSUME NEW p \in Orders, Quiet(p)', Exists(p)'
               PROVE  /\ shipment'[p].driver = assigned'[p]
                      /\ shipment'[p].status = "DELIVERED" => Closed(p)'
    BY DEF AtRest
  <2>1. CASE p = o
    <3>1. req'[r] = w /\ ~Busy(r, o)' /\ o \notin disturbed
      BY <2>1, <1>2 DEF Quiet, IInv, TypeOK, history
    <3>2. ~req[r].closes
      BY <3>1, <1>5 DEF Busy
    <3> QED
      BY <2>1, <3>1, <3>2, <1>a, <1>1, <1>2, <1>3 DEF Steady, Closed, history
  <2>2. CASE p # o
    BY <2>2, <1>2, <1>3, <1>7 DEF IInv, AtRest, Closed, history
  <2> QED
    BY <2>1, <2>2
<1>11. PaidKnown' /\ DeliveredWasPaid'
  BY <1>2, <1>4 DEF IInv, PaidKnown, DeliveredWasPaid, history
<1> QED
  BY <1>7, <1>8, <1>9, <1>10, <1>11 DEF IInv

LEMMA CloseStep ==
  ASSUME IInv, NEW r \in Requests, CloseOrder(r)
  PROVE  IInv'
<1>a. PICK o : o = req[r].order
  OBVIOUS
<1>b. PICK w : w = Idle
  OBVIOUS
<1>1. /\ req[r].phase = "close" /\ Sound(req[r]) /\ Steady(req[r])
      /\ o \in Orders /\ o \in paidOnce /\ Exists(o)
  BY <1>a DEF CloseOrder, IInv, RequestsSound, Sound
<1>2. /\ order' = [order EXCEPT ![o] = "DELIVERED"] /\ rewritten' = rewritten \ {o}
      /\ req' = [req EXCEPT ![r] = w]
      /\ UNCHANGED <<shipment, bounds, paidOnce, retyped, assigned, disturbed>>
  BY <1>a, <1>b DEF CloseOrder, Finish
<1>3. /\ order' \in [Orders -> OrderStatus] /\ order'[o] = "DELIVERED"
      /\ \A p \in Orders \ {o} : order'[p] = order[p]
  BY <1>1, <1>2 DEF IInv, TypeOK, OrderStatus
<1>4. \A p : Exists(p)' <=> Exists(p)
  BY <1>2 DEF Exists
<1>5. w \in Request /\ w.phase = "idle" /\ Sound(w)' /\ Steady(w)'
  BY <1>b, IdleSound
<1>6. /\ RequestsSound' /\ Alone' /\ req' \in [Requests -> Request]
      /\ \A q \in Requests : req'[q].phase # "idle" => req'[q].order \in Orders
      /\ \A p \in Orders \ {o} : Quiet(p)' /\ Exists(p)' => Quiet(p) /\ Exists(p)
  BY <1>1, <1>2, <1>3, <1>4, <1>5, <1>a, OthersKept
<1>7. TypeOK'
  BY <1>2, <1>3, <1>6 DEF IInv, TypeOK, bounds
<1>8. Stored'
  BY <1>2, <1>4 DEF IInv, Stored, Staffed
<1>9. AtRest'
  <2> SUFFICES ASSUME NEW p \in Orders, Quiet(p)', Exists(p)'
               PROVE  /\ shipment'[p].driver = assigned'[p]
                      /\ shipment'[p].status = "DELIVERED" => Closed(p)'
    BY DEF AtRest
  <2>1. CASE p = o
    BY <2>1, <1>a, <1>1, <1>2, <1>3 DEF Steady, Quiet, Closed
  <2>2. CASE p # o
    BY <2>2, <1>2, <1>3, <1>6 DEF IInv, AtRest, Closed
  <2> QED
    BY <2>1, <2>2
<1>10. PaidKnown' /\ DeliveredWasPaid'
  BY <1>1, <1>2, <1>3, <1>4 DEF IInv, PaidKnown, DeliveredWasPaid
<1> QED
  BY <1>6, <1>7, <1>8, <1>9, <1>10 DEF IInv

LEMMA BreakOffStep ==
  ASSUME IInv, NEW r \in Requests, BreakOff(r)
  PROVE  IInv'
<1>a. PICK o : o = req[r].order
  OBVIOUS
<1>b. PICK w : w = Idle
  OBVIOUS
<1>1. req[r].phase # "idle" /\ o \in Orders
  BY <1>a DEF BreakOff, IInv, TypeOK
<1>2. /\ req' = [req EXCEPT ![r] = w] /\ disturbed' = disturbed \cup {o}
      /\ faults < MaxFaults /\ faults' = faults + 1
      /\ UNCHANGED <<order, shipment, started, paidOnce, retyped, assigned, rewritten>>
  BY <1>a, <1>b DEF BreakOff, Finish
<1>3. \A p : (Exists(p)' <=> Exists(p)) /\ (Closed(p)' <=> Closed(p))
  BY <1>2 DEF Exists, Closed
<1>4. w \in Request /\ w.phase = "idle" /\ Sound(w)' /\ Steady(w)'
  BY <1>b, IdleSound
<1>5. /\ RequestsSound' /\ Alone' /\ req' \in [Requests -> Request]
      /\ \A q \in Requests : req'[q].phase # "idle" => req'[q].order \in Orders
      /\ \A p \in Orders \ {o} : Quiet(p)' /\ Exists(p)' => Quiet(p) /\ Exists(p)
  BY <1>1, <1>2, <1>3, <1>4, <1>a, OthersKept
<1>6. faults' \in 0..MaxFaults
  BY <1>2, ShipmentsAssumption DEF IInv, TypeOK
<1>7. TypeOK'
  BY <1>1, <1>2, <1>5, <1>6 DEF IInv, TypeOK
<1>8. Stored' /\ PaidKnown' /\ DeliveredWasPaid'
  BY <1>2, <1>3 DEF IInv, Stored, Staffed, PaidKnown, DeliveredWasPaid
<1>9. AtRest'
  BY <1>2, <1>3, <1>5 DEF IInv, AtRest, Quiet
<1> QED
  BY <1>5, <1>7, <1>8, <1>9 DEF IInv

(* A payment route decides an order: whoever delivers it has to close it    *)
(* again.                                                                   *)
LEMMA DecideStep ==
  ASSUME IInv, NEW o \in Orders, NEW status \in {"PENDING", "PAID", "REJECTED", "CANCELLED"},
         PaymentDecides(o, status)
  PROVE  IInv'
<1>1. /\ order' = [order EXCEPT ![o] = status]
      /\ paidOnce' = IF status = "PAID" THEN paidOnce \cup {o} ELSE paidOnce
      /\ rewritten' = IF Exists(o) THEN rewritten \cup {o} ELSE rewritten
      /\ UNCHANGED <<shipment, req, bounds, retyped, assigned, disturbed>>
  BY DEF PaymentDecides
<1>2. /\ order' \in [Orders -> OrderStatus] /\ order'[o] = status
      /\ \A p \in Orders \ {o} : order'[p] = order[p]
  BY <1>1 DEF IInv, TypeOK, OrderStatus
<1>3. /\ \A p : Exists(p)' <=> Exists(p)
      /\ \A p \in Orders : Exists(p) /\ Closed(p) => Closed(p)'
  BY <1>1, <1>2 DEF Exists, Closed
<1>4. TypeOK'
  BY <1>1, <1>2 DEF IInv, TypeOK, bounds
<1>5. RequestsSound'
  <2> SUFFICES ASSUME NEW r \in Requests PROVE Sound(req[r])' /\ Steady(req[r])'
    BY DEF RequestsSound
  <2>1. Sound(req[r]) /\ Steady(req[r]) /\ req' = req
    BY <1>1 DEF IInv, RequestsSound
  <2>2. Sound(req[r])'
    BY <2>1, <1>1, <1>3 DEF Sound, Staffed
  <2> QED
    BY <2>1, <2>2, <1>1, <1>3 DEF Sound, Steady
<1>6. Alone' /\ Stored'
  BY <1>1, <1>3 DEF IInv, Alone, Stored, Staffed, Busy
<1>7. AtRest'
  BY <1>1, <1>3 DEF IInv, AtRest, Quiet, Busy
<1>8. PaidKnown' /\ DeliveredWasPaid'
  BY <1>1, <1>2, <1>3 DEF IInv, PaidKnown, DeliveredWasPaid
<1> QED
  BY <1>4, <1>5, <1>6, <1>7, <1>8 DEF IInv

LEMMA StepIInv == IInv /\ [Next]_vars => IInv'
<1> SUFFICES ASSUME IInv, [Next]_vars PROVE IInv'
  OBVIOUS
<1>1. ASSUME NEW r \in Requests, RequestStep(r) PROVE IInv'
  <2>1. ASSUME NEW o \in Orders, NEW type \in Type,
               Create(r, o, type) \/ Update(r, o, type)
        PROVE  IInv'
    BY <2>1, CreateStep, UpdateStep
  <2>2. ASSUME NEW o \in Orders, NEW u \in Drivers,
               \/ AssignDriver(r, o, u) \/ MarkPickedUp(r, o, u)
               \/ MarkInTransit(r, o, u) \/ MarkDelivered(r, o, u)
        PROVE  IInv'
    BY <2>2, AssignStep, MoveStep
  <2>3. ASSUME NEW o \in Orders, UpdateTracking(r, o) \/ Cancel(r, o)
        PROVE  IInv'
    BY <2>3, MoveStep
  <2>4. CASE InsertShipment(r) \/ SaveShipment(r) \/ CloseOrder(r) \/ BreakOff(r)
    BY <2>4, InsertStep, SaveStep, CloseStep, BreakOffStep
  <2> QED
    BY <1>1, <2>1, <2>2, <2>3, <2>4 DEF RequestStep
<1>2. ASSUME NEW o \in Orders, NEW status \in {"PENDING", "PAID", "REJECTED", "CANCELLED"},
             PaymentDecides(o, status)
      PROVE  IInv'
  BY <1>2, DecideStep
<1>3. CASE UNCHANGED vars
  BY <1>3 DEF vars, bounds, history, IInv, TypeOK, RequestsSound, Sound, Steady, Staffed,
              Closed, Exists, Alone, Busy, Stored, AtRest, Quiet, PaidKnown, DeliveredWasPaid
<1> QED
  BY <1>1, <1>2, <1>3 DEF Next

------------------------------------------------------------------------------
(* The theorems.                                                            *)

(* What requests on shipments (ShipmentsService) hold of the rows they read *)
(* fits those rows in every reachable state, order by order.                *)
THEOREM Inductive == Spec => []IInv
BY InitIInv, StepIInv, PTL DEF Spec

(* Every reachable state is well typed.                                     *)
THEOREM TypeCorrect == Spec => []TypeOK
<1>1. IInv => TypeOK
  BY DEF IInv
<1> QED
  BY <1>1, Inductive, PTL

(* No payment decision or overlap delivers an order that was never paid.    *)
THEOREM DeliveredPaid == Spec => []DeliveredWasPaid
<1>1. IInv => DeliveredWasPaid
  BY DEF IInv
<1> QED
  BY <1>1, Inductive, PTL

(* A local shipment on its way has a driver, whichever row was saved last.  *)
THEOREM LocalStaffed == Spec => []LocalMovesWithDriver
<1>1. IInv => LocalMovesWithDriver
  BY DEF IInv, Stored, Staffed, LocalMovesWithDriver
<1> QED
  BY <1>1, Inductive, PTL

(* Without overlap the driver is the one last assigned.                     *)
THEOREM DriverAssigned == Spec => []QuietDriverIsAssigned
<1>1. IInv => QuietDriverIsAssigned
  BY DEF IInv, AtRest, QuietDriverIsAssigned
<1> QED
  BY <1>1, Inductive, PTL

(* Without overlap a delivery has closed its order.                         *)
THEOREM DeliveryCloses == Spec => []QuietDeliveryClosesOrder
<1>1. IInv => QuietDeliveryClosesOrder
  BY DEF IInv, AtRest, Closed, QuietDeliveryClosesOrder
<1> QED
  BY <1>1, Inductive, PTL
==============================================================================
