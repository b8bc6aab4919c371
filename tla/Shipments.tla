------------------------------ MODULE Shipments ------------------------------
(***************************************************************************)
(* The shipment of a paid order (ShipmentsService): made by an             *)
(* administrator, assigned to a driver, moved along by whoever is          *)
(* entitled, and the order closed when it is delivered.                    *)
(*                                                                         *)
(* Every operation reads the shipment with its driver and its order and    *)
(* saves the whole row in a later step; none looks at the status it moves  *)
(* from, except cancel.  The payment routes write the order meanwhile.     *)
(***************************************************************************)
EXTENDS Naturals

CONSTANTS
  Orders,       \* orders that checkout has made
  Drivers,      \* users who deliver
  Requests,     \* slots for requests in progress
  None,         \* no shipment, driver or order
  MaxRequests,  \* bound on requests started
  MaxFaults     \* bound on crashes and failed queries

ASSUME ShipmentsAssumption ==
  /\ None \notin Orders \cup Drivers
  /\ MaxRequests \in Nat /\ MaxFaults \in Nat

VARIABLES
  order,      \* status of each order
  shipment,   \* the row of shipments of each order
  req,        \* the requests in progress and what they have read
  started, faults,   \* requests and faults so far, for the bounds
  paidOnce,   \* history: orders that were paid at some time
  retyped,    \* history: orders whose shipment was given another type
  assigned,   \* history: the driver last assigned to each shipment
  rewritten,  \* history: orders a payment route wrote after their delivery
  disturbed   \* history: orders on which requests overlapped or broke off

bounds  == <<started, faults>>
history == <<paidOnce, retyped, assigned, rewritten, disturbed>>
vars    == <<order, shipment, req, bounds, history>>

OrderStatus    == {"PENDING", "PAID", "REJECTED", "CANCELLED", "DELIVERED"}
Type           == {"LOCAL_DELIVERY", "NATIONAL_SHIPPING"}
ShipmentStatus == {"PENDING", "ASSIGNING_DRIVER", "DRIVER_ASSIGNED", "PICKED_UP",
                   "IN_TRANSIT", "DELIVERED", "CANCELLED"}

Shipment == [type : Type, status : ShipmentStatus, driver : Drivers \cup {None}]

ASSUME NoRowAssumption == None \notin Shipment

(* A request has read and will insert or save a row, or close the order.    *)
Request == [phase : {"idle", "insert", "save", "close"},
            order : Orders \cup {None}, row : Shipment \cup {None},
            closes : BOOLEAN]

Idle == [phase |-> "idle", order |-> None, row |-> None, closes |-> FALSE]

TypeOK ==
  /\ order \in [Orders -> OrderStatus]
  /\ shipment \in [Orders -> Shipment \cup {None}]
  /\ req \in [Requests -> Request]
  /\ \A r \in Requests : req[r].phase # "idle" => req[r].order \in Orders
  /\ started \in 0..MaxRequests /\ faults \in 0..MaxFaults
  /\ paidOnce \subseteq Orders /\ retyped \subseteq Orders
  /\ assigned \in [Orders -> Drivers \cup {None}]
  /\ rewritten \subseteq Orders /\ disturbed \subseteq Orders

Init ==
  /\ order = [o \in Orders |-> "PENDING"]
  /\ shipment = [o \in Orders |-> None]
  /\ req = [r \in Requests |-> Idle]
  /\ started = 0 /\ faults = 0
  /\ paidOnce = {} /\ retyped = {} /\ rewritten = {} /\ disturbed = {}
  /\ assigned = [o \in Orders |-> None]

------------------------------------------------------------------------------
Busy(q, o) == req[q].phase # "idle" /\ req[q].order = o

Start(r, o, w) ==
  /\ req[r].phase = "idle"
  /\ started < MaxRequests /\ started' = started + 1
  /\ req' = [req EXCEPT ![r] = w]
  /\ disturbed' = disturbed \cup
                    (IF \E q \in Requests : Busy(q, o) THEN {o} ELSE {})
  /\ UNCHANGED <<order, shipment, faults, paidOnce, rewritten>>

(* What was read of the shipment, changed to row, will be saved.            *)
Saves(r, o, row) ==
  Start(r, o, [phase |-> "save", order |-> o, row |-> row, closes |-> FALSE])

Exists(o) == shipment[o] # None

(* variant: an order may be shipped before it is paid                       *)
ShippableAny(o) == ~Exists(o)

Shippable(o) == order[o] = "PAID" /\ ~Exists(o)

(* variant: a status the column does not know                               *)
NewMisspelt(type) == [type |-> type, driver |-> None, status |-> "ASSIGNING"]

New(type) == [type |-> type, driver |-> None,
              status |-> IF type = "LOCAL_DELIVERY" THEN "ASSIGNING_DRIVER"
                                                    ELSE "PENDING"]

Create(r, o, type) ==
  /\ Shippable(o)
  /\ Start(r, o, [phase |-> "insert", order |-> o, row |-> New(type), closes |-> FALSE])
  /\ UNCHANGED <<retyped, assigned>>

(* variant: an edited shipment starts again without its driver              *)
EditedAnew(row, type) == New(type)

Edited(row, type) == [row EXCEPT !.type = type]

(* update: the columns sent are set, among them the type.                   *)
Update(r, o, type) ==
  /\ Exists(o)
  /\ Saves(r, o, Edited(shipment[o], type))
  /\ retyped' = IF type # shipment[o].type THEN retyped \cup {o} ELSE retyped
  /\ UNCHANGED assigned

AssignDriver(r, o, d) ==
  /\ Exists(o) /\ shipment[o].type = "LOCAL_DELIVERY"
  /\ Saves(r, o, [shipment[o] EXCEPT !.driver = d, !.status = "DRIVER_ASSIGNED"])
  /\ assigned' = [assigned EXCEPT ![o] = d]
  /\ UNCHANGED retyped

(* variant: any user may move a shipment nobody is assigned to              *)
IsDriverOrNobody(o, u) == shipment[o].driver \in {u, None}

(* validateDriver                                                           *)
IsDriver(o, u) == shipment[o].driver = u

Entitled(o, u) == shipment[o].type = "LOCAL_DELIVERY" => IsDriver(o, u)

MarkPickedUp(r, o, u) ==
  /\ Exists(o) /\ IsDriver(o, u)
  /\ Saves(r, o, [shipment[o] EXCEPT !.status = "PICKED_UP"])
  /\ UNCHANGED <<retyped, assigned>>

MarkInTransit(r, o, u) ==
  /\ Exists(o) /\ Entitled(o, u)
  /\ Saves(r, o, [shipment[o] EXCEPT !.status = "IN_TRANSIT"])
  /\ UNCHANGED <<retyped, assigned>>

(* variant: the order is left for somebody else to close                    *)
ClosesNever == FALSE

Closes == TRUE

MarkDelivered(r, o, u) ==
  /\ Exists(o) /\ Entitled(o, u)
  /\ Start(r, o, [phase |-> "save", order |-> o, closes |-> Closes,
                  row |-> [shipment[o] EXCEPT !.status = "DELIVERED"]])
  /\ UNCHANGED <<retyped, assigned>>

UpdateTracking(r, o) ==
  /\ Exists(o) /\ shipment[o].type = "NATIONAL_SHIPPING"
  /\ Saves(r, o, [shipment[o] EXCEPT !.status = "IN_TRANSIT"])
  /\ UNCHANGED <<retyped, assigned>>

Cancel(r, o) ==
  /\ Exists(o) /\ shipment[o].status # "DELIVERED"
  /\ Saves(r, o, [shipment[o] EXCEPT !.status = "CANCELLED"])
  /\ UNCHANGED <<retyped, assigned>>

------------------------------------------------------------------------------
Finish(r) == req' = [req EXCEPT ![r] = Idle]

(* create's save; the unique shipments.orderId lets one through.            *)
InsertShipment(r) ==
  LET o == req[r].order IN
  /\ req[r].phase = "insert"
  /\ shipment' = IF Exists(o) THEN shipment ELSE [shipment EXCEPT ![o] = req[r].row]
  /\ Finish(r)
  /\ UNCHANGED <<order, bounds, history>>

SaveShipment(r) ==
  /\ req[r].phase = "save"
  /\ shipment' = [shipment EXCEPT ![req[r].order] = req[r].row]
  /\ IF req[r].closes THEN req' = [req EXCEPT ![r].phase = "close"] ELSE Finish(r)
  /\ UNCHANGED <<order, bounds, history>>

(* The order that markDelivered read with the shipment, now delivered.      *)
CloseOrder(r) ==
  LET o == req[r].order IN
  /\ req[r].phase = "close"
  /\ order' = [order EXCEPT ![o] = "DELIVERED"]
  /\ rewritten' = rewritten \ {o}
  /\ Finish(r)
  /\ UNCHANGED <<shipment, bounds, paidOnce, retyped, assigned, disturbed>>

(* The payment routes decide an order; a late or repeated notification of   *)
(* Mercado Pago decides it again, or sets it back to waiting, whatever      *)
(* status it has.                                                           *)
PaymentDecides(o, status) ==
  /\ order' = [order EXCEPT ![o] = status]
  /\ paidOnce' = IF status = "PAID" THEN paidOnce \cup {o} ELSE paidOnce
  /\ rewritten' = IF Exists(o) THEN rewritten \cup {o} ELSE rewritten
  /\ UNCHANGED <<shipment, req, bounds, retyped, assigned, disturbed>>

(* A crash or a failed query; half done is a driver or a type that was not  *)
(* saved, and a delivery that did not close its order.                      *)
BreakOff(r) ==
  /\ req[r].phase # "idle"
  /\ faults < MaxFaults /\ faults' = faults + 1
  /\ disturbed' = disturbed \cup {req[r].order}
  /\ Finish(r)
  /\ UNCHANGED <<order, shipment, started, paidOnce, retyped, assigned, rewritten>>

RequestStep(r) ==
  \/ \E o \in Orders :
       \/ \E type \in Type : Create(r, o, type) \/ Update(r, o, type)
       \/ \E u \in Drivers :
            \/ AssignDriver(r, o, u)
            \/ MarkPickedUp(r, o, u) \/ MarkInTransit(r, o, u) \/ MarkDelivered(r, o, u)
       \/ UpdateTracking(r, o) \/ Cancel(r, o)
  \/ InsertShipment(r) \/ SaveShipment(r) \/ CloseOrder(r)
  \/ BreakOff(r)

Next ==
  \/ \E r \in Requests : RequestStep(r)
  \/ \E o \in Orders, status \in {"PENDING", "PAID", "REJECTED", "CANCELLED"} :
       PaymentDecides(o, status)

Spec == Init /\ [][Next]_vars

------------------------------------------------------------------------------
(* Safety.                                                                  *)

(* Whatever payments and shipments do to an order at the same time, it is   *)
(* delivered only if it was once paid and has a shipment                    *)
(* (shipments.service.ts:45, 190).                                          *)
DeliveredWasPaid ==
  \A o \in Orders : order[o] = "DELIVERED" => o \in paidOnce /\ Exists(o)

Moving == {"DRIVER_ASSIGNED", "PICKED_UP", "IN_TRANSIT", "DELIVERED"}

(* A local shipment on its way has a driver, whatever copies of it are      *)
(* saved over each other, unless its type was changed on the way: that is   *)
(* the one operation after which it may have none (shipments.service.ts:131). *)
LocalMovesWithDriver ==
  \A o \in Orders :
    /\ Exists(o) /\ shipment[o].type = "LOCAL_DELIVERY" /\ o \notin retyped
    /\ shipment[o].status \in Moving
    => shipment[o].driver # None

Quiet(o) == o \notin disturbed /\ \A q \in Requests : ~Busy(q, o)

(* Where operations on a shipment did not overlap nor break off, its driver *)
(* is the one last assigned: nothing else takes it away or gives it back.   *)
QuietDriverIsAssigned ==
  \A o \in Orders : Quiet(o) /\ Exists(o) => shipment[o].driver = assigned[o]

(* And a delivery has closed its order, unless a payment route decided the  *)
(* order again afterwards.                                                  *)
QuietDeliveryClosesOrder ==
  \A o \in Orders :
    Quiet(o) /\ Exists(o) /\ shipment[o].status = "DELIVERED" /\ o \notin rewritten
      => order[o] = "DELIVERED"
==============================================================================
