------------------------------- MODULE Payway -------------------------------
(***************************************************************************)
(* Payway's payment links (PaywayService).  A link is made in a            *)
(* transaction that holds the lock of the order's row while Payway is      *)
(* called, so everything it writes is seen at its commit.  In its present  *)
(* phase handleNotification writes nothing: no order is paid by it.        *)
(***************************************************************************)
EXTENDS OrderPayments

LinksOf(o) == {a \in Attempts : attempt[a] # None /\ attempt[a].order = o}

(* A link that createPaymentLink answers with instead of making one.        *)
ReusableLinks(o) ==
  {a \in LinksOf(o) : attempt[a].status = "PENDING" /\ attempt[a].charge # None /\
                      ~attempt[a].due}

(* variant: no request waits for the lock                                   *)
LockedNever(o) == FALSE

Locked(o) == \E q \in Requests : req[q].phase = "link" /\ req[q].order = o

(* createPaymentLinkWithinTransaction takes the lock and calls Payway.      *)
LockForLink(r, o) ==
  /\ order[o].method = "PAYWAY" /\ order[o].status = "PENDING"
  /\ ~Locked(o)
  /\ ReusableLinks(o) = {}
  /\ Start(r, o, [Idle EXCEPT !.phase = "link"])
  /\ UNCHANGED <<rows, outside, money, confirmed, settled>>

(* What becomes of an attempt still pending when a new link is made.        *)
Closed(att) ==
  IF att.status = "PENDING"
  THEN [att EXCEPT !.status = IF att.due THEN "EXPIRED" ELSE "CANCELED"]
  ELSE att

(* Payway has answered with link c: the transaction commits.                *)
CommitLink(r, a, c) ==
  LET o == req[r].order IN
  /\ req[r].phase = "link"
  /\ attempt[a] = None /\ charge[c] = None
  /\ charge' = [charge EXCEPT ![c] = [order |-> o, status |-> "PENDING"]]
  /\ payment' = IF payment[o] = None THEN [payment EXCEPT ![o] = NewPayment] ELSE payment
  /\ attempt' = [b \in Attempts |->
       IF b = a THEN [order |-> o, status |-> "PENDING", charge |-> c, due |-> FALSE]
       ELSE IF b \in LinksOf(o) THEN Closed(attempt[b]) ELSE attempt[b]]
  /\ Finish(r)
  /\ UNCHANGED <<order, offered, money, bounds, history>>

(* Payway has made link c, but the answer or the commit is lost: rollback.  *)
LoseLink(r, c) ==
  LET o == req[r].order IN
  /\ req[r].phase = "link" /\ charge[c] = None
  /\ faults < MaxFaults /\ faults' = faults + 1
  /\ charge' = [charge EXCEPT ![c] = [order |-> o, status |-> "PENDING"]]
  /\ Finish(r)
  /\ UNCHANGED <<rows, offered, money, started, history>>

PaywayStep(r) ==
  \/ \E o \in Orders : LockForLink(r, o)
  \/ \E a \in Attempts, c \in Charges : CommitLink(r, a, c)
  \/ \E c \in Charges : LoseLink(r, c)
==============================================================================
