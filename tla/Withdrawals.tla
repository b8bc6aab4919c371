----------------------------- MODULE Withdrawals -----------------------------
(***************************************************************************)
(* The wallets of sellers outside the Getnet transactions: withdrawals     *)
(* requested and decided through WalletService and through                 *)
(* WithDrawalRequestService, and sales credited by the payment routes that *)
(* call creditFromOrder without a transaction.                             *)
(*                                                                         *)
(* None of them locks a row.  Each reads the wallet, computes, and saves   *)
(* its copy; what others wrote in between is overwritten.  A wallet that   *)
(* findByUserId read comes with its transactions and withdrawals, and      *)
(* saving it makes the rows that refer to the wallet those of the copy.    *)
(* save(entity) (select, compare, update) is one step.                     *)
(***************************************************************************)
EXTENDS Integers, FiniteSets, Functions

CONSTANTS
  Sellers,       \* users with a wallet
  Withdrawals,   \* withdrawals that may be requested (bound: a finite set)
  Sales,         \* an order's part of one seller (bound: a finite set)
  OwnerOf,       \* OwnerOf[x]: the seller of withdrawal or sale x
  AmountOf,      \* AmountOf[x]: amount asked for, net amount of the sale
  Requests,      \* slots for requests in progress (bound: a finite set)
  None,          \* an idle request has no subject
  MaxRows,       \* bound: a sale with so many CREDIT rows, none of which refers
                 \* to the wallet any more, gets no further call
  MaxTurns       \* bound on decisions of administrators, crashes and
                 \* failed queries together

ASSUME WithdrawalsAssumption ==
  /\ OwnerOf \in [Withdrawals \cup Sales -> Sellers]
  /\ AmountOf \in [Withdrawals \cup Sales -> Int]
  /\ \A c \in Sales : AmountOf[c] > 0
  /\ Withdrawals \cap Sales = {} /\ None \notin Withdrawals \cup Sales
  /\ IsFiniteSet(Withdrawals) /\ IsFiniteSet(Sales)
  /\ MaxRows \in Nat /\ MaxTurns \in Nat

VARIABLES
  wallet,     \* the row of wallets of each seller
  status,     \* status of the row of withdrawal_requests, "none" without one
  creditRows, \* number of CREDIT rows of each sale
  linked,     \* withdrawals and sales with a row that refers to the wallet
  notified,   \* eventKeys of notifications, as <<withdrawal, status>>
  req,        \* the requests in progress and what they have read
  turns,      \* decisions started, crashes and failures so far
  refunds,    \* history: times a withdrawal was given back to the balance
  payouts,    \* history: times a withdrawal left the pending balance for good
  disturbed   \* history: wallets on which requests overlapped or broke off

history == <<refunds, payouts, disturbed>>
vars    == <<wallet, status, creditRows, linked, notified, req, turns, history>>

Wallet == [balance : Int, pending : Int, earned : Int]

RowStatus == {"pending", "approved", "paid", "rejected", "cancelled"}
Services  == {"WalletService", "WithDrawalRequestService"}

(* Phases of a request, named for the step it takes next.                   *)
Phases == {"idle", "deduct", "insert", "adjust", "decide", "notify",
           "check", "credit", "record"}

Request == [phase : Phases, of : Withdrawals \cup Sales \cup {None},
            target : RowStatus,     \* status an administrator asks for
            refund : BOOLEAN,       \* whether the adjustment is a refund
            moves  : BOOLEAN,       \* whether the decision adjusts the wallet
            copy   : Wallet,        \* the wallet as read
            loads  : BOOLEAN,       \* whether it was read with its relations
            rows   : SUBSET (Withdrawals \cup Sales)]  \* which referred to it

ZeroWallet == [balance |-> 0, pending |-> 0, earned |-> 0]

Idle == [phase |-> "idle", of |-> None, target |-> "pending", refund |-> FALSE,
         moves |-> FALSE, copy |-> ZeroWallet, loads |-> FALSE, rows |-> {}]

TypeOK ==
  /\ wallet \in [Sellers -> Wallet]
  /\ status \in [Withdrawals -> RowStatus \cup {"none"}]
  /\ creditRows \in [Sales -> Nat]
  /\ linked \subseteq Withdrawals \cup Sales
  /\ notified \subseteq Withdrawals \X {"paid", "rejected"}
  /\ req \in [Requests -> Request]
  /\ \A r \in Requests :
       /\ req[r].phase \in {"deduct", "insert", "adjust", "decide", "notify"}
            => req[r].of \in Withdrawals
       /\ req[r].phase \in {"check", "credit", "record"} => req[r].of \in Sales
  /\ turns \in 0..MaxTurns
  /\ refunds \in [Withdrawals -> Nat] /\ payouts \in [Withdrawals -> Nat]
  /\ disturbed \subseteq Sellers

Init ==
  /\ wallet = [s \in Sellers |-> ZeroWallet]
  /\ status = [w \in Withdrawals |-> "none"]
  /\ creditRows = [c \in Sales |-> 0]
  /\ linked = {} /\ notified = {}
  /\ req = [r \in Requests |-> Idle]
  /\ turns = 0
  /\ refunds = [w \in Withdrawals |-> 0] /\ payouts = [w \in Withdrawals |-> 0]
  /\ disturbed = {}

------------------------------------------------------------------------------
Seller(r) == OwnerOf[req[r].of]

(* The request still has something to do with the wallet of s.              *)
Busy(q, s) == req[q].phase \notin {"idle", "notify"} /\ Seller(q) = s

Contend(s) == disturbed' = IF \E q \in Requests : Busy(q, s)
                           THEN disturbed \cup {s} ELSE disturbed

(* A request reads the wallet of s and goes on from there.                  *)
Start(r, s, w) ==
  /\ req[r].phase = "idle"
  /\ req' = [req EXCEPT ![r] = w]
  /\ Contend(s)

Finish(r) == req' = [req EXCEPT ![r] = Idle]

(* The withdrawals and sales whose rows refer to the wallet of s.           *)
LinkedTo(s) == {x \in linked : OwnerOf[x] = s}

(* Goes on to phase p; once the wallet is saved its copy is of no use, and  *)
(* only a decision still has the withdrawal with the wallet it was read with.*)
Continue(r, p) ==
  req' = [req EXCEPT
            ![r].phase = p,
            ![r].copy  = IF p = "credit" THEN @ ELSE ZeroWallet,
            ![r].loads = p = "credit" /\ @,
            ![r].rows  = IF p \in {"credit", "decide", "notify"} THEN @ ELSE {}]

(* Saves the copy as w, and its relations where they were loaded: a row     *)
(* inserted since the wallet was read is detached, one detached since is    *)
(* attached again.                                                          *)
SaveWallet(r, w) ==
  /\ wallet' = [wallet EXCEPT ![Seller(r)] = w]
  /\ linked' = IF req[r].loads THEN (linked \ LinkedTo(Seller(r))) \cup req[r].rows
                               ELSE linked

------------------------------------------------------------------------------
(* requestWithDrawal and WithDrawalRequestService.create.                   *)

(* variant: the balance is not compared with the amount                     *)
AffordsUnchecked(wal, a) == TRUE

Affords(wal, a) == wal.balance >= a

(* Only the body of WithDrawalRequestService.create is validated.           *)
Accepts(service, a) == service = "WithDrawalRequestService" => a > 0

RequestWithdrawal(r, w, service) ==
  LET s == OwnerOf[w] IN
  /\ status[w] = "none" /\ \A q \in Requests : req[q].of # w
  /\ Accepts(service, AmountOf[w]) /\ Affords(wallet[s], AmountOf[w])
  /\ Start(r, s, [Idle EXCEPT
                    !.phase = "deduct", !.of = w, !.copy = wallet[s],
                    !.loads = service = "WalletService",
                    !.rows  = IF service = "WalletService" THEN LinkedTo(s) ELSE {}])
  /\ UNCHANGED <<wallet, status, creditRows, linked, notified, turns, refunds, payouts>>

Deducted(wal, a) == [wal EXCEPT !.balance = @ - a, !.pending = @ + a]

DeductSave(r) ==
  /\ req[r].phase = "deduct"
  /\ SaveWallet(r, Deducted(req[r].copy, AmountOf[req[r].of]))
  /\ Continue(r, "insert")
  /\ UNCHANGED <<status, creditRows, notified, turns, history>>

InsertRequest(r) ==
  /\ req[r].phase = "insert"
  /\ status' = [status EXCEPT ![req[r].of] = "pending"]
  /\ linked' = linked \cup {req[r].of}
  /\ Finish(r)
  /\ UNCHANGED <<wallet, creditRows, notified, turns, history>>

------------------------------------------------------------------------------
(* updateWithdrawalStatus and WithDrawalRequestService.updateStatus.        *)

(* variant: a row already processed is processed again                      *)
OpenAlways(service, st) == TRUE

(* Statuses each service still processes.                                   *)
Open(service, st) ==
  IF service = "WalletService" THEN st \in {"pending", "approved"}
                               ELSE st = "pending"

(* A repetition of the decision a row already has only notifies again.      *)
Repeats(service, st, target) ==
  st = target /\ ~(service = "WithDrawalRequestService" /\ st = "pending")

Refunds(service, target) ==
  \/ target = "rejected"
  \/ target = "cancelled" /\ service = "WalletService"

Moves(service, target) == Refunds(service, target) \/ target = "paid"

(* The withdrawal is read with its wallet, if its row refers to one; moving *)
(* money of a row that does not ends with an error.                         *)
DecideWithdrawal(r, w, service, target) ==
  LET s == OwnerOf[w]
      job(p) == [Idle EXCEPT !.phase = p, !.of = w, !.target = target,
                             !.rows = linked \cap {w}]
      adjust == [job("adjust") EXCEPT !.refund = Refunds(service, target),
                                      !.moves = TRUE, !.copy = wallet[s]]
  IN
  /\ status[w] # "none"
  /\ turns < MaxTurns /\ turns' = turns + 1
  /\ IF Repeats(service, status[w], target)
     THEN Start(r, s, job("notify"))
     ELSE /\ Open(service, status[w])
          /\ Moves(service, target) => w \in linked
          /\ Start(r, s, IF Moves(service, target) THEN adjust
                                                   ELSE job("decide"))
  /\ UNCHANGED <<wallet, status, creditRows, linked, notified,
                 refunds, payouts>>

(* variant: a refund leaves the pending balance as it is                    *)
AdjustedHalf(wal, a, refund) ==
  IF refund THEN [wal EXCEPT !.balance = @ + a]
            ELSE [wal EXCEPT !.pending = @ - a]

Adjusted(wal, a, refund) ==
  IF refund THEN [wal EXCEPT !.pending = @ - a, !.balance = @ + a]
            ELSE [wal EXCEPT !.pending = @ - a]

AdjustSave(r) ==
  LET w == req[r].of IN
  /\ req[r].phase = "adjust"
  /\ SaveWallet(r, Adjusted(req[r].copy, AmountOf[w], req[r].refund))
  /\ IF req[r].refund
     THEN refunds' = [refunds EXCEPT ![w] = @ + 1] /\ UNCHANGED payouts
     ELSE payouts' = [payouts EXCEPT ![w] = @ + 1] /\ UNCHANGED refunds
  /\ Continue(r, "decide")
  /\ UNCHANGED <<status, creditRows, notified, turns, disturbed>>

(* The row is saved with the reference to the wallet it was read with.      *)
DecideSave(r) ==
  /\ req[r].phase = "decide"
  /\ status' = [status EXCEPT ![req[r].of] = req[r].target]
  /\ linked' = (linked \ {req[r].of}) \cup req[r].rows
  /\ Continue(r, "notify")
  /\ UNCHANGED <<wallet, creditRows, notified, turns, history>>

(* variant: every decision is announced                                     *)
AnnouncesAny(st) == TRUE

Announces(st) == st \in {"paid", "rejected"}

(* notifyWithdrawalStatus: createOnce with one key per announced status;    *)
(* without a wallet there is nobody to tell.                                *)
Notify(r) ==
  /\ req[r].phase = "notify"
  /\ notified' = IF Announces(req[r].target) /\ req[r].rows # {}
                 THEN notified \cup {<<req[r].of, req[r].target>>} ELSE notified
  /\ Finish(r)
  /\ UNCHANGED <<wallet, status, creditRows, linked, turns, history>>

------------------------------------------------------------------------------
(* creditFromOrder.                                                         *)

Credited(wal, a) == [wal EXCEPT !.balance = @ + a, !.earned = @ + a]

HasCredit(c) == c \in linked

(* Without a manager: read the wallet with its relations, look for the      *)
(* CREDIT row, save the wallet, insert the row.                             *)
CreditRead(r, c) ==
  LET s == OwnerOf[c] IN
  /\ HasCredit(c) \/ creditRows[c] < MaxRows
  /\ Start(r, s, [Idle EXCEPT !.phase = "check", !.of = c, !.copy = wallet[s],
                              !.loads = TRUE, !.rows = LinkedTo(s)])
  /\ UNCHANGED <<wallet, status, creditRows, linked, notified, turns, refunds, payouts>>

CreditCheck(r) ==
  /\ req[r].phase = "check"
  /\ IF HasCredit(req[r].of) THEN Finish(r) ELSE Continue(r, "credit")
  /\ UNCHANGED <<wallet, status, creditRows, linked, notified, turns, history>>

CreditSave(r) ==
  /\ req[r].phase = "credit"
  /\ SaveWallet(r, Credited(req[r].copy, AmountOf[req[r].of]))
  /\ Continue(r, "record")
  /\ UNCHANGED <<status, creditRows, notified, turns, history>>

(* One wallet has one CREDIT row of an order: the unique index refuses      *)
(* another, which ends the request.                                         *)
CreditRecord(r) ==
  LET c == req[r].of IN
  /\ req[r].phase = "record"
  /\ IF HasCredit(c) THEN UNCHANGED <<creditRows, linked>>
     ELSE /\ creditRows' = [creditRows EXCEPT ![c] = @ + 1]
          /\ linked' = linked \cup {c}
  /\ Finish(r)
  /\ UNCHANGED <<wallet, status, notified, turns, history>>

(* With a manager (Getnet): wallet and row under a lock, in one commit.     *)
CreditLocked(c) ==
  LET s == OwnerOf[c] IN
  /\ ~HasCredit(c)
  /\ wallet' = [wallet EXCEPT ![s] = Credited(@, AmountOf[c])]
  /\ creditRows' = [creditRows EXCEPT ![c] = @ + 1]
  /\ linked' = linked \cup {c}
  /\ Contend(s)
  /\ UNCHANGED <<status, notified, req, turns, refunds, payouts>>

------------------------------------------------------------------------------
(* A crash or a failed query ends a request where it is; only after its     *)
(* first write does that leave something half done.                         *)
HalfDone(r) ==
  \/ req[r].phase \in {"insert", "record"}
  \/ req[r].phase = "decide" /\ req[r].moves

BreakOff(r) ==
  /\ req[r].phase # "idle"
  /\ turns < MaxTurns /\ turns' = turns + 1
  /\ disturbed' = IF HalfDone(r) THEN disturbed \cup {Seller(r)} ELSE disturbed
  /\ Finish(r)
  /\ UNCHANGED <<wallet, status, creditRows, linked, notified,
                 refunds, payouts>>

RequestStep(r) ==
  \/ \E w \in Withdrawals, service \in Services :
       \/ RequestWithdrawal(r, w, service)
       \/ \E target \in RowStatus : DecideWithdrawal(r, w, service, target)
  \/ DeductSave(r) \/ InsertRequest(r)
  \/ AdjustSave(r) \/ DecideSave(r) \/ Notify(r)
  \/ \E c \in Sales : CreditRead(r, c)
  \/ CreditCheck(r) \/ CreditSave(r) \/ CreditRecord(r)
  \/ BreakOff(r)

Next ==
  \/ \E r \in Requests : RequestStep(r)
  \/ \E c \in Sales : CreditLocked(c)

Spec == Init /\ [][Next]_vars

------------------------------------------------------------------------------
(* Safety.                                                                  *)

Total(S, count) == SumFunctionOnSet([x \in S |-> AmountOf[x] * count[x]], S)

(* Withdrawals of a negative amount, which put money into the balance.      *)
Negative(s) == {w \in Withdrawals : OwnerOf[w] = s /\ AmountOf[w] < 0}

(* No interleaving, stale copy, detached row or crash takes a balance below *)
(* zero (requestWithDrawal, wallet.service.ts:237): a save takes from its   *)
(* copy no more than that copy had.  The one exception is giving back a     *)
(* withdrawal of a negative amount, which takes again what it had added.    *)
BalanceIsCovered ==
  \A s \in Sellers : wallet[s].balance >= Total(Negative(s), refunds)

Quiet(s) == s \notin disturbed /\ \A q \in Requests : ~Busy(q, s)

Requested(s) == {w \in Withdrawals : OwnerOf[w] = s /\ status[w] # "none"}
SalesOf(s)   == {c \in Sales : OwnerOf[c] = s}

(* Where requests on a wallet never overlapped nor broke off half way, no   *)
(* cent is lost: earnings are the recorded sales, each recorded once, the   *)
(* balance is what was neither requested nor given back, the pending        *)
(* balance what is requested and not yet given back or paid, through either *)
(* service.                                                                 *)
QuietWalletIsExact ==
  \A s \in Sellers : Quiet(s) =>
    LET once  == [w \in Withdrawals |-> 1]
        gone  == [w \in Withdrawals |-> refunds[w] + payouts[w]]
        asked == Total(Requested(s), once)
    IN
    /\ \A c \in SalesOf(s) : creditRows[c] <= 1
    /\ wallet[s].earned = Total(SalesOf(s), creditRows)
    /\ wallet[s].balance = wallet[s].earned - asked + Total(Requested(s), refunds)
    /\ wallet[s].pending = asked - Total(Requested(s), gone)

(* On such a wallet a withdrawal is decided once and what the seller was    *)
(* told is what happened: a closed row is not processed again.              *)
QuietDecisionStands ==
  \A w \in Withdrawals : Quiet(OwnerOf[w]) =>
    /\ payouts[w] = (IF status[w] = "paid" THEN 1 ELSE 0)
    /\ refunds[w] <= 1 /\ (status[w] = "rejected" => refunds[w] = 1)
    /\ \A st \in {"paid", "rejected"} : <<w, st>> \in notified => status[w] = st

------------------------------------------------------------------------------
(* What the documentation says and overlapping requests break.              *)

(* "Si no hay saldo suficiente, el sistema impide la operacion"             *)
(* (README.md:673): what a seller has asked for is covered by the sales.    *)
WithdrawalsCovered ==
  \A s \in Sellers :
    LET open == [w \in Withdrawals |-> 1 - refunds[w]]
        sold == [c \in Sales |-> IF creditRows[c] > 0 THEN 1 ELSE 0]
    IN  (\A q \in Requests : ~Busy(q, s)) =>
          Total(Requested(s), open) <= Total(SalesOf(s), sold)
==============================================================================
