--------------------------- MODULE OrderSettlement ---------------------------
(***************************************************************************)
(* What the marketplace promises its sellers about money: the net amount   *)
(* of an order enters the wallets of all its sellers in one step, once.    *)
(* balance[s][o] is the number of times order o's net for seller s is      *)
(* contained in the balance of s's wallet, so "exactly once" needs no      *)
(* arithmetic on amounts.                                                  *)
(***************************************************************************)
EXTENDS Naturals

CONSTANTS
  Orders,    \* orders of the marketplace
  Sellers,   \* users that own a wallet and sell products
  PayeesOf   \* PayeesOf[o]: the sellers of the items of order o

VARIABLE balance

Init == balance = [s \in Sellers |-> [o \in Orders |-> 0]]

(* Order o is paid out: to every one of its sellers, none of them yet paid. *)
Settle(o) ==
  /\ \A s \in PayeesOf[o] : balance[s][o] = 0
  /\ balance' = [s \in Sellers |-> [p \in Orders |->
                   IF p = o /\ s \in PayeesOf[o] THEN 1 ELSE balance[s][p]]]

Next == \E o \in Orders : Settle(o)

Spec == Init /\ [][Next]_balance
==============================================================================
