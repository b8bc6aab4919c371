------------------------------ MODULE MCCheckout ------------------------------
(* Instances of Checkout for TLC.                                           *)
EXTENDS Checkout, TLC

CONSTANTS b1, b2, p1, v1

(* Every article is published with two units.                               *)
Stocks == [a \in Articles |-> 2]

(* A seller may change price and stock together.                            *)
NewOffers == {<<3, 2>>}

(* Requests, and ids of orders, rows and buyers, are interchangeable.       *)
Symmetry == Permutations(Requests) \cup Permutations(Orders)
              \cup Permutations(Rows) \cup Permutations(Buyers)
==============================================================================
