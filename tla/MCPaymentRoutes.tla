-------------------------- MODULE MCPaymentRoutes --------------------------
(* Instances of PaymentRoutes for TLC.                                      *)
EXTENDS PaymentRoutes, TLC

(* Every order has items of every seller.                                   *)
AllPayees == [o \in Orders |-> Sellers]

Symmetry == Permutations(Requests) \cup Permutations(Attempts)
              \cup Permutations(Charges) \cup Permutations(Sellers)
==============================================================================
