---------------------------- MODULE SalePromise ----------------------------
(***************************************************************************)
(* What every payment route promises: a sale is credited to its sellers,   *)
(* and announced as paid, only when a provider or an administrator has     *)
(* approved a payment of the order; what is recorded is never taken back.  *)
(***************************************************************************)

CONSTANTS
  Orders,    \* orders of the marketplace
  PayeesOf   \* PayeesOf[o]: the sellers of the items of order o

VARIABLES
  approved,  \* orders a payment of which was approved
  credited,  \* pairs <<order, seller>> with a CREDIT transaction
  told       \* orders whose buyer and sellers were told of the payment

promise == <<approved, credited, told>>

Init == approved = {} /\ credited = {} /\ told = {}

Approve(o) == approved' = approved \cup {o} /\ UNCHANGED <<credited, told>>

Credit(o, s) ==
  /\ o \in approved /\ s \in PayeesOf[o]
  /\ credited' = credited \cup {<<o, s>>} /\ UNCHANGED <<approved, told>>

Announce(o) ==
  /\ o \in approved
  /\ told' = told \cup {o} /\ UNCHANGED <<approved, credited>>

Next == \E o \in Orders :
          Approve(o) \/ Announce(o) \/ \E s \in PayeesOf[o] : Credit(o, s)

Spec == Init /\ [][Next]_promise
==============================================================================
