--------------------------- MODULE MCUserDefaults ---------------------------
(* Instances of Accounts and UserDefaults for TLC.                          *)
EXTENDS UserDefaults, TLC

CONSTANTS u1, u2, e1, e2, e3, m1

(* A user with two addresses and a payment method, another with an address. *)
Owners == e1 :> u1 @@ e2 :> u1 @@ m1 :> u1 @@ e3 :> u2

Symmetry == Permutations({e1, e2}) \cup Permutations(Secrets) \cup
            Permutations(Codes) \cup Permutations(Requests)
==============================================================================
