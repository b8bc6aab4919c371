-------------------------- MODULE MCGetnetCheckout --------------------------
(* Instances of GetnetCheckout for TLC.                                     *)
EXTENDS GetnetCheckout, TLC

CONSTANTS o1, o2, s1, s2, i1, i2, i3

(* One order with two sellers; up to three intents, the first one stored    *)
(* before payment attempts were recorded.                                   *)
OneOrderSellers == [o \in {o1} |-> <<s1, s2>>]
OneOrderIntents == [i \in {i1, i2, i3} |-> o1]

(* One order of one seller, for liveness.                                    *)
SoleSeller == [o \in {o1} |-> <<s1>>]
ShortIntents == [i \in {i1, i2} |-> o1]

(* Two orders with the same sellers in opposite item order.                 *)
TwoOrdersSellers == [o \in {o1, o2} |-> IF o = o1 THEN <<s1, s2>>
                                                   ELSE <<s2, s1>>]
TwoOrdersIntents == [i \in {i1, i2} |-> IF i = i1 THEN o1 ELSE o2]

RequestSymmetry == Permutations(Requests)

(* Nothing but its id tells an intent from another that is not a legacy one. *)
OneOrderSymmetry == RequestSymmetry \cup Permutations(Intents \ LegacyIntents)
=============================================================================
