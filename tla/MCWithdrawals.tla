---------------------------- MODULE MCWithdrawals ----------------------------
(* Instances of Withdrawals for TLC.                                        *)
EXTENDS Withdrawals, TLC

CONSTANTS s1, w1, w2, c1

OneSeller == [x \in {w1, w2, c1} |-> s1]

(* The withdrawal w1 takes the sale and what w2 adds to the balance.        *)
Amounts == [x \in {w1, w2, c1} |-> IF x = w1 THEN 2 ELSE IF x = w2 THEN -1 ELSE 1]

(* The sale covers either withdrawal but not both.                          *)
TightAmounts == [x \in {w1, w2, c1} |-> IF x = w2 THEN 1 ELSE 2]

RequestSymmetry == Permutations(Requests)
==============================================================================
