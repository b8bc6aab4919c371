----------------------------- MODULE MCShipments -----------------------------
(* Instances of Shipments for TLC.                                          *)
EXTENDS Shipments, TLC

Symmetry == Permutations(Requests) \cup Permutations(Drivers)
==============================================================================
