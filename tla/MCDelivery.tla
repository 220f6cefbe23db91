----------------------------- MODULE MCDelivery -----------------------------
(* Delivery on small instances: constants only. *)
EXTENDS Delivery, TLC

Symmetry == Permutations(Pairings) \cup Permutations(Segments) \cup Permutations(Names)
=============================================================================
