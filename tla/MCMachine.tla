----------------------------- MODULE MCMachine -----------------------------
(* Instances of Machine for TLC.                                           *)
EXTENDS Machine, TLC

(* Requests are interchangeable.                                           *)
Symmetry == Permutations(Requests)
=============================================================================
