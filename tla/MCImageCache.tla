---------------------------- MODULE MCImageCache ----------------------------
(* Small instances of ImageCache for TLC.                                  *)
EXTENDS ImageCache, TLC

CONSTANTS r1, r2, r3, n1, n2, p1, p2

(* r1 and r2 ask for the same image, r3 for another. *)
TwoNames == r1 :> n1 @@ r2 :> n1 @@ r3 :> n2
OneName == [r \in Requests |-> n1]
OnePool == [r \in Requests |-> p1]
TwoPools == r1 :> p1 @@ r2 :> p2
Symmetry == Permutations({r1, r2})
=============================================================================
