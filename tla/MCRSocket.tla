----------------------------- MODULE MCRSocket -----------------------------
(* Model-checking instances of RSocket. *)
EXTENDS RSocket, TLC

CONSTANTS e1, e2

\* The two endpoints run the same code: with equal bounds they may be exchanged.
Symmetry == Permutations(Ends)

\* How often each endpoint may call send_.
TwoEach == e1 :> 2 @@ e2 :> 2
FourEach == e1 :> 4 @@ e2 :> 4
OneEach == e1 :> 1 @@ e2 :> 1
FourAndOne == e1 :> 4 @@ e2 :> 1
=============================================================================
