------------------------------ MODULE MCPortal ------------------------------
(* Instances of Portal for TLC. *)
EXTENDS Portal, TLC

CONSTANTS p1, p2, c1, c2, c3

MCHome == c1 :> p1 @@ c2 :> p1 @@ c3 :> p2

=============================================================================
