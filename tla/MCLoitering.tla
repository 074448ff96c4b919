----------------------------- MODULE MCLoitering -----------------------------
(* Instances of Loitering for TLC. *)
EXTENDS Loitering, TLC

=============================================================================
