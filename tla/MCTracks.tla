------------------------------ MODULE MCTracks ------------------------------
(* Instances of Tracks for TLC. No plate is looked for on the
   second vehicle: a person, or one too small. *)
EXTENDS TracksRefinement, TLC

CONSTANTS v1, v2

MCAttempts == (v1 :> 2) @@ (v2 :> 0)
MCLaps == (v1 :> 2) @@ (v2 :> 1)

=============================================================================
