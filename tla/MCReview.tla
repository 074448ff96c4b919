------------------------------ MODULE MCReview ------------------------------
(* Instances of Review for TLC. *)
EXTENDS ReviewRefinement, TLC

MCSymmetry ==
    Permutations(Sessions) \cup Permutations(Handlers) \cup
    Permutations(Officers \ Seniors) \cup Permutations(Decisions)

=============================================================================
