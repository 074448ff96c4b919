----------------------------- MODULE MCEvidence -----------------------------
(* Instances of Evidence for TLC. *)
EXTENDS EvidenceRefinement, TLC

MCSymmetry == Permutations(Captures) \cup Permutations(Workers)

=============================================================================
