---------------------------- MODULE MCAuditChain ----------------------------
(* Instances of AuditChain for TLC. *)
EXTENDS AuditChain, TLC

MCSymmetry == Permutations(Payloads) \cup Permutations(Writers)

=============================================================================
