-------------------------- MODULE ReviewRefinement --------------------------
(***************************************************************************)
(* Review implements ReviewLedger: the reviews and the vault entries, read *)
(* as what was said and what was learned. Sessions, pairs and links are    *)
(* stuttering steps.                                                       *)
(***************************************************************************)
EXTENDS Review

Ledger == INSTANCE ReviewLedger WITH
            double <- borderline,
            given <- {<<review[s].officer, review[s].decision>> : s \in Reviewed},
            learned <- {<<vault[e].decision, vault[e].trust>> : e \in Entries}

\* At the moment an entry is stored, its decision has been given by whoever its
\* trust says, and no entry or review is ever rewritten, however sessions,
\* submissions and deaths of requests interleave.
VaultKept == Ledger!LedgerSpec

=============================================================================
