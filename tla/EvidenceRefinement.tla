------------------------- MODULE EvidenceRefinement -------------------------
(***************************************************************************)
(* Evidence implements EvidenceSeal: the row, the alert and the directory, *)
(* read as a clip and what is stated of it. Temporary files, the PDF and   *)
(* failed attempts are stuttering steps.                                   *)
(***************************************************************************)
EXTENDS Evidence

Lock == INSTANCE EvidenceSeal WITH
            Digests <- Digest,
            clip <- IF dir.clip = None THEN None ELSE DigestOf(dir.clip),
            manifest <- dir.manifest,
            hash <- alertHash,
            seal <- IF Sealed THEN rows[1].sha256 ELSE None,
            void <- interfered

\* Whatever crashes, retries and sweeps come before and after, evidence is
\* sealed once, over the clip that is there, and nothing that is stated of it
\* changes then, unless captures overlap.
SealKept == Lock!LockSpec

=============================================================================
