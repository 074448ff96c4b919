-------------------------- MODULE TracksRefinement --------------------------
(***************************************************************************)
(* Tracks implements TracksLedger: the tables, as a reader sees them. Only *)
(* the commit of a frame's transaction and the end of a clip's job are     *)
(* steps of the ledger; the flush, the worker and the units are not seen.  *)
(***************************************************************************)
EXTENDS Tracks

Saved(r) == row[r].state = "saved"

Ledger == INSTANCE TracksLedger WITH
            Records <- Rows,
            recorded <- {r \in Rows : Saved(r)},
            marked <- {r \in Rows : Saved(r) /\ row[r].stolen},
            alerted <- {r \in Rows : Saved(r) /\ row[r].alert},
            clipped <- {r \in Rows : row[r].clip = "cut"}

\* The rows of a frame, their stolen marks and their alerts become visible
\* together and are never changed after that, and a clip is only cut for an alert
\* that is visible, whatever worker, failures, clip jobs and deaths do meanwhile.
RecordKept == Ledger!LedgerSpec

=============================================================================
