---------------------------- MODULE TracksLedger ----------------------------
(***************************************************************************)
(* What the pipeline promises to those who read its tables, without        *)
(* threads, buffers, plates or transactions: a record appears once, with   *)
(* everything that is said of it, is called stolen only with an alert, and *)
(* is never changed; clips are cut for alerts that are in the table.       *)
(* Tracks implements it (see Ledger in TracksRefinement).                  *)
(***************************************************************************)
CONSTANT Records

VARIABLES
    recorded,  \* the records that can be read
    marked,    \* those with an event that says stolen
    alerted,   \* those with an alert
    clipped    \* those with a clip

ledger == <<recorded, marked, alerted, clipped>>

LedgerInit == recorded = {} /\ marked = {} /\ alerted = {} /\ clipped = {}

\* The records R appear together, A of them with an alert, M of those marked.
Record(R, A, M) ==
    /\ recorded' = recorded \cup R
    /\ alerted' = alerted \cup A
    /\ marked' = marked \cup M
    /\ UNCHANGED clipped

Cut(r) ==
    /\ r \in alerted \ clipped
    /\ clipped' = clipped \cup {r}
    /\ UNCHANGED <<recorded, marked, alerted>>

LedgerNext ==
    \/ \E R \in SUBSET (Records \ recorded) :
          \E A \in SUBSET R : \E M \in SUBSET A : Record(R, A, M)
    \/ \E r \in Records : Cut(r)

LedgerSpec == LedgerInit /\ [][LedgerNext]_ledger

=============================================================================
