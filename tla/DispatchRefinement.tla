------------------------- MODULE DispatchRefinement -------------------------
(***************************************************************************)
(* Dispatch implements DispatchLedger: the table of routed alerts, read as *)
(* a ledger of cases. Claims and releases of officers are stuttering steps.*)
(***************************************************************************)
EXTENDS Dispatch

CaseOf(status) ==
    CASE status \in {"ABSENT", "PENDING"} -> "new"
      [] status = "ROUTED"                -> "assigned"
      [] status = "UNROUTED"              -> "unassigned"
      [] status = "ESCALATED_ROUTED"      -> "passed_on"
      [] status = "ESCALATED_UNROUTED"    -> "given_up"
      [] status = "ACKNOWLEDGED"          -> "acknowledged"

Ledger == INSTANCE DispatchLedger WITH
            Cases <- Calls,
            case <- [r \in Calls |-> CaseOf(rows[r].status)],
            owner <- [r \in Calls |-> rows[r].officer],
            recalled <- freed

\* Every behaviour of dispatch, with crashes and operators' overrides, keeps
\* the ledger's promise.
LedgerKept == Ledger!LedgerSpec

=============================================================================
