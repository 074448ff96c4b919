--------------------------- MODULE DispatchLedger ---------------------------
(***************************************************************************)
(* What dispatch promises, without handlers, claims or transactions: a     *)
(* case is assigned to an officer who has no other case, is passed on to   *)
(* another such officer at most once, and once closed stays closed.        *)
(* Dispatch implements it (see Ledger in DispatchRefinement).              *)
(***************************************************************************)
CONSTANTS Cases, Officers, None

VARIABLES
    case,       \* the life of each case
    owner,      \* the officer a case was last assigned to
    recalled    \* officers an operator freed by hand: no promise about them

ledger == <<case, owner, recalled>>

Open(r) == case[r] \in {"assigned", "passed_on"}
Idle(o) == o \in recalled \/ \A r \in Cases : Open(r) => owner[r] # o

LedgerInit ==
    /\ case = [r \in Cases |-> "new"]
    /\ owner = [r \in Cases |-> None]
    /\ recalled = {}

Assign(r, o) ==
    /\ case[r] = "new" /\ Idle(o)
    /\ case' = [case EXCEPT ![r] = "assigned"]
    /\ owner' = [owner EXCEPT ![r] = o]
    /\ UNCHANGED recalled

NobodyFree(r) ==
    /\ case[r] = "new"
    /\ case' = [case EXCEPT ![r] = "unassigned"]
    /\ UNCHANGED <<owner, recalled>>

PassOn(r, o) ==
    /\ case[r] = "assigned" /\ Idle(o) /\ o # owner[r]
    /\ case' = [case EXCEPT ![r] = "passed_on"]
    /\ owner' = [owner EXCEPT ![r] = o]
    /\ UNCHANGED recalled

GiveUp(r) ==
    /\ case[r] = "assigned"
    /\ case' = [case EXCEPT ![r] = "given_up"]
    /\ UNCHANGED <<owner, recalled>>

\* An acknowledgement names the alert, and closes all its open cases.
Acknowledge(R) ==
    /\ \A r \in R : Open(r)
    /\ case' = [r \in Cases |-> IF r \in R THEN "acknowledged" ELSE case[r]]
    /\ UNCHANGED <<owner, recalled>>

Recall(o) ==
    /\ recalled' = recalled \cup {o}
    /\ UNCHANGED <<case, owner>>

LedgerNext ==
    \/ \E r \in Cases, o \in Officers : Assign(r, o) \/ PassOn(r, o)
    \/ \E r \in Cases : NobodyFree(r) \/ GiveUp(r)
    \/ \E R \in SUBSET Cases : Acknowledge(R)
    \/ \E o \in Officers : Recall(o)

LedgerSpec == LedgerInit /\ [][LedgerNext]_ledger

=============================================================================
