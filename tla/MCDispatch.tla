----------------------------- MODULE MCDispatch -----------------------------
(***************************************************************************)
(* Dispatch on small instances. Officer o1 is nearest to every alert, so   *)
(* that concurrent alerts contend for the same officer.                    *)
(***************************************************************************)
EXTENDS DispatchProofs, TLC

CONSTANTS o1, o2, a1, a2

MCDist == [a \in Alerts |-> [o \in Officers |-> IF o = o1 THEN 1 ELSE 2]]

\* All alerts are at the same distances, so nothing tells them, the calls or
\* the ticks apart.
MCSymmetry == Permutations(Calls) \cup Permutations(Tickers)
                \cup Permutations(Alerts) \cup Permutations(Ackers)

=============================================================================
