---------------------------- MODULE ReviewLedger ----------------------------
(***************************************************************************)
(* What review promises to those who train on the vault, without sessions, *)
(* requests or transactions: what is learned of an alert was said before,  *)
(* by one officer and trusted as that officer is, or, of an alert that is  *)
(* reviewed twice, by two officers who agree. Nothing is taken back.       *)
(* Review implements it (see Ledger in ReviewRefinement).                  *)
(***************************************************************************)
CONSTANTS Officers, Seniors, Decisions

VARIABLES
    double,  \* the alert is reviewed twice
    given,   \* who has given which decision
    learned  \* the decisions learned, each with its trust

ledger == <<double, given, learned>>

LedgerInit == double \in BOOLEAN /\ given = {} /\ learned = {}

Trust(o) == IF o \in Seniors THEN "gold" ELSE "medium"

Give(o, d) ==
    /\ given' = given \cup {<<o, d>>}
    /\ UNCHANGED <<double, learned>>

LearnFrom(o, d) ==
    /\ ~double /\ <<o, d>> \in given
    /\ learned' = learned \cup {<<d, Trust(o)>>}
    /\ UNCHANGED <<double, given>>

LearnAgreed(o, p, d) ==
    /\ double /\ o # p /\ {<<o, d>>, <<p, d>>} \subseteq given
    /\ learned' = learned \cup {<<d, "high">>}
    /\ UNCHANGED <<double, given>>

LedgerNext == \E o, p \in Officers, d \in Decisions :
                 Give(o, d) \/ LearnFrom(o, d) \/ LearnAgreed(o, p, d)

LedgerSpec == LedgerInit /\ [][LedgerNext]_ledger

=============================================================================
