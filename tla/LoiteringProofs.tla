-------------------------- MODULE LoiteringProofs --------------------------
(***************************************************************************)
(* Proofs about Loitering, for any tracks, any names of coroutines, any    *)
(* window and flag time, and any number of failed alerts.                  *)
(*                                                                         *)
(* Between the budget and the alert a coroutine awaits three times, others *)
(* run and time passes. What keeps the budget is that whatever is allowed  *)
(* restarts the window: `last` is never older than the leave of any alert  *)
(* that is under way or was written last.                                  *)
(***************************************************************************)
EXTENDS Loitering, FiniteSetTheorems, TLAPS

-----------------------------------------------------------------------------
(* The inductive invariant *)

\* The budget was spent on the alert written last, or on a later one,
SpentNotLater == last <= sent

\* and on every alert under way.
SpentOnAll == \A c \in Coroutines : PastBudget(c) => last <= run[c].age

\* Within the window only a suspicious path gets past the budget.
LateIsForced == \A c \in Coroutines :
    PastBudget(c) /\ run[c].late => run[c].forced

Types ==
    /\ still \subseteq Tracks
    /\ last \in 0..Window /\ sent \in 0..Window
    /\ flag \in [Tracks -> 0..FlagTime]
    /\ run \in [Coroutines -> Coroutine]
    /\ faults \in 0..MaxFaults

FewInflight == IsFiniteSet(Inflight) /\ Cardinality(Inflight) <= MaxInflight

IndInv ==
    /\ Types /\ FewInflight
    /\ SpentNotLater /\ SpentOnAll /\ LateIsForced

-----------------------------------------------------------------------------

\* A coroutine that was already in flight, or has ended, adds none: every step
\* but a submission keeps the set of coroutines in flight or makes it smaller.
LEMMA InflightShrinks ==
    ASSUME FewInflight, Inflight' \subseteq Inflight
    PROVE  FewInflight'
<1>1. IsFiniteSet(Inflight') /\ Cardinality(Inflight') <= Cardinality(Inflight)
    BY FS_Subset DEF FewInflight
<1>2. Cardinality(Inflight) \in Nat /\ Cardinality(Inflight') \in Nat
    BY <1>1, FS_CardinalityType DEF FewInflight
<1> QED BY <1>1, <1>2, LoiteringAssumption DEF FewInflight

LEMMA InitInv == Init => IndInv
<1> SUFFICES ASSUME Init PROVE IndInv
    OBVIOUS
<1> USE LoiteringAssumption
<1>1. Types
    BY DEF Init, Types, Coroutine, Done
<1>2. Inflight = {}
    BY DEF Init, Inflight, Done
<1>3. FewInflight
    BY <1>2, FS_EmptySet DEF FewInflight
<1> QED BY <1>1, <1>3 DEF Init, IndInv, SpentNotLater, SpentOnAll, LateIsForced, PastBudget, Done

-----------------------------------------------------------------------------
(* One lemma for each action *)

LEMMA TurnInv == ASSUME IndInv, NEW t \in Tracks, Turn(t) PROVE IndInv'
<1>1. Types'
    BY DEF Turn, IndInv, Types
<1>2. FewInflight'
    BY InflightShrinks DEF Turn, IndInv, Inflight
<1> QED BY <1>1, <1>2 DEF Turn, IndInv, SpentNotLater, SpentOnAll, LateIsForced, PastBudget

LEMMA SubmitInv == ASSUME IndInv, NEW c \in Coroutines, Submit(c) PROVE IndInv'
<1> USE LoiteringAssumption
<1>0. /\ run \in [Coroutines -> Coroutine] /\ run' = [run EXCEPT ![c] = Asking]
      /\ UNCHANGED <<still, last, flag, sent, faults>> /\ run[c].pc = "none"
      /\ Cardinality(Inflight) < MaxInflight
    BY DEF IndInv, Types, Submit
<1>1. Asking \in Coroutine /\ Asking.pc = "sample"
    BY DEF Coroutine, Asking
<1>2. Types'
    BY <1>0, <1>1 DEF IndInv, Types
<1>3. \A d \in Coroutines : run'[d] = IF d = c THEN Asking ELSE run[d]
    BY <1>0
<1>4. FewInflight'
    <2>1. Inflight' = Inflight \cup {c} /\ c \notin Inflight
        BY <1>0, <1>1, <1>3 DEF Inflight
    <2>2. IsFiniteSet(Inflight') /\ Cardinality(Inflight') = Cardinality(Inflight) + 1
        BY <2>1, FS_AddElement DEF IndInv, FewInflight
    <2>3. Cardinality(Inflight) \in Nat
        BY FS_CardinalityType DEF IndInv, FewInflight
    <2> QED BY <2>2, <2>3, <1>0 DEF FewInflight
<1> QED BY <1>0, <1>1, <1>2, <1>3, <1>4 DEF IndInv, SpentNotLater, SpentOnAll, LateIsForced,
           PastBudget

\* Whatever grows older keeps its order.
LEMMA OlderOrder ==
    ASSUME NEW m \in 0..Window, NEW n \in 0..Window, m <= n
    PROVE  /\ Older(m, Window) \in 0..Window /\ Older(n, Window) \in 0..Window
           /\ Older(m, Window) <= Older(n, Window)
BY LoiteringAssumption DEF Older

LEMMA TimeInv == ASSUME IndInv, Time PROVE IndInv'
<1> USE LoiteringAssumption
<1> DEFINE older(c) == [run[c] EXCEPT !.age = Older(run[c].age, Window)]
<1>1. /\ last \in 0..Window /\ sent \in 0..Window /\ last <= sent
      /\ run \in [Coroutines -> Coroutine]
      /\ last' = Older(last, Window) /\ sent' = Older(sent, Window)
      /\ run' = [c \in Coroutines |-> IF PastBudget(c) THEN older(c) ELSE run[c]]
    BY DEF Time, IndInv, Types, SpentNotLater
<1>2. \A c \in Coroutines : run[c].age \in 0..Window
    BY <1>1 DEF Coroutine
<1>3. \A c \in Coroutines :
         /\ older(c) \in Coroutine /\ older(c).pc = run[c].pc
         /\ older(c).forced = run[c].forced /\ older(c).late = run[c].late
         /\ older(c).age = Older(run[c].age, Window)
    BY <1>1, <1>2, OlderOrder DEF Coroutine
<1> HIDE DEF older
<1>4. \A c \in Coroutines : run'[c] = IF PastBudget(c) THEN older(c) ELSE run[c]
    BY <1>1
<1>5. Types'
    <2>1. run' \in [Coroutines -> Coroutine]
        BY <1>1, <1>3
    <2>2. last' \in 0..Window /\ sent' \in 0..Window
        BY <1>1, OlderOrder
    <2>3. flag' \in [Tracks -> 0..FlagTime] /\ still' = still /\ faults' = faults
        BY DEF Time, IndInv, Types
    <2> QED BY <2>1, <2>2, <2>3 DEF IndInv, Types
<1>6. \A c \in Coroutines : run'[c].pc = run[c].pc
    BY <1>3, <1>4
<1>7. FewInflight'
    BY <1>6, InflightShrinks DEF Inflight, IndInv
<1>8. SpentNotLater'
    BY <1>1, OlderOrder DEF SpentNotLater
<1>9. SpentOnAll'
    <2> SUFFICES ASSUME NEW c \in Coroutines, PastBudget(c)' PROVE last' <= run'[c].age
        BY DEF SpentOnAll
    <2>1. PastBudget(c)
        BY <1>6 DEF PastBudget
    <2>2. last <= run[c].age
        BY <2>1 DEF IndInv, SpentOnAll
    <2>3. run'[c].age = Older(run[c].age, Window)
        BY <1>3, <1>4, <2>1
    <2> QED BY <1>1, <1>2, <2>2, <2>3, OlderOrder
<1>10. LateIsForced'
    <2> SUFFICES ASSUME NEW c \in Coroutines, PastBudget(c)' PROVE run'[c].late => run'[c].forced
        BY DEF LateIsForced
    <2>1. PastBudget(c)
        BY <1>6 DEF PastBudget
    <2> QED BY <1>3, <1>4, <2>1 DEF IndInv, LateIsForced
<1> QED BY <1>5, <1>7, <1>8, <1>9, <1>10 DEF IndInv

\* A coroutine that ends leaves the others as they are.
LEMMA EndsInv ==
    ASSUME IndInv, NEW c \in Coroutines, Ends(c), last' = last, last' <= sent',
           still' = still, flag' \in [Tracks -> 0..FlagTime], sent' \in 0..Window,
           faults' \in 0..MaxFaults
    PROVE  IndInv'
<1> USE LoiteringAssumption
<1>1. run \in [Coroutines -> Coroutine] /\ Done \in Coroutine
    BY DEF IndInv, Types, Done, Coroutine
<1>2. \A d \in Coroutines : run'[d] = IF d = c THEN Done ELSE run[d]
    BY <1>1 DEF Ends
<1>3. Types'
    BY <1>1 DEF IndInv, Types, Ends
<1>4. FewInflight'
    BY <1>2, InflightShrinks DEF Inflight, Done, IndInv
<1> QED BY <1>2, <1>3, <1>4 DEF IndInv, SpentNotLater, SpentOnAll, LateIsForced, PastBudget, Done

\* A coroutine past the budget that goes on to another step beyond it.
LEMMA GoesInv ==
    ASSUME IndInv, NEW c \in Coroutines, NEW pc \in {"refresh", "set", "fire"}, Goes(c, pc),
           PastBudget(c), UNCHANGED <<still, last, sent, faults>>,
           flag' \in [Tracks -> 0..FlagTime]
    PROVE  IndInv'
<1> DEFINE new == [run[c] EXCEPT !.pc = pc]
<1>1. run \in [Coroutines -> Coroutine] /\ run' = [run EXCEPT ![c] = new]
    BY DEF IndInv, Types, Goes
<1>2. \A d \in Coroutines : run'[d] = IF d = c THEN new ELSE run[d]
    BY <1>1
<1>3. /\ new \in Coroutine /\ new.pc = pc /\ new.forced = run[c].forced
      /\ new.late = run[c].late /\ new.age = run[c].age
    BY <1>1 DEF Coroutine
<1> HIDE DEF new
<1>4. Types'
    BY <1>1, <1>2, <1>3 DEF IndInv, Types
<1>5. FewInflight'
    <2>1. Inflight' \subseteq Inflight
        BY <1>2 DEF Inflight, PastBudget
    <2> QED BY <2>1, InflightShrinks DEF IndInv
<1>6. SpentNotLater'
    BY DEF IndInv, SpentNotLater
<1>7. SpentOnAll'
    BY <1>2, <1>3 DEF IndInv, SpentOnAll, PastBudget
<1>8. LateIsForced'
    BY <1>2, <1>3 DEF IndInv, LateIsForced, PastBudget
<1> QED BY <1>4, <1>5, <1>6, <1>7, <1>8 DEF IndInv

\* When the window has run out, no alert is recent.
LEMMA OpenMeansNoneRecent == IndInv /\ ~(last < Window) => ~Recent
<1> SUFFICES ASSUME IndInv, ~(last < Window) PROVE ~Recent
    OBVIOUS
<1>1. run \in [Coroutines -> Coroutine] /\ last \in 0..Window /\ sent \in 0..Window
    BY DEF IndInv, Types
<1>2. \A d \in Coroutines : run[d].age \in 0..Window
    BY <1>1 DEF Coroutine
<1> QED BY <1>1, <1>2, LoiteringAssumption DEF IndInv, SpentNotLater, SpentOnAll, Recent

\* What allow leaves of a coroutine: it has ended, or it has spent the budget.
LEMMA SampleInv == ASSUME IndInv, NEW c \in Coroutines, Sample(c) PROVE IndInv'
<1> USE LoiteringAssumption
<1>0. run \in [Coroutines -> Coroutine] /\ run[c].pc = "sample"
    BY DEF IndInv, Types, Sample
<1>1. /\ UNCHANGED <<still, flag, sent, faults>>
      /\ \/ UNCHANGED last /\ Ends(c)
         \/ \E forced \in BOOLEAN :
               (forced \/ ~(last < Window)) /\ last' = 0 /\ Allowed(c, forced)
    BY DEF Sample, Allow
<1>2. CASE UNCHANGED last /\ Ends(c)
    BY <1>1, <1>2, EndsInv DEF IndInv, Types, SpentNotLater
<1>3. CASE \E forced \in BOOLEAN :
               (forced \/ ~(last < Window)) /\ last' = 0 /\ Allowed(c, forced)
    <2>0. PICK forced \in BOOLEAN :
               (forced \/ ~(last < Window)) /\ last' = 0 /\ Allowed(c, forced)
        BY <1>3
    <2> DEFINE new == [pc |-> "flag", forced |-> forced, late |-> Recent, age |-> 0]
    <2>1. new \in Coroutine
        BY DEF Coroutine, Recent
    <2>2. run' = [run EXCEPT ![c] = new]
        BY <2>0 DEF Allowed
    <2>3. \A d \in Coroutines : run'[d] = IF d = c THEN new ELSE run[d]
        BY <1>0, <2>2
    <2>4. new.late => new.forced
        BY <2>0, OpenMeansNoneRecent
    <2>5. new.pc = "flag" /\ new.age = 0
        OBVIOUS
    <2> HIDE DEF new
    <2>6. Types'
        BY <1>0, <1>1, <2>0, <2>1, <2>2 DEF IndInv, Types
    <2>7. FewInflight'
        <3>1. Inflight' \subseteq Inflight
            BY <1>0, <2>3 DEF Inflight
        <3> QED BY <3>1, InflightShrinks DEF IndInv
    <2>8. SpentNotLater'
        BY <1>1, <2>0 DEF IndInv, Types, SpentNotLater
    <2>9. SpentOnAll'
        <3>1. \A d \in Coroutines : run'[d].age \in 0..Window
            BY <2>6 DEF Types, Coroutine
        <3> QED BY <2>0, <3>1 DEF SpentOnAll
    <2>10. LateIsForced'
        BY <2>3, <2>4 DEF IndInv, LateIsForced, PastBudget
    <2> QED BY <2>6, <2>7, <2>8, <2>9, <2>10 DEF IndInv
<1> QED BY <1>1, <1>2, <1>3

LEMMA StepInv ==
    ASSUME IndInv, NEW c \in Coroutines, Step(c) \/ FireFails(c) PROVE IndInv'
<1> USE LoiteringAssumption
<1>0. /\ flag \in [Tracks -> 0..FlagTime] /\ run \in [Coroutines -> Coroutine]
      /\ faults \in 0..MaxFaults /\ sent \in 0..Window /\ last <= sent
    BY DEF IndInv, Types, SpentNotLater
<1>00. [flag EXCEPT ![c[1]] = FlagTime] \in [Tracks -> 0..FlagTime]
    BY <1>0 DEF Coroutines
<1>1. CASE Sample(c)
    BY <1>1, SampleInv
<1>2. CASE ReadFlag(c)
    BY <1>0, <1>2, GoesInv DEF ReadFlag, PastBudget
<1>3. CASE Refresh(c)
    BY <1>0, <1>00, <1>3, EndsInv DEF Refresh
<1>4. CASE SetFlag(c)
    BY <1>0, <1>00, <1>4, GoesInv DEF SetFlag, PastBudget
<1>5. CASE Fire(c)
    <2>1. last <= run[c].age
        BY <1>5 DEF Fire, IndInv, SpentOnAll, PastBudget
    <2>2. run[c].age \in 0..Window
        BY <1>0 DEF Coroutine
    <2> QED BY <1>0, <1>5, <2>1, <2>2, EndsInv DEF Fire
<1>6. CASE FireFails(c)
    <2>1. faults' \in 0..MaxFaults
        BY <1>0, <1>6 DEF FireFails
    <2> QED BY <1>0, <1>6, <2>1, EndsInv DEF FireFails
<1> QED BY <1>1, <1>2, <1>3, <1>4, <1>5, <1>6 DEF Step

LEMMA NextInv == IndInv /\ [Next]_vars => IndInv'
<1> SUFFICES ASSUME IndInv, [Next]_vars PROVE IndInv'
    OBVIOUS
<1>1. ASSUME NEW t \in Tracks, Turn(t) PROVE IndInv'
    BY <1>1, TurnInv
<1>2. ASSUME NEW c \in Coroutines, Submit(c) PROVE IndInv'
    BY <1>2, SubmitInv
<1>3. ASSUME NEW c \in Coroutines, Step(c) \/ FireFails(c) PROVE IndInv'
    BY <1>3, StepInv
<1>4. CASE Time
    BY <1>4, TimeInv
<1>5. CASE UNCHANGED vars
    <2>1. FewInflight'
        BY <1>5, InflightShrinks DEF IndInv, Inflight, vars
    <2> QED BY <1>5, <2>1 DEF vars, IndInv, Types, SpentNotLater, SpentOnAll, LateIsForced,
               PastBudget
<1> QED BY <1>1, <1>2, <1>3, <1>4, <1>5 DEF Next

LEMMA Invariant == Spec => []IndInv
    BY InitInv, NextInv, PTL DEF Spec

-----------------------------------------------------------------------------
(* The theorems *)

\* Type correctness, and the ceiling on coroutines in flight, for any number of
\* tracks and positions.
THEOREM TypeCorrect == Spec => []TypeOK
<1>1. IndInv => TypeOK
    BY DEF IndInv, Types, FewInflight, TypeOK
<1> QED BY <1>1, Invariant, PTL

\* Nothing slips past the camera's budget: a position that asks within the window
\* of another alert's leave is alerted only for its path, however many positions
\* are in flight, for however long, and whichever of them overtakes which.
THEOREM BudgetIsKept == Spec => BudgetKept
<1>1. IndInv /\ [Next]_vars =>
        [\A c \in Coroutines :
           run[c].pc = "fire" /\ ~run[c].forced /\ run'[c].pc = "none" => ~run[c].late]_vars
    BY DEF IndInv, LateIsForced, PastBudget
<1> QED BY <1>1, Invariant, PTL DEF Spec, BudgetKept

=============================================================================
