----------------------------- MODULE Loitering -----------------------------
(***************************************************************************)
(* The loitering alerts of one camera: LoiteringDetector.on_track_position *)
(* (backend/services/loitering_detector.py) with the camera's budget of    *)
(* alerts (backend/services/alert_cooldown.py), run as coroutines on the   *)
(* loop of the behaviour bridge (backend/services/behaviour_bridge.py).    *)
(*                                                                         *)
(* A coroutine is one position of one track. It may be interrupted at      *)
(* every await, so positions of one track overtake each other between the  *)
(* budget, the Redis flag of the episode and the alert. Whether the window *)
(* of positions is full, stays within the radius, and lies in a zone that  *)
(* alerts is one fact about a track here, `still`; whether its path is     *)
(* suspicious enough to pass the budget (traj_bonus >= 4) is drawn anew    *)
(* for each position.                                                      *)
(*                                                                         *)
(* Time is counted in LOITER_DURATION_SEC, and passes while coroutines are *)
(* in flight: hundreds may be pending, and what blocks their loop blocks   *)
(* all of them.                                                            *)
(***************************************************************************)
EXTENDS Naturals, FiniteSets

CONSTANTS
    Tracks,
    Window,      \* window_sec of the cooldown (1800 s, 30 units)
    FlagTime,    \* ttl of the flag (2 units)
    MaxInflight, \* _MAX_INFLIGHT (400)
    Slots,       \* bound: names for the coroutines of one track
    MaxFaults    \* bound on alerts that could not be written

ASSUME LoiteringAssumption ==
    /\ Window \in Nat \ {0} /\ FlagTime \in Nat \ {0}
    /\ MaxInflight \in Nat \ {0} /\ MaxFaults \in Nat

VARIABLES
    still,  \* the tracks that loiter
    last,   \* _last: time since an alert was allowed; Window, when long ago or never
    flag,   \* behavior:active:LOITERING of each track: the time it has left
    run,    \* the coroutines
    sent,   \* history: time since the alert written last was allowed
    faults

vars == <<still, last, flag, run, sent, faults>>

Coroutines == Tracks \X Slots

\* History: `age`, the time since the coroutine was allowed; `late`, an alert
\* that was under way or written when it asked had been allowed within the window.
Coroutine == [pc : {"none", "sample", "flag", "refresh", "set", "fire"},
              forced : BOOLEAN, late : BOOLEAN, age : 0..Window]
Done == [pc |-> "none", forced |-> FALSE, late |-> FALSE, age |-> 0]
Asking == [pc |-> "sample", forced |-> FALSE, late |-> FALSE, age |-> 0]

PastBudget(c) == run[c].pc \in {"flag", "refresh", "set", "fire"}
Inflight == {c \in Coroutines : run[c].pc # "none"}

TypeOK ==
    /\ still \subseteq Tracks
    /\ last \in 0..Window /\ sent \in 0..Window
    /\ flag \in [Tracks -> 0..FlagTime]
    /\ run \in [Coroutines -> Coroutine] /\ Cardinality(Inflight) <= MaxInflight
    /\ faults \in 0..MaxFaults

Init ==
    /\ still = {}
    /\ last = Window /\ sent = Window
    /\ flag = [t \in Tracks |-> 0]
    /\ run = [c \in Coroutines |-> Done]
    /\ faults = 0

Goes(c, pc) == run' = [run EXCEPT ![c].pc = pc]
Ends(c) == run' = [run EXCEPT ![c] = Done]

-----------------------------------------------------------------------------
(* The world and the bridge *)

\* A person stops, or moves on.
Turn(t) ==
    /\ still' = IF t \in still THEN still \ {t} ELSE still \cup {t}
    /\ UNCHANGED <<last, flag, run, sent, faults>>

\* submit: past the ceiling a position is shed.
Submit(c) ==
    /\ run[c].pc = "none" /\ Cardinality(Inflight) < MaxInflight
    /\ run' = [run EXCEPT ![c] = Asking]
    /\ UNCHANGED <<still, last, flag, sent, faults>>

Older(n, most) == IF n < most THEN n + 1 ELSE most

Time ==
    /\ last' = Older(last, Window) /\ sent' = Older(sent, Window)
    /\ run' = [c \in Coroutines |->
                 IF PastBudget(c) THEN [run[c] EXCEPT !.age = Older(run[c].age, Window)]
                 ELSE run[c]]
    /\ flag' = [t \in Tracks |-> IF flag[t] > 0 THEN flag[t] - 1 ELSE 0]
    /\ UNCHANGED <<still, faults>>

-----------------------------------------------------------------------------
(* on_track_position *)

\* An alert under way, or the one written last, was allowed within the window.
Recent == sent < Window \/ \E d \in Coroutines : PastBudget(d) /\ run[d].age < Window

Allowed(c, forced) ==
    run' = [run EXCEPT ![c] = [pc |-> "flag", forced |-> forced, late |-> Recent, age |-> 0]]

\* Seeded fault: a bypass does not restart the window.
AllowNotRestarting(c, forced) ==
    IF last < Window THEN UNCHANGED last /\ (IF forced THEN Allowed(c, forced) ELSE Ends(c))
    ELSE last' = 0 /\ Allowed(c, forced)

\* Seeded fault: a suppressed alert restarts the window.
AllowSliding(c, forced) ==
    last' = 0 /\ (IF last < Window /\ ~forced THEN Ends(c) ELSE Allowed(c, forced))

\* allow, under its lock: suppressed within the window unless forced; the
\* window restarts with whatever is allowed.
Allow(c, forced) ==
    IF last < Window /\ ~forced THEN UNCHANGED last /\ Ends(c)
    ELSE last' = 0 /\ Allowed(c, forced)

\* The window of positions is read, and up to the flag nothing is awaited.
Sample(c) ==
    /\ run[c].pc = "sample"
    /\ IF c[1] \in still THEN \E forced \in BOOLEAN : Allow(c, forced)
       ELSE UNCHANGED last /\ Ends(c)
    /\ UNCHANGED <<still, flag, sent, faults>>

ReadFlag(c) ==
    /\ run[c].pc = "flag"
    /\ Goes(c, IF flag[c[1]] > 0 THEN "refresh" ELSE "set")
    /\ UNCHANGED <<still, last, flag, sent, faults>>

Refresh(c) ==
    /\ run[c].pc = "refresh" /\ Ends(c)
    /\ flag' = [flag EXCEPT ![c[1]] = FlagTime]
    /\ UNCHANGED <<still, last, sent, faults>>

\* The flag is set before the alert is written, and stays if that fails.
SetFlag(c) ==
    /\ run[c].pc = "set" /\ Goes(c, "fire")
    /\ flag' = [flag EXCEPT ![c[1]] = FlagTime]
    /\ UNCHANGED <<still, last, sent, faults>>

\* _fire_alert: the alert is committed, with its evidence row at the latest
\* (create_pending_row); what fails after that loses only the audit entry and
\* the message to the operators,
Fire(c) ==
    /\ run[c].pc = "fire" /\ Ends(c)
    /\ sent' = run[c].age
    /\ UNCHANGED <<still, last, flag, faults>>

\* or it is rolled back; the detector does not look at which.
FireFails(c) ==
    /\ run[c].pc = "fire" /\ Ends(c)
    /\ faults < MaxFaults /\ faults' = faults + 1
    /\ UNCHANGED <<still, last, flag, sent>>

Step(c) == Sample(c) \/ ReadFlag(c) \/ Refresh(c) \/ SetFlag(c) \/ Fire(c)

Next ==
    \/ \E t \in Tracks : Turn(t)
    \/ \E c \in Coroutines : Submit(c) \/ Step(c) \/ FireFails(c)
    \/ Time

Spec == Init /\ [][Next]_vars

\* The camera gives positions of every track, and one of each track is taken
\* again and again; coroutines run to their end; time passes as long as it makes
\* a difference.
FairSpec ==
    /\ Spec
    /\ \A c \in Coroutines : WF_vars(Step(c)) /\ SF_vars(Submit(c))
    /\ WF_vars(Time)

-----------------------------------------------------------------------------
(* Properties *)

\* Nothing slips past the camera's budget: a position that asks within the window
\* of the leave an alert was given, be that alert written or still under way, is
\* alerted only for its path. The window is that of the leave, not of the
\* writing: an alert that is written late may be followed by another at once.
BudgetKept ==
    [][\A c \in Coroutines :
          run[c].pc = "fire" /\ ~run[c].forced /\ run'[c].pc = "none" => ~run[c].late]_vars

\* A coroutine that may set its flag so late that the flag outlives the window.
Overdue(c) == PastBudget(c) /\ run[c].age > Window - FlagTime

\* The budget never silences a camera for good: while anybody stays, alerts are
\* written again and again, although the budget may have been spent on an alert
\* that could not be written or on somebody who was alerted before. The code
\* does not give it if suspicious paths keep restarting the window, or if
\* coroutines keep taking most of a window between their leave and their flag.
\* Whose alert it is, is not said: of two who stay, one may take the budget
\* every time. It takes FlagTime < Window.
CameraIsNotSilenced ==
    \A t \in Tracks :
        <>[](t \in still) =>
            \/ []<><<\E c \in Coroutines : Fire(c)>>_vars
            \/ []<>(\E c \in Coroutines : run[c].forced \/ Overdue(c))

=============================================================================
