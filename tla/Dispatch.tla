------------------------------ MODULE Dispatch ------------------------------
(***************************************************************************)
(* Officer dispatch: nearest-officer routing, the escalation tick, the     *)
(* acknowledge endpoint and the manual "mark available" endpoint           *)
(* (backend/routing/service.py, backend/routing/escalation.py,             *)
(* backend/routers/v1/routing.py).                                         *)
(*                                                                         *)
(* The shared state is two SQLite tables, officers and routed_alerts.      *)
(* Every action below is one database transaction of one handler; between  *)
(* two transactions of a handler any other handler may run, because the    *)
(* server runs several worker processes, the detectors run on more than    *)
(* one event loop and the tick runs in a worker thread.                    *)
(*                                                                         *)
(* A call of route_alert inserts at most one row, so the call is used as   *)
(* the identity of that row: rows[c] is the row inserted by call c.        *)
(***************************************************************************)
EXTENDS Naturals

CONSTANTS
    Alerts,         \* critical alerts that may be routed
    Officers,       \* rows of the officers table
    Calls,          \* invocations of route_alert; also the ids of routed_alerts
    Ackers,         \* concurrent POST /alerts/{id}/ack requests
    Tickers,        \* concurrent escalation ticks, one per worker process
    Dist,           \* Dist[a][o]: haversine distance, alert's camera to officer
    Resolvable,     \* alerts whose camera row exists
    Located,        \* ... and has GPS coordinates
    None,           \* SQL NULL
    MaxFaults,      \* bound on handlers cut short by a crash or an exception
    MaxOverrides    \* bound on POST /officers/{id}/available

ASSUME DispatchAssumption ==
    /\ None \notin Officers \cup Calls \cup Alerts
    /\ Located \subseteq Resolvable
    /\ Resolvable \subseteq Alerts
    /\ Dist \in [Alerts -> [Officers -> Nat]]
    /\ MaxFaults \in Nat
    /\ MaxOverrides \in Nat

VARIABLES
    officers,   \* officers.status and officers.current_alert_id
    rows,       \* the routed_alerts table
    router,     \* locals of each route_alert call
    acker,      \* locals of each ACK request
    ticker,     \* locals of each escalation tick
    faults,     \* handlers cut short so far
    overrides,  \* manual overrides so far
    freed       \* history: officers an operator freed while they were BUSY

table == <<officers, rows>>
vars == <<officers, rows, router, acker, ticker, faults, overrides, freed>>

-----------------------------------------------------------------------------
(* States *)

\* Rows an officer is answering, and which both ACK and escalation may update.
ESCALATABLE_STATES == {"ROUTED", "ESCALATED_ROUTED"}
TERMINAL_STATES == {"ACKNOWLEDGED", "ESCALATED_UNROUTED", "UNROUTED"}
RowStatus == ESCALATABLE_STATES \cup TERMINAL_STATES \cup {"ABSENT", "PENDING"}

Officer == [status : {"AVAILABLE", "BUSY", "OFFLINE"},
            current : Calls \cup {None}]

\* `overdue` stands for assigned_at older than ACK_TIMEOUT_SECONDS.
RoutedAlert == [alert : Alerts \cup {None},
                status : RowStatus,
                officer : Officers \cup {None},
                escalations : {0, 1},
                overdue : BOOLEAN]

\* Locals of a route_alert call, of an ACK request and of a tick. A job is an
\* overdue row as the tick's SELECT returned it.
Call == [pc : {"idle", "read", "insert", "claim", "done"},
         alert : Alerts \cup {None},
         cands : SUBSET Officers,
         claimed : Officers \cup {None}]

AckRequest == [pc : {"idle", "update", "revert"},
               alert : Alerts \cup {None},
               row : Calls \cup {None},
               officer : Officers \cup {None}]

Job == [row : Calls, officer : Officers]

Tick == [pc : {"idle", "next", "claim", "release", "giveback"},
         todo : SUBSET Job,
         job : Job \cup {None},
         cands : SUBSET Officers,
         claimed : Officers \cup {None}]

Free == [status |-> "AVAILABLE", current |-> None]
BusyOn(r) == [status |-> "BUSY", current |-> r]
Available == {o \in Officers : officers[o].status = "AVAILABLE"}

Exists(r) == rows[r].status # "ABSENT"
Active(r) == rows[r].status \in ESCALATABLE_STATES
\* Seeded fault: the WHERE clause loses escalation_count = 0.
EscalatableAgain(r) == Active(r)
Escalatable(r) == Active(r) /\ rows[r].escalations = 0
RowsOf(a) == {r \in Calls : Exists(r) /\ rows[r].alert = a}

\* The nearest of a set of candidates; equidistant ones in either order.
Nearest(a, S) == {o \in S : \A p \in S : Dist[a][o] <= Dist[a][p]}

NoRow == [alert |-> None, status |-> "ABSENT", officer |-> None,
          escalations |-> 0, overdue |-> FALSE]
NewCall == [pc |-> "idle", alert |-> None, cands |-> {}, claimed |-> None]
Returned == [NewCall EXCEPT !.pc = "done"]
IdleAck == [pc |-> "idle", alert |-> None, row |-> None, officer |-> None]
IdleTick == [pc |-> "idle", todo |-> {}, job |-> None, cands |-> {},
             claimed |-> None]
BetweenRows(todo) == [IdleTick EXCEPT !.pc = "next", !.todo = todo]

Init ==
    /\ officers \in [Officers -> {Free, [Free EXCEPT !.status = "OFFLINE"]}]
    /\ rows = [r \in Calls |-> NoRow]
    /\ router = [c \in Calls |-> NewCall]
    /\ acker = [k \in Ackers |-> IdleAck]
    /\ ticker = [t \in Tickers |-> IdleTick]
    /\ faults = 0
    /\ overrides = 0
    /\ freed = {}

\* UPDATE officers SET BUSY WHERE id = o AND status = 'AVAILABLE': the claim
\* both routing and escalation make.
Claim(o, r) == officers' = [officers EXCEPT ![o] = BusyOn(r)]

\* Seeded fault: the release loses its AND current_alert_id = r.
ReleaseAnyway(o, r) == officers' = [officers EXCEPT ![o] = Free]

\* UPDATE officers SET AVAILABLE WHERE id = o AND current_alert_id = r.
ReleaseFrom(o, r) ==
    officers' = IF officers[o].current = r
                THEN [officers EXCEPT ![o] = Free]
                ELSE officers

-----------------------------------------------------------------------------
(* route_alert *)

\* The idempotency guard: an alert that already has a row is not re-routed.
RouteCheck(c, a) ==
    /\ router[c].pc = "idle"
    /\ router' = [router EXCEPT ![c] =
                    IF RowsOf(a) = {} THEN [NewCall EXCEPT !.pc = "read",
                                                           !.alert = a]
                                      ELSE Returned]
    /\ UNCHANGED <<table, acker, ticker, faults, overrides, freed>>

\* Phase 0: the camera and the AVAILABLE officers. Without a camera the call
\* returns None; without GPS coordinates there are no candidates.
RouteRead(c) ==
    /\ router[c].pc = "read"
    /\ LET a == router[c].alert IN
       router' = [router EXCEPT ![c] =
                    IF a \in Resolvable
                    THEN [@ EXCEPT !.pc = "insert",
                                   !.cands = IF a \in Located THEN Available
                                                              ELSE {}]
                    ELSE Returned]
    /\ UNCHANGED <<table, acker, ticker, faults, overrides, freed>>

\* Phase 1: the PENDING row, committed before any officer is claimed.
RouteInsert(c) ==
    /\ router[c].pc = "insert"
    /\ rows' = [rows EXCEPT ![c] = [NoRow EXCEPT !.alert = router[c].alert,
                                                 !.status = "PENDING"]]
    /\ router' = [router EXCEPT ![c] = [@ EXCEPT !.pc = "claim"]]
    /\ UNCHANGED <<officers, acker, ticker, faults, overrides, freed>>

\* Phase 2: try the nearest remaining candidate, in a transaction of its own.
RouteClaim(c) ==
    /\ router[c].pc = "claim"
    /\ router[c].claimed = None
    /\ \E o \in Nearest(router[c].alert, router[c].cands) :
         IF o \in Available
         THEN /\ Claim(o, c)
              /\ router' = [router EXCEPT ![c] = [@ EXCEPT !.claimed = o]]
         ELSE /\ router' = [router EXCEPT ![c].cands = @ \ {o}]
              /\ UNCHANGED officers
    /\ UNCHANGED <<rows, acker, ticker, faults, overrides, freed>>

\* Seeded fault: only a successful claim is written back.
RouteFinaliseWhenClaimed(c) ==
    /\ router[c].pc = "claim"
    /\ router[c].claimed # None \/ router[c].cands = {}
    /\ rows' = IF router[c].claimed = None THEN rows
               ELSE [rows EXCEPT ![c] = [@ EXCEPT
                        !.status = "ROUTED", !.officer = router[c].claimed]]
    /\ router' = [router EXCEPT ![c] = Returned]
    /\ UNCHANGED <<officers, acker, ticker, faults, overrides, freed>>

\* Phase 3: the row becomes ROUTED or UNROUTED, if it is still PENDING.
RouteFinalise(c) ==
    /\ router[c].pc = "claim"
    /\ router[c].claimed # None \/ router[c].cands = {}
    /\ rows' = IF rows[c].status # "PENDING" THEN rows
               ELSE IF router[c].claimed = None
               THEN [rows EXCEPT ![c] = [@ EXCEPT !.status = "UNROUTED"]]
               ELSE [rows EXCEPT ![c] = [@ EXCEPT
                        !.status = "ROUTED", !.officer = router[c].claimed]]
    /\ router' = [router EXCEPT ![c] = Returned]
    /\ UNCHANGED <<officers, acker, ticker, faults, overrides, freed>>

-----------------------------------------------------------------------------
(* ack_alert *)

\* SELECT * FROM routed_alerts WHERE alert_id = a, with no status filter and
\* no ORDER BY. Already acknowledged and never-routed rows end the request.
AckRead(k, a) ==
    /\ acker[k].pc = "idle"
    /\ \E r \in RowsOf(a) :
         /\ rows[r].status \notin TERMINAL_STATES
         /\ acker' = [acker EXCEPT ![k] = [pc |-> "update", alert |-> a,
                                           row |-> r,
                                           officer |-> rows[r].officer]]
    /\ UNCHANGED <<table, router, ticker, faults, overrides, freed>>

\* Seeded fault: the ACK's UPDATE loses its status filter.
AckUpdateUnfiltered(k) ==
    /\ acker[k].pc = "update"
    /\ rows' = [r \in Calls |-> IF r \in RowsOf(acker[k].alert)
                                THEN [rows[r] EXCEPT !.status = "ACKNOWLEDGED"]
                                ELSE rows[r]]
    /\ acker' = [acker EXCEPT ![k] = IF @.officer = None THEN IdleAck
                                     ELSE [@ EXCEPT !.pc = "revert"]]
    /\ UNCHANGED <<officers, router, ticker, faults, overrides, freed>>

\* UPDATE ... SET ACKNOWLEDGED WHERE alert_id = a AND status IN (...): every
\* row of the alert an officer is answering. No row matched is a 409 or a replay.
AckUpdate(k) ==
    /\ acker[k].pc = "update"
    /\ LET hit == {r \in RowsOf(acker[k].alert) : Active(r)} IN
       /\ rows' = [r \in Calls |-> IF r \in hit
                                   THEN [rows[r] EXCEPT !.status = "ACKNOWLEDGED"]
                                   ELSE rows[r]]
       /\ acker' = [acker EXCEPT ![k] = IF hit = {} \/ @.officer = None
                                        THEN IdleAck
                                        ELSE [@ EXCEPT !.pc = "revert"]]
    /\ UNCHANGED <<officers, router, ticker, faults, overrides, freed>>

\* revert_officer_on_ack, with the officer and the row read by AckRead.
AckRevert(k) ==
    /\ acker[k].pc = "revert"
    /\ LET o == acker[k].officer IN
       officers' = IF officers[o] = BusyOn(acker[k].row)
                   THEN [officers EXCEPT ![o] = Free]
                   ELSE officers
    /\ acker' = [acker EXCEPT ![k] = IdleAck]
    /\ UNCHANGED <<rows, router, ticker, faults, overrides, freed>>

-----------------------------------------------------------------------------
(* escalation_tick *)

\* The ACK timeout of a dispatch expires (assigned_at falls behind the cutoff).
Expire(r) ==
    /\ Active(r)
    /\ ~rows[r].overdue
    /\ rows' = [rows EXCEPT ![r] = [@ EXCEPT !.overdue = TRUE]]
    /\ UNCHANGED <<officers, router, acker, ticker, faults, overrides, freed>>

\* _scan_and_escalate: the SELECT of overdue rows, one snapshot.
TickScan(t) ==
    /\ ticker[t].pc = "idle"
    /\ LET overdue == {r \in Calls : Escalatable(r) /\ rows[r].overdue} IN
       /\ overdue # {}
       /\ ticker' = [ticker EXCEPT ![t] =
                       BetweenRows({[row |-> r, officer |-> rows[r].officer] :
                                       r \in overdue})]
    /\ UNCHANGED <<table, router, acker, faults, overrides, freed>>

\* _escalate_one begins with the next row: the AVAILABLE officers other than
\* the one who timed out.
EscRead(t) ==
    /\ ticker[t].pc = "next"
    /\ \E j \in ticker[t].todo :
         ticker' = [ticker EXCEPT ![t] =
                      [pc |-> "claim", todo |-> @.todo \ {j}, job |-> j,
                       cands |-> IF rows[j.row].alert \in Located
                                 THEN Available \ {j.officer} ELSE {},
                       claimed |-> None]]
    /\ UNCHANGED <<table, router, acker, faults, overrides, freed>>

TickEnd(t) ==
    /\ ticker[t].pc = "next"
    /\ ticker[t].todo = {}
    /\ ticker' = [ticker EXCEPT ![t] = IdleTick]
    /\ UNCHANGED <<table, router, acker, faults, overrides, freed>>

\* The speculative claim of the nearest remaining candidate.
EscClaim(t) ==
    /\ ticker[t].pc = "claim"
    /\ ticker[t].claimed = None
    /\ LET r == ticker[t].job.row IN
       \E o \in Nearest(rows[r].alert, ticker[t].cands) :
         IF o \in Available
         THEN /\ Claim(o, r)
              /\ ticker' = [ticker EXCEPT ![t] = [@ EXCEPT !.claimed = o]]
         ELSE /\ ticker' = [ticker EXCEPT ![t].cands = @ \ {o}]
              /\ UNCHANGED officers
    /\ UNCHANGED <<rows, router, acker, faults, overrides, freed>>

\* Seeded fault: the tick reassigns whatever row its SELECT returned, and
\* counts each time.
EscReassignUnguarded(t) ==
    /\ ticker[t].pc = "claim"
    /\ ticker[t].claimed # None
    /\ rows' = [rows EXCEPT ![ticker[t].job.row] = [@ EXCEPT
                    !.status = "ESCALATED_ROUTED",
                    !.officer = ticker[t].claimed,
                    !.escalations = @ + 1, !.overdue = FALSE]]
    /\ ticker' = [ticker EXCEPT ![t] = [@ EXCEPT !.pc = "release"]]
    /\ UNCHANGED <<officers, router, acker, faults, overrides, freed>>

\* Seeded fault: a tick that lost its race keeps the officer it claimed.
EscReassignKeeping(t) ==
    /\ ticker[t].pc = "claim"
    /\ ticker[t].claimed # None
    /\ LET r == ticker[t].job.row IN
       IF Escalatable(r)
       THEN /\ rows' = [rows EXCEPT ![r] = [@ EXCEPT
                            !.status = "ESCALATED_ROUTED",
                            !.officer = ticker[t].claimed,
                            !.escalations = 1, !.overdue = FALSE]]
            /\ ticker' = [ticker EXCEPT ![t] = [@ EXCEPT !.pc = "release"]]
       ELSE /\ ticker' = [ticker EXCEPT ![t] = BetweenRows(@.todo)]
            /\ UNCHANGED rows
    /\ UNCHANGED <<officers, router, acker, faults, overrides, freed>>

\* The guarded UPDATE to ESCALATED_ROUTED. No row matched means that an ACK
\* or another tick was first, and the claimed officer is given back.
EscReassign(t) ==
    /\ ticker[t].pc = "claim"
    /\ ticker[t].claimed # None
    /\ LET r == ticker[t].job.row IN
       IF Escalatable(r)
       THEN /\ rows' = [rows EXCEPT ![r] = [@ EXCEPT
                            !.status = "ESCALATED_ROUTED",
                            !.officer = ticker[t].claimed,
                            !.escalations = 1, !.overdue = FALSE]]
            /\ ticker' = [ticker EXCEPT ![t] = [@ EXCEPT !.pc = "release"]]
       ELSE /\ ticker' = [ticker EXCEPT ![t] = [@ EXCEPT !.pc = "giveback"]]
            /\ UNCHANGED rows
    /\ UNCHANGED <<officers, router, acker, faults, overrides, freed>>

\* Seeded fault: nobody to escalate to, so the row is left for the next tick.
EscUnrouteSkipped(t) ==
    /\ ticker[t].pc = "claim"
    /\ ticker[t].claimed = None
    /\ ticker[t].cands = {}
    /\ ticker' = [ticker EXCEPT ![t] = BetweenRows(@.todo)]
    /\ UNCHANGED <<table, router, acker, faults, overrides, freed>>

\* Seeded fault: only the branch that found a new officer releases the old one.
EscUnrouteStranding(t) ==
    /\ ticker[t].pc = "claim"
    /\ ticker[t].claimed = None
    /\ ticker[t].cands = {}
    /\ LET r == ticker[t].job.row IN
       rows' = IF Escalatable(r)
               THEN [rows EXCEPT ![r] = [@ EXCEPT
                        !.status = "ESCALATED_UNROUTED", !.escalations = 1]]
               ELSE rows
    /\ ticker' = [ticker EXCEPT ![t] = BetweenRows(@.todo)]
    /\ UNCHANGED <<officers, router, acker, faults, overrides, freed>>

\* The guarded UPDATE to ESCALATED_UNROUTED when no candidate could be claimed.
EscUnroute(t) ==
    /\ ticker[t].pc = "claim"
    /\ ticker[t].claimed = None
    /\ ticker[t].cands = {}
    /\ LET r == ticker[t].job.row IN
       IF Escalatable(r)
       THEN /\ rows' = [rows EXCEPT ![r] = [@ EXCEPT
                            !.status = "ESCALATED_UNROUTED",
                            !.escalations = 1]]
            /\ ticker' = [ticker EXCEPT ![t] = [@ EXCEPT !.pc = "release"]]
       ELSE /\ ticker' = [ticker EXCEPT ![t] = BetweenRows(@.todo)]
            /\ UNCHANGED rows
    /\ UNCHANGED <<officers, router, acker, faults, overrides, freed>>

\* The officer who timed out is released, if still on this row.
EscRelease(t) ==
    /\ ticker[t].pc = "release"
    /\ ReleaseFrom(ticker[t].job.officer, ticker[t].job.row)
    /\ ticker' = [ticker EXCEPT ![t] = BetweenRows(@.todo)]
    /\ UNCHANGED <<rows, router, acker, faults, overrides, freed>>

\* The speculatively claimed officer is released, if still on this row.
EscGiveBack(t) ==
    /\ ticker[t].pc = "giveback"
    /\ ReleaseFrom(ticker[t].claimed, ticker[t].job.row)
    /\ ticker' = [ticker EXCEPT ![t] = BetweenRows(@.todo)]
    /\ UNCHANGED <<rows, router, acker, faults, overrides, freed>>

-----------------------------------------------------------------------------
(* mark_officer_available, and handlers cut short *)

\* Unconditional: no status guard, and no look at what the officer is doing.
MarkAvailable(o) ==
    /\ overrides < MaxOverrides
    /\ overrides' = overrides + 1
    /\ officers' = [officers EXCEPT ![o] = Free]
    /\ freed' = IF officers[o].status = "BUSY" THEN freed \cup {o} ELSE freed
    /\ UNCHANGED <<rows, router, acker, ticker, faults>>

\* A worker process dies, or a transaction raises (the database stays locked
\* past busy_timeout): the handler stops between two of its transactions.
RouteFault(c) ==
    /\ router[c].pc \notin {"idle", "done"}
    /\ router' = [router EXCEPT ![c] = Returned]
    /\ UNCHANGED <<acker, ticker>>

AckFault(k) ==
    /\ acker[k].pc # "idle"
    /\ acker' = [acker EXCEPT ![k] = IdleAck]
    /\ UNCHANGED <<router, ticker>>

\* An exception in _escalate_one ends that row only; a crash ends the tick.
TickFault(t) ==
    /\ ticker[t].pc # "idle"
    /\ \/ /\ ticker[t].pc # "next"
          /\ ticker' = [ticker EXCEPT ![t] = BetweenRows(@.todo)]
       \/ ticker' = [ticker EXCEPT ![t] = IdleTick]
    /\ UNCHANGED <<router, acker>>

Fault ==
    /\ faults < MaxFaults
    /\ faults' = faults + 1
    /\ \/ \E c \in Calls : RouteFault(c)
       \/ \E k \in Ackers : AckFault(k)
       \/ \E t \in Tickers : TickFault(t)
    /\ UNCHANGED <<table, overrides, freed>>

-----------------------------------------------------------------------------
RouteStep(c) == RouteRead(c) \/ RouteInsert(c) \/ RouteClaim(c) \/ RouteFinalise(c)
AckStep(k) == AckUpdate(k) \/ AckRevert(k)
TickStep(t) == \/ TickScan(t) \/ EscRead(t) \/ TickEnd(t) \/ EscClaim(t)
               \/ EscReassign(t) \/ EscUnroute(t) \/ EscRelease(t)
               \/ EscGiveBack(t)

Next ==
    \/ \E c \in Calls : RouteStep(c) \/ \E a \in Alerts : RouteCheck(c, a)
    \/ \E k \in Ackers : AckStep(k) \/ \E a \in Alerts : AckRead(k, a)
    \/ \E t \in Tickers : TickStep(t)
    \/ \E r \in Calls : Expire(r)
    \/ \E o \in Officers : MarkAvailable(o)
    \/ Fault

Spec == Init /\ [][Next]_vars

\* A handler that has started runs on, and the scheduler keeps running the
\* tick (escalation_tick never raises). Nothing makes an officer answer.
Fairness ==
    /\ \A c \in Calls : WF_vars(RouteStep(c))
    /\ \A k \in Ackers : WF_vars(AckStep(k))
    /\ \A t \in Tickers : WF_vars(TickStep(t))

FairSpec == Spec /\ Fairness

-----------------------------------------------------------------------------
(* Properties *)

TypeOK ==
    /\ officers \in [Officers -> Officer]
    /\ rows \in [Calls -> RoutedAlert]
    /\ router \in [Calls -> Call]
    /\ acker \in [Ackers -> AckRequest]
    /\ ticker \in [Tickers -> Tick]
    /\ faults \in Nat
    /\ overrides \in Nat
    /\ freed \subseteq Officers

Holds(o, r) == Active(r) /\ rows[r].officer = o

\* Some handler between two transactions will still dispatch o on row r or
\* release o from it.
InCharge(o, r) ==
    \/ router[r].pc = "claim" /\ router[r].claimed = o
    \/ \E t \in Tickers :
         /\ ticker[t].pc \in {"claim", "release", "giveback"}
         /\ ticker[t].job.row = r
         /\ o = IF ticker[t].pc = "release" THEN ticker[t].job.officer
                                             ELSE ticker[t].claimed
    \/ \E k \in Ackers : acker[k] = [pc |-> "revert", alert |-> rows[r].alert,
                                     row |-> r, officer |-> o]

\* An officer whom a live dispatch names is BUSY on exactly that dispatch,
\* unless an operator marked the officer available in the meantime; so no officer
\* answers two. No release by a late ACK, by a tick that lost its race or by a
\* tick that timed the officer out may touch somebody else's dispatch.
HeldIsBusy ==
    \A o \in Officers \ freed : \A r \in Calls :
        Holds(o, r) => officers[o] = BusyOn(r)

\* While no handler has been cut short, the only BUSY officer whom nobody
\* will release is one left on an acknowledged dispatch: the officer the row
\* named when the ACK was written but not when it was read. Routing and
\* escalation themselves strand nobody.
StrandedOnlyByAck ==
    faults = 0 =>
        \A o \in Officers \ freed : \A r \in Calls :
            officers[o] = BusyOn(r) =>
                \/ InCharge(o, r)
                \/ Holds(o, r)
                \/ rows[r].status = "ACKNOWLEDGED" /\ rows[r].officer = o

\* A dispatch is escalated at most once, by whichever tick gets there first:
\* after that neither its officer nor its count changes again.
EscalatedOnce ==
    [][\A r \in Calls : rows[r].escalations = 1 =>
          /\ rows'[r].escalations = 1
          /\ rows'[r].officer = rows[r].officer
          /\ rows'[r].status \in {rows[r].status, "ACKNOWLEDGED"}]_vars

\* An acknowledged, unrouted or abandoned dispatch is never rewritten by a
\* handler that read it earlier.
TerminalIsFinal ==
    [][\A r \in Calls :
          rows[r].status \in TERMINAL_STATES => rows'[r] = rows[r]]_vars

\* A dispatch whose officer has not answered in time is answered or escalated
\* in the end, also when ticks are cut short: the deadline is in the table.
OverdueResolved ==
    \A r \in Calls : (Escalatable(r) /\ rows[r].overdue) ~> ~Escalatable(r)

\* PENDING does not survive a route_alert call that runs to its end; only a
\* handler cut short can leave it there.
PendingResolves ==
    \A r \in Calls :
        (rows[r].status = "PENDING") ~> (rows[r].status # "PENDING" \/ faults > 0)

\* An officer claimed for or left behind by a dispatch is put on it or released
\* in the end, unless a handler was cut short, and the stale ACK of
\* StrandedOnlyByAck apart.
OfficerReturns ==
    \A o \in Officers, r \in Calls :
        (officers[o] = BusyOn(r) /\ ~Holds(o, r)) ~>
            \/ faults > 0
            \/ officers[o] # BusyOn(r)
            \/ Holds(o, r)
            \/ rows[r].status = "ACKNOWLEDGED" /\ rows[r].officer = o

(* What the documentation says, and the code does not do. *)

\* escalation.py, "THE STRANDED-OFFICER BUG THIS AVOIDS": whenever an alert
\* leaves an officer behind, that officer is put back to AVAILABLE. Here: an
\* officer BUSY on an escalated dispatch is answering it, or some handler will
\* still release the officer.
NoOfficerLeftBehind ==
    \A o \in Officers, r \in Calls :
        officers[o] = BusyOn(r) /\ rows[r].escalations = 1
            => InCharge(o, r) \/ Holds(o, r)

=============================================================================
