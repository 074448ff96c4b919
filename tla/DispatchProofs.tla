--------------------------- MODULE DispatchProofs ---------------------------
(***************************************************************************)
(* Proofs about Dispatch, for any number of alerts, officers, calls,       *)
(* requests and ticks, and any number of faults and overrides.             *)
(*                                                                         *)
(* HeldIsBusy is not inductive: a release could free an officer somebody   *)
(* else is about to dispatch. IndInv adds what each handler's locals still *)
(* guarantee between two of its transactions.                              *)
(***************************************************************************)
EXTENDS DispatchRefinement, TLAPS

-----------------------------------------------------------------------------
(* The inductive invariant *)

\* A live dispatch names an officer; a new one has none and no escalation.
RowInv ==
    \A r \in Calls :
        /\ Active(r) => rows[r].officer \in Officers
        /\ rows[r].status \in {"ABSENT", "PENDING"} =>
              rows[r].escalations = 0 /\ rows[r].officer = None
        /\ rows[r].status = "ESCALATED_ROUTED" => rows[r].escalations = 1

\* Until its call has finished with it, nobody else touches a PENDING row.
RouterInv ==
    \A c \in Calls :
        /\ router[c].pc \in {"idle", "read", "insert"} => rows[c].status = "ABSENT"
        /\ router[c].pc = "claim" => rows[c].status = "PENDING"
        /\ router[c].claimed # None => router[c].pc = "claim"

\* A request reverts an officer only after its row has been taken off duty.
AckInv ==
    \A k \in Ackers : acker[k].pc # "idle" =>
        /\ acker[k].row \in Calls
        /\ rows[acker[k].row].alert = acker[k].alert
        /\ Exists(acker[k].row)
        /\ acker[k].officer # None => rows[acker[k].row].status # "PENDING"
        /\ acker[k].pc = "revert" => /\ acker[k].officer \in Officers
                                     /\ ~Active(acker[k].row)

Dispatched(r) == rows[r].status \notin {"ABSENT", "PENDING"}

\* A tick works on rows that were dispatched, claims officers other than the
\* one who timed out, and releases or gives back only when the row is done.
TickInv ==
    \A t \in Tickers :
        /\ \A j \in ticker[t].todo :
              Dispatched(j.row) /\ (Escalatable(j.row) => rows[j.row].officer = j.officer)
        /\ ticker[t].pc \in {"claim", "release", "giveback"} =>
              ticker[t].job \in Job /\ Dispatched(ticker[t].job.row)
        /\ ticker[t].pc = "claim" =>
              /\ ticker[t].job.officer \notin ticker[t].cands
              /\ ticker[t].claimed # ticker[t].job.officer
              /\ Escalatable(ticker[t].job.row) =>
                    rows[ticker[t].job.row].officer = ticker[t].job.officer
        /\ ticker[t].pc = "giveback" =>
              /\ ticker[t].claimed \in Officers
              /\ ~Escalatable(ticker[t].job.row)
        /\ ticker[t].pc = "release" =>
              /\ rows[ticker[t].job.row].escalations = 1
              /\ ~Holds(ticker[t].job.officer, ticker[t].job.row)

\* Every claim that can still become a dispatch holds its officer BUSY, and no
\* two ticks hold the same officer for the same row.
ClaimInv ==
    \A o \in Officers \ freed :
        /\ \A c \in Calls : router[c].claimed = o => officers[o] = BusyOn(c)
        /\ \A t \in Tickers :
              /\ /\ ticker[t].pc = "claim"
                 /\ ticker[t].claimed = o
                 /\ Escalatable(ticker[t].job.row)
                 => officers[o] = BusyOn(ticker[t].job.row)
              /\ /\ ticker[t].pc \in {"claim", "giveback"}
                 /\ ticker[t].claimed = o
                 => ~Holds(o, ticker[t].job.row)
        /\ \A t, u \in Tickers :
              /\ ticker[t].pc = "claim" /\ ticker[t].claimed = o
              /\ ticker[u].pc = "claim" /\ ticker[u].claimed = o
              /\ ticker[t].job.row = ticker[u].job.row
              /\ Escalatable(ticker[t].job.row)
              => t = u

IndInv ==
    /\ TypeOK /\ RowInv /\ RouterInv /\ AckInv /\ TickInv /\ ClaimInv
    /\ HeldIsBusy

-----------------------------------------------------------------------------
(* Types. The record types are expanded only where a record changes.       *)

\* Both values a claim or a release writes are officers.
LEMMA FreeOfficer == Free \in Officer /\ \A r \in Calls : BusyOn(r) \in Officer
BY DEF Free, BusyOn, Officer

\* The locals a handler starts with, or returns to, are well typed.
LEMMA IdleLocals ==
    /\ NewCall \in Call /\ Returned \in Call
    /\ IdleAck \in AckRequest
    /\ IdleTick \in Tick /\ \A todo \in SUBSET Job : BetweenRows(todo) \in Tick
BY DEF NewCall, Returned, IdleAck, IdleTick, BetweenRows, Call, AckRequest, Tick

\* Every step keeps the types. RowInv and TickInv are needed because a tick
\* reads an officer off a row and a row off its job.
LEMMA TypeStep == TypeOK /\ RowInv /\ TickInv /\ [Next]_vars => TypeOK'
<1> SUFFICES ASSUME TypeOK, RowInv, TickInv, [Next]_vars PROVE TypeOK'
  OBVIOUS
<1> USE DEF TypeOK, table
<1>1. ASSUME NEW c \in Calls, NEW a \in Alerts, RouteCheck(c, a)
      PROVE  TypeOK'
  <2>1. router'[c] \in Call
    BY <1>1, IdleLocals DEF RouteCheck, Call, NewCall
  <2> QED BY <1>1, <2>1, FreeOfficer, IdleLocals DEF RouteCheck
<1>2. ASSUME NEW c \in Calls, RouteRead(c)
      PROVE  TypeOK'
  <2>1. router'[c] \in Call
    BY <1>2, IdleLocals DEF RouteRead, Call, Available
  <2> QED BY <1>2, <2>1, FreeOfficer, IdleLocals DEF RouteRead
<1>3. ASSUME NEW c \in Calls, RouteInsert(c)
      PROVE  TypeOK'
  <2>1. router[c].alert \in Alerts \cup {None}
    BY <1>3 DEF Call
  <2>2. [NoRow EXCEPT !.alert = router[c].alert, !.status = "PENDING"] \in RoutedAlert
    BY <1>3, <2>1 DEF NoRow, RoutedAlert, RowStatus, ESCALATABLE_STATES, TERMINAL_STATES
  <2>3. router' \in [Calls -> Call]
    BY <1>3, <2>1, <2>2 DEF RouteInsert, Call
  <2> QED BY <1>3, <2>1, <2>2, <2>3, FreeOfficer, IdleLocals DEF RouteInsert
<1>4. ASSUME NEW c \in Calls, RouteClaim(c)
      PROVE  TypeOK'
  <2>1. PICK o \in router[c].cands :
               IF o \in Available
               THEN /\ Claim(o, c)
                    /\ router' = [router EXCEPT ![c] = [@ EXCEPT !.claimed = o]]
               ELSE /\ router' = [router EXCEPT ![c].cands = @ \ {o}]
                    /\ UNCHANGED officers
    BY <1>4 DEF RouteClaim, Nearest
  <2>2. o \in Officers
    BY <1>4, <2>1 DEF Call
  <2>3. officers' \in [Officers -> Officer]
    BY <1>4, <2>1, <2>2, FreeOfficer DEF Claim
  <2>4. router' \in [Calls -> Call]
    <3>1. CASE o \in Available
      BY <1>4, <2>1, <2>2, <3>1 DEF Call
    <3>2. CASE o \notin Available
      <4>1. router' = [router EXCEPT ![c].cands = @ \ {o}]
        BY <2>1, <3>2
      <4>2. router'[c] \in Call
        BY <4>1 DEF Call
      <4> QED BY <4>1, <4>2
    <3> QED BY <3>1, <3>2
  <2> QED BY <1>4, <2>1, <2>2, <2>3, <2>4, FreeOfficer, IdleLocals DEF RouteClaim
<1>5. ASSUME NEW c \in Calls, RouteFinalise(c)
      PROVE  TypeOK'
  <2>1. router[c].claimed \in Officers \cup {None}
    BY <1>5 DEF Call
  <2>2. rows' \in [Calls -> RoutedAlert]
    <3>1. CASE rows[c].status # "PENDING"
      BY <1>5, <3>1 DEF RouteFinalise
    <3>2. CASE rows[c].status = "PENDING" /\ router[c].claimed = None
      BY <1>5, <3>2 DEF RouteFinalise, RoutedAlert, RowStatus, ESCALATABLE_STATES, TERMINAL_STATES
    <3>3. CASE rows[c].status = "PENDING" /\ router[c].claimed # None
      BY <1>5, <2>1, <3>3 DEF RouteFinalise, RoutedAlert, RowStatus, ESCALATABLE_STATES, TERMINAL_STATES
    <3> QED BY <3>1, <3>2, <3>3
  <2> QED BY <1>5, <2>1, <2>2, FreeOfficer, IdleLocals DEF RouteFinalise
<1>6. ASSUME NEW k \in Ackers, NEW a \in Alerts, AckRead(k, a)
      PROVE  TypeOK'
  <2>1. acker'[k] \in AckRequest
    BY <1>6, DispatchAssumption DEF AckRead, RowsOf, AckRequest, RoutedAlert
  <2> QED BY <1>6, <2>1, FreeOfficer, IdleLocals DEF AckRead
<1>7. ASSUME NEW k \in Ackers, AckUpdate(k)
      PROVE  TypeOK'
  <2>1. acker'[k] \in AckRequest
    <3>1. CASE acker'[k] = IdleAck
      BY <3>1, IdleLocals
    <3>2. CASE acker'[k] = [acker[k] EXCEPT !.pc = "revert"]
      BY <3>2 DEF AckRequest
    <3> QED BY <1>7, <3>1, <3>2 DEF AckUpdate
  <2>2. \A r \in Calls : rows'[r] \in RoutedAlert
    BY <1>7, <2>1 DEF AckUpdate, RoutedAlert, RowStatus, ESCALATABLE_STATES, TERMINAL_STATES
  <2> QED BY <1>7, <2>1, <2>2, FreeOfficer, IdleLocals DEF AckUpdate
<1>8. ASSUME NEW k \in Ackers, AckRevert(k)
      PROVE  TypeOK'
  BY <1>8, FreeOfficer, IdleLocals DEF AckRevert
<1>9. ASSUME NEW r \in Calls, Expire(r)
      PROVE  TypeOK'
  <2>1. rows'[r] \in RoutedAlert
    BY <1>9 DEF Expire, RoutedAlert, RowStatus, ESCALATABLE_STATES, TERMINAL_STATES
  <2> QED BY <1>9, <2>1, FreeOfficer, IdleLocals DEF Expire
<1>10. ASSUME NEW t \in Tickers, TickScan(t)
      PROVE  TypeOK'
  <2>1. \A r \in Calls : Escalatable(r) => [row |-> r, officer |-> rows[r].officer] \in Job
    BY <1>10 DEF RowInv, Escalatable, Job
  <2> QED BY <1>10, <2>1, FreeOfficer, IdleLocals DEF TickScan
<1>11. ASSUME NEW t \in Tickers, EscRead(t)
      PROVE  TypeOK'
  <2>1. ticker'[t] \in Tick
    BY <1>11 DEF EscRead, Tick, Available
  <2> QED BY <1>11, <2>1, FreeOfficer, IdleLocals DEF EscRead
<1>12. ASSUME NEW t \in Tickers, TickEnd(t)
      PROVE  TypeOK'
  BY <1>12, FreeOfficer, IdleLocals DEF TickEnd
<1>13. ASSUME NEW t \in Tickers, EscClaim(t)
      PROVE  TypeOK'
  <2>1. ticker[t].job.row \in Calls
    BY <1>13 DEF EscClaim, TickInv, Job
  <2>2. PICK o \in ticker[t].cands :
               IF o \in Available
               THEN /\ Claim(o, ticker[t].job.row)
                    /\ ticker' = [ticker EXCEPT ![t] = [@ EXCEPT !.claimed = o]]
               ELSE /\ ticker' = [ticker EXCEPT ![t].cands = @ \ {o}]
                    /\ UNCHANGED officers
    BY <1>13, <2>1 DEF EscClaim, Nearest
  <2>3. o \in Officers
    BY <1>13, <2>1, <2>2 DEF Tick
  <2>4. officers' \in [Officers -> Officer]
    BY <1>13, <2>1, <2>2, <2>3, FreeOfficer DEF Claim
  <2>5. ticker' \in [Tickers -> Tick]
    <3>1. CASE o \in Available
      BY <1>13, <2>2, <2>3, <3>1 DEF Tick
    <3>2. CASE o \notin Available
      <4>1. ticker' = [ticker EXCEPT ![t].cands = @ \ {o}]
        BY <2>2, <3>2
      <4>2. ticker'[t] \in Tick
        BY <4>1 DEF Tick
      <4> QED BY <4>1, <4>2
    <3> QED BY <3>1, <3>2
  <2> QED BY <1>13, <2>1, <2>2, <2>3, <2>4, <2>5, FreeOfficer, IdleLocals DEF EscClaim
<1>14. ASSUME NEW t \in Tickers, EscReassign(t)
      PROVE  TypeOK'
  <2>1. ticker[t].job.row \in Calls
    BY <1>14 DEF EscReassign, TickInv, Job
  <2>2. ticker[t].claimed \in Officers \cup {None} /\ ticker[t].todo \in SUBSET Job
    BY <1>14, <2>1 DEF Tick
  <2>3. ticker' \in [Tickers -> Tick]
    <3>1. CASE Escalatable(ticker[t].job.row)
      BY <1>14, <3>1 DEF EscReassign, Tick
    <3>2. CASE ~Escalatable(ticker[t].job.row)
      BY <1>14, <2>2, <3>2 DEF EscReassign, Tick
    <3> QED BY <3>1, <3>2
  <2>4. rows' \in [Calls -> RoutedAlert]
    <3>1. CASE Escalatable(ticker[t].job.row)
      <4> DEFINE r == ticker[t].job.row
      <4>1. rows'[r] = [rows[r] EXCEPT !.status = "ESCALATED_ROUTED", !.officer = ticker[t].claimed,
                                      !.escalations = 1, !.overdue = FALSE]
        BY <1>14, <2>1, <3>1 DEF EscReassign
      <4>2. rows[r] \in RoutedAlert
        BY <2>1
      <4>3. rows'[r] \in RoutedAlert
        BY <4>1, <4>2, <2>2 DEF RoutedAlert, RowStatus, ESCALATABLE_STATES, TERMINAL_STATES
      <4> QED BY <1>14, <2>1, <3>1, <4>3 DEF EscReassign
    <3>2. CASE ~Escalatable(ticker[t].job.row)
      BY <1>14, <3>2 DEF EscReassign
    <3> QED BY <3>1, <3>2
  <2> QED BY <1>14, <2>1, <2>2, <2>3, <2>4, FreeOfficer, IdleLocals DEF EscReassign
<1>15. ASSUME NEW t \in Tickers, EscUnroute(t)
      PROVE  TypeOK'
  <2>1. ticker[t].job.row \in Calls
    BY <1>15 DEF EscUnroute, TickInv, Job
  <2>2. ticker[t].claimed \in Officers \cup {None} /\ ticker[t].todo \in SUBSET Job
    BY <1>15, <2>1 DEF Tick
  <2>3. ticker' \in [Tickers -> Tick]
    <3>1. CASE Escalatable(ticker[t].job.row)
      BY <1>15, <3>1 DEF EscUnroute, Tick
    <3>2. CASE ~Escalatable(ticker[t].job.row)
      BY <1>15, <2>2, <3>2, IdleLocals DEF EscUnroute
    <3> QED BY <3>1, <3>2
  <2>4. rows' \in [Calls -> RoutedAlert]
    <3>1. CASE Escalatable(ticker[t].job.row)
      <4> DEFINE r == ticker[t].job.row
      <4>1. rows'[r] = [rows[r] EXCEPT !.status = "ESCALATED_UNROUTED", !.escalations = 1]
        BY <1>15, <2>1, <3>1 DEF EscUnroute
      <4>2. rows[r] \in RoutedAlert
        BY <2>1
      <4>3. rows'[r] \in RoutedAlert
        BY <4>1, <4>2, <2>2 DEF RoutedAlert, RowStatus, ESCALATABLE_STATES, TERMINAL_STATES
      <4> QED BY <1>15, <2>1, <3>1, <4>3 DEF EscUnroute
    <3>2. CASE ~Escalatable(ticker[t].job.row)
      BY <1>15, <3>2 DEF EscUnroute
    <3> QED BY <3>1, <3>2
  <2> QED BY <1>15, <2>1, <2>2, <2>3, <2>4, FreeOfficer, IdleLocals DEF EscUnroute
<1>16. ASSUME NEW t \in Tickers, EscRelease(t)
      PROVE  TypeOK'
  <2>1. ticker[t].todo \in SUBSET Job
    BY <1>16 DEF Tick
  <2> QED BY <1>16, <2>1, FreeOfficer, IdleLocals DEF EscRelease, ReleaseFrom
<1>17. ASSUME NEW t \in Tickers, EscGiveBack(t)
      PROVE  TypeOK'
  <2>1. ticker[t].todo \in SUBSET Job
    BY <1>17 DEF Tick
  <2> QED BY <1>17, <2>1, FreeOfficer, IdleLocals DEF EscGiveBack, ReleaseFrom
<1>18. ASSUME NEW o \in Officers, MarkAvailable(o)
      PROVE  TypeOK'
  BY <1>18, FreeOfficer, IdleLocals DEF MarkAvailable
<1>19. ASSUME NEW c \in Calls, RouteFault(c), Fault
      PROVE  TypeOK'
  BY <1>19, FreeOfficer, IdleLocals DEF RouteFault, Fault
<1>20. ASSUME NEW k \in Ackers, AckFault(k), Fault
      PROVE  TypeOK'
  BY <1>20, FreeOfficer, IdleLocals DEF AckFault, Fault
<1>21. ASSUME NEW t \in Tickers, TickFault(t), Fault
      PROVE  TypeOK'
  <2>1. ticker[t].todo \in SUBSET Job
    BY <1>21 DEF Tick
  <2> QED BY <1>21, <2>1, FreeOfficer, IdleLocals DEF TickFault, Fault
<1>22. ASSUME UNCHANGED vars
      PROVE  TypeOK'
  BY <1>22, FreeOfficer, IdleLocals DEF vars
<1> QED BY <1>1, <1>2, <1>3, <1>4, <1>5, <1>6, <1>7, <1>8, <1>9, <1>10, <1>11, <1>12, <1>13, <1>14, <1>15, <1>16, <1>17, <1>18, <1>19, <1>20, <1>21, <1>22
       DEF Next, RouteStep, AckStep, TickStep, Fault

-----------------------------------------------------------------------------
(* Facts about single handlers *)

\* What the types say of the locals the later proofs read.
LEMMA LocalTypes ==
    ASSUME TypeOK
    PROVE  /\ \A c \in Calls : /\ router[c].claimed \in Officers \cup {None}
                               /\ router[c].cands \subseteq Officers
           /\ \A t \in Tickers : /\ ticker[t].claimed \in Officers \cup {None}
                                 /\ ticker[t].cands \subseteq Officers
                                 /\ ticker[t].todo \subseteq Job
           /\ \A k \in Ackers : acker[k].officer \in Officers \cup {None}
           /\ \A j \in Job : j.row \in Calls /\ j.officer \in Officers
BY DEF TypeOK, Call, Tick, AckRequest, Job

\* An officer is busy on one dispatch only, and is then not available.
LEMMA BusyOnOne ==
    /\ \A r1, r2 \in Calls : BusyOn(r1) = BusyOn(r2) => r1 = r2
    /\ \A r \in Calls : BusyOn(r).status = "BUSY" /\ BusyOn(r).current = r
BY DEF BusyOn

\* Claims go to officers whom no dispatch and no pending claim needs: this is
\* what the AND status = 'AVAILABLE' of the claim is for.
LEMMA AvailableIsUnclaimed ==
    ASSUME IndInv, NEW o \in Officers \ freed, o \in Available
    PROVE  /\ \A c \in Calls : router[c].claimed # o
           /\ \A r \in Calls : ~Holds(o, r)
           /\ \A t \in Tickers :
                ticker[t].pc = "claim" /\ ticker[t].claimed = o
                    => ~Escalatable(ticker[t].job.row)
<1>1. \A r \in Calls : officers[o] # BusyOn(r)
  BY BusyOnOne DEF Available
<1>2. \A t \in Tickers : ticker[t].pc = "claim" => ticker[t].job.row \in Calls
  BY LocalTypes DEF IndInv, TickInv
<1> QED BY <1>1, <1>2 DEF IndInv, ClaimInv, HeldIsBusy

\* A release whose row the officer neither holds nor is being claimed for
\* disturbs no dispatch. The releases of the ACK and of escalation are such.
LEMMA HarmlessRelease ==
    ASSUME IndInv, NEW o \in Officers, NEW r \in Calls,
           ~Escalatable(r), rows[r].status # "PENDING", ~Holds(o, r),
           officers[o].current = r,
           officers' = [officers EXCEPT ![o] = Free],
           UNCHANGED <<rows, router, freed>>,
           \A u \in Tickers : ticker'[u].pc \in {"claim", "giveback"} => ticker'[u] = ticker[u]
    PROVE  ClaimInv' /\ HeldIsBusy'
<1> USE DEF IndInv
<1>1. \A p \in Officers : p # o => officers'[p] = officers[p]
  BY DEF TypeOK
<1>2. \A q \in Calls : o \notin freed /\ officers[o] = BusyOn(q) => q = r
  BY BusyOnOne
<1>3. HeldIsBusy'
  BY <1>1, <1>2 DEF HeldIsBusy, Holds, Active
<1>4. \A c \in Calls : o \notin freed => router[c].claimed # o
  <2> SUFFICES ASSUME NEW c \in Calls, o \notin freed, router[c].claimed = o PROVE FALSE
    OBVIOUS
  <2>1. c = r
    BY <1>2 DEF ClaimInv
  <2>2. o # None
    BY DispatchAssumption
  <2> QED BY <2>1, <2>2 DEF RouterInv
<1>5. \A u \in Tickers :
        o \notin freed /\ ticker[u].pc = "claim" /\ ticker[u].claimed = o
            => ~Escalatable(ticker[u].job.row)
  <2> SUFFICES ASSUME NEW u \in Tickers, o \notin freed, ticker[u].pc = "claim",
                      ticker[u].claimed = o, Escalatable(ticker[u].job.row)
               PROVE  FALSE
    OBVIOUS
  <2>1. ticker[u].job.row \in Calls
    BY LocalTypes DEF TickInv
  <2> QED BY <2>1, <1>2 DEF ClaimInv
<1>6. ClaimInv'
  BY <1>1, <1>4, <1>5 DEF ClaimInv, Escalatable, Active, Holds
<1> QED BY <1>3, <1>6

-----------------------------------------------------------------------------
(* route_alert preserves the invariant *)

Rest == RowInv /\ RouterInv /\ AckInv /\ TickInv /\ ClaimInv /\ HeldIsBusy

\* The two steps that only read the tables, and the crash of a call, leave the
\* call with no claim and no PENDING row to answer for.
LEMMA RouteCheckInd ==
    ASSUME IndInv, NEW c \in Calls, NEW a \in Alerts, RouteCheck(c, a)
    PROVE  Rest'
<1> USE DEF IndInv
<1>1. /\ router'[c].pc \in {"read", "done"} /\ router'[c].claimed = None
      /\ rows[c].status = "ABSENT"
      /\ \A d \in Calls : d # c => router'[d] = router[d]
  BY DEF TypeOK, RouteCheck, NewCall, Returned, RouterInv
<1>2. RouterInv'
  BY <1>1 DEF RouterInv, RouteCheck, table
<1>3. ClaimInv'
  BY <1>1, DispatchAssumption DEF ClaimInv, RouteCheck, table, Escalatable, Active, Holds
<1> QED BY <1>2, <1>3 DEF Rest, RouteCheck, table, RowInv, AckInv, TickInv, HeldIsBusy,
                          Active, Exists, Dispatched, Escalatable, Holds

\* Reading the candidates changes no table, and a call without a camera ends.
LEMMA RouteReadInd ==
    ASSUME IndInv, NEW c \in Calls, RouteRead(c)
    PROVE  Rest'
<1> USE DEF IndInv
<1>1. /\ router'[c].pc \in {"insert", "done"}
      /\ router'[c].claimed \in {None, router[c].claimed}
      /\ rows[c].status = "ABSENT"
      /\ \A d \in Calls : d # c => router'[d] = router[d]
  BY DEF TypeOK, Call, RouteRead, NewCall, Returned, RouterInv
<1>2. RouterInv'
  BY <1>1 DEF RouterInv, RouteRead, table
<1>3. ClaimInv'
  BY <1>1, DispatchAssumption DEF ClaimInv, RouteRead, table, Escalatable, Active, Holds
<1> QED BY <1>2, <1>3 DEF Rest, RouteRead, table, RowInv, AckInv, TickInv, HeldIsBusy,
                          Active, Exists, Dispatched, Escalatable, Holds

\* The new PENDING row is nobody else's: requests and ticks hold older rows.
LEMMA RouteInsertInd ==
    ASSUME IndInv, NEW c \in Calls, RouteInsert(c)
    PROVE  Rest'
<1> USE DEF IndInv
<1>1. /\ rows[c].status = "ABSENT" /\ rows'[c].status = "PENDING"
      /\ rows'[c].escalations = 0 /\ rows'[c].officer = None
      /\ router'[c].pc = "claim" /\ router'[c].claimed = router[c].claimed
      /\ \A d \in Calls : d # c => router'[d] = router[d] /\ rows'[d] = rows[d]
      /\ UNCHANGED <<officers, acker, ticker, freed>>
  BY DEF TypeOK, Call, RouteInsert, NoRow, RouterInv
<1>2. RowInv'
  BY <1>1 DEF RowInv, Active, ESCALATABLE_STATES
<1>3. RouterInv'
  BY <1>1 DEF RouterInv
<1>4. AckInv'
  BY <1>1 DEF AckInv, Exists, Active
<1>5. TickInv'
  BY <1>1, LocalTypes DEF TickInv, Dispatched, Escalatable, Active, Holds
<1>6. ClaimInv'
  <2>1. \A t \in Tickers : ticker[t].pc \in {"claim", "giveback"} =>
          ticker[t].job.row \in Calls /\ ticker[t].job.row # c
    BY <1>1, LocalTypes DEF TickInv, Dispatched
  <2> QED BY <1>1, <2>1 DEF ClaimInv, Escalatable, Active, Holds
<1>7. HeldIsBusy'
  BY <1>1 DEF HeldIsBusy, Holds, Active, ESCALATABLE_STATES
<1> QED BY <1>2, <1>3, <1>4, <1>5, <1>6, <1>7 DEF Rest

\* The claimed officer was available, so nobody relied on the officer; the
\* others are untouched.
LEMMA RouteClaimInd ==
    ASSUME IndInv, NEW c \in Calls, RouteClaim(c)
    PROVE  Rest'
<1> USE DEF IndInv
<1>1. PICK o \in router[c].cands :
         IF o \in Available
         THEN /\ Claim(o, c)
              /\ router' = [router EXCEPT ![c] = [@ EXCEPT !.claimed = o]]
         ELSE /\ router' = [router EXCEPT ![c].cands = @ \ {o}]
              /\ UNCHANGED officers
  BY DEF RouteClaim, Nearest
<1>2. o \in Officers /\ rows[c].status = "PENDING"
  BY LocalTypes DEF RouteClaim, RouterInv
<1>3. /\ router'[c].pc = "claim"
      /\ \A d \in Calls : d # c => router'[d] = router[d]
  BY <1>1 DEF TypeOK, Call, RouteClaim
<1>4. UNCHANGED <<rows, acker, ticker, freed>>
  BY DEF RouteClaim
<1>5. RouterInv'
  BY <1>2, <1>3, <1>4 DEF RouterInv
<1>6. ASSUME o \in Available PROVE ClaimInv' /\ HeldIsBusy'
  <2>1. /\ router'[c].claimed = o /\ officers'[o] = BusyOn(c)
        /\ \A p \in Officers : p # o => officers'[p] = officers[p]
    BY <1>1, <1>2, <1>6 DEF TypeOK, Call, Claim
  <2>2. o \notin freed => /\ \A d \in Calls : router[d].claimed # o
                          /\ \A r \in Calls : ~Holds(o, r)
                          /\ \A t \in Tickers :
                               ticker[t].pc = "claim" /\ ticker[t].claimed = o
                                   => ~Escalatable(ticker[t].job.row)
    BY <1>2, <1>6, AvailableIsUnclaimed
  <2>3. ClaimInv'
    BY <1>3, <1>4, <2>1, <2>2 DEF ClaimInv, Escalatable, Active, Holds
  <2>4. HeldIsBusy'
    BY <1>4, <2>1, <2>2 DEF HeldIsBusy, Holds, Active
  <2> QED BY <2>3, <2>4
<1>7. ASSUME o \notin Available PROVE ClaimInv' /\ HeldIsBusy'
  <2>1. router'[c].claimed = router[c].claimed /\ UNCHANGED officers
    BY <1>1, <1>7 DEF TypeOK, Call
  <2>2. ClaimInv' /\ HeldIsBusy'
    BY <1>3, <1>4, <2>1 DEF ClaimInv, HeldIsBusy, Escalatable, Active, Holds
  <2> QED BY <2>2
<1>8. RowInv' /\ AckInv' /\ TickInv'
  BY <1>4 DEF RowInv, AckInv, TickInv, Active, Exists, Dispatched, Escalatable, Holds
<1> QED BY <1>5, <1>6, <1>7, <1>8 DEF Rest

\* The row goes to the claimed officer, whom the claim has made BUSY on it.
LEMMA RouteFinaliseInd ==
    ASSUME IndInv, NEW c \in Calls, RouteFinalise(c)
    PROVE  Rest'
<1> USE DEF IndInv
<1>1. /\ rows[c].status = "PENDING"
      /\ \/ router[c].claimed = None /\ rows'[c].status = "UNROUTED"
         \/ /\ router[c].claimed \in Officers
            /\ rows'[c].status = "ROUTED" /\ rows'[c].officer = router[c].claimed
      /\ rows'[c].alert = rows[c].alert /\ rows'[c].escalations = rows[c].escalations
      /\ \A d \in Calls : d # c => rows'[d] = rows[d]
  BY LocalTypes DEF TypeOK, RoutedAlert, RouteFinalise, RouterInv
<1>2. /\ router'[c].pc = "done" /\ router'[c].claimed = None
      /\ \A d \in Calls : d # c => router'[d] = router[d]
  BY DEF TypeOK, RouteFinalise, Returned, NewCall
<1>3. UNCHANGED <<officers, acker, ticker, freed>>
  BY DEF RouteFinalise
<1>4. \A t \in Tickers : ticker[t].pc \in {"claim", "release", "giveback"} =>
        ticker[t].job.row \in Calls /\ ticker[t].job.row # c
  BY <1>1, LocalTypes DEF TickInv, Dispatched
<1>5. RowInv'
  BY <1>1 DEF RowInv, Active, ESCALATABLE_STATES
<1>6. RouterInv'
  BY <1>1, <1>2 DEF RouterInv
<1>7. AckInv'
  BY <1>1, <1>3, DispatchAssumption DEF AckInv, Exists, Active, ESCALATABLE_STATES
<1>8. TickInv'
  BY <1>1, <1>3, <1>4, LocalTypes DEF TickInv, Dispatched, Escalatable, Active, Holds
<1>9. ClaimInv'
  BY <1>1, <1>2, <1>3, <1>4, DispatchAssumption DEF ClaimInv, Escalatable, Active, Holds
<1>10. HeldIsBusy'
  BY <1>1, <1>3 DEF HeldIsBusy, ClaimInv, Holds, Active, ESCALATABLE_STATES
<1> QED BY <1>5, <1>6, <1>7, <1>8, <1>9, <1>10 DEF Rest

-----------------------------------------------------------------------------
(* ack_alert, the passing of time and the override *)

\* The request remembers a row of its alert, and no officer for a PENDING one.
LEMMA AckReadInd ==
    ASSUME IndInv, NEW k \in Ackers, NEW a \in Alerts, AckRead(k, a)
    PROVE  Rest'
<1> USE DEF IndInv
<1>1. PICK r \in Calls : /\ Exists(r) /\ rows[r].alert = a
                         /\ acker' = [acker EXCEPT ![k] =
                                        [pc |-> "update", alert |-> a, row |-> r,
                                         officer |-> rows[r].officer]]
  BY DEF AckRead, RowsOf
<1>2. /\ acker'[k].pc = "update" /\ acker'[k].alert = a /\ acker'[k].row = r
      /\ acker'[k].officer = rows[r].officer
      /\ \A i \in Ackers : i # k => acker'[i] = acker[i]
  BY <1>1 DEF TypeOK
<1>3. AckInv'
  BY <1>1, <1>2 DEF AckInv, AckRead, table, RowInv, Exists, Active
<1> QED BY <1>3 DEF Rest, AckRead, table, RowInv, RouterInv, TickInv, ClaimInv, HeldIsBusy,
                    Active, Dispatched, Escalatable, Holds

\* Rows only go off duty, and the request's own row is off duty afterwards.
LEMMA AckUpdateInd ==
    ASSUME IndInv, NEW k \in Ackers, AckUpdate(k)
    PROVE  Rest'
<1> USE DEF IndInv
<1> DEFINE hit == {r \in RowsOf(acker[k].alert) : Active(r)}
<1>1. \A r \in Calls :
        \/ rows'[r] = rows[r] /\ r \notin hit
        \/ /\ r \in hit /\ Active(r) /\ rows'[r].status = "ACKNOWLEDGED"
           /\ rows'[r].alert = rows[r].alert
           /\ rows'[r].officer = rows[r].officer
           /\ rows'[r].escalations = rows[r].escalations
  BY DEF AckUpdate, TypeOK, RoutedAlert
<1>2. /\ \/ acker'[k].pc = "idle"
         \/ /\ acker'[k].pc = "revert" /\ acker'[k].row = acker[k].row
            /\ acker'[k].alert = acker[k].alert
            /\ acker'[k].officer = acker[k].officer
            /\ acker[k].officer # None
      /\ \A i \in Ackers : i # k => acker'[i] = acker[i]
      /\ acker[k].pc = "update"
  BY DEF AckUpdate, TypeOK, AckRequest, IdleAck
<1>3. UNCHANGED <<officers, router, ticker, freed>>
  BY DEF AckUpdate
<1>4. \A r \in Calls :
        /\ Active(r)' => Active(r)
        /\ Active(r) => rows[r].status \notin {"ABSENT", "PENDING"}
        /\ rows'[r].status \in {"ABSENT", "PENDING"} <=> rows[r].status \in {"ABSENT", "PENDING"}
        /\ rows'[r].status = "PENDING" <=> rows[r].status = "PENDING"
        /\ rows'[r].status = "ABSENT" <=> rows[r].status = "ABSENT"
        /\ rows'[r].status \in {rows[r].status, "ACKNOWLEDGED"}
        /\ rows'[r].alert = rows[r].alert
        /\ rows'[r].officer = rows[r].officer
        /\ rows'[r].escalations = rows[r].escalations
  BY <1>1 DEF Active, ESCALATABLE_STATES
<1>5. RowInv'
  BY <1>4 DEF RowInv
<1>6. RouterInv'
  BY <1>3, <1>4 DEF RouterInv
<1>7. AckInv'
  <2>1. acker[k].row \in Calls /\ Exists(acker[k].row) /\ rows[acker[k].row].alert = acker[k].alert
    BY <1>2 DEF AckInv
  <2>2. rows'[acker[k].row].status \notin ESCALATABLE_STATES
    BY <1>1, <2>1 DEF RowsOf, Active, ESCALATABLE_STATES
  <2>3. acker[k].officer \in Officers \cup {None}
    BY LocalTypes
  <2> QED BY <1>2, <1>4, <2>1, <2>2, <2>3 DEF AckInv, Exists, Active
<1>8. TickInv'
  BY <1>3, <1>4, LocalTypes DEF TickInv, Dispatched, Escalatable, Holds
<1>9. ClaimInv'
  <2>1. \A t \in Tickers : ticker[t].pc \in {"claim", "giveback"} => ticker[t].job.row \in Calls
    BY LocalTypes DEF TickInv
  <2> QED BY <1>3, <1>4, <2>1 DEF ClaimInv, Escalatable, Holds
<1>10. HeldIsBusy'
  BY <1>3, <1>4 DEF HeldIsBusy, Holds
<1> QED BY <1>5, <1>6, <1>7, <1>8, <1>9, <1>10 DEF Rest

\* The request's row is off duty, so freeing its officer from it is harmless.
LEMMA AckRevertInd ==
    ASSUME IndInv, NEW k \in Ackers, AckRevert(k)
    PROVE  Rest'
<1> USE DEF IndInv
<1> DEFINE o == acker[k].officer
           r == acker[k].row
<1>1. /\ o \in Officers /\ r \in Calls /\ ~Active(r) /\ rows[r].status # "PENDING"
  BY DispatchAssumption DEF AckRevert, AckInv
<1>2. UNCHANGED <<rows, router, ticker, freed>>
  BY DEF AckRevert
<1>3. AckInv'
  BY <1>2 DEF AckRevert, TypeOK, IdleAck, AckInv, Exists, Active
<1>4. RowInv' /\ RouterInv' /\ TickInv'
  BY <1>2 DEF RowInv, RouterInv, TickInv, Active, Dispatched, Escalatable, Holds
<1>5. CASE officers[o] = BusyOn(r)
  <2>1. officers' = [officers EXCEPT ![o] = Free]
    BY <1>5 DEF AckRevert
  <2>2. officers[o].current = r
    BY <1>1, <1>5, BusyOnOne
  <2>3. ~Escalatable(r) /\ ~Holds(o, r)
    BY <1>1 DEF Escalatable, Holds
  <2>4. ClaimInv' /\ HeldIsBusy'
    BY <1>1, <1>2, <2>1, <2>2, <2>3, HarmlessRelease
  <2> QED BY <1>3, <1>4, <2>4 DEF Rest
<1>6. CASE officers[o] # BusyOn(r)
  <2>1. UNCHANGED officers
    BY <1>6 DEF AckRevert
  <2>2. ClaimInv' /\ HeldIsBusy'
    BY <1>2, <2>1 DEF ClaimInv, HeldIsBusy, Escalatable, Active, Holds
  <2> QED BY <1>3, <1>4, <2>2 DEF Rest
<1> QED BY <1>5, <1>6

\* Time passing changes no field the invariant reads.
LEMMA ExpireInd ==
    ASSUME IndInv, NEW r \in Calls, Expire(r)
    PROVE  Rest'
<1> USE DEF IndInv
<1>1. \A q \in Calls : /\ rows'[q].status = rows[q].status
                       /\ rows'[q].alert = rows[q].alert
                       /\ rows'[q].officer = rows[q].officer
                       /\ rows'[q].escalations = rows[q].escalations
  BY DEF TypeOK, RoutedAlert, Expire
<1>2. UNCHANGED <<officers, router, acker, ticker, freed>>
  BY DEF Expire
<1>3. \A t \in Tickers : ticker[t].pc \in {"claim", "giveback"} => ticker[t].job.row \in Calls
  BY LocalTypes DEF TickInv
<1>4. RowInv' /\ RouterInv' /\ AckInv' /\ HeldIsBusy'
  BY <1>1, <1>2 DEF RowInv, RouterInv, AckInv, HeldIsBusy, Active, Exists, Holds
<1>5. TickInv'
  BY <1>1, <1>2, LocalTypes DEF TickInv, Dispatched, Escalatable, Active, Holds
<1>6. ClaimInv'
  BY <1>1, <1>2, <1>3 DEF ClaimInv, Escalatable, Active, Holds
<1> QED BY <1>4, <1>5, <1>6 DEF Rest

\* The operator may free an officer whom a dispatch names: from then on
\* nothing is promised of that officer.
LEMMA MarkAvailableInd ==
    ASSUME IndInv, NEW o \in Officers, MarkAvailable(o)
    PROVE  Rest'
<1> USE DEF IndInv
<1>1. UNCHANGED <<rows, router, acker, ticker>>
  BY DEF MarkAvailable
<1>2. RowInv' /\ RouterInv' /\ AckInv' /\ TickInv'
  BY <1>1 DEF RowInv, RouterInv, AckInv, TickInv, Active, Exists, Dispatched, Escalatable, Holds
<1>3. /\ \A p \in Officers : p # o => officers'[p] = officers[p]
      /\ freed \subseteq freed'
      /\ o \notin freed' => o \notin freed /\ officers[o].status # "BUSY"
  BY DEF MarkAvailable, TypeOK
<1>4. \A r \in Calls : o \notin freed' => officers[o] # BusyOn(r)
  BY <1>3, BusyOnOne
<1>5. \A t \in Tickers : ticker[t].pc \in {"claim", "giveback"} => ticker[t].job.row \in Calls
  BY LocalTypes DEF TickInv
<1>6. ClaimInv' /\ HeldIsBusy'
  BY <1>1, <1>3, <1>4, <1>5 DEF ClaimInv, HeldIsBusy, Escalatable, Active, Holds
<1> QED BY <1>2, <1>6 DEF Rest

-----------------------------------------------------------------------------
(* escalation_tick and handlers cut short *)

\* The snapshot holds dispatched rows and the officers they name.
LEMMA TickScanInd ==
    ASSUME IndInv, NEW t \in Tickers, TickScan(t)
    PROVE  Rest'
<1> USE DEF IndInv
<1>1. /\ ticker'[t].pc = "next"
      /\ \A j \in ticker'[t].todo : Dispatched(j.row) /\ rows[j.row].officer = j.officer
      /\ \A u \in Tickers : u # t => ticker'[u] = ticker[u]
  BY DEF TickScan, TypeOK, BetweenRows, IdleTick, Escalatable, Active, Dispatched,
         ESCALATABLE_STATES
<1>2. UNCHANGED <<officers, rows, router, acker, freed>>
  BY DEF TickScan, table
<1>3. TickInv'
  BY <1>1, <1>2 DEF TickInv, Dispatched, Escalatable, Active, Holds
<1>4. ClaimInv'
  BY <1>1, <1>2 DEF ClaimInv, Escalatable, Active, Holds
<1> QED BY <1>2, <1>3, <1>4 DEF Rest, RowInv, RouterInv, AckInv, HeldIsBusy,
                                Active, Exists, Holds

\* The officer who timed out is not among the new candidates.
LEMMA EscReadInd ==
    ASSUME IndInv, NEW t \in Tickers, EscRead(t)
    PROVE  Rest'
<1> USE DEF IndInv
<1>1. PICK j \in ticker[t].todo :
        ticker' = [ticker EXCEPT ![t] =
                     [pc |-> "claim", todo |-> @.todo \ {j}, job |-> j,
                      cands |-> IF rows[j.row].alert \in Located
                                THEN Available \ {j.officer} ELSE {},
                      claimed |-> None]]
  BY DEF EscRead
<1>2. /\ ticker'[t].pc = "claim" /\ ticker'[t].job = j /\ ticker'[t].claimed = None
      /\ ticker'[t].todo \subseteq ticker[t].todo
      /\ j.officer \notin ticker'[t].cands
      /\ \A u \in Tickers : u # t => ticker'[u] = ticker[u]
  BY <1>1 DEF TypeOK
<1>3. j \in Job /\ j.officer \in Officers /\ Dispatched(j.row)
  BY <1>1, LocalTypes DEF TickInv
<1>4. UNCHANGED <<officers, rows, router, acker, freed>>
  BY DEF EscRead, table
<1>5. TickInv'
  BY <1>2, <1>3, <1>4, DispatchAssumption DEF TickInv, Dispatched, Escalatable, Active, Holds
<1>6. ClaimInv'
  BY <1>2, <1>4, DispatchAssumption DEF ClaimInv, Escalatable, Active, Holds
<1> QED BY <1>4, <1>5, <1>6 DEF Rest, RowInv, RouterInv, AckInv, HeldIsBusy,
                                Active, Exists, Holds

\* A finished tick holds nothing.
LEMMA TickEndInd ==
    ASSUME IndInv, NEW t \in Tickers, TickEnd(t)
    PROVE  Rest'
<1> USE DEF IndInv
<1>1. /\ ticker'[t].pc = "idle" /\ ticker'[t].todo = {}
      /\ \A u \in Tickers : u # t => ticker'[u] = ticker[u]
  BY DEF TickEnd, TypeOK, IdleTick
<1>2. UNCHANGED <<officers, rows, router, acker, freed>>
  BY DEF TickEnd, table
<1>3. TickInv' /\ ClaimInv'
  BY <1>1, <1>2 DEF TickInv, ClaimInv, Dispatched, Escalatable, Active, Holds
<1> QED BY <1>2, <1>3 DEF Rest, RowInv, RouterInv, AckInv, HeldIsBusy,
                          Active, Exists, Holds

\* As for route_alert; nor is it the officer who timed out.
LEMMA EscClaimInd ==
    ASSUME IndInv, NEW t \in Tickers, EscClaim(t)
    PROVE  Rest'
<1> USE DEF IndInv
<1> DEFINE r == ticker[t].job.row
<1>1. PICK o \in ticker[t].cands :
         IF o \in Available
         THEN /\ Claim(o, r)
              /\ ticker' = [ticker EXCEPT ![t] = [@ EXCEPT !.claimed = o]]
         ELSE /\ ticker' = [ticker EXCEPT ![t].cands = @ \ {o}]
              /\ UNCHANGED officers
  BY DEF EscClaim, Nearest
<1>2. /\ o \in Officers /\ r \in Calls /\ o # ticker[t].job.officer
      /\ ticker[t].pc = "claim" /\ ticker[t].claimed = None
  BY LocalTypes DEF EscClaim, TickInv
<1>3. /\ ticker'[t].pc = "claim" /\ ticker'[t].todo = ticker[t].todo
      /\ ticker'[t].job = ticker[t].job /\ ticker'[t].cands \subseteq ticker[t].cands
      /\ \A u \in Tickers : u # t => ticker'[u] = ticker[u]
  BY <1>1, <1>2 DEF TypeOK, Tick
<1>4. UNCHANGED <<rows, router, acker, freed>>
  BY DEF EscClaim
<1>5. ASSUME o \in Available PROVE TickInv' /\ ClaimInv' /\ HeldIsBusy'
  <2>1. /\ ticker'[t].claimed = o /\ officers'[o] = BusyOn(r)
        /\ \A p \in Officers : p # o => officers'[p] = officers[p]
    BY <1>1, <1>2, <1>5 DEF TypeOK, Tick, Claim
  <2>2. o \notin freed => /\ \A d \in Calls : router[d].claimed # o
                          /\ \A q \in Calls : ~Holds(o, q)
                          /\ \A u \in Tickers :
                               ticker[u].pc = "claim" /\ ticker[u].claimed = o
                                   => ~Escalatable(ticker[u].job.row)
    BY <1>2, <1>5, AvailableIsUnclaimed
  <2>3. TickInv'
    BY <1>2, <1>3, <1>4, <2>1 DEF TickInv, Dispatched, Escalatable, Active, Holds
  <2>4. ClaimInv'
    BY <1>2, <1>3, <1>4, <2>1, <2>2 DEF ClaimInv, Escalatable, Active, Holds
  <2>5. HeldIsBusy'
    BY <1>4, <2>1, <2>2 DEF HeldIsBusy, Holds, Active
  <2> QED BY <2>3, <2>4, <2>5
<1>6. ASSUME o \notin Available PROVE TickInv' /\ ClaimInv' /\ HeldIsBusy'
  <2>1. ticker'[t].claimed = None /\ UNCHANGED officers
    BY <1>1, <1>2, <1>6 DEF TypeOK, Tick
  <2>2. TickInv'
    BY <1>2, <1>3, <1>4, <2>1, LocalTypes, DispatchAssumption
    DEF TickInv, Dispatched, Escalatable, Active, Holds
  <2>3. ClaimInv' /\ HeldIsBusy'
    BY <1>3, <1>4, <2>1, DispatchAssumption
    DEF ClaimInv, HeldIsBusy, Escalatable, Active, Holds
  <2> QED BY <2>2, <2>3
<1>7. RowInv' /\ RouterInv' /\ AckInv'
  BY <1>4 DEF RowInv, RouterInv, AckInv, Active, Exists
<1> QED BY <1>5, <1>6, <1>7 DEF Rest

\* The step the rest is there for: the row passes to the claimed officer, who
\* is BUSY on it and whom no other tick holds for it.
LEMMA EscReassignInd ==
    ASSUME IndInv, NEW t \in Tickers, EscReassign(t)
    PROVE  Rest'
<1> USE DEF IndInv
<1> DEFINE r == ticker[t].job.row
           o == ticker[t].claimed
<1>1. /\ r \in Calls /\ o \in Officers /\ Dispatched(r)
      /\ o # ticker[t].job.officer
      /\ ticker[t].pc = "claim"
  BY LocalTypes DEF EscReassign, TickInv
<1>2. /\ ticker'[t].todo = ticker[t].todo /\ ticker'[t].job = ticker[t].job
      /\ ticker'[t].claimed = o
      /\ \A u \in Tickers : u # t => ticker'[u] = ticker[u]
  BY DEF EscReassign, TypeOK, Tick
<1>3. UNCHANGED <<officers, router, acker, freed>>
  BY DEF EscReassign
<1>4. CASE Escalatable(r)
  <2>1. /\ rows'[r].status = "ESCALATED_ROUTED" /\ rows'[r].officer = o
        /\ rows'[r].escalations = 1 /\ rows'[r].alert = rows[r].alert
        /\ \A q \in Calls : q # r => rows'[q] = rows[q]
    <3>1. rows' = [rows EXCEPT ![r] = [rows[r] EXCEPT
                     !.status = "ESCALATED_ROUTED", !.officer = o,
                     !.escalations = 1, !.overdue = FALSE]]
      BY <1>4 DEF EscReassign
    <3>2. rows \in [Calls -> RoutedAlert] /\ rows[r] \in RoutedAlert
      BY <1>1 DEF TypeOK
    <3>3. rows'[r] = [rows[r] EXCEPT
                     !.status = "ESCALATED_ROUTED", !.officer = o,
                     !.escalations = 1, !.overdue = FALSE]
      BY <1>1, <3>1, <3>2
    <3> QED BY <1>1, <3>1, <3>2, <3>3 DEF RoutedAlert
  <2>2. ticker'[t].pc = "release"
    BY <1>1, <1>4 DEF EscReassign, TypeOK, Tick
  <2>3. Active(r) /\ rows[r].escalations = 0
    BY <1>4 DEF Escalatable
  <2>4. RowInv'
    BY <1>1, <2>1 DEF RowInv, Active
  <2>5. RouterInv'
    BY <1>1, <1>3, <2>1 DEF RouterInv, Dispatched
  <2>6. AckInv'
    BY <1>1, <1>3, <2>1, <2>3 DEF AckInv, Exists, Active
  <2>7. TickInv'
    BY <1>1, <1>2, <2>1, <2>2, <2>3, LocalTypes
    DEF TickInv, Dispatched, Escalatable, Active, Holds
  <2>8. ClaimInv'
    <3>1. \A u \in Tickers : u # t /\ ticker[u].pc \in {"claim", "giveback"}
             /\ ticker[u].claimed = o /\ ticker[u].job.row = r /\ o \notin freed => FALSE
      BY <1>1, <1>4 DEF ClaimInv, TickInv
    <3>2. \A u \in Tickers : ticker[u].pc \in {"claim", "giveback"} => ticker[u].job.row \in Calls
      BY LocalTypes DEF TickInv
    <3> QED BY <1>1, <1>2, <1>3, <2>1, <2>2, <3>1, <3>2
            DEF ClaimInv, Escalatable, Active, Holds
  <2>9. HeldIsBusy'
    BY <1>1, <1>3, <1>4, <2>1 DEF HeldIsBusy, ClaimInv, Holds, Active
  <2> QED BY <2>4, <2>5, <2>6, <2>7, <2>8, <2>9 DEF Rest
<1>5. CASE ~Escalatable(r)
  <2>1. ticker'[t].pc = "giveback" /\ UNCHANGED rows
    BY <1>1, <1>5 DEF EscReassign, TypeOK, Tick
  <2>2. TickInv' /\ ClaimInv'
    BY <1>1, <1>2, <1>3, <1>5, <2>1
    DEF TickInv, ClaimInv, Dispatched, Escalatable, Active, Holds
  <2> QED BY <1>3, <2>1, <2>2 DEF Rest, RowInv, RouterInv, AckInv, HeldIsBusy,
                                  Active, Exists, Holds
<1> QED BY <1>4, <1>5

\* The row is given up, and its officer is then free to be released.
LEMMA EscUnrouteInd ==
    ASSUME IndInv, NEW t \in Tickers, EscUnroute(t)
    PROVE  Rest'
<1> USE DEF IndInv
<1> DEFINE r == ticker[t].job.row
<1>1. r \in Calls /\ Dispatched(r) /\ ticker[t].pc = "claim" /\ ticker[t].job \in Job
  BY LocalTypes DEF EscUnroute, TickInv
<1>2. /\ ticker'[t].todo = ticker[t].todo
      /\ \A u \in Tickers : u # t => ticker'[u] = ticker[u]
  BY DEF EscUnroute, TypeOK, Tick, BetweenRows, IdleTick
<1>3. UNCHANGED <<officers, router, acker, freed>>
  BY DEF EscUnroute
<1>4. CASE Escalatable(r)
  <2>1. /\ rows'[r].status = "ESCALATED_UNROUTED"
        /\ rows'[r].escalations = 1 /\ rows'[r].alert = rows[r].alert
        /\ \A q \in Calls : q # r => rows'[q] = rows[q]
    <3>1. rows' = [rows EXCEPT ![r] = [rows[r] EXCEPT
                     !.status = "ESCALATED_UNROUTED", !.escalations = 1]]
      BY <1>4 DEF EscUnroute
    <3>2. rows \in [Calls -> RoutedAlert] /\ rows[r] \in RoutedAlert
      BY <1>1 DEF TypeOK
    <3>3. rows'[r] = [rows[r] EXCEPT
                     !.status = "ESCALATED_UNROUTED", !.escalations = 1]
      BY <1>1, <3>1, <3>2
    <3> QED BY <1>1, <3>1, <3>2, <3>3 DEF RoutedAlert
  <2>2. ticker'[t].pc = "release" /\ ticker'[t].job = ticker[t].job
    BY <1>1, <1>4 DEF EscUnroute, TypeOK, Tick
  <2>3. RowInv'
    BY <1>1, <2>1 DEF RowInv, Active, ESCALATABLE_STATES
  <2>4. RouterInv'
    BY <1>1, <1>3, <2>1 DEF RouterInv, Dispatched
  <2>5. AckInv'
    BY <1>1, <1>3, <2>1 DEF AckInv, Exists, Active, ESCALATABLE_STATES
  <2>6. TickInv'
    BY <1>1, <1>2, <2>1, <2>2, LocalTypes
    DEF TickInv, Dispatched, Escalatable, Active, Holds, ESCALATABLE_STATES
  <2>7. ClaimInv'
    <3>1. \A u \in Tickers : ticker[u].pc \in {"claim", "giveback"} => ticker[u].job.row \in Calls
      BY LocalTypes DEF TickInv
    <3> QED BY <1>1, <1>2, <1>3, <2>1, <2>2, <3>1
            DEF ClaimInv, Escalatable, Active, Holds, ESCALATABLE_STATES
  <2>8. HeldIsBusy'
    BY <1>1, <1>3, <2>1 DEF HeldIsBusy, Holds, Active, ESCALATABLE_STATES
  <2> QED BY <2>3, <2>4, <2>5, <2>6, <2>7, <2>8 DEF Rest
<1>5. CASE ~Escalatable(r)
  <2>1. ticker'[t].pc = "next" /\ UNCHANGED rows
    BY <1>1, <1>5 DEF EscUnroute, TypeOK, BetweenRows, IdleTick
  <2>2. TickInv' /\ ClaimInv'
    BY <1>1, <1>2, <1>3, <2>1
    DEF TickInv, ClaimInv, Dispatched, Escalatable, Active, Holds
  <2> QED BY <1>3, <2>1, <2>2 DEF Rest, RowInv, RouterInv, AckInv, HeldIsBusy,
                                  Active, Exists, Holds
<1> QED BY <1>4, <1>5

\* Both releases of a tick come after its row was reassigned, closed or lost.
LEMMA TickReleaseInd ==
    ASSUME IndInv, NEW t \in Tickers, EscRelease(t) \/ EscGiveBack(t)
    PROVE  Rest'
<1> USE DEF IndInv
<1> DEFINE r == ticker[t].job.row
           o == IF ticker[t].pc = "release" THEN ticker[t].job.officer ELSE ticker[t].claimed
<1>1. ticker[t].pc \in {"release", "giveback"} /\ ReleaseFrom(o, r)
  BY DEF EscRelease, EscGiveBack
<1>2. /\ r \in Calls /\ o \in Officers /\ rows[r].status # "PENDING" /\ ~Escalatable(r)
  BY <1>1, LocalTypes DEF TickInv, Dispatched, Escalatable
<1>3. o \notin freed => ~Holds(o, r)
  BY <1>1, <1>2 DEF TickInv, ClaimInv
<1>4. /\ ticker'[t].pc = "next" /\ ticker'[t].todo = ticker[t].todo
      /\ \A u \in Tickers : u # t => ticker'[u] = ticker[u]
  BY DEF EscRelease, EscGiveBack, TypeOK, BetweenRows, IdleTick
<1>5. UNCHANGED <<rows, router, acker, freed>>
  BY DEF EscRelease, EscGiveBack
<1>6. TickInv'
  BY <1>4, <1>5 DEF TickInv, Dispatched, Escalatable, Active, Holds
<1>7. RowInv' /\ RouterInv' /\ AckInv'
  BY <1>5 DEF RowInv, RouterInv, AckInv, Active, Exists
<1>8. CASE officers[o].current = r /\ o \notin freed
  <2>1. officers' = [officers EXCEPT ![o] = Free]
    BY <1>1, <1>8 DEF ReleaseFrom
  <2>2. \A u \in Tickers : ticker'[u].pc \in {"claim", "giveback"} => ticker'[u] = ticker[u]
    BY <1>4
  <2>3. ClaimInv' /\ HeldIsBusy'
    BY <1>2, <1>3, <1>5, <1>8, <2>1, <2>2, HarmlessRelease
  <2> QED BY <1>6, <1>7, <2>3 DEF Rest
<1>9. CASE officers[o].current # r \/ o \in freed
  <2>1. \A p \in Officers \ freed : officers'[p] = officers[p]
    BY <1>1, <1>2, <1>9 DEF ReleaseFrom, TypeOK
  <2>2. ClaimInv' /\ HeldIsBusy'
    BY <1>4, <1>5, <2>1 DEF ClaimInv, HeldIsBusy, Escalatable, Active, Holds
  <2> QED BY <1>6, <1>7, <2>2 DEF Rest
<1> QED BY <1>8, <1>9

\* A handler cut short forgets its claim: officers may stay BUSY on nothing,
\* but no dispatch loses its officer.
LEMMA FaultInd ==
    ASSUME IndInv, Fault
    PROVE  Rest'
<1> USE DEF IndInv
<1>1. UNCHANGED <<officers, rows, freed>>
  BY DEF Fault, table
<1>2. RowInv' /\ HeldIsBusy'
  BY <1>1 DEF RowInv, HeldIsBusy, Active, Holds
<1>3. CASE \E c \in Calls : RouteFault(c)
  <2>1. PICK c \in Calls : RouteFault(c)
    BY <1>3
  <2>2. /\ router'[c].pc = "done" /\ router'[c].claimed = None
        /\ \A d \in Calls : d # c => router'[d] = router[d]
        /\ UNCHANGED <<acker, ticker>>
    BY <2>1 DEF RouteFault, TypeOK, Returned, NewCall
  <2>3. RouterInv'
    BY <1>1, <2>2 DEF RouterInv
  <2>4. AckInv' /\ TickInv'
    BY <1>1, <2>2 DEF AckInv, TickInv, Active, Exists, Dispatched, Escalatable, Holds
  <2>5. ClaimInv'
    BY <1>1, <2>2, DispatchAssumption DEF ClaimInv, Escalatable, Active, Holds
  <2> QED BY <1>2, <2>3, <2>4, <2>5 DEF Rest
<1>4. CASE \E k \in Ackers : AckFault(k)
  <2>1. PICK k \in Ackers : AckFault(k)
    BY <1>4
  <2>2. /\ acker'[k].pc = "idle"
        /\ \A i \in Ackers : i # k => acker'[i] = acker[i]
        /\ UNCHANGED <<router, ticker>>
    BY <2>1 DEF AckFault, TypeOK, IdleAck
  <2>3. AckInv'
    BY <1>1, <2>2 DEF AckInv, Exists, Active
  <2>4. RouterInv' /\ TickInv' /\ ClaimInv'
    BY <1>1, <2>2 DEF RouterInv, TickInv, ClaimInv, Active, Dispatched, Escalatable, Holds
  <2> QED BY <1>2, <2>3, <2>4 DEF Rest
<1>5. CASE \E t \in Tickers : TickFault(t)
  <2>1. PICK t \in Tickers : TickFault(t)
    BY <1>5
  <2>2. /\ ticker'[t].pc \in {"idle", "next"}
        /\ ticker'[t].todo \subseteq ticker[t].todo
        /\ \A u \in Tickers : u # t => ticker'[u] = ticker[u]
        /\ UNCHANGED <<router, acker>>
    <3>1. BetweenRows(ticker[t].todo).pc = "next" /\ IdleTick.pc = "idle"
          /\ BetweenRows(ticker[t].todo).todo = ticker[t].todo /\ IdleTick.todo = {}
      BY DEF BetweenRows, IdleTick
    <3>2. ticker'[t] \in {BetweenRows(ticker[t].todo), IdleTick}
          /\ \A u \in Tickers : u # t => ticker'[u] = ticker[u]
      BY <2>1 DEF TickFault, TypeOK
    <3> QED BY <2>1, <3>1, <3>2 DEF TickFault
  <2>3. TickInv'
    BY <1>1, <2>2 DEF TickInv, Dispatched, Escalatable, Active, Holds
  <2>4. RouterInv' /\ AckInv' /\ ClaimInv'
    BY <1>1, <2>2 DEF RouterInv, AckInv, ClaimInv, Active, Exists, Escalatable, Holds
  <2> QED BY <1>2, <2>3, <2>4 DEF Rest
<1> QED BY <1>3, <1>4, <1>5 DEF Fault

-----------------------------------------------------------------------------
(* The theorems *)

\* An empty table and idle handlers satisfy the invariant.
LEMMA InductiveInit == Init => IndInv
<1> SUFFICES ASSUME Init PROVE IndInv
  OBVIOUS
<1>1. Free \in Officer /\ [Free EXCEPT !.status = "OFFLINE"] \in Officer
      /\ NoRow \in RoutedAlert /\ NewCall \in Call /\ IdleAck \in AckRequest
      /\ IdleTick \in Tick
  BY DEF Free, Officer, NoRow, RoutedAlert, RowStatus, ESCALATABLE_STATES,
         TERMINAL_STATES, NewCall, Call, IdleAck, AckRequest, IdleTick, Tick
<1>2. TypeOK
  BY <1>1 DEF Init, TypeOK
<1>3. \A r \in Calls : rows[r].status = "ABSENT" /\ rows[r].officer = None
                       /\ rows[r].escalations = 0 /\ ~Active(r)
  BY DEF Init, NoRow, Active, ESCALATABLE_STATES
<1>4. /\ \A c \in Calls : router[c].pc = "idle" /\ router[c].claimed = None
      /\ \A k \in Ackers : acker[k].pc = "idle"
      /\ \A t \in Tickers : ticker[t].pc = "idle" /\ ticker[t].todo = {}
  BY DEF Init, NewCall, IdleAck, IdleTick
<1>5. RowInv /\ RouterInv /\ AckInv /\ TickInv
  BY <1>3, <1>4 DEF RowInv, RouterInv, AckInv, TickInv
<1>6. ClaimInv /\ HeldIsBusy
  BY <1>3, <1>4, DispatchAssumption DEF ClaimInv, HeldIsBusy, Holds
<1> QED BY <1>2, <1>5, <1>6 DEF IndInv

\* Every step preserves it: one lemma per action.
LEMMA InductiveStep == IndInv /\ [Next]_vars => IndInv'
<1> SUFFICES ASSUME IndInv, [Next]_vars PROVE IndInv'
  OBVIOUS
<1>1. TypeOK'
  BY TypeStep DEF IndInv
<1>2. Rest'
  <2>1. ASSUME NEW c \in Calls, RouteStep(c) \/ \E a \in Alerts : RouteCheck(c, a)
        PROVE  Rest'
    BY <2>1, RouteCheckInd, RouteReadInd, RouteInsertInd, RouteClaimInd, RouteFinaliseInd
    DEF RouteStep
  <2>2. ASSUME NEW k \in Ackers, AckStep(k) \/ \E a \in Alerts : AckRead(k, a)
        PROVE  Rest'
    BY <2>2, AckReadInd, AckUpdateInd, AckRevertInd DEF AckStep
  <2>3. ASSUME NEW t \in Tickers, TickStep(t)
        PROVE  Rest'
    BY <2>3, TickScanInd, EscReadInd, TickEndInd, EscClaimInd, EscReassignInd,
       EscUnrouteInd, TickReleaseInd DEF TickStep
  <2>4. ASSUME UNCHANGED vars
        PROVE  Rest'
    BY <2>4 DEF vars, table, IndInv, Rest, RowInv, RouterInv, AckInv, TickInv, ClaimInv,
           HeldIsBusy, Active, Exists, Dispatched, Escalatable, Holds
  <2> QED BY <2>1, <2>2, <2>3, <2>4, ExpireInd, MarkAvailableInd, FaultInd DEF Next
<1> QED BY <1>1, <1>2 DEF IndInv, Rest

\* The strengthened invariant holds in every reachable state.
THEOREM Inductive == Spec => []IndInv
BY InductiveInit, InductiveStep, PTL DEF Spec

\* Every variable of every handler keeps its type.
THEOREM TypeCorrect == Spec => []TypeOK
<1>1. IndInv => TypeOK
  BY DEF IndInv
<1> QED BY <1>1, Inductive, PTL

\* The officer a live dispatch names is BUSY on it.
THEOREM HeldOfficerIsBusy == Spec => []HeldIsBusy
<1>1. IndInv => HeldIsBusy
  BY DEF IndInv
<1> QED BY <1>1, Inductive, PTL

\* What one step may do to one row: a row is new, is escalated for the first
\* time, is acknowledged by the officer it names, or stays.
RowMoves(r) ==
    \/ rows'[r] = rows[r]
    \/ rows[r].status \in {"ABSENT", "PENDING"}
    \/ Escalatable(r)
    \/ /\ Active(r)
       /\ rows'[r].officer = rows[r].officer
       /\ rows'[r].escalations = rows[r].escalations
       /\ rows'[r].status \in {rows[r].status, "ACKNOWLEDGED"}

\* Every step moves every row by one of those moves.
LEMMA RowStep == IndInv /\ [Next]_vars => \A r \in Calls : RowMoves(r)
<1> SUFFICES ASSUME IndInv, [Next]_vars, NEW r \in Calls PROVE RowMoves(r)
  OBVIOUS
<1> USE DEF IndInv
<1>1. ASSUME NEW c \in Calls, RouteInsert(c) \/ RouteFinalise(c)
      PROVE  RowMoves(r)
  <2>1. rows[c].status \in {"ABSENT", "PENDING"}
    BY <1>1 DEF RouteInsert, RouteFinalise, RouterInv
  <2>2. r # c => rows'[r] = rows[r]
    BY <1>1 DEF RouteInsert, RouteFinalise, TypeOK
  <2> QED BY <2>1, <2>2 DEF RowMoves
<1>2. ASSUME NEW k \in Ackers, AckUpdate(k)
      PROVE  RowMoves(r)
  BY <1>2 DEF AckUpdate, RowMoves, TypeOK, RoutedAlert
<1>3. ASSUME NEW q \in Calls, Expire(q)
      PROVE  RowMoves(r)
  BY <1>3 DEF Expire, RowMoves, TypeOK, RoutedAlert
<1>4. ASSUME NEW t \in Tickers, EscReassign(t) \/ EscUnroute(t)
      PROVE  RowMoves(r)
  <2>1. r # ticker[t].job.row \/ ~Escalatable(r) => rows'[r] = rows[r]
    BY <1>4 DEF EscReassign, EscUnroute, TypeOK
  <2> QED BY <2>1 DEF RowMoves
<1>5. ASSUME UNCHANGED rows
      PROVE  RowMoves(r)
  BY <1>5 DEF RowMoves
<1> QED BY <1>1, <1>2, <1>3, <1>4, <1>5
        DEF Next, RouteStep, AckStep, TickStep, Fault, vars, table, RouteCheck, RouteRead,
            RouteClaim, AckRead, AckRevert, TickScan, EscRead, TickEnd, EscClaim,
            EscRelease, EscGiveBack, MarkAvailable

\* A dispatch is escalated at most once.
THEOREM EscalationIsSingle == Spec => EscalatedOnce
<1>1. IndInv /\ [Next]_vars =>
        [\A r \in Calls : rows[r].escalations = 1 =>
          /\ rows'[r].escalations = 1
          /\ rows'[r].officer = rows[r].officer
          /\ rows'[r].status \in {rows[r].status, "ACKNOWLEDGED"}]_vars
  BY RowStep DEF RowMoves, IndInv, RowInv, Escalatable
<1> QED BY <1>1, Inductive, PTL DEF Spec, EscalatedOnce

\* An acknowledged, unrouted or given-up dispatch is never rewritten.
THEOREM ClosedStaysClosed == Spec => TerminalIsFinal
<1>1. IndInv /\ [Next]_vars =>
        [\A r \in Calls :
          rows[r].status \in TERMINAL_STATES => rows'[r] = rows[r]]_vars
  BY RowStep DEF RowMoves, TERMINAL_STATES, Escalatable, Active, ESCALATABLE_STATES
<1> QED BY <1>1, Inductive, PTL DEF Spec, TerminalIsFinal

-----------------------------------------------------------------------------
(* Who is left behind *)

\* The parts of InCharge, and what may become of them in one step.
TickCharge(t, o, r) ==
    /\ ticker[t].pc \in {"claim", "release", "giveback"}
    /\ ticker[t].job.row = r
    /\ o = IF ticker[t].pc = "release" THEN ticker[t].job.officer
                                       ELSE ticker[t].claimed
AckCharge(k, o, r) ==
    acker[k] = [pc |-> "revert", alert |-> rows[r].alert, row |-> r, officer |-> o]

Answered(o, r) ==
    \/ InCharge(o, r) \/ Holds(o, r)
    \/ rows[r].status = "ACKNOWLEDGED" /\ rows[r].officer = o

\* An officer is answered for as long as the step leaves alone what answers.
LEMMA AnswerLasts ==
    ASSUME NEW o \in Officers, NEW r \in Calls, Answered(o, r),
           router[r].pc = "claim" /\ router[r].claimed = o
              => router'[r].pc = "claim" /\ router'[r].claimed = o,
           \A t \in Tickers : TickCharge(t, o, r) => TickCharge(t, o, r)',
           \A k \in Ackers : AckCharge(k, o, r) => acker'[k] = acker[k],
           rows'[r].alert = rows[r].alert,
           Holds(o, r) \/ rows[r].status = "ACKNOWLEDGED" =>
              /\ rows'[r].officer = rows[r].officer
              /\ rows'[r].status \in {rows[r].status, "ACKNOWLEDGED"}
    PROVE  Answered(o, r)'
<1>1. CASE InCharge(o, r)
  BY <1>1 DEF Answered, InCharge, TickCharge, AckCharge
<1>2. CASE Holds(o, r) \/ (rows[r].status = "ACKNOWLEDGED" /\ rows[r].officer = o)
  BY <1>2 DEF Answered, Holds, Active
<1> QED BY <1>1, <1>2 DEF Answered

\* What a tick does to its own charge. A reassignment passes the claimed officer
\* to the row and takes the old one in charge; a release ends with the officer.
LEMMA TickAnswers ==
    ASSUME IndInv, NEW t \in Tickers, TickStep(t),
           NEW o \in Officers \ freed, NEW r \in Calls,
           officers'[o] = BusyOn(r), officers[o] = BusyOn(r) => Answered(o, r)
    PROVE  Answered(o, r)'
<1> USE DEF IndInv
<1>1. UNCHANGED <<router, acker, freed>> /\ \A u \in Tickers : u # t => ticker'[u] = ticker[u]
  BY DEF TickStep, TickScan, EscRead, TickEnd, EscClaim, EscReassign, EscUnroute,
         EscRelease, EscGiveBack, table, TypeOK
<1>2. o # None /\ BusyOn(r) # Free
  BY DispatchAssumption DEF BusyOn, Free
<1>3. ASSUME officers' = officers, rows' = rows, TickCharge(t, o, r) => TickCharge(t, o, r)'
      PROVE  Answered(o, r)'
  BY <1>1, <1>3, AnswerLasts DEF TickCharge
<1>4. CASE TickScan(t) \/ EscRead(t) \/ TickEnd(t)
  <2>1. UNCHANGED table /\ ~TickCharge(t, o, r)
    BY <1>4 DEF TickScan, EscRead, TickEnd, TickCharge
  <2> QED BY <2>1, <1>3 DEF table
<1>5. CASE EscClaim(t)
  <2> DEFINE q == ticker[t].job.row
  <2>1. PICK p \in ticker[t].cands :
           IF p \in Available
           THEN /\ Claim(p, q)
                /\ ticker' = [ticker EXCEPT ![t] = [@ EXCEPT !.claimed = p]]
           ELSE /\ ticker' = [ticker EXCEPT ![t].cands = @ \ {p}]
                /\ UNCHANGED officers
    BY <1>5 DEF EscClaim, Nearest
  <2>2. /\ ticker[t].pc = "claim" /\ ticker[t].claimed = None /\ rows' = rows
        /\ q \in Calls /\ p \in Officers /\ ~TickCharge(t, o, r)
    BY <1>2, <1>5, LocalTypes DEF EscClaim, TickInv, TickCharge
  <2>3. CASE o = p /\ p \in Available
    <3>1. officers'[o] = BusyOn(q)
      BY <2>1, <2>2, <2>3 DEF Claim, TypeOK
    <3>2. q = r
      BY <3>1, <2>2, BusyOnOne
    <3>3. ticker'[t] = [ticker[t] EXCEPT !.claimed = p]
      BY <2>1, <2>3 DEF TypeOK
    <3>4. /\ ticker'[t].pc = "claim" /\ ticker'[t].claimed = p
          /\ ticker'[t].job = ticker[t].job
      BY <3>3, <2>2 DEF TypeOK, Tick
    <3>5. TickCharge(t, o, r)'
      BY <3>2, <3>4, <2>3 DEF TickCharge
    <3> QED BY <3>5 DEF Answered, InCharge, TickCharge
  <2>4. CASE ~(o = p /\ p \in Available)
    <3>1. officers'[o] = officers[o]
      BY <2>1, <2>2, <2>4 DEF Claim, TypeOK
    <3>2. Answered(o, r)
      BY <3>1
    <3> QED BY <3>2, <2>2, <1>1, AnswerLasts DEF TickCharge
  <2> QED BY <2>3, <2>4
<1>6. CASE EscReassign(t) \/ EscUnroute(t)
  <2> DEFINE q == ticker[t].job.row
  <2>1. /\ ticker[t].pc = "claim" /\ officers' = officers /\ q \in Calls
        /\ ticker[t].claimed \in Officers \cup {None}
    BY <1>6, LocalTypes DEF EscReassign, EscUnroute, TickInv
  <2>2. Answered(o, r)
    BY <2>1
  <2>3. CASE ~Escalatable(q)
    <3>1. rows' = rows
      BY <1>6, <2>3 DEF EscReassign, EscUnroute
    <3>2. ASSUME TickCharge(t, o, r) PROVE TickCharge(t, o, r)'
      <4>1. ticker[t].claimed = o /\ EscReassign(t)
        BY <1>2, <1>6, <3>2, <2>1 DEF TickCharge, EscUnroute
      <4>2. ticker'[t] = [ticker[t] EXCEPT !.pc = "giveback"]
        BY <4>1, <2>3 DEF EscReassign, TypeOK
      <4>3. /\ ticker'[t].pc = "giveback" /\ ticker'[t].claimed = o
            /\ ticker'[t].job = ticker[t].job
        BY <4>1, <4>2 DEF TypeOK, Tick
      <4> QED BY <4>3, <3>2 DEF TickCharge
    <3> QED BY <3>1, <3>2, <2>1, <1>3
  <2>4. CASE Escalatable(q)
    <3>1. ticker'[t] = [ticker[t] EXCEPT !.pc = "release"]
      BY <1>6, <2>4 DEF EscReassign, EscUnroute, TypeOK
    <3>2. ticker'[t].pc = "release" /\ ticker'[t].job = ticker[t].job
      BY <3>1 DEF TypeOK, Tick
    <3>3. /\ \A d \in Calls : d # q => rows'[d] = rows[d]
          /\ rows'[q].alert = rows[q].alert
          /\ EscReassign(t) => /\ rows'[q].status = "ESCALATED_ROUTED"
                               /\ rows'[q].officer = ticker[t].claimed
      <4>1. rows \in [Calls -> RoutedAlert] /\ rows[q] \in RoutedAlert
        BY <2>1 DEF TypeOK
      <4>2. CASE EscReassign(t)
        <5>1. rows' = [rows EXCEPT ![q] = [rows[q] EXCEPT
                         !.status = "ESCALATED_ROUTED", !.officer = ticker[t].claimed,
                         !.escalations = 1, !.overdue = FALSE]]
          BY <4>2, <2>4 DEF EscReassign
        <5>2. rows'[q] = [rows[q] EXCEPT
                         !.status = "ESCALATED_ROUTED", !.officer = ticker[t].claimed,
                         !.escalations = 1, !.overdue = FALSE]
          BY <5>1, <4>1, <2>1
        <5>3. /\ rows'[q].alert = rows[q].alert /\ rows'[q].status = "ESCALATED_ROUTED"
              /\ rows'[q].officer = ticker[t].claimed
          BY <5>2, <4>1 DEF RoutedAlert
        <5> QED BY <5>1, <5>3, <4>1, <2>1
      <4>3. CASE EscUnroute(t)
        <5>1. rows' = [rows EXCEPT ![q] = [rows[q] EXCEPT
                         !.status = "ESCALATED_UNROUTED", !.escalations = 1]]
          BY <4>3, <2>4 DEF EscUnroute
        <5>2. rows'[q].alert = rows[q].alert
          BY <5>1, <4>1, <2>1 DEF RoutedAlert
        <5>3. ~EscReassign(t)
          BY <4>3 DEF EscReassign, EscUnroute
        <5> QED BY <5>1, <5>2, <5>3, <4>1, <2>1
      <4> QED BY <1>6, <4>2, <4>3
    <3>4. CASE r = q /\ o = ticker[t].job.officer
      <4>1. TickCharge(t, o, r)'
        BY <3>2, <3>4 DEF TickCharge
      <4> QED BY <4>1 DEF Answered, InCharge, TickCharge
    <3>5. CASE r = q /\ o = ticker[t].claimed
      <4>1. EscReassign(t)
        BY <1>2, <1>6, <3>5 DEF EscUnroute
      <4> QED BY <4>1, <3>3, <3>5 DEF Answered, Holds, Active, ESCALATABLE_STATES
    <3>6. CASE r = q /\ o # ticker[t].claimed /\ o # ticker[t].job.officer
      <4>1. ~TickCharge(t, o, r)
        BY <3>6, <2>1 DEF TickCharge
      <4>2. ~Holds(o, r) /\ rows[r].status # "ACKNOWLEDGED"
        BY <3>6, <2>1, <2>4 DEF TickInv, Holds, Escalatable, Active, ESCALATABLE_STATES
      <4> QED BY <4>1, <4>2, <3>3, <3>6, <2>2, <1>1, AnswerLasts DEF TickCharge
    <3>7. CASE r # q
      <4>1. ~TickCharge(t, o, r)
        BY <3>7 DEF TickCharge
      <4>2. rows'[r] = rows[r]
        BY <3>3, <3>7
      <4> QED BY <4>1, <4>2, <2>2, <1>1, AnswerLasts DEF TickCharge
    <3> QED BY <3>4, <3>5, <3>6, <3>7
  <2> QED BY <2>3, <2>4
<1>7. CASE EscRelease(t) \/ EscGiveBack(t)
  <2>1. ASSUME NEW p, p = IF ticker[t].pc = "release" THEN ticker[t].job.officer
                                                      ELSE ticker[t].claimed
        PROVE  ReleaseFrom(p, ticker[t].job.row) /\ p \in Officers
    BY <1>7, <2>1, LocalTypes DEF EscRelease, EscGiveBack, TickInv
  <2>2. officers'[o] = officers[o]
    BY <2>1, <1>2 DEF ReleaseFrom, TypeOK
  <2>3. ~TickCharge(t, o, r)
    <3> SUFFICES ASSUME TickCharge(t, o, r) PROVE FALSE
      OBVIOUS
    <3>1. ReleaseFrom(o, r)
      BY <2>1 DEF TickCharge
    <3>2. officers[o].current = r
      BY <2>2, BusyOnOne
    <3> QED BY <3>1, <3>2, <1>2 DEF ReleaseFrom, TypeOK
  <2>4. rows' = rows /\ Answered(o, r)
    BY <1>7, <2>2 DEF EscRelease, EscGiveBack
  <2> QED BY <2>3, <2>4, <1>1, AnswerLasts DEF TickCharge
<1> QED BY <1>4, <1>5, <1>6, <1>7 DEF TickStep

\* No step leaves an officer behind, except that of an ACK, and a fault.
LEMMA StrandedStep == IndInv /\ StrandedOnlyByAck /\ [Next]_vars => StrandedOnlyByAck'
<1> SUFFICES ASSUME IndInv, StrandedOnlyByAck, [Next]_vars, faults' = 0,
                    NEW o \in Officers \ freed', NEW r \in Calls, officers'[o] = BusyOn(r)
             PROVE  Answered(o, r)'
  BY DEF StrandedOnlyByAck, Answered
<1> USE DEF IndInv
<1>1. ~Fault /\ faults = 0
  <2>1. faults \in Nat
    BY DEF TypeOK
  <2>2. Fault => faults' = faults + 1
    BY DEF Fault
  <2>3. faults' = faults \/ Fault
    BY DEF Next, vars, RouteStep, AckStep, TickStep, RouteCheck, RouteRead, RouteInsert,
           RouteClaim, RouteFinalise, AckRead, AckUpdate, AckRevert, Expire, TickScan,
           EscRead, TickEnd, EscClaim, EscReassign, EscUnroute, EscRelease, EscGiveBack,
           MarkAvailable
  <2> QED BY <2>1, <2>2, <2>3
<1>2. freed \subseteq freed' /\ o \in Officers \ freed
  <2>1. freed \subseteq freed'
    BY <1>1 DEF Next, vars, RouteStep, AckStep, TickStep, RouteCheck, RouteRead, RouteInsert,
           RouteClaim, RouteFinalise, AckRead, AckUpdate, AckRevert, Expire, TickScan,
           EscRead, TickEnd, EscClaim, EscReassign, EscUnroute, EscRelease, EscGiveBack,
           MarkAvailable
  <2> QED BY <2>1
<1>3. officers[o] = BusyOn(r) => Answered(o, r)
  BY <1>1, <1>2 DEF StrandedOnlyByAck, Answered
<1>4. o # None /\ BusyOn(r) # Free
  BY DispatchAssumption DEF BusyOn, Free
<1>5. ASSUME NEW c \in Calls, RouteRead(c) \/ \E a \in Alerts : RouteCheck(c, a)
      PROVE  Answered(o, r)'
  <2>1. /\ UNCHANGED <<table, acker, ticker>> /\ router[c].pc # "claim"
        /\ \A d \in Calls : d # c => router'[d] = router[d]
    BY <1>5 DEF RouteRead, RouteCheck, TypeOK
  <2> QED BY <2>1, <1>3, AnswerLasts DEF table, TickCharge
<1>6. ASSUME NEW c \in Calls, RouteInsert(c) PROVE Answered(o, r)'
  <2>1. /\ UNCHANGED <<officers, acker, ticker>>
        /\ router[c].pc # "claim" /\ rows[c].status = "ABSENT"
        /\ \A d \in Calls : d # c => router'[d] = router[d] /\ rows'[d] = rows[d]
    BY <1>6 DEF RouteInsert, TypeOK, RouterInv
  <2>2. CASE r # c
    BY <2>1, <2>2, <1>3, AnswerLasts DEF TickCharge
  <2>3. CASE r = c
    <3>1. ~Holds(o, r) /\ rows[r].status # "ACKNOWLEDGED"
      BY <2>1, <2>3 DEF Holds, Active, ESCALATABLE_STATES
    <3>2. \A k \in Ackers : ~AckCharge(k, o, r)
      BY <2>1, <2>3 DEF AckCharge, AckInv, Exists
    <3>3. PICK t \in Tickers : TickCharge(t, o, r)
      BY <2>1, <2>3, <3>1, <3>2, <1>3 DEF Answered, InCharge, TickCharge, AckCharge
    <3> QED BY <2>1, <3>3 DEF Answered, InCharge, TickCharge
  <2> QED BY <2>2, <2>3
<1>7. ASSUME NEW c \in Calls, RouteClaim(c) PROVE Answered(o, r)'
  <2>1. PICK p \in router[c].cands :
           IF p \in Available
           THEN /\ Claim(p, c)
                /\ router' = [router EXCEPT ![c] = [@ EXCEPT !.claimed = p]]
           ELSE /\ router' = [router EXCEPT ![c].cands = @ \ {p}]
                /\ UNCHANGED officers
    BY <1>7 DEF RouteClaim, Nearest
  <2>2. /\ router[c].pc = "claim" /\ router[c].claimed = None /\ p \in Officers
        /\ UNCHANGED <<rows, acker, ticker>>
        /\ \A d \in Calls : d # c => router'[d] = router[d]
    BY <1>7, <2>1, LocalTypes DEF RouteClaim, TypeOK
  <2>3. CASE o = p /\ p \in Available
    <3>1. officers'[o] = BusyOn(c)
      BY <2>1, <2>2, <2>3 DEF Claim, TypeOK
    <3>2. c = r
      BY <3>1, BusyOnOne
    <3>3. router'[c].pc = "claim" /\ router'[c].claimed = p
      BY <2>1, <2>2, <2>3 DEF TypeOK, Call
    <3> QED BY <3>2, <3>3, <2>3 DEF Answered, InCharge
  <2>4. CASE ~(o = p /\ p \in Available)
    <3>1. officers'[o] = officers[o]
      BY <2>1, <2>2, <2>4 DEF Claim, TypeOK
    <3> QED BY <3>1, <2>2, <1>3, <1>4, AnswerLasts DEF TickCharge
  <2> QED BY <2>3, <2>4
<1>8. ASSUME NEW c \in Calls, RouteFinalise(c) PROVE Answered(o, r)'
  <2>1. /\ UNCHANGED <<officers, acker, ticker>> /\ rows[c].status = "PENDING"
        /\ router[c].pc = "claim"
        /\ \A d \in Calls : d # c => router'[d] = router[d] /\ rows'[d] = rows[d]
        /\ rows'[c].alert = rows[c].alert
        /\ router[c].claimed # None => /\ rows'[c].status = "ROUTED"
                                       /\ rows'[c].officer = router[c].claimed
    BY <1>8 DEF RouteFinalise, TypeOK, RouterInv, RoutedAlert
  <2>2. CASE r = c /\ router[c].claimed = o
    BY <2>1, <2>2, <1>4 DEF Answered, Holds, Active, ESCALATABLE_STATES
  <2>3. CASE ~(r = c /\ router[c].claimed = o)
    <3>1. r = c => ~Holds(o, r) /\ rows[r].status # "ACKNOWLEDGED"
      BY <2>1 DEF Holds, Active, ESCALATABLE_STATES
    <3> QED BY <2>1, <2>3, <3>1, <1>3, AnswerLasts DEF TickCharge
  <2> QED BY <2>2, <2>3
<1>9. ASSUME NEW k \in Ackers, NEW a \in Alerts, AckRead(k, a) PROVE Answered(o, r)'
  <2>1. /\ UNCHANGED <<table, router, ticker>> /\ acker[k].pc = "idle"
        /\ \A j \in Ackers : j # k => acker'[j] = acker[j]
    BY <1>9 DEF AckRead, TypeOK
  <2>2. ~AckCharge(k, o, r)
    BY <2>1 DEF AckCharge
  <2> QED BY <2>1, <2>2, <1>3, AnswerLasts DEF table, TickCharge
<1>10. ASSUME NEW k \in Ackers, AckUpdate(k) PROVE Answered(o, r)'
  <2>1. /\ UNCHANGED <<officers, router, ticker>> /\ acker[k].pc = "update"
        /\ \A j \in Ackers : j # k => acker'[j] = acker[j]
        /\ rows'[r].alert = rows[r].alert /\ rows'[r].officer = rows[r].officer
        /\ rows'[r].status \in {rows[r].status, "ACKNOWLEDGED"}
    BY <1>10 DEF AckUpdate, TypeOK, RoutedAlert
  <2>2. ~AckCharge(k, o, r)
    BY <2>1 DEF AckCharge
  <2> QED BY <2>1, <2>2, <1>3, AnswerLasts DEF TickCharge
<1>11. ASSUME NEW k \in Ackers, AckRevert(k) PROVE Answered(o, r)'
  <2> DEFINE p == acker[k].officer
  <2>1. /\ UNCHANGED <<rows, router, ticker>> /\ p \in Officers
        /\ \A j \in Ackers : j # k => acker'[j] = acker[j]
        /\ officers' = IF officers[p] = BusyOn(acker[k].row)
                       THEN [officers EXCEPT ![p] = Free] ELSE officers
    BY <1>11 DEF AckRevert, TypeOK, AckInv
  <2>2. officers'[o] = officers[o]
    BY <2>1, <1>4 DEF TypeOK
  <2>3. ~AckCharge(k, o, r)
    <3> SUFFICES ASSUME AckCharge(k, o, r) PROVE FALSE
      OBVIOUS
    <3>1. p = o /\ acker[k].row = r
      BY DEF AckCharge
    <3> QED BY <3>1, <2>1, <2>2, <1>4 DEF TypeOK
  <2> QED BY <2>1, <2>2, <2>3, <1>3, AnswerLasts DEF TickCharge
<1>12. ASSUME NEW q \in Calls, Expire(q) PROVE Answered(o, r)'
  <2>1. /\ UNCHANGED <<officers, router, acker, ticker>>
        /\ rows'[r].alert = rows[r].alert /\ rows'[r].officer = rows[r].officer
        /\ rows'[r].status = rows[r].status
    BY <1>12 DEF Expire, TypeOK, RoutedAlert
  <2> QED BY <2>1, <1>3, AnswerLasts DEF TickCharge
<1>13. ASSUME NEW t \in Tickers, TickStep(t) PROVE Answered(o, r)'
  BY <1>2, <1>3, <1>13, TickAnswers
<1>14. ASSUME NEW p \in Officers, MarkAvailable(p) PROVE Answered(o, r)'
  <2>1. UNCHANGED <<rows, router, acker, ticker>> /\ officers'[o] = officers[o]
    BY <1>4, <1>14 DEF MarkAvailable, TypeOK
  <2> QED BY <2>1, <1>3, AnswerLasts DEF TickCharge
<1>15. CASE UNCHANGED vars
  BY <1>15, <1>3, AnswerLasts DEF vars, TickCharge
<1> QED BY <1>1, <1>5, <1>6, <1>7, <1>8, <1>9, <1>10, <1>11, <1>12, <1>13, <1>14, <1>15
        DEF Next, RouteStep, AckStep

\* While no handler is cut short, the officer whom a row named when the ACK was
\* written, and not when it was read, is the only one who stays BUSY with nobody
\* to release the officer: routing and escalation strand nobody.
THEOREM OnlyAckStrands == Spec => []StrandedOnlyByAck
<1>1. Init => StrandedOnlyByAck
  BY DispatchAssumption, BusyOnOne DEF Init, StrandedOnlyByAck, Free, BusyOn
<1> QED BY <1>1, StrandedStep, Inductive, PTL DEF Spec

-----------------------------------------------------------------------------
(* Dispatch implements the ledger *)

\* The refinement mapping, status by status.
LEMMA CaseIs ==
    /\ CaseOf("ABSENT") = "new" /\ CaseOf("PENDING") = "new"
    /\ CaseOf("ROUTED") = "assigned" /\ CaseOf("UNROUTED") = "unassigned"
    /\ CaseOf("ESCALATED_ROUTED") = "passed_on"
    /\ CaseOf("ESCALATED_UNROUTED") = "given_up"
    /\ CaseOf("ACKNOWLEDGED") = "acknowledged"
BY DEF CaseOf

\* Open cases are the rows an officer is answering.
LEMMA OpenIsActive ==
    ASSUME TypeOK, NEW r \in Calls
    PROVE  Ledger!Open(r) <=> Active(r)
<1>1. rows[r].status \in RowStatus
  BY DEF TypeOK, RoutedAlert
<1> QED BY <1>1, CaseIs DEF Ledger!Open, Active, RowStatus, ESCALATABLE_STATES, TERMINAL_STATES

\* An officer BUSY on row r alone has no other case.
LEMMA ClaimedIsIdle ==
    ASSUME IndInv, NEW o \in Officers, NEW r \in Calls,
           o \notin freed => officers[o] = BusyOn(r), ~Holds(o, r)
    PROVE  Ledger!Idle(o)
<1>1. o \notin freed => \A q \in Calls : ~Holds(o, q)
  BY BusyOnOne DEF IndInv, HeldIsBusy
<1> QED BY <1>1, OpenIsActive DEF IndInv, Ledger!Idle, Holds

\* Every step of dispatch is a step of the ledger or leaves it alone.
LEMMA LedgerStep == IndInv /\ [Next]_vars => [Ledger!LedgerNext]_(Ledger!ledger)
<1> SUFFICES ASSUME IndInv, [Next]_vars PROVE [Ledger!LedgerNext]_(Ledger!ledger)
  OBVIOUS
<1> USE DEF IndInv
<1> DEFINE case == [r \in Calls |-> CaseOf(rows[r].status)]
           owner == [r \in Calls |-> rows[r].officer]
           Same == case' = case /\ owner' = owner /\ freed' = freed
<1>1. Same => UNCHANGED Ledger!ledger
  BY DEF Ledger!ledger
<1>2. ASSUME UNCHANGED <<rows, freed>> PROVE Same
  BY <1>2
<1>3. ASSUME NEW c \in Calls, RouteInsert(c) PROVE Same
  <2>1. /\ rows[c].status = "ABSENT" /\ rows'[c].status = "PENDING"
        /\ rows[c].officer = None /\ rows'[c].officer = None
        /\ \A d \in Calls : d # c => rows'[d] = rows[d]
        /\ freed' = freed
    BY <1>3 DEF RouteInsert, NoRow, RouterInv, RowInv, TypeOK
  <2> QED BY <2>1, CaseIs
<1>4. ASSUME NEW r \in Calls, Expire(r) PROVE Same
  <2>1. /\ rows'[r].status = rows[r].status /\ rows'[r].officer = rows[r].officer
        /\ \A d \in Calls : d # r => rows'[d] = rows[d]
        /\ freed' = freed
    BY <1>4 DEF Expire, TypeOK, RoutedAlert
  <2> QED BY <2>1
<1>5. ASSUME NEW c \in Calls, RouteFinalise(c)
      PROVE  \/ Ledger!NobodyFree(c)
             \/ \E o \in Officers : Ledger!Assign(c, o)
  <2>1. /\ rows[c].status = "PENDING"
        /\ \/ /\ router[c].claimed = None /\ rows'[c].status = "UNROUTED"
              /\ rows'[c].officer = rows[c].officer
           \/ /\ router[c].claimed \in Officers
              /\ rows'[c].status = "ROUTED" /\ rows'[c].officer = router[c].claimed
        /\ \A d \in Calls : d # c => rows'[d] = rows[d]
        /\ freed' = freed
    BY <1>5, LocalTypes DEF TypeOK, RoutedAlert, RouteFinalise, RouterInv
  <2>2. CASE router[c].claimed = None
    BY <2>1, <2>2, CaseIs, DispatchAssumption DEF Ledger!NobodyFree
  <2>3. CASE router[c].claimed \in Officers
    <3>1. PICK o \in Officers : o = router[c].claimed
      BY <2>3
    <3>2. Ledger!Idle(o)
      BY <2>1, <3>1, ClaimedIsIdle DEF ClaimInv, Holds, Active, ESCALATABLE_STATES
    <3>3. Ledger!Assign(c, o)
      BY <2>1, <3>1, <3>2, CaseIs, DispatchAssumption DEF Ledger!Assign
    <3> QED BY <3>3
  <2> QED BY <2>1, <2>2, <2>3
<1>6. ASSUME NEW k \in Ackers, AckUpdate(k)
      PROVE  \E R \in SUBSET Calls : Ledger!Acknowledge(R)
  <2> DEFINE hit == {r \in RowsOf(acker[k].alert) : Active(r)}
  <2>1. \A r \in Calls :
          \/ rows'[r] = rows[r] /\ r \notin hit
          \/ /\ r \in hit /\ Active(r) /\ rows'[r].status = "ACKNOWLEDGED"
             /\ rows'[r].officer = rows[r].officer
    BY <1>6 DEF AckUpdate, TypeOK, RoutedAlert
  <2>2. hit \in SUBSET Calls /\ freed' = freed
    BY <1>6 DEF AckUpdate, RowsOf
  <2>3. \A r \in hit : Ledger!Open(r)
    BY <2>2, OpenIsActive
  <2>4. owner' = owner
    BY <2>1
  <2>5. case' = [r \in Calls |-> IF r \in hit THEN "acknowledged" ELSE case[r]]
    BY <2>1, CaseIs
  <2>6. Ledger!Acknowledge(hit)
    BY <2>2, <2>3, <2>4, <2>5 DEF Ledger!Acknowledge
  <2> QED BY <2>2, <2>6
<1>7. ASSUME NEW t \in Tickers, EscReassign(t)
      PROVE  Same \/ \E r \in Calls, o \in Officers : Ledger!PassOn(r, o)
  <2>1. PICK r \in Calls, o \in Officers : r = ticker[t].job.row /\ o = ticker[t].claimed
    BY <1>7, LocalTypes DEF EscReassign, TickInv
  <2>2. CASE Escalatable(r)
    <3>1. rows' = [rows EXCEPT ![r] = [rows[r] EXCEPT
                     !.status = "ESCALATED_ROUTED", !.officer = o,
                     !.escalations = 1, !.overdue = FALSE]]
      BY <1>7, <2>1, <2>2 DEF EscReassign
    <3>2. rows \in [Calls -> RoutedAlert] /\ rows[r] \in RoutedAlert
      BY <2>1 DEF TypeOK
    <3>3. rows'[r] = [rows[r] EXCEPT
                     !.status = "ESCALATED_ROUTED", !.officer = o,
                     !.escalations = 1, !.overdue = FALSE]
      BY <2>1, <3>1, <3>2
    <3>4. /\ rows'[r].status = "ESCALATED_ROUTED" /\ rows'[r].officer = o
          /\ \A q \in Calls : q # r => rows'[q] = rows[q]
      BY <2>1, <3>1, <3>2, <3>3 DEF RoutedAlert
    <3>5. rows[r].status = "ROUTED"
      BY <2>1, <2>2 DEF Escalatable, Active, ESCALATABLE_STATES, RowInv
    <3>6. Ledger!Idle(o)
      BY <1>7, <2>1, <2>2, ClaimedIsIdle DEF ClaimInv, TickInv, Holds, EscReassign
    <3>7. o # rows[r].officer
      BY <1>7, <2>1, <2>2 DEF EscReassign, TickInv
    <3>8. freed' = freed
      BY <1>7 DEF EscReassign
    <3>9. Ledger!PassOn(r, o)
      BY <2>1, <3>4, <3>5, <3>6, <3>7, <3>8, CaseIs DEF Ledger!PassOn
    <3> QED BY <3>9
  <2>3. CASE ~Escalatable(r)
    <3>1. UNCHANGED <<rows, freed>>
      BY <1>7, <2>1, <2>3 DEF EscReassign
    <3> QED BY <3>1, <1>2
  <2> QED BY <2>2, <2>3
<1>8. ASSUME NEW t \in Tickers, EscUnroute(t)
      PROVE  Same \/ \E r \in Calls : Ledger!GiveUp(r)
  <2> DEFINE r == ticker[t].job.row
  <2>1. r \in Calls
    BY <1>8, LocalTypes DEF EscUnroute, TickInv
  <2>2. CASE Escalatable(r)
    <3>1. rows' = [rows EXCEPT ![r] = [rows[r] EXCEPT
                     !.status = "ESCALATED_UNROUTED", !.escalations = 1]]
      BY <1>8, <2>2 DEF EscUnroute
    <3>2. rows \in [Calls -> RoutedAlert] /\ rows[r] \in RoutedAlert
      BY <2>1 DEF TypeOK
    <3>3. rows'[r] = [rows[r] EXCEPT
                     !.status = "ESCALATED_UNROUTED", !.escalations = 1]
      BY <2>1, <3>1, <3>2
    <3>4. /\ rows'[r].status = "ESCALATED_UNROUTED" /\ rows'[r].officer = rows[r].officer
          /\ \A q \in Calls : q # r => rows'[q] = rows[q]
      BY <2>1, <3>1, <3>2, <3>3 DEF RoutedAlert
    <3>5. rows[r].status = "ROUTED"
      BY <2>1, <2>2 DEF Escalatable, Active, ESCALATABLE_STATES, RowInv
    <3>6. freed' = freed
      BY <1>8 DEF EscUnroute
    <3>7. owner' = owner
      BY <3>4
    <3>8. Ledger!GiveUp(r)
      BY <2>1, <3>4, <3>5, <3>6, <3>7, CaseIs DEF Ledger!GiveUp
    <3> QED BY <2>1, <3>8
  <2>3. CASE ~Escalatable(r)
    <3>1. UNCHANGED <<rows, freed>>
      BY <1>8, <2>3 DEF EscUnroute
    <3> QED BY <3>1, <1>2
  <2> QED BY <2>2, <2>3
<1>9. ASSUME NEW o \in Officers, MarkAvailable(o)
      PROVE  Same \/ Ledger!Recall(o)
  BY <1>9 DEF MarkAvailable, Ledger!Recall
<1>10. CASE UNCHANGED <<rows, freed>>
  BY <1>1, <1>2, <1>10
<1>11. Same \/ Ledger!LedgerNext
  BY <1>2, <1>3, <1>4, <1>5, <1>6, <1>7, <1>8, <1>9
     DEF Ledger!LedgerNext, Next, RouteStep, AckStep, TickStep, Fault, vars, table,
         RouteCheck, RouteRead, RouteClaim, AckRead, AckRevert, TickScan, EscRead,
         TickEnd, EscClaim, EscRelease, EscGiveBack
<1> QED BY <1>1, <1>11

\* Dispatch, crashes and overrides included, implements the ledger.
THEOREM ImplementsLedger == Spec => LedgerKept
<1>1. Init => Ledger!LedgerInit
  BY CaseIs DEF Init, NoRow, Ledger!LedgerInit
<1> QED BY <1>1, LedgerStep, Inductive, PTL DEF Spec, LedgerKept, Ledger!LedgerSpec

=============================================================================
