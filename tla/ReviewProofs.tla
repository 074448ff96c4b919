---------------------------- MODULE ReviewProofs ----------------------------
(***************************************************************************)
(* Proofs about Review, for any officers, any number of sessions, requests *)
(* and faults, and a session store that keeps or does not keep.            *)
(*                                                                         *)
(* A submission is spread over several transactions, so every fact it      *)
(* relies on must outlast what other requests do in between: who wrote a   *)
(* review and what it says never changes, a second review looks at a pair  *)
(* that another officer began, and at most one request has got past the    *)
(* insertion of a session's review.                                        *)
(***************************************************************************)
EXTENDS ReviewRefinement, TLAPS

-----------------------------------------------------------------------------
(* The inductive invariant *)

First == {"pair", "store", "link"}
Promoting == {"promote", "add", "linkboth"}
Second == {"reconcile", "first", "resolve"} \cup Promoting
Resolved == {"agreed", "disagreed_escalated"}
Inserted(h) == handler[h].pc \in First \cup Second

\* The second round of a pair is another officer's, and the pair is there.
SessionInv == \A s \in Sessions :
    /\ session[s].state = "stored" => session[s].officer \in Officers
    /\ session[s].round = 2 =>
          /\ session[s].state # "new" /\ session[s].pair \in Sessions
          /\ pair[session[s].pair].status # "absent"
          /\ review[session[s].pair].officer # session[s].officer

\* A review is the one of its session.
ReviewInv == \A s \in Reviewed :
    /\ session[s].state # "new"
    /\ review[s].officer = session[s].officer /\ review[s].round = session[s].round

\* A pair begins with a first review, and both of its reviews are there.
PairInv == \A p \in Sessions :
    /\ pair[p].status # "absent" => review[p] # None /\ review[p].round = 1
    /\ pair[p].second # None => review[pair[p].second] # None
    /\ pair[p].second # None <=> pair[p].status \in Resolved

\* What a request knows.
Knows(h) ==
    /\ ~At(h, "idle") => /\ handler[h].session \in Sessions /\ handler[h].decision \in Decisions
                         /\ Of(h).state # "new" /\ Of(h).officer \in Officers
    /\ Inserted(h) => /\ review[handler[h].session] # None
                      /\ review[handler[h].session].decision = handler[h].decision
    /\ handler[h].pc \in First => Of(h).round = 1
    /\ handler[h].pc \in Second => Of(h).round = 2
    /\ At(h, "pair") => pair[handler[h].session].status = "absent"
                        /\ review[handler[h].session].agreed = None
    /\ handler[h].pc \in {"store", "link"} => ~borderline
    /\ handler[h].pc \in {"first", "resolve"} /\ handler[h].status \in Resolved =>
          pair[Of(h).pair].second # None
    /\ handler[h].pc \in {"resolve"} \cup Promoting /\ handler[h].linked # None =>
          review[Of(h).pair].entry # None
    /\ handler[h].pc \in Promoting =>
          review[Of(h).pair].decision = review[handler[h].session].decision
    /\ handler[h].pc \in {"link", "linkboth"} => handler[h].entry \in Sessions

HandlerInv == \A h \in Handlers : Knows(h)

\* One request at most goes on with a session's review.
OneGoesOn == \A g, h \in Handlers :
    g # h /\ Inserted(g) /\ Inserted(h) => handler[g].session # handler[h].session

\* Somebody is about to settle a review.
WorksFor(h, s) ==
    \/ Inserted(h) /\ handler[h].session = s
    \/ handler[h].pc \in Promoting /\ Of(h).pair = s

SettleInv == faults = 0 =>
    \A s \in Reviewed : Settled(s) \/ \E h \in Handlers : WorksFor(h, s)

Core == TypeOK /\ SessionInv /\ ReviewInv /\ PairInv /\ HandlerInv /\ OneGoesOn

IndInv ==
    /\ Core
    /\ ConsensusBehindVault /\ TrainingIsVouchedFor /\ PairIsBorneOut
    /\ SettleInv

-----------------------------------------------------------------------------
(* What lasts *)

\* Who wrote a review and what it says stays; no review goes, nor its entry.
ReviewsLast == \A s \in Sessions : review[s] # None =>
    /\ review'[s] # None
    /\ review'[s].officer = review[s].officer /\ review'[s].round = review[s].round
    /\ review'[s].decision = review[s].decision
    /\ review[s].entry # None => review'[s].entry # None

\* A session that has its review stays as it is.
SessionsStay == \A s \in Reviewed : session'[s] = session[s]

\* A review is not None, and has its parts.
LEMMA Reviews ==
    ASSUME TypeOK, NEW s \in Reviewed
    PROVE  /\ s \in Sessions /\ review[s] \in Review
           /\ review[s].officer \in Officers /\ review[s].decision \in Decisions
           /\ review[s].round \in {1, 2}
BY DEF TypeOK, Reviewed, Review

\* As long as reviews last, the entries that are there stay vouched for.
LEMMA VaultLasts ==
    ASSUME IndInv, ReviewsLast, UNCHANGED <<borderline, vault>>
    PROVE  ConsensusBehindVault' /\ TrainingIsVouchedFor'
<1>1. \A s \in Reviewed : /\ s \in Reviewed' /\ review'[s].officer = review[s].officer
                          /\ review'[s].decision = review[s].decision
    BY DEF ReviewsLast, Reviewed
<1>2. Entries' = Entries
    BY DEF Entries
<1>3. ConsensusBehindVault'
    BY <1>1, <1>2 DEF IndInv, ConsensusBehindVault
<1>4. TrainingIsVouchedFor'
    BY <1>1, <1>2 DEF IndInv, TrainingIsVouchedFor
<1> QED BY <1>3, <1>4

LEMMA Stay == UNCHANGED session => SessionsStay
BY DEF SessionsStay

\* The second reviews of a pair stay its second reviews, and say what they said.
LEMMA SecondsLast ==
    ASSUME IndInv, ReviewsLast, SessionsStay, NEW p \in Sessions, review[p] # None,
           NEW s \in Seconds(p)
    PROVE  /\ s \in Seconds(p)' /\ review'[s].decision = review[s].decision
           /\ review'[p].decision = review[p].decision
BY DEF Seconds, Reviewed, ReviewsLast, SessionsStay

LEMMA PairsLast ==
    ASSUME IndInv, ReviewsLast, SessionsStay, UNCHANGED pair
    PROVE  PairIsBorneOut' /\ PairInv'
<1>1. PairInv'
    BY DEF IndInv, Core, TypeOK, Pair, PairInv, ReviewsLast
<1>2. ASSUME NEW p \in Sessions, pair'[p].second # None
      PROVE  /\ pair'[p].second \in Seconds(p)'
             /\ \E s \in Seconds(p)' :
                   pair'[p].status = IF review'[s].decision = review'[p].decision
                                     THEN "agreed" ELSE "disagreed_escalated"
    <2>1. pair[p].second # None /\ pair'[p] = pair[p] /\ review[p] # None
        BY <1>2 DEF IndInv, Core, PairInv, Resolved
    <2>2. /\ pair[p].second \in Seconds(p)
          /\ \E s \in Seconds(p) :
                pair[p].status = IF review[s].decision = review[p].decision
                                 THEN "agreed" ELSE "disagreed_escalated"
        BY <2>1 DEF IndInv, PairIsBorneOut
    <2> QED BY <2>1, <2>2, SecondsLast
<1> QED BY <1>1, <1>2 DEF PairIsBorneOut

LEMMA SessionsLast ==
    ASSUME IndInv, ReviewsLast, UNCHANGED session,
           \A p \in Sessions : pair[p].status # "absent" => pair'[p].status # "absent"
    PROVE  SessionInv'
BY DEF IndInv, Core, SessionInv, PairInv, ReviewsLast

\* Steps that touch neither reviews nor pairs nor the vault.
LEMMA TablesLast ==
    ASSUME IndInv, SessionsStay, UNCHANGED <<borderline, tables>>
    PROVE  /\ ReviewsLast /\ PairInv'
           /\ ConsensusBehindVault' /\ TrainingIsVouchedFor' /\ PairIsBorneOut'
<1>1. ReviewsLast /\ UNCHANGED <<pair, vault>>
    BY DEF ReviewsLast, tables
<1> QED BY <1>1, VaultLasts, PairsLast

LEMMA InitInv == Init => IndInv
<1> SUFFICES ASSUME Init PROVE IndInv
    OBVIOUS
<1> USE DEF Init, NewSession, Idle, Locals, At, Inserted, First, Second, Promoting, Resolved
<1>1. TypeOK
    BY ReviewAssumption DEF TypeOK, Session, Status, Pair, Handler
<1>2. Reviewed = {} /\ Entries = {}
    BY DEF Reviewed, Entries
<1>3. SessionInv /\ ReviewInv /\ PairInv /\ HandlerInv /\ OneGoesOn
    BY <1>2 DEF SessionInv, ReviewInv, PairInv, HandlerInv, Knows, OneGoesOn
<1>4. ConsensusBehindVault /\ TrainingIsVouchedFor /\ PairIsBorneOut /\ SettleInv
    BY <1>2 DEF ConsensusBehindVault, TrainingIsVouchedFor, PairIsBorneOut, SettleInv
<1> QED BY <1>1, <1>3, <1>4 DEF IndInv, Core

-----------------------------------------------------------------------------
(* One lemma for each action *)

\* A session begins, with a pair that is another officer's.
LEMMA StartInv ==
    ASSUME IndInv, NEW s \in Sessions, NEW o \in Officers, Start(s, o) PROVE IndInv'
<1>0. PICK p \in PendingPair(o) :
        session' = [session EXCEPT ![s] =
            [state |-> IF SessionsKept THEN "stored" ELSE "lost", officer |-> o,
             round |-> IF p = None THEN 1 ELSE 2, pair |-> p]]
    BY DEF Start
<1>1. /\ TypeOK /\ SessionInv /\ session[s].state = "new"
      /\ UNCHANGED <<alert, waited, tables, handler, faults>>
    BY DEF IndInv, Core, Start
<1>2. p # None => p \in Sessions /\ pair[p].status = "awaiting_second" /\ review[p].officer # o
    BY DEF PendingPair, Awaiting
<1>3. /\ session' \in [Sessions -> Session]
      /\ \A t \in Sessions \ {s} : session'[t] = session[t]
      /\ session'[s].state # "new" /\ session'[s].officer = o /\ session'[s].pair = p
      /\ session'[s].round = IF p = None THEN 1 ELSE 2
    <2> DEFINE new == [state |-> IF SessionsKept THEN "stored" ELSE "lost", officer |-> o,
                       round |-> IF p = None THEN 1 ELSE 2, pair |-> p]
    <2>1. p \in Sessions \cup {None}
        BY <1>2
    <2>2. /\ new \in Session /\ new.state # "new" /\ new.officer = o /\ new.pair = p
          /\ new.round = IF p = None THEN 1 ELSE 2
        BY <2>1 DEF Session
    <2> HIDE DEF new
    <2>3. session \in [Sessions -> Session] /\ session' = [session EXCEPT ![s] = new]
        BY <1>0, <1>1 DEF TypeOK, new
    <2> QED BY <2>2, <2>3
<1>4. TypeOK'
    BY <1>1, <1>3 DEF TypeOK, alert, tables
<1>5. SessionInv'
    BY <1>1, <1>2, <1>3 DEF SessionInv, tables
<1>6. ReviewInv'
    BY <1>1, <1>3 DEF IndInv, Core, ReviewInv, Reviewed, tables
<1>7. \A h \in Handlers : ~At(h, "idle") => Of(h)' = Of(h)
    BY <1>1, <1>3 DEF IndInv, Core, HandlerInv, Knows, Of
<1>8. HandlerInv'
    BY <1>1, <1>7 DEF IndInv, Core, HandlerInv, Knows, At, Inserted, First, Second, Promoting,
                      tables, alert
<1>9. OneGoesOn'
    BY <1>1 DEF IndInv, Core, OneGoesOn, Inserted
<1>10. SettleInv'
    BY <1>1, <1>7 DEF IndInv, SettleInv, Settled, Reviewed, WorksFor, Inserted, At, Promoting, tables
<1>11. UNCHANGED <<borderline, tables>>
    BY <1>1 DEF alert
<1>12. SessionsStay
    BY <1>1, <1>3 DEF IndInv, Core, ReviewInv, SessionsStay, Reviewed
<1> QED BY <1>4, <1>5, <1>6, <1>8, <1>9, <1>10, <1>11, <1>12, TablesLast DEF IndInv, Core

\* Time passes for a session: the gate, or the key's life.
LEMMA WaitExpireInv ==
    ASSUME IndInv, NEW s \in Sessions, Wait(s) \/ Expire(s) PROVE IndInv'
<1>1. TypeOK /\ UNCHANGED <<alert, tables, handler, faults>> /\ waited' \subseteq Sessions
    BY DEF IndInv, Core, TypeOK, Wait, Expire
<1>2. \/ UNCHANGED session
      \/ /\ session' = [session EXCEPT ![s] = [NewSession EXCEPT !.state = "lost"]]
         /\ session[s].state = "stored" /\ review[s] = None
         /\ \A h \in Handlers : handler[h].session # s
    BY DEF Wait, Expire
<1>3. /\ session' \in [Sessions -> Session]
      /\ \A t \in Sessions :
            \/ session'[t] = session[t]
            \/ /\ session'[t].state = "lost" /\ session'[t].round = 1
               /\ session[t].state = "stored" /\ review[t] = None
               /\ \A h \in Handlers : handler[h].session # t
    <2>1. PICK lost : lost = [NewSession EXCEPT !.state = "lost"]
        OBVIOUS
    <2>2. lost \in Session /\ lost.state = "lost" /\ lost.round = 1
        BY <2>1 DEF NewSession, Session
    <2> QED BY <1>1, <1>2, <2>1, <2>2 DEF TypeOK
<1>4. TypeOK'
    BY <1>1, <1>3 DEF TypeOK, alert, tables
<1>5. SessionsStay
    BY <1>3 DEF SessionsStay, Reviewed
<1>6. \A h \in Handlers : ~At(h, "idle") => Of(h)' = Of(h)
    BY <1>1, <1>3 DEF IndInv, Core, HandlerInv, Knows, Of
<1>7. SessionInv'
    BY <1>1, <1>3 DEF IndInv, Core, SessionInv, tables
<1>8. ReviewInv'
    BY <1>1, <1>5 DEF IndInv, Core, ReviewInv, Reviewed, SessionsStay, tables
<1>9. HandlerInv'
    BY <1>1, <1>6 DEF IndInv, Core, HandlerInv, Knows, At, Inserted, First, Second, Promoting,
                      tables, alert
<1>10. OneGoesOn'
    BY <1>1 DEF IndInv, Core, OneGoesOn, Inserted
<1>11. SettleInv'
    BY <1>1, <1>6 DEF IndInv, SettleInv, Settled, Reviewed, WorksFor, Inserted, At, Promoting, tables
<1>12. UNCHANGED <<borderline, tables>>
    BY <1>1 DEF alert
<1> QED BY <1>4, <1>5, <1>7, <1>8, <1>9, <1>10, <1>11, <1>12, TablesLast DEF IndInv, Core

LEMMA SubmitInv ==
    ASSUME IndInv, NEW h \in Handlers, NEW s \in Sessions, NEW d \in Decisions, Submit(h, s, d)
    PROVE  IndInv'
<1> DEFINE new == Locals("insert", s, d)
<1>1. /\ TypeOK /\ At(h, "idle") /\ session[s].state = "stored" /\ session[s].officer \in Officers
      /\ handler' = [handler EXCEPT ![h] = new]
      /\ UNCHANGED <<alert, session, waited, tables, faults>>
    BY DEF IndInv, Core, SessionInv, Submit
<1>2. new \in Handler /\ new.pc = "insert" /\ new.session = s /\ new.decision = d
    BY DEF Locals, Handler, Status
<1> HIDE DEF new
<1>3. /\ handler' \in [Handlers -> Handler]
      /\ \A g \in Handlers : handler'[g] = IF g = h THEN new ELSE handler[g]
    BY <1>1, <1>2 DEF TypeOK
<1>4. TypeOK'
    BY <1>1, <1>3 DEF TypeOK, alert, tables
<1>5. SessionInv' /\ ReviewInv'
    BY <1>1 DEF IndInv, Core, SessionInv, ReviewInv, Reviewed, tables
<1>6. HandlerInv'
    <2>1. Knows(h)'
        BY <1>1, <1>2, <1>3 DEF Knows, At, Of, Inserted, First, Second, Promoting
    <2>2. \A g \in Handlers \ {h} : Knows(g)'
        BY <1>1, <1>3 DEF IndInv, Core, HandlerInv, Knows, At, Of, Inserted, tables, alert
    <2> QED BY <2>1, <2>2 DEF HandlerInv
<1>7. OneGoesOn'
    BY <1>2, <1>3 DEF IndInv, Core, OneGoesOn, Inserted, First, Second, Promoting
<1>8. SettleInv'
    <2>1. \A g \in Handlers, t \in Sessions : WorksFor(g, t) => WorksFor(g, t)'
        BY <1>1, <1>3 DEF WorksFor, Inserted, First, Second, Promoting, At, Of
    <2> QED BY <1>1, <2>1 DEF IndInv, SettleInv, Settled, Reviewed, tables
<1>9. UNCHANGED <<borderline, tables>> /\ SessionsStay
    BY <1>1 DEF alert, SessionsStay
<1> QED BY <1>4, <1>5, <1>6, <1>7, <1>8, <1>9, TablesLast DEF IndInv, Core

\* What others know lasts, as a step of a request changes pairs and verdicts
\* only of its own session and of pairs that are there.
LEMMA OthersKnow ==
    ASSUME IndInv, ReviewsLast, UNCHANGED <<alert, session>>,
           NEW h \in Handlers, NEW g \in Handlers, g # h, handler'[g] = handler[g],
           Inserted(h) \/ (At(h, "insert") /\ review[handler[h].session] = None),
           \A s \in Sessions : pair[s].second # None => pair'[s].second # None,
           \A s \in Sessions \ {handler[h].session} :
               pair[s].status = "absent" => /\ pair'[s].status = "absent"
                                            /\ review'[s].agreed = review[s].agreed
    PROVE  Knows(g)'
<1>1. /\ Knows(g) /\ Knows(h) /\ Of(g)' = Of(g) /\ borderline' = borderline
      /\ At(g, "idle")' = At(g, "idle") /\ Inserted(g)' = Inserted(g) /\ SessionInv
    BY DEF IndInv, Core, HandlerInv, Of, At, Inserted, alert
<1>2. Inserted(g) => /\ handler[g].session \in Sessions
                     /\ handler[g].session # handler[h].session
    BY <1>1 DEF IndInv, Core, OneGoesOn, Knows, At, Inserted, First, Second, Promoting
<1>3. handler[g].pc \in Second =>
          /\ handler[g].session \in Sessions /\ review[handler[g].session] # None
          /\ Of(g).pair \in Sessions /\ review[Of(g).pair] # None
    <2> SUFFICES ASSUME handler[g].pc \in Second
                 PROVE  /\ handler[g].session \in Sessions /\ review[handler[g].session] # None
                        /\ Of(g).pair \in Sessions /\ review[Of(g).pair] # None
        OBVIOUS
    <2>1. /\ Of(g).round = 2 /\ handler[g].session \in Sessions
          /\ review[handler[g].session] # None
        BY <1>1, <1>2 DEF Knows, Inserted
    <2> QED BY <1>1, <2>1 DEF SessionInv, Of, IndInv, Core, PairInv
<1>4. Inserted(g) => /\ review'[handler[g].session] # None
                     /\ review'[handler[g].session].decision = handler[g].decision
    BY <1>1, <1>2 DEF Knows, ReviewsLast
<1>5. At(g, "pair") => pair'[handler[g].session].status = "absent"
                       /\ review'[handler[g].session].agreed = None
    BY <1>1, <1>2 DEF Knows, At, Inserted, First
<1>6. handler[g].pc \in {"first", "resolve"} /\ handler[g].status \in Resolved =>
          pair'[Of(g).pair].second # None
    BY <1>1, <1>3 DEF Knows, Second
<1>7. handler[g].pc \in {"resolve"} \cup Promoting /\ handler[g].linked # None =>
          review'[Of(g).pair].entry # None
    BY <1>1, <1>3 DEF Knows, Second, ReviewsLast
<1>8. handler[g].pc \in Promoting =>
          review'[Of(g).pair].decision = review'[handler[g].session].decision
    BY <1>1, <1>3 DEF Knows, Second, ReviewsLast
<1> QED BY <1>1, <1>4, <1>5, <1>6, <1>7, <1>8 DEF Knows, At

\* A request that goes on stays the only one for its session.
LEMMA OneStays ==
    ASSUME IndInv, NEW h \in Handlers, Inserted(h), handler' \in [Handlers -> Handler],
           \A g \in Handlers \ {h} : handler'[g] = handler[g],
           handler'[h].session = handler[h].session \/ handler'[h].pc = "idle"
    PROVE  OneGoesOn'
BY DEF IndInv, Core, OneGoesOn, Inserted, First, Second, Promoting

\* What the handler's own change means.
LEMMA Going ==
    ASSUME TypeOK, NEW h \in Handlers,
           NEW pc \in {"pair", "store", "reconcile", "promote", "add"}, Goto(h, pc)
    PROVE  /\ handler' \in [Handlers -> Handler]
           /\ handler'[h].pc = pc /\ handler'[h].session = handler[h].session
           /\ handler'[h].decision = handler[h].decision
           /\ handler'[h].linked = handler[h].linked
           /\ \A g \in Handlers \ {h} : handler'[g] = handler[g]
BY DEF TypeOK, Handler, Goto

LEMMA Returning ==
    ASSUME TypeOK, NEW h \in Handlers, Return(h)
    PROVE  /\ handler' \in [Handlers -> Handler] /\ handler'[h].pc = "idle" /\ Knows(h)'
           /\ \A g \in Handlers \ {h} : handler'[g] = handler[g]
<1>1. Idle \in Handler /\ Idle.pc = "idle"
    BY DEF Idle, Locals, Handler, Status
<1>2. /\ handler' \in [Handlers -> Handler] /\ handler'[h] = Idle
      /\ \A g \in Handlers \ {h} : handler'[g] = handler[g]
    BY <1>1 DEF TypeOK, Return
<1>3. handler'[h].pc = "idle"
    BY <1>1, <1>2
<1>4. Knows(h)'
    BY <1>3 DEF Knows, At, Inserted, First, Second, Promoting
<1> QED BY <1>2, <1>3, <1>4

\* A review is written: the only one of its session.
LEMMA InsertInv == ASSUME IndInv, NEW h \in Handlers, Insert(h) PROVE IndInv'
<1> DEFINE s == handler[h].session
<1>1. /\ TypeOK /\ At(h, "insert") /\ s \in Sessions /\ handler[h].decision \in Decisions
      /\ session[s].state # "new" /\ session[s].officer \in Officers
      /\ session[s].round \in {1, 2} /\ Of(h) = session[s]
      /\ UNCHANGED <<alert, session, waited, pair, vault, faults>>
    BY DEF IndInv, Core, TypeOK, Session, HandlerInv, Knows, SessionInv, At, Of, Insert
<1>2. CASE review[s] # None
    <2>1. Return(h) /\ UNCHANGED review
        BY <1>2 DEF Insert
    <2>2. TypeOK' /\ SessionInv' /\ ReviewInv'
        BY <1>1, <2>1, Returning DEF IndInv, Core, TypeOK, alert, SessionInv, ReviewInv, Reviewed
    <2>3. \A g \in Handlers \ {h} : Knows(g) /\ handler'[g] = handler[g]
        BY <1>1, <2>1, Returning DEF IndInv, Core, HandlerInv
    <2>4. HandlerInv'
        BY <1>1, <2>1, <2>3, Returning DEF HandlerInv, Knows, At, Of, Inserted, First, Second, Promoting, alert
    <2>5. OneGoesOn'
        BY <1>1, <2>1, Returning DEF IndInv, Core, OneGoesOn, Inserted, First, Second, Promoting
    <2>6. SettleInv'
        <3>1. \A g \in Handlers, t \in Sessions : WorksFor(g, t) => WorksFor(g, t)'
            BY <1>1, <2>1, Returning DEF WorksFor, Inserted, First, Second, Promoting, At, Of
        <3> QED BY <1>1, <2>1, <3>1 DEF IndInv, SettleInv, Settled, Reviewed
    <2> QED BY <1>1, <2>1, <2>2, <2>4, <2>5, <2>6, Stay, TablesLast DEF IndInv, Core, tables, alert
<1>3. CASE review[s] = None
    <2> DEFINE new == [officer |-> session[s].officer, round |-> session[s].round,
                       decision |-> handler[h].decision, agreed |-> None, entry |-> None]
               pc == IF session[s].round = 2 THEN "reconcile"
                     ELSE IF borderline THEN "pair" ELSE "store"
    <2>1. Goto(h, pc) /\ review' = [review EXCEPT ![s] = new]
        BY <1>1, <1>3 DEF Insert
    <2>2. /\ pc \in {"pair", "store", "reconcile"}
          /\ pc = "reconcile" <=> session[s].round = 2
          /\ pc = "store" => ~borderline
        OBVIOUS
    <2>3. /\ new \in Review /\ new # None /\ new.officer = session[s].officer
          /\ new.round = session[s].round /\ new.decision = handler[h].decision
          /\ new.agreed = None
        BY <1>1, NoneAssumption DEF Review
    <2> HIDE DEF new, pc
    <2>4. /\ review' \in [Sessions -> Review \cup {None}]
          /\ \A t \in Sessions : review'[t] = IF t = s THEN new ELSE review[t]
        BY <1>1, <2>1, <2>3 DEF TypeOK
    <2>5. /\ handler' \in [Handlers -> Handler]
          /\ handler'[h].pc = pc /\ handler'[h].session = s
          /\ handler'[h].decision = handler[h].decision
          /\ \A g \in Handlers \ {h} : handler'[g] = handler[g]
        BY <1>1, <2>1, <2>2, Going
    <2>6. ReviewsLast
        BY <1>3, <2>4 DEF ReviewsLast
    <2>7. TypeOK'
        BY <1>1, <2>4, <2>5 DEF TypeOK, alert
    <2>8. SessionInv' /\ PairInv' /\ PairIsBorneOut'
        BY <1>1, <2>6, SessionsLast, Stay, PairsLast
    <2>9. ReviewInv'
        BY <1>1, <2>3, <2>4 DEF IndInv, Core, ReviewInv, Reviewed
    <2>10. ConsensusBehindVault' /\ TrainingIsVouchedFor'
        BY <1>1, <2>6, VaultLasts DEF alert
    <2>11. pair[s].status = "absent"
        BY <1>1, <1>3 DEF IndInv, Core, PairInv
    <2>12. Knows(h)'
        BY <1>1, <2>2, <2>3, <2>4, <2>5, <2>11
           DEF Knows, At, Of, Inserted, First, Second, Promoting, alert
    <2>13. \A g \in Handlers \ {h} : Knows(g)'
        BY <1>1, <1>3, <2>4, <2>5, <2>6, OthersKnow
    <2>14. OneGoesOn'
        <3>1. \A g \in Handlers \ {h} : Inserted(g) => handler[g].session # s
            BY <1>3 DEF IndInv, Core, HandlerInv, Knows
        <3> QED BY <2>5, <3>1 DEF IndInv, Core, OneGoesOn, Inserted
    <2>15. SettleInv'
        <3>1. \A g \in Handlers, t \in Sessions : WorksFor(g, t) => WorksFor(g, t)'
            BY <1>1, <2>5 DEF WorksFor, Inserted, First, Second, Promoting, At, Of
        <3>2. \A t \in {s} : WorksFor(h, t)'
            BY <2>2, <2>5 DEF WorksFor, Inserted, First, Second, Promoting
        <3>3. \A t \in Reviewed' \ {s} : t \in Reviewed /\ (Settled(t) => Settled(t)')
            BY <1>1, <2>4 DEF Settled, Reviewed
        <3> QED BY <1>1, <3>1, <3>2, <3>3 DEF IndInv, SettleInv, Reviewed
    <2> QED BY <2>7, <2>8, <2>9, <2>10, <2>12, <2>13, <2>14, <2>15 DEF IndInv, Core, HandlerInv
<1> QED BY <1>2, <1>3

\* A request past the insertion, its session and its review.
LEMMA Mine ==
    ASSUME IndInv, NEW h \in Handlers, Inserted(h)
    PROVE  LET s == handler[h].session IN
           /\ s \in Sessions /\ Of(h) = session[s] /\ review[s] # None /\ review[s] \in Review
           /\ session[s].state # "new" /\ handler[h].decision \in Decisions
           /\ review[s].officer = session[s].officer /\ review[s].round = session[s].round
           /\ review[s].decision = handler[h].decision
<1> DEFINE s == handler[h].session
<1>1. Knows(h) /\ ~At(h, "idle")
    BY DEF IndInv, Core, HandlerInv, At, Inserted, First, Second, Promoting
<1>2. s \in Reviewed
    BY <1>1 DEF Knows, Reviewed
<1> QED BY <1>1, <1>2, Reviews DEF IndInv, Core, ReviewInv, Knows, Of, Reviewed

\* The pair of a second review: another officer's first review.
LEMMA Partner ==
    ASSUME IndInv, NEW h \in Handlers, handler[h].pc \in Second
    PROVE  LET s == handler[h].session  p == Of(h).pair IN
           /\ p \in Sessions /\ p # s /\ review[p] # None /\ review[p] \in Review
           /\ review[p].officer # review[s].officer /\ review[p].round = 1
           /\ pair[p].status # "absent" /\ session[s].round = 2 /\ session[s].pair = p
<1> DEFINE s == handler[h].session
           p == Of(h).pair
<1>1. Inserted(h) /\ Knows(h)
    BY DEF IndInv, Core, HandlerInv, Inserted
<1>2. s \in Sessions /\ p = session[s].pair /\ review[s].officer = session[s].officer
    BY <1>1, Mine
<1>3. session[s].round = 2
    BY <1>1, <1>2 DEF Knows, Of
<1>4. /\ p \in Sessions /\ pair[p].status # "absent" /\ review[p].officer # session[s].officer
    BY <1>2, <1>3 DEF IndInv, Core, SessionInv
<1>5. review[p] # None /\ review[p].round = 1
    BY <1>4 DEF IndInv, Core, PairInv
<1>6. review[p] \in Review
    BY <1>4, <1>5, Reviews DEF IndInv, Core, Reviewed
<1> QED BY <1>2, <1>3, <1>4, <1>5, <1>6

LEMMA OpenPairInv == ASSUME IndInv, NEW h \in Handlers, OpenPair(h) PROVE IndInv'
<1> DEFINE s == handler[h].session
<1>1. /\ TypeOK /\ Inserted(h) /\ At(h, "pair") /\ Return(h) /\ Knows(h)
      /\ pair' = [pair EXCEPT ![s].status = "awaiting_second"]
      /\ UNCHANGED <<alert, session, waited, review, vault, faults>>
    BY DEF IndInv, Core, HandlerInv, OpenPair, At, Inserted, First
<1>2. /\ s \in Sessions /\ review[s] # None /\ review[s].round = 1 /\ review[s].agreed = None
      /\ pair[s].status = "absent" /\ pair[s].second = None
    BY <1>1, Mine DEF Knows, At, First, IndInv, Core, PairInv, Resolved
<1>3. /\ pair' \in [Sessions -> Pair] /\ pair'[s].status = "awaiting_second"
      /\ pair'[s].second = None
      /\ \A t \in Sessions \ {s} : pair'[t] = pair[t]
    BY <1>1, <1>2 DEF TypeOK, Pair, Status
<1>4. ReviewsLast
    BY <1>1 DEF ReviewsLast
<1>5. TypeOK'
    BY <1>1, <1>3, Returning DEF TypeOK, alert
<1>6. SessionInv' /\ ReviewInv'
    BY <1>1, <1>3, <1>4, SessionsLast DEF IndInv, Core, ReviewInv, Reviewed
<1>7. PairInv'
    BY <1>1, <1>2, <1>3 DEF IndInv, Core, PairInv, Resolved
<1>11. PairIsBorneOut'
    <2>1. \A t \in Sessions : Seconds(t)' = Seconds(t)
        BY <1>1 DEF Seconds, Reviewed
    <2> QED BY <1>1, <1>2, <1>3, <2>1 DEF IndInv, PairIsBorneOut
<1>8. ConsensusBehindVault' /\ TrainingIsVouchedFor'
    BY <1>1, <1>4, VaultLasts DEF alert
<1>9. HandlerInv' /\ OneGoesOn'
    <2>1. \A g \in Handlers \ {h} : Knows(g)'
        BY <1>1, <1>3, <1>4, Returning, OthersKnow
    <2> QED BY <1>1, <2>1, Returning, OneStays DEF HandlerInv
<1>10. SettleInv'
    <2>1. \A g \in Handlers \ {h}, t \in Sessions : WorksFor(g, t) => WorksFor(g, t)'
        BY <1>1, Returning DEF WorksFor, Inserted, At, Of
    <2>2. \A t \in Sessions \ {s} : ~WorksFor(h, t) /\ (Settled(t) => Settled(t)')
        BY <1>1, <1>3 DEF WorksFor, Settled, At, Promoting
    <2>3. \A t \in {s} : Settled(t)'
        BY <1>1, <1>2, <1>3 DEF Settled
    <2> QED BY <1>1, <2>1, <2>2, <2>3 DEF IndInv, SettleInv, Reviewed
<1> QED BY <1>5, <1>6, <1>7, <1>8, <1>9, <1>10, <1>11 DEF IndInv, Core

\* An entry of a single review, which is not borderline.
LEMMA StoreInv == ASSUME IndInv, NEW h \in Handlers, Store(h) PROVE IndInv'
<1> DEFINE s == handler[h].session
           new == [decision |-> handler[h].decision,
                   trust |-> IF Of(h).officer \in Seniors THEN "gold" ELSE "medium"]
           own == [handler[h] EXCEPT !.pc = "link", !.entry = s]
<1>1. /\ TypeOK /\ Inserted(h) /\ At(h, "store") /\ Knows(h)
      /\ vault' = [vault EXCEPT ![s] = new] /\ handler' = [handler EXCEPT ![h] = own]
      /\ UNCHANGED <<alert, session, waited, review, pair, faults>>
    BY DEF IndInv, Core, HandlerInv, Store, At, Inserted, First, TypeOK, Handler
<1>2. /\ s \in Sessions /\ review[s] # None /\ Of(h) = session[s] /\ ~borderline
      /\ review[s].officer = session[s].officer /\ review[s].decision = handler[h].decision
      /\ handler[h].decision \in Decisions
    BY <1>1, Mine DEF Knows, At
<1>3. /\ own \in Handler /\ own.pc = "link" /\ own.session = s
      /\ own.decision = handler[h].decision /\ own.entry = s
    BY <1>1, <1>2 DEF TypeOK, Handler
<1>4. /\ new \in Entry /\ new.decision = handler[h].decision
      /\ new.trust # "medium" => Of(h).officer \in Seniors
    BY <1>2 DEF Entry
<1> HIDE DEF new, own
<1>5. /\ handler' \in [Handlers -> Handler] /\ handler'[h] = own
      /\ \A g \in Handlers \ {h} : handler'[g] = handler[g]
      /\ vault' \in [Sessions -> Entry \cup {None}] /\ vault'[s] = new
      /\ \A t \in Sessions \ {s} : vault'[t] = vault[t]
    BY <1>1, <1>2, <1>3, <1>4 DEF TypeOK
<1>6. ReviewsLast
    BY <1>1 DEF ReviewsLast
<1>7. TypeOK'
    BY <1>1, <1>5 DEF TypeOK, alert
<1>8. SessionInv' /\ ReviewInv' /\ PairInv' /\ PairIsBorneOut'
    BY <1>1, <1>6, SessionsLast, Stay, PairsLast DEF IndInv, Core, ReviewInv, Reviewed
<1>9. ConsensusBehindVault'
    BY <1>1, <1>2 DEF ConsensusBehindVault, alert
<1>10. TrainingIsVouchedFor'
    BY <1>1, <1>2, <1>4, <1>5 DEF IndInv, TrainingIsVouchedFor, Entries, Reviewed
<1>11. HandlerInv' /\ OneGoesOn'
    <2>1. \A g \in Handlers \ {h} : Knows(g)'
        BY <1>1, <1>5, <1>6, OthersKnow
    <2>2. Knows(h)'
        BY <1>1, <1>2, <1>3, <1>5 DEF Knows, At, Of, Inserted, First, Second, Promoting, alert
    <2>3. OneGoesOn'
        BY <1>1, <1>3, <1>5, OneStays
    <2> QED BY <2>1, <2>2, <2>3 DEF HandlerInv
<1>12. SettleInv'
    <2>1. \A g \in Handlers, t \in Sessions : WorksFor(g, t) => WorksFor(g, t)'
        BY <1>1, <1>3, <1>5 DEF WorksFor, Inserted, At, Of, First, Second, Promoting
    <2> QED BY <1>1, <2>1 DEF IndInv, SettleInv, Settled, Reviewed
<1> QED BY <1>7, <1>8, <1>9, <1>10, <1>11, <1>12 DEF IndInv, Core

\* Setting the entry or the verdict of a review leaves the rest of it.
LEMMA WithEntry ==
    ASSUME NEW x \in Review, NEW e \in Sessions \cup {None}, NEW y, y = [x EXCEPT !.entry = e]
    PROVE  /\ y \in Review /\ y # None /\ y.entry = e /\ y.agreed = x.agreed
           /\ y.officer = x.officer /\ y.round = x.round /\ y.decision = x.decision
<1>1. y \in Review
    BY DEF Review
<1> QED BY <1>1, NoneAssumption DEF Review

LEMMA WithVerdict ==
    ASSUME NEW x \in Review, NEW b \in BOOLEAN \cup {None}, NEW y, y = [x EXCEPT !.agreed = b]
    PROVE  /\ y \in Review /\ y # None /\ y.agreed = b /\ y.entry = x.entry
           /\ y.officer = x.officer /\ y.round = x.round /\ y.decision = x.decision
<1>1. y \in Review
    BY DEF Review
<1> QED BY <1>1, NoneAssumption DEF Review

LEMMA LinkInv == ASSUME IndInv, NEW h \in Handlers, Link(h) PROVE IndInv'
<1> DEFINE s == handler[h].session
           e == handler[h].entry
<1>1. /\ TypeOK /\ Inserted(h) /\ At(h, "link") /\ Knows(h) /\ Return(h)
      /\ review' = [review EXCEPT ![s].entry = e]
      /\ UNCHANGED <<alert, session, waited, pair, vault, faults>>
    BY DEF IndInv, Core, HandlerInv, Link, At, Inserted, First
<1>2. /\ s \in Sessions /\ review[s] # None /\ review[s] \in Review /\ e \in Sessions
    BY <1>1, Mine DEF Knows, At
<1>3. /\ review' \in [Sessions -> Review \cup {None}]
      /\ review'[s] = [review[s] EXCEPT !.entry = e]
      /\ \A t \in Sessions \ {s} : review'[t] = review[t]
    BY <1>1, <1>2, WithEntry DEF TypeOK
<1>4. /\ review'[s] # None /\ review'[s].entry = e /\ review'[s].agreed = review[s].agreed
      /\ review'[s].officer = review[s].officer /\ review'[s].round = review[s].round
      /\ review'[s].decision = review[s].decision
    BY <1>2, <1>3, WithEntry
<1>5. ReviewsLast
    BY <1>2, <1>3, <1>4, ReviewAssumption DEF ReviewsLast
<1>6. TypeOK'
    BY <1>1, <1>3, Returning DEF TypeOK, alert
<1>7. SessionInv' /\ PairInv' /\ PairIsBorneOut' /\ ConsensusBehindVault' /\ TrainingIsVouchedFor'
    BY <1>1, <1>5, SessionsLast, Stay, PairsLast, VaultLasts DEF alert
<1>8. ReviewInv'
    BY <1>1, <1>2, <1>3, <1>4 DEF IndInv, Core, ReviewInv, Reviewed
<1>9. HandlerInv' /\ OneGoesOn'
    <2>1. \A g \in Handlers \ {h} : Knows(g)'
        BY <1>1, <1>3, <1>5, Returning, OthersKnow
    <2> QED BY <1>1, <2>1, Returning, OneStays DEF HandlerInv
<1>10. SettleInv'
    <2>1. \A g \in Handlers \ {h}, t \in Sessions : WorksFor(g, t) => WorksFor(g, t)'
        BY <1>1, Returning DEF WorksFor, Inserted, At, Of
    <2>2. \A t \in Sessions \ {s} : ~WorksFor(h, t) /\ (Settled(t) => Settled(t)')
        BY <1>1, <1>3 DEF WorksFor, Settled, At, Promoting
    <2>3. \A t \in {s} : Settled(t)'
        BY <1>2, <1>4, ReviewAssumption DEF Settled
    <2>4. \A t \in Reviewed' : t \in Reviewed
        BY <1>2, <1>3 DEF Reviewed
    <2> QED BY <1>1, <2>1, <2>2, <2>3, <2>4 DEF IndInv, SettleInv, Reviewed
<1> QED BY <1>6, <1>7, <1>8, <1>9, <1>10 DEF IndInv, Core

\* A step that sets the verdict or the entry of two reviews.
LEMMA TwoRows ==
    ASSUME TypeOK, NEW s \in Sessions, NEW p \in Sessions, p # s, NEW x \in Review, NEW y \in Review,
           NEW r, r = [review EXCEPT ![p] = x, ![s] = y]
    PROVE  /\ r \in [Sessions -> Review \cup {None}] /\ r[p] = x /\ r[s] = y
           /\ \A t \in Sessions \ {s, p} : r[t] = review[t]
BY DEF TypeOK

\* A step that only changes what the request of a second review knows.
LEMMA LocalsInv ==
    ASSUME IndInv, NEW h \in Handlers, NEW own \in Handler,
           handler[h].pc \in Second, own.pc \in Second, own.session = handler[h].session,
           handler[h].pc \in Promoting => own.pc \in Promoting,
           handler' = [handler EXCEPT ![h] = own], Knows(h)',
           UNCHANGED <<alert, session, waited, tables, faults>>
    PROVE  IndInv'
<1>1. /\ TypeOK /\ Inserted(h) /\ UNCHANGED <<borderline, tables, review, pair>>
      /\ SessionsStay /\ ReviewsLast
    BY Stay DEF IndInv, Core, Inserted, alert, tables, ReviewsLast
<1>2. /\ handler' \in [Handlers -> Handler] /\ handler'[h] = own
      /\ \A g \in Handlers \ {h} : handler'[g] = handler[g]
    BY <1>1 DEF TypeOK
<1>3. TypeOK'
    BY <1>1, <1>2 DEF TypeOK, alert, tables
<1>4. SessionInv' /\ ReviewInv'
    BY <1>1 DEF IndInv, Core, SessionInv, ReviewInv, Reviewed
<1>5. HandlerInv'
    <2>1. \A g \in Handlers \ {h} : Knows(g)'
        BY <1>1, <1>2, OthersKnow
    <2> QED BY <2>1 DEF HandlerInv
<1>6. OneGoesOn'
    BY <1>1, <1>2, OneStays
<1>7. SettleInv'
    <2>1. \A g \in Handlers, t \in Sessions : WorksFor(g, t) => WorksFor(g, t)'
        BY <1>2 DEF WorksFor, Inserted, Of
    <2> QED BY <1>1, <2>1 DEF IndInv, SettleInv, Settled, Reviewed
<1> QED BY <1>1, <1>3, <1>4, <1>5, <1>6, <1>7, TablesLast DEF IndInv, Core

\* Once the pair is read as resolved it stays so.
LEMMA ReadPairInv == ASSUME IndInv, NEW h \in Handlers, ReadPair(h) PROVE IndInv'
<1>1. /\ TypeOK /\ Inserted(h) /\ At(h, "reconcile") /\ Knows(h) /\ handler[h].pc \in Second
      /\ handler[h].pc \notin Promoting
      /\ UNCHANGED <<alert, session, waited, tables, faults>>
    BY DEF IndInv, Core, HandlerInv, ReadPair, At, Inserted, Second, Promoting
<1>2. PICK p \in Sessions : p = Of(h).pair
    BY <1>1, Partner
<1>10. PICK st \in Status : st = pair[p].status
    BY <1>1 DEF TypeOK, Pair
<1>3. PICK own : own = [handler[h] EXCEPT !.pc = "first", !.status = st]
    OBVIOUS
<1>4. handler' = [handler EXCEPT ![h] = own]
    BY <1>1, <1>2, <1>3, <1>10 DEF ReadPair, TypeOK, Handler
<1>5. /\ own \in Handler /\ own.pc = "first" /\ own.session = handler[h].session
      /\ own.decision = handler[h].decision /\ own.status = pair[p].status
    BY <1>1, <1>3, <1>10 DEF TypeOK, Handler
<1>6. pair[p].status \in Resolved => pair[p].second # None
    BY DEF IndInv, Core, PairInv
<1>7. handler'[h] = own /\ Of(h)' = Of(h)
    BY <1>1, <1>4, <1>5 DEF TypeOK, Of
<1>8. Knows(h)'
    BY <1>1, <1>2, <1>5, <1>6, <1>7
       DEF Knows, At, Inserted, First, Second, Promoting, alert, tables
<1>9. own.pc \in Second
    BY <1>5 DEF Second
<1> QED BY <1>1, <1>4, <1>5, <1>8, <1>9, LocalsInv

\* Once the first review is read with its entry it keeps one.
LEMMA ReadFirstInv == ASSUME IndInv, NEW h \in Handlers, ReadFirst(h) PROVE IndInv'
<1>1. /\ TypeOK /\ Inserted(h) /\ At(h, "first") /\ Knows(h) /\ handler[h].pc \in Second
      /\ handler[h].pc \notin Promoting
      /\ UNCHANGED <<alert, session, waited, tables, faults>>
    BY DEF IndInv, Core, HandlerInv, ReadFirst, At, Inserted, Second, Promoting
<1>2. PICK p \in Sessions : p = Of(h).pair /\ review[p] \in Review
    BY <1>1, Partner
<1>9. PICK a \in BOOLEAN \cup {None}, e \in Sessions \cup {None} :
          a = review[p].agreed /\ e = review[p].entry
    <2>1. review[p].agreed \in BOOLEAN \cup {None} /\ review[p].entry \in Sessions \cup {None}
        BY <1>2 DEF Review
    <2> QED BY <2>1
<1>3. PICK own : own = [handler[h] EXCEPT !.pc = "resolve", !.agreed = a, !.linked = e]
    OBVIOUS
<1>4. handler' = [handler EXCEPT ![h] = own]
    BY <1>1, <1>2, <1>3, <1>9 DEF ReadFirst, TypeOK, Handler
<1>5. /\ own \in Handler /\ own.pc = "resolve" /\ own.session = handler[h].session
      /\ own.decision = handler[h].decision /\ own.status = handler[h].status
      /\ own.linked = review[p].entry
    <2>1. /\ own.pc = "resolve" /\ own.session = handler[h].session
          /\ own.decision = handler[h].decision /\ own.status = handler[h].status
          /\ own.linked = review[p].entry
        BY <1>1, <1>3, <1>9 DEF TypeOK, Handler
    <2>2. own \in Handler
        BY <1>1, <1>3 DEF TypeOK, Handler
    <2> QED BY <2>1, <2>2
<1>6. handler'[h] = own /\ Of(h)' = Of(h)
    BY <1>1, <1>4, <1>5 DEF TypeOK, Of
<1>7. Knows(h)'
    BY <1>1, <1>2, <1>5, <1>6
       DEF Knows, At, Inserted, First, Second, Promoting, alert, tables
<1>8. own.pc \in Second
    BY <1>5 DEF Second
<1> QED BY <1>1, <1>4, <1>5, <1>7, <1>8, LocalsInv

\* What a second review writes: its own verdict and its name; the verdict of the
\* first review and the status of the pair it writes or leaves as they are.
LEMMA Resolving ==
    ASSUME IndInv, NEW h \in Handlers, Resolve(h)
    PROVE  LET s == handler[h].session  p == Of(h).pair  b == Agrees(h)
               to == IF b THEN "agreed" ELSE "disagreed_escalated" IN
           /\ review' \in [Sessions -> Review \cup {None}]
           /\ review'[s] \in Review /\ review'[s].agreed = b
           /\ review'[p] \in Review /\ review'[p].agreed \in {b, review[p].agreed}
           /\ \A t \in {s, p} : /\ review'[t] # None /\ review'[t].officer = review[t].officer
                                /\ review'[t].round = review[t].round
                                /\ review'[t].decision = review[t].decision
                                /\ review'[t].entry = review[t].entry
           /\ \A t \in Sessions \ {s, p} : review'[t] = review[t]
           /\ pair' \in [Sessions -> Pair] /\ pair'[p].second = s
           /\ pair'[p].status = IF to = handler[h].status THEN pair[p].status ELSE to
           /\ \A t \in Sessions \ {p} : pair'[t] = pair[t]
           /\ ReviewsLast /\ Reviewed' = Reviewed
<1>0. PICK s, p, b, to : /\ s = handler[h].session /\ p = Of(h).pair /\ b = Agrees(h)
                         /\ to = IF b THEN "agreed" ELSE "disagreed_escalated"
    OBVIOUS
<1>1. /\ TypeOK /\ Inserted(h) /\ handler[h].pc \in Second /\ b \in BOOLEAN
      /\ ResolveTo(h, to, b)
    BY <1>0 DEF IndInv, Core, Resolve, Agrees, At, Inserted, Second
<1>2. s \in Sessions /\ review[s] # None /\ review[s] \in Review
    BY <1>0, <1>1, Mine
<1>3. p \in Sessions /\ p # s /\ review[p] # None /\ review[p] \in Review
    BY <1>0, <1>1, Partner
<1>4. PICK c : c = IF b = handler[h].agreed THEN review[p].agreed ELSE b
    OBVIOUS
<1>5. c \in BOOLEAN \cup {None} /\ c \in {b, review[p].agreed}
    BY <1>1, <1>3, <1>4 DEF Review
<1>6. PICK x, y : x = [review[p] EXCEPT !.agreed = c] /\ y = [review[s] EXCEPT !.agreed = b]
    OBVIOUS
<1>7. /\ x \in Review /\ x # None /\ x.agreed = c /\ x.officer = review[p].officer
      /\ x.round = review[p].round /\ x.decision = review[p].decision /\ x.entry = review[p].entry
    BY <1>3, <1>5, <1>6, WithVerdict
<1>8. /\ y \in Review /\ y # None /\ y.agreed = b /\ y.officer = review[s].officer
      /\ y.round = review[s].round /\ y.decision = review[s].decision /\ y.entry = review[s].entry
    BY <1>1, <1>2, <1>6, WithVerdict
<1>9. review' = [review EXCEPT ![p] = x, ![s] = y]
    BY <1>0, <1>1, <1>2, <1>3, <1>4, <1>6 DEF ResolveTo, TypeOK
<1>10. /\ review' \in [Sessions -> Review \cup {None}] /\ review'[p] = x /\ review'[s] = y
       /\ \A t \in Sessions \ {s, p} : review'[t] = review[t]
    BY <1>1, <1>2, <1>3, <1>7, <1>8, <1>9, TwoRows
<1>11. PICK q : q = [status |-> IF to = handler[h].status THEN pair[p].status ELSE to,
                     second |-> s]
    OBVIOUS
<1>12. /\ q \in Pair /\ q.second = s
       /\ q.status = IF to = handler[h].status THEN pair[p].status ELSE to
    BY <1>0, <1>1, <1>2, <1>3, <1>11 DEF TypeOK, Pair, Status
<1>13. pair' = [pair EXCEPT ![p] = q]
    BY <1>0, <1>1, <1>3, <1>11 DEF ResolveTo, TypeOK
<1>14. /\ pair' \in [Sessions -> Pair] /\ pair'[p] = q
       /\ \A t \in Sessions \ {p} : pair'[t] = pair[t]
    BY <1>1, <1>3, <1>12, <1>13 DEF TypeOK
<1>15. ReviewsLast
    BY <1>7, <1>8, <1>10 DEF ReviewsLast
<1>16. Reviewed' = Reviewed
    BY <1>2, <1>3, <1>7, <1>8, <1>10 DEF Reviewed
<1> QED BY <1>0, <1>5, <1>7, <1>8, <1>10, <1>12, <1>14, <1>15, <1>16

\* A second review resolves the pair.
LEMMA ResolveInv == ASSUME IndInv, NEW h \in Handlers, Resolve(h) PROVE IndInv'
<1>0. PICK s, p, b, to : /\ s = handler[h].session /\ p = Of(h).pair
                         /\ b \in BOOLEAN /\ b = Agrees(h)
                         /\ b = (review[p].decision = review[s].decision)
                         /\ to = IF b THEN "agreed" ELSE "disagreed_escalated"
    BY DEF Agrees
<1>1. /\ TypeOK /\ Inserted(h) /\ At(h, "resolve") /\ Knows(h) /\ handler[h].pc \in Second
      /\ IF b THEN Goto(h, "promote") ELSE Return(h)
      /\ UNCHANGED <<alert, session, waited, vault, faults>>
    BY <1>0 DEF IndInv, Core, HandlerInv, Resolve, ResolveTo, At, Inserted, Second
<1>2. /\ s \in Sessions /\ review[s] # None /\ review[s] \in Review /\ Of(h) = session[s]
      /\ review[s].decision = handler[h].decision /\ handler[h].decision \in Decisions
      /\ session[s].state # "new" /\ session[s].officer \in Officers
    <2>1. Of(h).officer \in Officers
        BY <1>1 DEF Knows, At
    <2> QED BY <1>0, <1>1, <2>1, Mine
<1>3. /\ p \in Sessions /\ p # s /\ review[p] # None /\ review[p] \in Review
      /\ review[p].officer # review[s].officer /\ review[p].round = 1
      /\ pair[p].status # "absent" /\ session[s].round = 2 /\ session[s].pair = p
    BY <1>0, <1>1, Partner
<1>6. /\ review' \in [Sessions -> Review \cup {None}]
      /\ review'[s].agreed = b /\ review'[p].agreed \in {b, review[p].agreed}
      /\ \A t \in {s, p} : /\ review'[t] # None /\ review'[t].officer = review[t].officer
                           /\ review'[t].round = review[t].round
                           /\ review'[t].decision = review[t].decision
                           /\ review'[t].entry = review[t].entry
      /\ \A t \in Sessions \ {s, p} : review'[t] = review[t]
    BY <1>0, Resolving
<1>7. /\ pair' \in [Sessions -> Pair] /\ pair'[p].second = s
      /\ pair'[p].status = IF to = handler[h].status THEN pair[p].status ELSE to
      /\ \A t \in Sessions \ {p} : pair'[t] = pair[t]
    BY <1>0, Resolving
<1>8. ReviewsLast /\ Reviewed' = Reviewed /\ SessionsStay
    BY <1>1, Resolving, Stay
\* A status that was read as it is to be was a resolved one, and still is.
<1>4. to = handler[h].status => pair[p].second # None /\ pair[p].status \in Resolved
    <2>1. to \in Resolved
        BY <1>0 DEF Resolved
    <2>2. to = handler[h].status => pair[p].second # None
        BY <1>0, <1>1, <2>1 DEF Knows, At
    <2> QED BY <1>3, <2>2 DEF IndInv, Core, PairInv
<1>5. pair'[p].status \in Resolved
    BY <1>0, <1>4, <1>7 DEF Resolved
<1>9. /\ handler' \in [Handlers -> Handler]
      /\ \A g \in Handlers \ {h} : handler'[g] = handler[g]
      /\ \/ /\ b /\ handler'[h].pc = "promote" /\ handler'[h].session = s
            /\ handler'[h].decision = handler[h].decision
            /\ handler'[h].linked = handler[h].linked
         \/ ~b /\ handler'[h].pc = "idle" /\ Knows(h)'
    BY <1>0, <1>1, Going, Returning
<1>10. TypeOK'
    BY <1>1, <1>6, <1>7, <1>9 DEF TypeOK, alert
<1>11. SessionInv' /\ ConsensusBehindVault' /\ TrainingIsVouchedFor'
    <2>1. \A t \in Sessions : pair[t].status # "absent" => pair'[t].status # "absent"
        BY <1>5, <1>7 DEF Resolved
    <2> QED BY <1>1, <1>8, <2>1, SessionsLast, VaultLasts DEF alert
<1>12. ReviewInv'
    <2>1. \A t \in Reviewed :
            review'[t].officer = review[t].officer /\ review'[t].round = review[t].round
        BY <1>8 DEF Reviewed, ReviewsLast
    <2> QED BY <1>1, <1>8, <2>1 DEF IndInv, Core, ReviewInv
<1>13. PairInv'
    <2> SUFFICES ASSUME NEW t \in Sessions
                 PROVE  /\ pair'[t].status # "absent" => review'[t] # None /\ review'[t].round = 1
                        /\ pair'[t].second # None => review'[pair'[t].second] # None
                        /\ pair'[t].second # None <=> pair'[t].status \in Resolved
        BY DEF PairInv
    <2>1. CASE t = p
        BY <1>2, <1>3, <1>5, <1>6, <1>7, <2>1, ReviewAssumption
    <2>2. CASE t # p
        <3>1. pair'[t] = pair[t] /\ pair[t].second \in Sessions \cup {None}
            BY <1>1, <1>7, <2>2 DEF TypeOK, Pair
        <3> QED BY <1>8, <3>1 DEF IndInv, Core, PairInv, ReviewsLast
    <2> QED BY <2>1, <2>2
<1>14. PairIsBorneOut'
    <2>0. \A t \in Sessions : pair[t].second # None =>
              /\ pair[t].second \in Seconds(t) /\ review[t] # None
              /\ \E r \in Seconds(t) :
                    pair[t].status = IF review[r].decision = review[t].decision
                                     THEN "agreed" ELSE "disagreed_escalated"
        BY DEF IndInv, Core, PairInv, PairIsBorneOut, Resolved
    <2>1. s \in Seconds(p)'
        <3>1. /\ s \in Reviewed' /\ session'[s].round = 2 /\ session'[s].pair = p
            BY <1>1, <1>2, <1>3, <1>8 DEF Reviewed
        <3>2. review'[s].officer # review'[p].officer
            BY <1>3, <1>6
        <3> QED BY <3>1, <3>2 DEF Seconds
    <2>2. review'[s].decision = review[s].decision /\ review'[p].decision = review[p].decision
        BY <1>6
    <2>3. \E r \in Seconds(p)' :
              pair'[p].status = IF review'[r].decision = review'[p].decision
                                THEN "agreed" ELSE "disagreed_escalated"
        <3>1. CASE to = handler[h].status
            <4>1. PICK r \in Seconds(p) :
                      pair[p].status = IF review[r].decision = review[p].decision
                                       THEN "agreed" ELSE "disagreed_escalated"
                BY <1>3, <1>4, <2>0, <3>1
            <4>2. r \in Seconds(p)' /\ review'[r].decision = review[r].decision
                BY <1>3, <1>8, SecondsLast
            <4>3. pair'[p].status = pair[p].status
                BY <1>7, <3>1
            <4> QED BY <2>2, <4>1, <4>2, <4>3
        <3>2. CASE to # handler[h].status
            <4>1. pair'[p].status = to
                BY <1>7, <3>2
            <4>2. to = IF review'[s].decision = review'[p].decision
                       THEN "agreed" ELSE "disagreed_escalated"
                BY <1>0, <2>2
            <4> QED BY <2>1, <4>1, <4>2
        <3> QED BY <3>1, <3>2
    <2> SUFFICES ASSUME NEW t \in Sessions, pair'[t].second # None
                 PROVE  /\ pair'[t].second \in Seconds(t)'
                        /\ \E r \in Seconds(t)' :
                              pair'[t].status = IF review'[r].decision = review'[t].decision
                                                THEN "agreed" ELSE "disagreed_escalated"
        BY DEF PairIsBorneOut
    <2>4. CASE t = p
        BY <1>7, <2>1, <2>3, <2>4
    <2>5. CASE t # p
        <3>1. pair'[t] = pair[t] /\ pair[t].second # None
            BY <1>7, <2>5
        <3> QED BY <1>8, <2>0, <3>1, SecondsLast
    <2> QED BY <2>4, <2>5
<1>15. HandlerInv' /\ OneGoesOn'
    <2>1. /\ \A t \in Sessions \ {s} :
                pair[t].status = "absent" => /\ pair'[t].status = "absent"
                                             /\ review'[t].agreed = review[t].agreed
          /\ \A t \in Sessions : pair[t].second # None => pair'[t].second # None
        BY <1>2, <1>3, <1>6, <1>7, ReviewAssumption
    <2>2. \A g \in Handlers \ {h} : Knows(g)'
        BY <1>0, <1>1, <1>8, <1>9, <2>1, OthersKnow
    <2>3. Knows(h)'
        <3>1. CASE b
            <4>1. /\ handler'[h].pc = "promote" /\ handler'[h].session = s
                  /\ handler'[h].decision = handler[h].decision
                  /\ handler'[h].linked = handler[h].linked
                BY <1>9, <3>1
            <4>2. Of(h)' = session[s]
                BY <1>0, <1>1, <4>1 DEF Of
            <4>3. review'[p].decision = review'[s].decision
                BY <1>0, <1>6, <3>1
            <4>4. handler[h].linked # None => review[p].entry # None
                BY <1>0, <1>1 DEF Knows, At
            <4>5. review'[s] # None /\ review'[s].decision = handler[h].decision
                BY <1>2, <1>6
            <4>6. handler[h].linked # None => review'[p].entry # None
                BY <1>6, <4>4
            <4> QED BY <1>1, <1>2, <1>3, <4>1, <4>2, <4>3, <4>5, <4>6
                    DEF Knows, At, Inserted, First, Second, Promoting
        <3> QED BY <1>9, <3>1
    <2>4. OneGoesOn'
        BY <1>0, <1>1, <1>9, OneStays
    <2> QED BY <2>2, <2>3, <2>4 DEF HandlerInv
<1>16. SettleInv'
    <2>1. \A g \in Handlers \ {h}, t \in Sessions : WorksFor(g, t) => WorksFor(g, t)'
        BY <1>1, <1>9 DEF WorksFor, Inserted, At, Of
    <2>2. \A t \in Sessions \ {s, p} : ~WorksFor(h, t) /\ (Settled(t) => Settled(t)')
        BY <1>0, <1>1, <1>6, <1>7 DEF WorksFor, Settled, At, Promoting
    <2>3. Settled(s)' \/ WorksFor(h, s)'
        BY <1>6, <1>9 DEF Settled, WorksFor, Inserted, Second, Promoting
    <2>4. Settled(p)' \/ WorksFor(h, p)' \/ (~WorksFor(h, p) /\ (Settled(p) => Settled(p)'))
        <3>1. CASE b
            <4>1. /\ handler'[h].pc = "promote" /\ handler'[h].session = s /\ Of(h)'.pair = p
                BY <1>0, <1>1, <1>9, <3>1 DEF Of
            <4> QED BY <4>1 DEF WorksFor, Promoting
        <3>2. CASE ~b /\ review'[p].agreed = b
            BY <1>0, <3>2 DEF Settled
        <3>3. CASE ~b /\ review'[p].agreed = review[p].agreed
            <4>1. ~WorksFor(h, p)
                BY <1>0, <1>1, <1>3 DEF WorksFor, At, Promoting
            <4>2. Settled(p) => Settled(p)'
                BY <1>5, <1>6, <3>3 DEF Settled, Resolved
            <4> QED BY <4>1, <4>2
        <3> QED BY <1>0, <1>6, <3>1, <3>2, <3>3
    <2> QED BY <1>1, <1>8, <2>1, <2>2, <2>3, <2>4 DEF IndInv, SettleInv, Reviewed
<1> QED BY <1>10, <1>11, <1>12, <1>13, <1>14, <1>15, <1>16 DEF IndInv, Core

\* The entry is looked for: one is found, or is to be added.
LEMMA PromoteInv == ASSUME IndInv, NEW h \in Handlers, Promote(h) PROVE IndInv'
<1>1. /\ TypeOK /\ At(h, "promote") /\ Knows(h) /\ handler[h].pc \in Second
      /\ UNCHANGED <<alert, session, waited, tables, faults>>
    BY DEF IndInv, Core, HandlerInv, Promote, At, Second, Promoting
<1> DEFINE Fits(own) ==
        /\ handler' = [handler EXCEPT ![h] = own] /\ own \in Handler
        /\ own.session = handler[h].session /\ own.decision = handler[h].decision
        /\ own.linked = handler[h].linked
        /\ own.pc = "add" \/ (own.pc = "linkboth" /\ own.entry \in Sessions)
<1>2. PICK own : Fits(own)
    <2>1. ASSUME Goto(h, "add") PROVE \E own : Fits(own)
        <3>1. PICK new : new = [handler[h] EXCEPT !.pc = "add"]
            OBVIOUS
        <3>2. /\ new \in Handler /\ new.session = handler[h].session /\ new.pc = "add"
              /\ new.decision = handler[h].decision /\ new.linked = handler[h].linked
            BY <1>1, <3>1 DEF TypeOK, Handler
        <3>3. handler' = [handler EXCEPT ![h] = new]
            BY <1>1, <2>1, <3>1 DEF Goto, TypeOK, Handler
        <3>4. Fits(new)
            BY <3>2, <3>3
        <3> QED BY <3>4
    <2>2. ASSUME NEW e \in Sessions,
                 handler' = [handler EXCEPT ![h].pc = "linkboth", ![h].entry = e]
          PROVE  \E own : Fits(own)
        <3>1. PICK new : new = [handler[h] EXCEPT !.pc = "linkboth", !.entry = e]
            OBVIOUS
        <3>2. /\ new \in Handler /\ new.session = handler[h].session /\ new.pc = "linkboth"
              /\ new.decision = handler[h].decision /\ new.linked = handler[h].linked
              /\ new.entry = e
            BY <1>1, <3>1 DEF TypeOK, Handler
        <3>3. handler' = [handler EXCEPT ![h] = new]
            BY <1>1, <2>2, <3>1 DEF TypeOK, Handler
        <3>4. Fits(new)
            BY <3>2, <3>3
        <3> QED BY <3>4
    <2> QED BY <2>1, <2>2 DEF Promote, Entries
<1>3. handler'[h] = own /\ Of(h)' = Of(h)
    BY <1>1, <1>2 DEF TypeOK, Of
<1>4. Knows(h)'
    BY <1>1, <1>2, <1>3 DEF Knows, At, Inserted, First, Second, Promoting, alert, tables
<1>5. own.pc \in Second /\ own.pc \in Promoting
    BY <1>2 DEF Second, Promoting
<1> QED BY <1>1, <1>2, <1>4, <1>5, LocalsInv

\* Two reviews that agree become an entry.
LEMMA AddInv == ASSUME IndInv, NEW h \in Handlers, Add(h) PROVE IndInv'
<1>0. PICK s, p : s = handler[h].session /\ p = Of(h).pair
    OBVIOUS
<1>1. /\ TypeOK /\ Inserted(h) /\ At(h, "add") /\ Knows(h) /\ handler[h].pc \in Second
      /\ UNCHANGED <<alert, session, waited, review, pair, faults>> /\ SessionsStay
    BY Stay DEF IndInv, Core, HandlerInv, Add, AddWith, At, Inserted, Second, Promoting
<1>2. /\ s \in Sessions /\ review[s] # None /\ review[s] \in Review /\ Of(h) = session[s]
      /\ review[s].decision = handler[h].decision /\ session[s].state # "new"
      /\ handler[h].decision \in Decisions
    BY <1>0, <1>1, Mine
<1>3. /\ p \in Sessions /\ p # s /\ review[p] # None
      /\ review[p].officer # review[s].officer /\ review[p].decision = review[s].decision
    BY <1>0, <1>1, Partner DEF Knows, At, Promoting
<1>4. /\ handler' = [handler EXCEPT ![h].pc = "linkboth", ![h].entry = s]
      /\ vault' = [vault EXCEPT ![s] = [decision |-> review[s].decision, trust |-> "high"]]
    BY <1>0 DEF Add, AddWith
<1>5. /\ handler' \in [Handlers -> Handler] /\ handler'[h].pc = "linkboth"
      /\ handler'[h].session = s /\ handler'[h].decision = handler[h].decision
      /\ handler'[h].entry = s /\ handler'[h].linked = handler[h].linked
      /\ \A g \in Handlers \ {h} : handler'[g] = handler[g]
    <2>1. PICK own : own = [handler[h] EXCEPT !.pc = "linkboth", !.entry = s]
        OBVIOUS
    <2>2. /\ own \in Handler /\ own.pc = "linkboth" /\ own.session = s
          /\ own.decision = handler[h].decision /\ own.entry = s
          /\ own.linked = handler[h].linked
        BY <1>0, <1>1, <1>2, <2>1 DEF TypeOK, Handler
    <2>3. handler' = [handler EXCEPT ![h] = own]
        BY <1>1, <1>4, <2>1 DEF TypeOK, Handler
    <2> QED BY <1>1, <2>2, <2>3 DEF TypeOK
<1>6. /\ vault' \in [Sessions -> Entry \cup {None}]
      /\ \A t \in Sessions \ {s} : vault'[t] = vault[t]
      /\ vault'[s].decision = review[s].decision
    <2>1. [decision |-> review[s].decision, trust |-> "high"] \in Entry
        BY <1>2 DEF Entry
    <2> QED BY <1>1, <1>2, <1>4, <2>1 DEF TypeOK
<1>7. ReviewsLast
    BY <1>1 DEF ReviewsLast
<1>8. TypeOK'
    BY <1>1, <1>5, <1>6 DEF TypeOK, alert
<1>9. SessionInv' /\ ReviewInv' /\ PairInv' /\ PairIsBorneOut'
    BY <1>1, <1>7, SessionsLast, PairsLast DEF IndInv, Core, ReviewInv, Reviewed
<1>10. \A t \in Entries' : \/ t \in Entries /\ vault'[t] = vault[t]
                           \/ vault'[t].decision = review[s].decision
    BY <1>6 DEF Entries
<1>11. s \in Reviewed /\ p \in Reviewed /\ Reviewed' = Reviewed
    BY <1>1, <1>2, <1>3 DEF Reviewed
<1>12. ConsensusBehindVault' /\ TrainingIsVouchedFor'
    <2>1. borderline' = borderline /\ review' = review
        BY <1>1 DEF alert
    <2>2. ConsensusBehindVault'
        <3>1. ASSUME borderline, NEW t \in Entries'
              PROVE  \E q, r \in Reviewed :
                         /\ review[q].officer # review[r].officer
                         /\ {review[q].decision, review[r].decision} = {vault'[t].decision}
            <4>1. CASE t \in Entries /\ vault'[t] = vault[t]
                BY <3>1, <4>1 DEF IndInv, ConsensusBehindVault
            <4>2. CASE vault'[t].decision = review[s].decision
                BY <1>3, <1>11, <4>2
            <4> QED BY <1>10, <3>1, <4>1, <4>2
        <3>2. ASSUME borderline', NEW t \in Entries'
              PROVE  \E q, r \in Reviewed' :
                         /\ review'[q].officer # review'[r].officer
                         /\ {review'[q].decision, review'[r].decision} = {vault'[t].decision}
            BY <1>11, <2>1, <3>1, <3>2
        <3> QED BY <3>2 DEF ConsensusBehindVault
    <2>3. TrainingIsVouchedFor'
        <3>1. ASSUME NEW t \in Entries', vault'[t].trust # "medium"
              PROVE  \E q \in Reviewed :
                         /\ review[q].decision = vault'[t].decision
                         /\ \/ review[q].officer \in Seniors
                            \/ \E r \in Reviewed : /\ review[r].officer # review[q].officer
                                                   /\ review[r].decision = vault'[t].decision
            <4>1. CASE t \in Entries /\ vault'[t] = vault[t]
                BY <3>1, <4>1 DEF IndInv, TrainingIsVouchedFor
            <4>2. CASE vault'[t].decision = review[s].decision
                BY <1>3, <1>11, <4>2
            <4> QED BY <1>10, <3>1, <4>1, <4>2
        <3>2. ASSUME NEW t \in Entries', vault'[t].trust # "medium"
              PROVE  \E q \in Reviewed' :
                         /\ review'[q].decision = vault'[t].decision
                         /\ \/ review'[q].officer \in Seniors
                            \/ \E r \in Reviewed' : /\ review'[r].officer # review'[q].officer
                                                    /\ review'[r].decision = vault'[t].decision
            BY <1>11, <2>1, <3>1, <3>2
        <3> QED BY <3>2 DEF TrainingIsVouchedFor
    <2> QED BY <2>2, <2>3
<1>13. HandlerInv' /\ OneGoesOn'
    <2>1. \A g \in Handlers \ {h} : Knows(g)'
        BY <1>1, <1>5, <1>7, OthersKnow
    <2>2. Of(h)' = session[s]
        BY <1>1, <1>5 DEF Of
    <2>3. Knows(h)'
        BY <1>1, <1>2, <1>3, <1>5, <2>2 DEF Knows, At, Inserted, First, Second, Promoting
    <2>4. OneGoesOn'
        BY <1>0, <1>1, <1>5, OneStays
    <2> QED BY <2>1, <2>3, <2>4 DEF HandlerInv
<1>14. SettleInv'
    <2>1. \A g \in Handlers, t \in Sessions : WorksFor(g, t) => WorksFor(g, t)'
        BY <1>0, <1>1, <1>2, <1>5 DEF WorksFor, Inserted, At, Of, First, Second, Promoting
    <2> QED BY <1>1, <1>11, <2>1 DEF IndInv, SettleInv, Settled, Reviewed
<1> QED BY <1>8, <1>9, <1>12, <1>13, <1>14 DEF IndInv, Core

\* Both reviews learn of the entry.
LEMMA LinkBothInv == ASSUME IndInv, NEW h \in Handlers, LinkBoth(h) PROVE IndInv'
<1>0. PICK s, p, e, c :
        /\ s = handler[h].session /\ p = Of(h).pair /\ e = handler[h].entry
        /\ c = IF e = handler[h].linked THEN review[p].entry ELSE e
    OBVIOUS
<1>1. /\ TypeOK /\ Inserted(h) /\ At(h, "linkboth") /\ Knows(h) /\ handler[h].pc \in Second
      /\ Return(h)
      /\ UNCHANGED <<alert, session, waited, pair, vault, faults>>
    BY <1>0 DEF IndInv, Core, HandlerInv, LinkBoth, At, Inserted, Second, Promoting
<1>2. s \in Sessions /\ review[s] # None /\ review[s] \in Review /\ e \in Sessions
    BY <1>0, <1>1, Mine DEF Knows, At
<1>3. /\ p \in Sessions /\ p # s /\ review[p] # None /\ review[p] \in Review
      /\ pair[p].status # "absent"
    BY <1>0, <1>1, Partner
\* A first review that was read with this entry has one now.
<1>14. c \in Sessions
    <2>1. handler[h].linked # None => review[p].entry # None
        BY <1>0, <1>1 DEF Knows, At, Promoting
    <2>2. review[p].entry \in Sessions \cup {None}
        BY <1>3 DEF Review
    <2> QED BY <1>0, <1>2, <2>1, <2>2, ReviewAssumption
<1>4. PICK x, y : x = [review[p] EXCEPT !.entry = c] /\ y = [review[s] EXCEPT !.entry = e]
    OBVIOUS
<1>5. /\ x \in Review /\ x # None /\ x.entry = c /\ x.officer = review[p].officer
      /\ x.round = review[p].round /\ x.decision = review[p].decision
      /\ y \in Review /\ y # None /\ y.entry = e /\ y.officer = review[s].officer
      /\ y.round = review[s].round /\ y.decision = review[s].decision
    BY <1>2, <1>3, <1>4, <1>14, WithEntry
<1>6. /\ review' \in [Sessions -> Review \cup {None}] /\ review'[p] = x /\ review'[s] = y
      /\ \A t \in Sessions \ {s, p} : review'[t] = review[t]
    <2>1. review' = [review EXCEPT ![p] = x, ![s] = y]
        BY <1>0, <1>1, <1>2, <1>3, <1>4 DEF LinkBoth, TypeOK
    <2>2. /\ TypeOK /\ s \in Sessions /\ p \in Sessions /\ p # s
          /\ x \in Review /\ y \in Review
        BY <1>1, <1>2, <1>3, <1>5
    <2> QED BY <2>1, <2>2, TwoRows
<1>7. ReviewsLast
    BY <1>2, <1>5, <1>6, <1>14, ReviewAssumption DEF ReviewsLast
<1>8. TypeOK'
    BY <1>1, <1>6, Returning DEF TypeOK, alert
<1>9. SessionInv' /\ PairInv' /\ PairIsBorneOut' /\ ConsensusBehindVault' /\ TrainingIsVouchedFor'
    BY <1>1, <1>7, SessionsLast, Stay, PairsLast, VaultLasts DEF alert
<1>10. \A t \in Reviewed' :
        /\ t \in Reviewed /\ review'[t].officer = review[t].officer
        /\ review'[t].round = review[t].round
    BY <1>2, <1>3, <1>5, <1>6 DEF Reviewed
<1>11. ReviewInv'
    BY <1>1, <1>10 DEF IndInv, Core, ReviewInv
<1>12. HandlerInv' /\ OneGoesOn'
    <2>1. \A t \in Sessions \ {s} :
            pair[t].status = "absent" => /\ pair'[t].status = "absent"
                                         /\ review'[t].agreed = review[t].agreed
        BY <1>1, <1>3, <1>6
    <2>2. \A g \in Handlers \ {h} : Knows(g)'
        BY <1>0, <1>1, <1>7, <2>1, Returning, OthersKnow
    <2> QED BY <1>1, <2>2, Returning, OneStays DEF HandlerInv, Idle
<1>13. SettleInv'
    <2>1. \A g \in Handlers \ {h}, t \in Sessions : WorksFor(g, t) => WorksFor(g, t)'
        BY <1>1, Returning DEF WorksFor, Inserted, At, Of
    <2>2. \A t \in Sessions \ {s, p} : ~WorksFor(h, t) /\ (Settled(t) => Settled(t)')
        BY <1>0, <1>1, <1>6 DEF WorksFor, Settled, At, Promoting
    <2>3. \A t \in {s, p} : Settled(t)'
        BY <1>2, <1>5, <1>6, <1>14, ReviewAssumption DEF Settled
    <2> QED BY <1>1, <1>10, <2>1, <2>2, <2>3 DEF IndInv, SettleInv, Reviewed
<1> QED BY <1>8, <1>9, <1>11, <1>12, <1>13 DEF IndInv, Core

\* A request dies; nothing is promised of what it was to settle.
LEMMA FaultInv == ASSUME IndInv, NEW h \in Handlers, Fault(h) PROVE IndInv'
<1>1. /\ TypeOK /\ Return(h) /\ faults' = faults + 1 /\ faults < MaxFaults
      /\ UNCHANGED <<alert, session, waited, tables>>
    BY DEF IndInv, Core, Fault
<1>2. faults' \in 0..MaxFaults /\ faults' # 0
    BY <1>1, ReviewAssumption DEF TypeOK
<1>3. /\ handler' \in [Handlers -> Handler] /\ handler'[h].pc = "idle" /\ Knows(h)'
      /\ \A g \in Handlers \ {h} : handler'[g] = handler[g]
    BY <1>1, Returning
<1>4. TypeOK'
    BY <1>1, <1>2, <1>3 DEF TypeOK, alert, tables
<1>5. SessionInv' /\ ReviewInv'
    BY <1>1 DEF IndInv, Core, SessionInv, ReviewInv, Reviewed, tables
<1>6. \A g \in Handlers \ {h} : Knows(g)'
    BY <1>1, <1>3 DEF IndInv, Core, HandlerInv, Knows, At, Of, Inserted, tables, alert
<1>7. OneGoesOn'
    BY <1>3 DEF IndInv, Core, OneGoesOn, Inserted, First, Second, Promoting
<1>8. UNCHANGED <<borderline, tables>> /\ SessionsStay
    BY <1>1, Stay DEF alert
<1> QED BY <1>2, <1>3, <1>4, <1>5, <1>6, <1>7, <1>8, TablesLast DEF IndInv, Core, HandlerInv, SettleInv

LEMMA NextInv == IndInv /\ [Next]_vars => IndInv'
<1> SUFFICES ASSUME IndInv, [Next]_vars PROVE IndInv'
    OBVIOUS
<1>1. CASE UNCHANGED vars
    <2>1. /\ TypeOK' /\ SessionInv' /\ ReviewInv' /\ HandlerInv' /\ OneGoesOn' /\ SettleInv'
        BY <1>1 DEF vars, IndInv, Core, TypeOK, SessionInv, ReviewInv, Reviewed, HandlerInv, Knows,
                    OneGoesOn, Inserted, At, Of, SettleInv, Settled, WorksFor
    <2>2. UNCHANGED <<borderline, tables>> /\ SessionsStay
        BY <1>1, Stay DEF vars, tables
    <2> QED BY <2>1, <2>2, TablesLast DEF IndInv, Core
<1>2. ASSUME NEW s \in Sessions, NEW o \in Officers, Start(s, o) PROVE IndInv'
    BY <1>2, StartInv
<1>3. ASSUME NEW s \in Sessions, Wait(s) \/ Expire(s) PROVE IndInv'
    BY <1>3, WaitExpireInv
<1>4. ASSUME NEW h \in Handlers, NEW s \in Sessions, NEW d \in Decisions, Submit(h, s, d)
      PROVE  IndInv'
    BY <1>4, SubmitInv
<1>5. ASSUME NEW h \in Handlers, HandlerStep(h) PROVE IndInv'
    BY <1>5, InsertInv, OpenPairInv, StoreInv, LinkInv, ReadPairInv, ReadFirstInv, ResolveInv,
       PromoteInv, AddInv, LinkBothInv
       DEF HandlerStep
<1>6. ASSUME NEW h \in Handlers, Fault(h) PROVE IndInv'
    BY <1>6, FaultInv
<1> QED BY <1>1, <1>2, <1>3, <1>4, <1>5, <1>6 DEF Next

-----------------------------------------------------------------------------
(* The theorems *)

\* The inductive invariant: what sessions, reviews, pairs, entries and requests
\* have to do with one another (POST /review/start and /review/submit).
THEOREM Invariance == Spec => []IndInv
<1> QED BY InitInv, NextInv, PTL DEF Spec

\* Sessions, rows and the locals of requests keep their types.
THEOREM TypeCorrect == Spec => []TypeOK
<1>1. IndInv => TypeOK
    BY DEF IndInv, Core
<1> QED BY <1>1, Invariance, PTL

\* A borderline alert reaches the vault only on the word of two officers, with
\* any number of sessions and requests and whichever of them die half-way.
THEOREM VaultNeedsConsensus == Spec => []ConsensusBehindVault
<1>1. IndInv => ConsensusBehindVault
    BY DEF IndInv
<1> QED BY <1>1, Invariance, PTL

\* A resolved pair names another officer's second review of it, and its status is
\* what a second review of it amounts to, with any number of second reviews that
\* read and write the pair side by side (_reconcile_second_review).
THEOREM PairsAreTrue == Spec => []PairIsBorneOut
<1>1. IndInv => PairIsBorneOut
    BY DEF IndInv
<1> QED BY <1>1, Invariance, PTL

\* Every entry that training may use is a senior's judgement or that of two
\* officers who agree (store_entry's trust levels).
THEOREM TrainingIsTrusted == Spec => []TrainingIsVouchedFor
<1>1. IndInv => TrainingIsVouchedFor
    BY DEF IndInv
<1> QED BY <1>1, Invariance, PTL

\* When no request died and none is under way, every review has got to the
\* vault, to the second reviewers or to the supervisor.
THEOREM EveryReviewSettles == Spec => []ReviewsSettle
<1>1. IndInv => ReviewsSettle
    BY DEF IndInv, SettleInv, ReviewsSettle, WorksFor, Inserted, At, First, Second, Promoting
<1> QED BY <1>1, Invariance, PTL

-----------------------------------------------------------------------------
(* The ledger: what is in the vault was said, and by whom its trust tells *)

\* Only borderline alerts have pairs,
PairsAreDouble ==
    /\ \A p \in Sessions : pair[p].status # "absent" => borderline
    /\ \A h \in Handlers : At(h, "pair") => borderline

ToStore == {"store", "reconcile", "first", "resolve", "promote", "add"}

\* and a session's entry is stored after its review, and once.
StoredOnce ==
    /\ \A e \in Entries : review[e] # None
    /\ \A h \in Handlers : handler[h].pc \in ToStore => vault[handler[h].session] = None

LedgerInv == PairsAreDouble /\ StoredOnce

\* What the tables say in the words of the ledger.
Given == {<<review[s].officer, review[s].decision>> : s \in Reviewed}
Learned == {<<vault[e].decision, vault[e].trust>> : e \in Entries}

LEMMA LedgerInvInit == Init => LedgerInv
BY DEF Init, LedgerInv, PairsAreDouble, StoredOnce, Entries, ToStore, Idle, Locals, At

\* Verdicts and links change rows, but neither add a review nor take one away.
LEMMA RowsStay ==
    ASSUME IndInv, NEW h \in Handlers, Link(h) \/ Resolve(h) \/ LinkBoth(h)
    PROVE  ReviewsLast /\ Reviewed' = Reviewed
<1>0. PICK s, p, e : s = handler[h].session /\ p = Of(h).pair /\ e = handler[h].entry
    OBVIOUS
<1>1. TypeOK /\ Inserted(h) /\ Knows(h)
    BY DEF IndInv, Core, HandlerInv, Link, Resolve, LinkBoth, At, Inserted, First, Second,
       Promoting
<1>2. s \in Sessions /\ review[s] # None /\ review[s] \in Review
    BY <1>0, <1>1, Mine
<1>3. CASE Link(h)
    <2>1. e \in Sessions /\ review' = [review EXCEPT ![s].entry = e]
        BY <1>0, <1>1, <1>3 DEF Link, Knows, At
    <2>2. PICK y : y = [review[s] EXCEPT !.entry = e]
        OBVIOUS
    <2>3. /\ y # None /\ y.officer = review[s].officer /\ y.round = review[s].round
          /\ y.decision = review[s].decision /\ y.entry # None
        BY <1>2, <2>1, <2>2, WithEntry, ReviewAssumption
    <2>4. review'[s] = y /\ \A t \in Sessions \ {s} : review'[t] = review[t]
        BY <1>1, <1>2, <2>1, <2>2 DEF TypeOK
    <2> QED BY <1>2, <2>3, <2>4 DEF ReviewsLast, Reviewed
<1>4. ASSUME handler[h].pc \in Second, NEW x \in Review, NEW y \in Review, x # None, y # None,
             x.officer = review[p].officer, x.round = review[p].round,
             x.decision = review[p].decision,
             y.officer = review[s].officer, y.round = review[s].round,
             y.decision = review[s].decision, x.entry # None, y.entry # None,
             review' = [review EXCEPT ![p] = x, ![s] = y]
      PROVE  ReviewsLast /\ Reviewed' = Reviewed
    <2>1. p \in Sessions /\ p # s /\ review[p] # None
        BY <1>0, <1>4, Partner
    <2>2. review'[p] = x /\ review'[s] = y /\ \A t \in Sessions \ {s, p} : review'[t] = review[t]
        BY <1>1, <1>2, <1>4, <2>1, TwoRows
    <2> QED BY <1>2, <1>4, <2>1, <2>2 DEF ReviewsLast, Reviewed
<1>5. ASSUME handler[h].pc \in Second PROVE p \in Sessions /\ p # s /\ review[p] \in Review
    BY <1>0, <1>5, Partner
<1>6. CASE LinkBoth(h)
    <2>0. PICK c : c = IF e = handler[h].linked THEN review[p].entry ELSE e
        OBVIOUS
    <2>1. /\ handler[h].pc \in Second /\ e \in Sessions
          /\ handler[h].linked # None => review[p].entry # None
        BY <1>0, <1>1, <1>6 DEF LinkBoth, Knows, At, Second, Promoting
    <2>6. c \in Sessions
        BY <1>5, <2>0, <2>1, ReviewAssumption DEF Review
    <2>2. PICK x, y : x = [review[p] EXCEPT !.entry = c] /\ y = [review[s] EXCEPT !.entry = e]
        OBVIOUS
    <2>3. review' = [review EXCEPT ![p] = x, ![s] = y]
        BY <1>0, <1>1, <1>2, <1>5, <1>6, <2>0, <2>1, <2>2 DEF LinkBoth, TypeOK
    <2>4. /\ x \in Review /\ x # None /\ x.officer = review[p].officer
          /\ x.round = review[p].round /\ x.decision = review[p].decision /\ x.entry # None
        BY <1>5, <2>1, <2>2, <2>6, WithEntry, ReviewAssumption
    <2>5. /\ y \in Review /\ y # None /\ y.officer = review[s].officer
          /\ y.round = review[s].round /\ y.decision = review[s].decision /\ y.entry # None
        BY <1>2, <2>1, <2>2, WithEntry, ReviewAssumption
    <2> QED BY <1>4, <2>1, <2>3, <2>4, <2>5
<1>7. CASE Resolve(h)
    BY <1>7, Resolving
<1> QED BY <1>3, <1>6, <1>7

\* What an insertion adds: one review, which nothing was stored for.
LEMMA Inserting ==
    ASSUME IndInv, NEW h \in Handlers, Insert(h), review[handler[h].session] = None
    PROVE  LET s == handler[h].session IN
           /\ s \in Sessions /\ ReviewsLast /\ review'[s] # None
           /\ review'[s].officer = session[s].officer /\ session[s].officer \in Officers
           /\ review'[s].decision = handler[h].decision /\ handler[h].decision \in Decisions
           /\ \A t \in Sessions \ {s} : review'[t] = review[t]
           /\ \E pc \in {"pair", "store", "reconcile"} :
                 Goto(h, pc) /\ (pc = "pair" => borderline)
<1> DEFINE s == handler[h].session
           new == [officer |-> session[s].officer, round |-> session[s].round,
                   decision |-> handler[h].decision, agreed |-> None, entry |-> None]
           pc == IF session[s].round = 2 THEN "reconcile"
                 ELSE IF borderline THEN "pair" ELSE "store"
<1>1. /\ TypeOK /\ s \in Sessions /\ handler[h].decision \in Decisions
      /\ session[s].officer \in Officers /\ session[s].round \in {1, 2} /\ Of(h) = session[s]
    BY DEF IndInv, Core, TypeOK, Session, HandlerInv, Knows, SessionInv, At, Of, Insert
<1>2. Goto(h, pc) /\ review' = [review EXCEPT ![s] = new]
    BY <1>1 DEF Insert
<1>3. pc \in {"pair", "store", "reconcile"} /\ (pc = "pair" => borderline)
    OBVIOUS
<1>4. /\ new \in Review /\ new # None /\ new.officer = session[s].officer
      /\ new.decision = handler[h].decision
    BY <1>1, NoneAssumption DEF Review
<1> HIDE DEF new, pc
<1>5. review'[s] = new /\ \A t \in Sessions \ {s} : review'[t] = review[t]
    BY <1>1, <1>2 DEF TypeOK
<1>6. ReviewsLast
    BY <1>5 DEF ReviewsLast
<1> QED BY <1>1, <1>2, <1>3, <1>4, <1>5, <1>6

\* A step of one request that stores nothing, or its session's entry.
LEMMA OthersStore ==
    ASSUME IndInv, LedgerInv, NEW h \in Handlers, NEW s \in Sessions, s = handler[h].session,
           ReviewsLast, UNCHANGED borderline,
           \A g \in Handlers \ {h} : handler'[g] = handler[g],
           handler'[h].pc # "pair",
           handler'[h].pc \in ToStore =>
               handler[h].pc \in ToStore /\ handler'[h].session = s /\ vault'[s] = vault[s],
           \A p \in Sessions : pair'[p].status # "absent" => borderline,
           \A t \in Sessions \ {s} : vault'[t] = vault[t],
           vault'[s] = vault[s] \/ Inserted(h)
    PROVE  LedgerInv'
<1>1. PairsAreDouble'
    BY DEF LedgerInv, PairsAreDouble, ToStore, At
<1>2. Inserted(h) => review[s] # None
    BY Mine
<1>3. \A e \in Entries' : review'[e] # None
    BY <1>2 DEF LedgerInv, StoredOnce, Entries, ReviewsLast
<1>4. ASSUME NEW g \in Handlers \ {h}, handler'[g].pc \in ToStore
      PROVE  vault'[handler'[g].session] = None
    <2>1. g # h /\ handler'[g] = handler[g] /\ Inserted(g)
        BY <1>4 DEF Inserted, First, Second, Promoting, ToStore
    <2>2. handler[g].session \in Sessions /\ vault[handler[g].session] = None
        BY <1>4, <2>1, Mine DEF LedgerInv, StoredOnce
    <2>3. handler[g].session # s \/ ~Inserted(h)
        BY <2>1 DEF IndInv, Core, OneGoesOn
    <2> QED BY <2>1, <2>2, <2>3
<1>5. handler'[h].pc \in ToStore => vault'[handler'[h].session] = None
    BY DEF LedgerInv, StoredOnce
<1> QED BY <1>1, <1>3, <1>4, <1>5 DEF LedgerInv, StoredOnce

\* Of the requests in flight only the one that moves writes its session's entry.
LEMMA LedgerInvNext ==
    ASSUME IndInv, LedgerInv, [Next]_vars
    PROVE  LedgerInv'
<1>0. TypeOK
    BY DEF IndInv, Core
<1>1. CASE UNCHANGED <<borderline, review, pair, vault, handler>>
    BY <1>1 DEF LedgerInv, PairsAreDouble, StoredOnce, Entries, At
<1>2. ASSUME NEW h \in Handlers, NEW s \in Sessions, NEW d \in Decisions, Submit(h, s, d)
      PROVE  LedgerInv'
    <2>1. /\ UNCHANGED <<borderline, review, pair, vault>>
          /\ handler' = [handler EXCEPT ![h] = Locals("insert", s, d)]
        BY <1>2 DEF Submit, alert, tables
    <2>2. handler'[h].pc = "insert" /\ \A g \in Handlers \ {h} : handler'[g] = handler[g]
        BY <1>0, <2>1 DEF TypeOK, Locals
    <2> QED BY <2>1, <2>2 DEF LedgerInv, PairsAreDouble, StoredOnce, Entries, ToStore, At
<1>3. ASSUME NEW h \in Handlers, Return(h), UNCHANGED <<borderline, vault>>, ReviewsLast,
             handler[h].session \in Sessions,
             \A p \in Sessions : pair'[p].status # "absent" => borderline
      PROVE  LedgerInv'
    <2>1. handler'[h].pc = "idle" /\ \A g \in Handlers \ {h} : handler'[g] = handler[g]
        BY <1>0, <1>3, Returning
    <2> QED BY <1>3, <2>1, OthersStore DEF ToStore
<1>4. ASSUME NEW h \in Handlers, ~At(h, "idle") PROVE handler[h].session \in Sessions
    BY <1>4 DEF IndInv, Core, HandlerInv, Knows
<1>5. \A p \in Sessions : pair[p].status # "absent" => borderline
    BY DEF LedgerInv, PairsAreDouble
<1>6. ASSUME NEW h \in Handlers, Fault(h) PROVE LedgerInv'
    <2>1. ReviewsLast /\ UNCHANGED <<borderline, vault, pair>> /\ Return(h) /\ ~At(h, "idle")
        BY <1>6 DEF Fault, alert, tables, ReviewsLast
    <2> QED BY <1>3, <1>4, <1>5, <2>1
<1>7. ASSUME NEW h \in Handlers, Insert(h) PROVE LedgerInv'
    <2>1. UNCHANGED <<borderline, vault, pair>> /\ ~At(h, "idle")
        BY <1>7 DEF Insert, alert, At
    <2>2. CASE review[handler[h].session] # None
        <3>1. ReviewsLast /\ Return(h)
            BY <1>7, <2>2 DEF Insert, ReviewsLast
        <3> QED BY <1>3, <1>4, <1>5, <2>1, <3>1
    <2>3. CASE review[handler[h].session] = None
        <3>1. PICK s \in Sessions : s = handler[h].session
            BY <1>4, <2>1
        <3>2. PICK pc \in {"pair", "store", "reconcile"} :
                  Goto(h, pc) /\ (pc = "pair" => borderline)
            BY <1>7, <2>3, Inserting
        <3>3. /\ handler'[h].pc = pc /\ handler'[h].session = s
              /\ \A g \in Handlers \ {h} : handler'[g] = handler[g]
            BY <1>0, <3>1, <3>2, Going
        <3>4. PairsAreDouble'
            BY <1>5, <2>1, <3>2, <3>3 DEF LedgerInv, PairsAreDouble, At
        <3>5. vault[s] = None
            BY <2>3, <3>1 DEF LedgerInv, StoredOnce, Entries
        <3>6. ReviewsLast
            BY <1>7, <2>3, Inserting
        <3>7. \A e \in Entries' : review'[e] # None
            BY <2>1, <3>6 DEF LedgerInv, StoredOnce, Entries, ReviewsLast
        <3> QED BY <2>1, <3>3, <3>4, <3>5, <3>7 DEF LedgerInv, StoredOnce
    <2> QED BY <2>2, <2>3
<1>8. ASSUME NEW h \in Handlers, OpenPair(h) PROVE LedgerInv'
    <2>1. /\ ReviewsLast /\ UNCHANGED <<borderline, vault>> /\ Return(h) /\ ~At(h, "idle")
          /\ At(h, "pair")
        BY <1>8 DEF OpenPair, alert, At, ReviewsLast
    <2>2. borderline
        BY <2>1 DEF LedgerInv, PairsAreDouble
    <2> QED BY <1>3, <1>4, <2>1, <2>2
<1>9. ASSUME NEW h \in Handlers, Link(h) \/ LinkBoth(h) PROVE LedgerInv'
    <2>1. UNCHANGED <<borderline, vault, pair>> /\ Return(h) /\ ~At(h, "idle")
        BY <1>9 DEF Link, LinkBoth, alert, At
    <2>2. ReviewsLast
        BY <1>9, RowsStay
    <2> QED BY <1>3, <1>4, <1>5, <2>1, <2>2
<1>10. ASSUME NEW h \in Handlers, Store(h) \/ Add(h) PROVE LedgerInv'
    <2>1. PICK s \in Sessions : s = handler[h].session
        BY <1>4, <1>10 DEF Store, Add, At
    <2>2. /\ Inserted(h) /\ ReviewsLast /\ UNCHANGED <<borderline, pair>>
        BY <1>10 DEF Store, Add, AddWith, alert, At, Inserted, First, Second, Promoting, ReviewsLast
    <2>3. \A t \in Sessions \ {s} : vault'[t] = vault[t]
        BY <1>0, <1>10, <2>1 DEF Store, Add, AddWith, TypeOK
    <2>4. PICK pc \in {"link", "linkboth"} :
              handler' = [handler EXCEPT ![h].pc = pc, ![h].entry = s]
        BY <1>10, <2>1 DEF Store, Add, AddWith
    <2>6. PICK own : own = [handler[h] EXCEPT !.pc = pc, !.entry = s]
        OBVIOUS
    <2>7. own.pc = pc
        BY <1>0, <2>6 DEF TypeOK, Handler
    <2>8. handler' = [handler EXCEPT ![h] = own]
        BY <1>0, <2>4, <2>6 DEF TypeOK, Handler
    <2>5. /\ handler'[h].pc \in {"link", "linkboth"}
          /\ \A g \in Handlers \ {h} : handler'[g] = handler[g]
        BY <1>0, <2>7, <2>8 DEF TypeOK
    <2> QED BY <1>5, <2>1, <2>2, <2>3, <2>5, OthersStore DEF ToStore
<1>11. ASSUME NEW h \in Handlers, ReadPair(h) \/ ReadFirst(h) \/ Promote(h) PROVE LedgerInv'
    <2>1. PICK s \in Sessions : s = handler[h].session
        BY <1>4, <1>11 DEF ReadPair, ReadFirst, Promote, At
    <2>2. ReviewsLast /\ UNCHANGED <<borderline, pair, vault>> /\ handler[h].pc \in ToStore
        BY <1>11 DEF ReadPair, ReadFirst, Promote, At, alert, tables, ToStore, ReviewsLast
    <2>3. /\ handler'[h].session = s /\ handler'[h].pc \in {"first", "resolve", "add", "linkboth"}
          /\ \A g \in Handlers \ {h} : handler'[g] = handler[g]
        BY <1>0, <1>11, <2>1 DEF ReadPair, ReadFirst, Promote, Goto, TypeOK, Handler
    <2> QED BY <1>5, <2>1, <2>2, <2>3, OthersStore DEF ToStore
<1>14. ASSUME NEW h \in Handlers, Resolve(h) PROVE LedgerInv'
    <2>1. /\ UNCHANGED <<borderline, vault>> /\ ~At(h, "idle")
          /\ handler[h].pc \in Second \cap ToStore
        BY <1>14 DEF Resolve, ResolveTo, alert, At, Second, ToStore
    <2>2. ReviewsLast
        BY <1>14, RowsStay
    <2>3. borderline
        BY <1>5, <2>1, Partner
    <2>4. CASE Return(h)
        BY <1>3, <1>4, <2>1, <2>2, <2>3, <2>4
    <2>5. CASE Goto(h, "promote")
        <3>1. /\ handler'[h].pc = "promote" /\ handler'[h].session = handler[h].session
              /\ \A g \in Handlers \ {h} : handler'[g] = handler[g]
            BY <1>0, <2>5, Going
        <3>2. PICK s \in Sessions : s = handler[h].session
            BY <1>4, <2>1
        <3> QED BY <2>1, <2>2, <2>3, <3>1, <3>2, OthersStore DEF ToStore
    <2> QED BY <1>14, <2>4, <2>5 DEF Resolve, ResolveTo
<1>12. ASSUME NEW s \in Sessions, (\E o \in Officers : Start(s, o)) \/ Wait(s) \/ Expire(s)
       PROVE  LedgerInv'
    BY <1>1, <1>12 DEF Start, Wait, Expire, alert, tables
<1>13. CASE UNCHANGED vars
    BY <1>1, <1>13 DEF vars
<1> QED BY <1>2, <1>6, <1>7, <1>8, <1>9, <1>10, <1>11, <1>12, <1>13, <1>14 DEF Next, HandlerStep

\* Steps that add no review and store nothing are none of the ledger's.
LEMMA Stutters ==
    ASSUME ReviewsLast, Reviewed' = Reviewed, UNCHANGED <<borderline, vault>>
    PROVE  UNCHANGED Ledger!ledger
<1>1. Given' = Given
    <2>1. \A s \in Reviewed : review'[s].officer = review[s].officer
                              /\ review'[s].decision = review[s].decision
        BY DEF ReviewsLast, Reviewed
    <2> QED BY <2>1 DEF Given
<1>2. Learned' = Learned
    BY DEF Learned, Entries
<1> QED BY <1>1, <1>2 DEF Ledger!ledger, Given, Learned

\* What one entry adds to what is learned.
LEMMA Learning ==
    ASSUME TypeOK, NEW s \in Sessions, NEW x \in Entry, vault[s] = None,
           vault' = [vault EXCEPT ![s] = x]
    PROVE  Learned' = Learned \cup {<<x.decision, x.trust>>}
<1>1. vault'[s] = x /\ x # None /\ \A t \in Sessions \ {s} : vault'[t] = vault[t]
    BY NoneAssumption DEF TypeOK
<1>2. Entries' = Entries \cup {s} /\ s \notin Entries
    BY <1>1 DEF Entries
<1>3. \A t \in Entries : vault'[t] = vault[t]
    BY <1>1, <1>2 DEF Entries
<1> QED BY <1>1, <1>2, <1>3 DEF Learned

LEMMA LedgerStep ==
    ASSUME IndInv, LedgerInv, [Next]_vars
    PROVE  [Ledger!LedgerNext]_(Ledger!ledger)
<1> USE DEF Ledger!LedgerNext
<1>0. TypeOK
    BY DEF IndInv, Core
<1>1. CASE UNCHANGED <<borderline, review, vault>>
    BY <1>1 DEF Ledger!ledger, Reviewed, Entries
<1>2. ASSUME NEW h \in Handlers, Link(h) \/ Resolve(h) \/ LinkBoth(h)
      PROVE  UNCHANGED Ledger!ledger
    <2>1. UNCHANGED <<borderline, vault>>
        BY <1>2 DEF Link, Resolve, ResolveTo, LinkBoth, alert
    <2> QED BY <1>2, <2>1, RowsStay, Stutters
<1>3. ASSUME NEW h \in Handlers, Insert(h), review[handler[h].session] = None
      PROVE  \E o \in Officers, d \in Decisions : Ledger!Give(o, d)
    <2>1. PICK s, o, d : s = handler[h].session /\ o = session[s].officer /\ d = handler[h].decision
        OBVIOUS
    <2>2. /\ s \in Sessions /\ ReviewsLast /\ review'[s] # None /\ review[s] = None
          /\ review'[s].officer = o /\ o \in Officers
          /\ review'[s].decision = d /\ d \in Decisions
          /\ \A t \in Sessions \ {s} : review'[t] = review[t]
        BY <1>3, <2>1, Inserting
    <2>3. Reviewed' = Reviewed \cup {s} /\ \A t \in Reviewed : review'[t] = review[t]
        BY <2>2 DEF Reviewed
    <2>4. Given' = Given \cup {<<o, d>>}
        BY <2>2, <2>3 DEF Given
    <2>5. borderline' = borderline /\ Learned' = Learned
        BY <1>3 DEF Insert, alert, Learned, Entries
    <2>6. Ledger!Give(o, d)
        BY <2>4, <2>5 DEF Ledger!Give, Given, Learned
    <2> QED BY <2>2, <2>6
<1>4. ASSUME NEW h \in Handlers, Store(h)
      PROVE  \E o \in Officers, d \in Decisions : Ledger!LearnFrom(o, d)
    <2>1. PICK s, o, d : s = handler[h].session /\ o = Of(h).officer /\ d = handler[h].decision
        OBVIOUS
    <2>2. Inserted(h) /\ Knows(h) /\ At(h, "store") /\ UNCHANGED <<borderline, review>>
        BY <1>4 DEF Store, alert, At, Inserted, First, IndInv, Core, HandlerInv
    <2>3. /\ s \in Sessions /\ s \in Reviewed /\ o = review[s].officer /\ d = review[s].decision
          /\ o \in Officers /\ d \in Decisions
        BY <1>0, <2>1, <2>2, Mine, Reviews DEF Reviewed
    <2>4. ~borderline /\ vault[s] = None
        BY <2>1, <2>2 DEF Knows, At, LedgerInv, StoredOnce, ToStore
    <2>5. PICK x : x = [decision |-> d, trust |-> IF o \in Seniors THEN "gold" ELSE "medium"]
        OBVIOUS
    <2>6. /\ x \in Entry /\ x.decision = d /\ x.trust = Ledger!Trust(o)
          /\ vault' = [vault EXCEPT ![s] = x]
        BY <1>4, <2>1, <2>3, <2>5 DEF Store, Entry, Ledger!Trust
    <2>7. Learned' = Learned \cup {<<d, Ledger!Trust(o)>>}
        BY <1>0, <2>3, <2>4, <2>6, Learning
    <2>8. <<o, d>> \in Given /\ Given' = Given
        BY <2>2, <2>3 DEF Given, Reviewed
    <2>9. Ledger!LearnFrom(o, d)
        BY <2>2, <2>4, <2>7, <2>8 DEF Ledger!LearnFrom, Given, Learned
    <2> QED BY <2>3, <2>9
<1>5. ASSUME NEW h \in Handlers, Add(h)
      PROVE  \E o, p \in Officers, d \in Decisions : Ledger!LearnAgreed(o, p, d)
    <2>1. PICK s, p, d : s = handler[h].session /\ p = Of(h).pair /\ d = review[s].decision
        OBVIOUS
    <2>2. /\ Inserted(h) /\ Knows(h) /\ At(h, "add") /\ handler[h].pc \in Second
          /\ UNCHANGED <<borderline, review>>
        BY <1>5 DEF Add, AddWith, alert, At, Inserted, Second, Promoting, IndInv, Core, HandlerInv
    <2>3. /\ s \in Sessions /\ s \in Reviewed /\ d \in Decisions /\ review[s].officer \in Officers
        BY <1>0, <2>1, <2>2, Mine, Reviews DEF Reviewed
    <2>4. /\ p \in Sessions /\ p \in Reviewed /\ review[p].officer # review[s].officer
          /\ review[p].decision = d /\ pair[p].status # "absent"
        BY <2>1, <2>2, Partner DEF Reviewed, Knows, At, Promoting
    <2>5. borderline /\ vault[s] = None /\ review[p].officer \in Officers
        BY <1>0, <2>1, <2>2, <2>4, Reviews DEF At, LedgerInv, StoredOnce, ToStore,
              PairsAreDouble
    <2>7. vault' = [vault EXCEPT ![s] = [decision |-> d, trust |-> "high"]]
        BY <1>5, <2>1 DEF Add, AddWith
    <2>11. PICK x : x = [decision |-> d, trust |-> "high"]
        OBVIOUS
    <2>12. x \in Entry /\ x.decision = d /\ x.trust = "high"
        BY <2>3, <2>11 DEF Entry
    <2>13. Learned' = Learned \cup {<<d, "high">>}
        BY <1>0, <2>3, <2>5, <2>7, <2>11, <2>12, Learning
    <2>14. PICK o, q : o = review[s].officer /\ q = review[p].officer
        OBVIOUS
    <2>15. {<<o, d>>, <<q, d>>} \subseteq Given /\ Given' = Given
        BY <2>1, <2>2, <2>3, <2>4, <2>14 DEF Given, Reviewed
    <2>16. Ledger!LearnAgreed(o, q, d)
        BY <2>2, <2>4, <2>5, <2>13, <2>14, <2>15 DEF Ledger!LearnAgreed, Given, Learned
    <2> QED BY <2>3, <2>5, <2>14, <2>16
<1>6. ASSUME NEW h \in Handlers, HandlerStep(h)
      PROVE  [Ledger!LedgerNext]_(Ledger!ledger)
    <2>1. CASE \/ OpenPair(h) \/ (Insert(h) /\ review[handler[h].session] # None)
               \/ ReadPair(h) \/ ReadFirst(h) \/ Promote(h)
        BY <1>1, <2>1 DEF OpenPair, Insert, ReadPair, ReadFirst, Promote, alert, tables
    <2> QED BY <1>2, <1>3, <1>4, <1>5, <1>6, <2>1 DEF HandlerStep
<1>7. ASSUME \/ \E s \in Sessions, o \in Officers : Start(s, o)
             \/ \E s \in Sessions : Wait(s) \/ Expire(s)
             \/ \E h \in Handlers, s \in Sessions, d \in Decisions : Submit(h, s, d)
             \/ \E h \in Handlers : Fault(h)
             \/ UNCHANGED vars
      PROVE  UNCHANGED <<borderline, review, vault>>
    BY <1>7 DEF Start, Wait, Expire, Submit, Fault, vars, alert, tables
<1> QED BY <1>1, <1>6, <1>7 DEF Next

\* What is learned of an alert was said before by whoever its trust says, and
\* nothing said or learned is ever taken back: the submissions of any number of
\* officers and processes, with retries and deaths of requests, implement the
\* vault that ReviewLedger promises (submit_review, store_entry).
THEOREM VaultIsKept == Spec => VaultKept
<1>1. Init => Ledger!LedgerInit
    <2> SUFFICES ASSUME Init PROVE Ledger!LedgerInit
        OBVIOUS
    <2>1. Reviewed = {} /\ Entries = {} /\ borderline \in BOOLEAN
        BY DEF Init, Reviewed, Entries
    <2> QED BY <2>1 DEF Ledger!LedgerInit
<1>2. IndInv /\ LedgerInv /\ [Next]_vars => IndInv' /\ LedgerInv'
    BY NextInv, LedgerInvNext
<1>3. IndInv /\ LedgerInv /\ [Next]_vars => [Ledger!LedgerNext]_(Ledger!ledger)
    BY LedgerStep
<1> QED BY InitInv, LedgerInvInit, <1>1, <1>2, <1>3, PTL DEF Spec, VaultKept, Ledger!LedgerSpec

=============================================================================
