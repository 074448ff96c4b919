------------------------------- MODULE Review -------------------------------
(***************************************************************************)
(* Officers' review of one alert: blind sessions with a time gate, the     *)
(* double review of borderline alerts, and the training vault              *)
(* (backend/services/review_service.py, store_entry of vault_service.py,   *)
(* backend/routers/v1/review.py).                                          *)
(*                                                                         *)
(* A submission is several transactions, and nothing ties them together:   *)
(* the review, then a pair or a vault entry, then the link between them.   *)
(* Handlers of several server processes interleave between transactions.   *)
(*                                                                         *)
(* Every start makes a new session. A review is named by its session, for  *)
(* review_session_id is UNIQUE; a pair by the session of its first review; *)
(* a vault entry by the session whose submission stored it.                *)
(***************************************************************************)
EXTENDS Naturals

CONSTANTS
    Officers,
    Seniors,     \* officers with role supervisor, admin or senior
    Sessions,    \* bound on sessions started
    Handlers,    \* POST /review/submit requests that run side by side
    Decisions,
    None,
    SessionsKept, \* the store outlives the request: Redis, or one service object
    MaxFaults    \* bound on requests that die half-way

ASSUME ReviewAssumption ==
    /\ Seniors \subseteq Officers
    /\ None \notin Officers \cup Sessions \cup Decisions
    /\ SessionsKept \in BOOLEAN
    /\ MaxFaults \in Nat

VARIABLES
    borderline, \* the alert's confidence lies in DOUBLE_REVIEW_BAND
    sealed,     \* the alert has an evidence hash, which seeds its embedding
    session,    \* the session store
    waited,     \* sessions whose officer has looked for the time gate's length
    review,     \* officer_reviews
    pair,       \* review_pairs
    vault,      \* vault_entries
    handler,    \* locals of each submission
    faults

vars == <<borderline, sealed, session, waited, review, pair, vault, handler, faults>>

Session == [state : {"new", "stored", "lost"},
            officer : Officers \cup {None},
            round : {1, 2},
            pair : Sessions \cup {None}]
Review == [officer : Officers, round : {1, 2}, decision : Decisions,
           agreed : BOOLEAN \cup {None}, entry : Sessions \cup {None}]
Status == {"absent", "awaiting_second", "agreed", "disagreed_escalated"}
Pair == [status : Status, second : Sessions \cup {None}]
Entry == [decision : Decisions, trust : {"gold", "high", "medium"}]
\* The last three are what the handler read of the pair's status and of the
\* first review's agreed and vault_entry_id: the session it reads with does not
\* expire on commit, and an UPDATE carries the columns that differ from these.
Handler == [pc : {"idle", "insert", "pair", "store", "link", "reconcile",
                  "first", "resolve", "promote", "add", "linkboth"},
            session : Sessions \cup {None},
            decision : Decisions \cup {None},
            entry : Sessions \cup {None},
            status : Status \cup {None},
            agreed : BOOLEAN \cup {None},
            linked : Sessions \cup {None}]

\* No row is not a row.
ASSUME NoneAssumption == None \notin Review \cup Entry

NewSession == [state |-> "new", officer |-> None, round |-> 1, pair |-> None]
Locals(pc, s, d) == [pc |-> pc, session |-> s, decision |-> d, entry |-> None,
                     status |-> None, agreed |-> None, linked |-> None]
Idle == Locals("idle", None, None)

Init ==
    /\ borderline \in BOOLEAN /\ sealed \in BOOLEAN
    /\ session = [s \in Sessions |-> NewSession]
    /\ waited = {}
    /\ review = [s \in Sessions |-> None]
    /\ pair = [s \in Sessions |-> [status |-> "absent", second |-> None]]
    /\ vault = [s \in Sessions |-> None]
    /\ handler = [h \in Handlers |-> Idle]
    /\ faults = 0

alert == <<borderline, sealed>>
tables == <<review, pair, vault>>

Reviewed == {s \in Sessions : review[s] # None}
Entries == {e \in Sessions : vault[e] # None}
Awaiting == {s \in Sessions : pair[s].status = "awaiting_second"}

\* The session data of a submission, which it read at its start.
Of(h) == session[handler[h].session]
At(h, pc) == handler[h].pc = pc
Goto(h, pc) == handler' = [handler EXCEPT ![h].pc = pc]
Return(h) == handler' = [handler EXCEPT ![h] = Idle]

-----------------------------------------------------------------------------
(* POST /review/start *)

\* Seeded fault: nobody looks whose the first review is.
PendingPairAny(o) == IF Awaiting = {} THEN {None} ELSE Awaiting

\* _get_pending_pair_for_officer: whichever awaiting pair the query finds first,
\* and no pair at all if that one began with the officer's own review.
PendingPair(o) ==
    IF Awaiting = {} THEN {None}
    ELSE {IF review[p].officer = o THEN None ELSE p : p \in Awaiting}

\* The session is stored with the round and the pair it found.
Start(s, o) ==
    /\ session[s].state = "new"
    /\ \E p \in PendingPair(o) :
          session' = [session EXCEPT ![s] =
              [state |-> IF SessionsKept THEN "stored" ELSE "lost", officer |-> o,
               round |-> IF p = None THEN 1 ELSE 2, pair |-> p]]
    /\ UNCHANGED <<alert, waited, tables, handler, faults>>

Wait(s) ==
    /\ session[s].state = "stored" /\ s \notin waited
    /\ waited' = waited \cup {s}
    /\ UNCHANGED <<alert, session, tables, handler, faults>>

\* The key of the session lives for 600 seconds, and what it held is gone with it.
\* That matters to sessions nobody has submitted: a submission has read its own,
\* and a session that has its review is answered without one.
Expire(s) ==
    /\ session[s].state = "stored" /\ review[s] = None
    /\ \A h \in Handlers : handler[h].session # s
    /\ session' = [session EXCEPT ![s] = [NewSession EXCEPT !.state = "lost"]]
    /\ waited' = waited \ {s}
    /\ UNCHANGED <<alert, tables, handler, faults>>

-----------------------------------------------------------------------------
(* POST /review/submit *)

\* A session that has its review is answered as a duplicate. A session that is
\* not in the store is replaced by one that started this instant, so that its
\* duration is zero, and a submission under the gate is refused.
Submit(h, s, d) ==
    /\ At(h, "idle") /\ session[s].state = "stored" /\ s \in waited /\ review[s] = None
    /\ handler' = [handler EXCEPT ![h] = Locals("insert", s, d)]
    /\ UNCHANGED <<alert, session, waited, tables, faults>>

\* The UNIQUE column refuses the second of two submissions of a session.
Insert(h) ==
    /\ At(h, "insert")
    /\ LET s == handler[h].session IN
       IF review[s] # None THEN Return(h) /\ UNCHANGED review
       ELSE /\ review' = [review EXCEPT ![s] =
                  [officer |-> Of(h).officer, round |-> Of(h).round,
                   decision |-> handler[h].decision, agreed |-> None,
                   entry |-> None]]
            /\ Goto(h, IF Of(h).round = 2 THEN "reconcile"
                       ELSE IF borderline THEN "pair" ELSE "store")
    /\ UNCHANGED <<alert, session, waited, pair, vault, faults>>

\* A borderline first review opens a pair.
OpenPair(h) ==
    /\ At(h, "pair")
    /\ pair' = [pair EXCEPT ![handler[h].session].status = "awaiting_second"]
    /\ Return(h)
    /\ UNCHANGED <<alert, session, waited, review, vault, faults>>

\* Seeded fault: every single review is trusted like two.
StoreHigh(h) ==
    /\ At(h, "store")
    /\ LET s == handler[h].session IN
       /\ vault' = [vault EXCEPT ![s] = [decision |-> handler[h].decision,
                                         trust |-> "high"]]
       /\ handler' = [handler EXCEPT ![h].pc = "link", ![h].entry = s]
    /\ UNCHANGED <<alert, session, waited, review, pair, faults>>

\* Any other first review is stored with the officer's trust.
Store(h) ==
    /\ At(h, "store")
    /\ LET s == handler[h].session IN
       /\ vault' = [vault EXCEPT ![s] =
              [decision |-> handler[h].decision,
               trust |-> IF Of(h).officer \in Seniors THEN "gold" ELSE "medium"]]
       /\ handler' = [handler EXCEPT ![h].pc = "link", ![h].entry = s]
    /\ UNCHANGED <<alert, session, waited, review, pair, faults>>

Link(h) ==
    /\ At(h, "link")
    /\ review' = [review EXCEPT ![handler[h].session].entry = handler[h].entry]
    /\ Return(h)
    /\ UNCHANGED <<alert, session, waited, pair, vault, faults>>

\* _reconcile_second_review takes up the pair the session found when it started.
ReadPair(h) ==
    /\ At(h, "reconcile")
    /\ handler' = [handler EXCEPT ![h].pc = "first",
                                  ![h].status = pair[Of(h).pair].status]
    /\ UNCHANGED <<alert, session, waited, tables, faults>>

ReadFirst(h) ==
    /\ At(h, "first")
    /\ LET first == review[Of(h).pair] IN
       handler' = [handler EXCEPT ![h].pc = "resolve", ![h].agreed = first.agreed,
                                  ![h].linked = first.entry]
    /\ UNCHANGED <<alert, session, waited, tables, faults>>

Agrees(h) == review[Of(h).pair].decision = review[handler[h].session].decision

\* The pair's second_review_id and the second review's own agreed always change;
\* the pair's status and the first review's agreed are in the UPDATE only when
\* they differ from what was read.
ResolveTo(h, status, agreed) ==
    LET s == handler[h].session  p == Of(h).pair IN
    /\ pair' = [pair EXCEPT
           ![p] = [status |-> IF status = handler[h].status THEN @.status ELSE status,
                   second |-> s]]
    /\ review' = [review EXCEPT
           ![p].agreed = IF agreed = handler[h].agreed THEN @ ELSE agreed,
           ![s].agreed = agreed]
    /\ IF agreed THEN Goto(h, "promote") ELSE Return(h)
    /\ UNCHANGED <<alert, session, waited, vault, faults>>

\* Seeded fault: a second review settles the pair, whatever it says.
ResolveAlways(h) == At(h, "resolve") /\ ResolveTo(h, "agreed", TRUE)

Resolve(h) ==
    /\ At(h, "resolve")
    /\ ResolveTo(h, IF Agrees(h) THEN "agreed" ELSE "disagreed_escalated", Agrees(h))

\* store_entry looks for the embedding first. That of an alert with sealed
\* evidence is always the same, and is not stored again when it is found.
Promote(h) ==
    /\ At(h, "promote")
    /\ LET same == IF sealed THEN {e \in Entries : vault[e].trust = "high"} ELSE {} IN
       \/ /\ same = {}
          /\ Goto(h, "add")
       \/ \E e \in same :
             handler' = [handler EXCEPT ![h].pc = "linkboth", ![h].entry = e]
    /\ UNCHANGED <<alert, session, waited, tables, faults>>

\* Stores the entry of handler h with the given trust.
AddWith(h, trust) ==
    LET s == handler[h].session IN
    /\ vault' = [vault EXCEPT ![s] = [decision |-> review[s].decision,
                                      trust |-> trust]]
    /\ handler' = [handler EXCEPT ![h].pc = "linkboth", ![h].entry = s]
    /\ UNCHANGED <<alert, session, waited, review, pair, faults>>

\* Seeded fault: an agreement is trusted as the officer who completed it is.
AddByRole(h) ==
    /\ At(h, "add")
    /\ AddWith(h, IF Of(h).officer \in Seniors THEN "gold" ELSE "high")

\* The entry is inserted later: another process may have inserted the same.
Add(h) == At(h, "add") /\ AddWith(h, "high")

\* Seeded fault: only the second review learns of the entry.
LinkSecond(h) ==
    /\ At(h, "linkboth")
    /\ review' = [review EXCEPT ![handler[h].session].entry = handler[h].entry]
    /\ Return(h)
    /\ UNCHANGED <<alert, session, waited, pair, vault, faults>>

\* The first review's column is written only if it was not read with that value.
LinkBoth(h) ==
    /\ At(h, "linkboth")
    /\ LET new == handler[h].entry IN
       review' = [review EXCEPT
           ![handler[h].session].entry = new,
           ![Of(h).pair].entry = IF new = handler[h].linked THEN @ ELSE new]
    /\ Return(h)
    /\ UNCHANGED <<alert, session, waited, pair, vault, faults>>

\* The request ends half-way: the process dies, or a transaction fails.
Fault(h) ==
    /\ ~At(h, "idle") /\ faults < MaxFaults
    /\ faults' = faults + 1
    /\ Return(h)
    /\ UNCHANGED <<alert, session, waited, tables>>

HandlerStep(h) ==
    \/ Insert(h) \/ OpenPair(h) \/ Store(h) \/ Link(h)
    \/ ReadPair(h) \/ ReadFirst(h) \/ Resolve(h)
    \/ Promote(h) \/ Add(h) \/ LinkBoth(h)

Next ==
    \/ \E s \in Sessions, o \in Officers : Start(s, o)
    \/ \E s \in Sessions : Wait(s) \/ Expire(s)
    \/ \E h \in Handlers, s \in Sessions, d \in Decisions : Submit(h, s, d)
    \/ \E h \in Handlers : HandlerStep(h) \/ Fault(h)

Spec == Init /\ [][Next]_vars

-----------------------------------------------------------------------------
(* Properties *)

TypeOK ==
    /\ borderline \in BOOLEAN /\ sealed \in BOOLEAN
    /\ session \in [Sessions -> Session]
    /\ waited \subseteq Sessions
    /\ review \in [Sessions -> Review \cup {None}]
    /\ pair \in [Sessions -> Pair]
    /\ vault \in [Sessions -> Entry \cup {None}]
    /\ handler \in [Handlers -> Handler]
    /\ faults \in 0..MaxFaults

\* Nothing reaches the vault on a borderline alert unless two different officers
\* said it, however their sessions, retries and crashes interleave.
ConsensusBehindVault ==
    borderline => \A e \in Entries :
        \E r, t \in Reviewed :
            /\ review[r].officer # review[t].officer
            /\ {review[r].decision, review[t].decision} = {vault[e].decision}

\* Reviews that were made second to the review p, by other officers.
Seconds(p) ==
    {s \in Reviewed : /\ session[s].round = 2 /\ session[s].pair = p
                      /\ review[s].officer # review[p].officer}

\* A resolved pair names another officer's second review of it, and its status is
\* what a second review of it amounts to. With several second reviews in flight
\* the two may be different reviews: each UPDATE names its own review and leaves
\* out a status that it read before another one changed it.
PairIsBorneOut ==
    \A p \in Sessions : pair[p].second # None =>
        /\ pair[p].second \in Seconds(p)
        /\ \E s \in Seconds(p) :
              pair[p].status = IF review[s].decision = review[p].decision
                               THEN "agreed" ELSE "disagreed_escalated"

\* What training may use (trust gold or high) rests on a senior officer's own
\* judgement or on two reviews that agree with it.
TrainingIsVouchedFor ==
    \A e \in Entries : vault[e].trust # "medium" =>
        \E r \in Reviewed :
            /\ review[r].decision = vault[e].decision
            /\ \/ review[r].officer \in Seniors
               \/ \E t \in Reviewed : /\ review[t].officer # review[r].officer
                                      /\ review[t].decision = vault[e].decision

\* A review's part is done: it has its entry, or a pair that waits or failed.
Settled(s) ==
    \/ review[s].entry # None
    \/ review[s].agreed = FALSE
    \/ review[s].round = 1 /\ review[s].agreed = None /\ pair[s].status # "absent"

\* Once the requests are answered and none has died, every accepted review has
\* got to where it leads: the vault, the queue of second reviews, or the
\* supervisor. Others may have touched its pair or its entry meanwhile.
ReviewsSettle ==
    faults = 0 /\ (\A h \in Handlers : At(h, "idle")) =>
        \A s \in Reviewed : Settled(s)

=============================================================================
