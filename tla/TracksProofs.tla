---------------------------- MODULE TracksProofs ----------------------------
(***************************************************************************)
(* Proofs about Tracks, for any vehicles and units, any limits of points,  *)
(* queue and attempts, and any number of laps and failed transactions.     *)
(*                                                                         *)
(* What ties the event, the alert and the clip of a row together is the    *)
(* place of the inference thread: the one row that may say stolen and have *)
(* no alert yet is the row at hand between Check and Raise. What ties the  *)
(* alert to the engine, which goes on in another thread meanwhile, is that *)
(* a locked plate never changes.                                           *)
(***************************************************************************)
EXTENDS TracksRefinement, TLAPS

-----------------------------------------------------------------------------
(* The inductive invariant *)

\* A track with points in its buffer has a row left to be flushed into.
LapsLeft == \A v \in Vehicles : pts[v] > 0 => laps[v] < MaxLaps[v]

\* The next row of a track is untouched.
FreshRows == \A r \in Rows : row[r].state # "none" => r[2] <= laps[r[1]]

\* The tracks the flush has still to store, and the one at hand, have a row in
\* the open transaction.
Staged(v) == laps[v] >= 1 /\ row[<<v, laps[v]>>].state = "staged"

FlushInv ==
    /\ \A v \in flush.todo : Staged(v)
    /\ flush.pc \in {"idle", "commit", "appearance"} => flush.todo = {}
    /\ flush.pc \in {"check", "raise"} => flush.cur \in Vehicles /\ Staged(flush.cur)

\* An alert is about to be raised for what the engine has locked,
RaiseVouched == flush.pc = "raise" => Stolen(flush.cur)

\* and the engine locks nothing on a read too weak to be a vote.
LockedIsVoted == \A v \in Vehicles : confirmed[v] # None => confirmed[v].conf > 1

\* Only the row at hand may say stolen before it has its alert.
StolenInv ==
    \A r \in Rows : row[r].stolen /\ ~row[r].alert =>
        row[r].state = "lost" \/ (flush.pc = "raise" /\ r = Current)

\* Clips are queued with their alerts, and cut when those are saved.
ClipInv ==
    \A r \in Rows : /\ row[r].clip # "none" => row[r].alert
                    /\ row[r].clip = "cut" => row[r].state = "saved"

IndInv ==
    /\ TypeOK
    /\ LapsLeft /\ FreshRows /\ FlushInv
    /\ RaiseVouched /\ LockedIsVoted /\ AlertIsVouchedFor
    /\ StolenInv /\ ClipInv

-----------------------------------------------------------------------------
(* Rows *)

\* A row is a track with the number of one of its laps.
LEMMA RowOf ==
    \A r : r \in Rows <=> \E v \in Vehicles : \E l \in 1..MaxLaps[v] : r = <<v, l>>
BY DEF Rows

\* A track whose row is in the transaction has one.
LEMMA StagedIsRow == ASSUME TypeOK, NEW v \in Vehicles, Staged(v) PROVE <<v, laps[v]>> \in Rows
<1>1. laps[v] \in 1..MaxLaps[v]
    BY TracksAssumption DEF TypeOK, Staged
<1> QED BY <1>1, RowOf

\* Each part of a row may be set on its own.
LEMMA RowWith ==
    ASSUME NEW x \in Row
    PROVE  /\ \A s \in {"none", "staged", "saved", "lost"} : [x EXCEPT !.state = s] \in Row
           /\ \A p \in {"Hot", "Plain", None} : [x EXCEPT !.plate = p] \in Row
           /\ \A b \in BOOLEAN : [x EXCEPT !.stolen = b] \in Row
           /\ \A b \in BOOLEAN : [x EXCEPT !.appearance = b] \in Row
           /\ \A c \in {"none", "queued", "cut", "refused"} : [x EXCEPT !.clip = c] \in Row
           /\ [x EXCEPT !.alert = TRUE, !.clip = "queued"] \in Row
<1>1. \A s \in {"none", "staged", "saved", "lost"} : [x EXCEPT !.state = s] \in Row
    BY DEF Row
<1>2. \A p \in {"Hot", "Plain", None} : [x EXCEPT !.plate = p] \in Row
    BY DEF Row
<1>3. \A b \in BOOLEAN : [x EXCEPT !.stolen = b] \in Row
    BY DEF Row
<1>4. \A b \in BOOLEAN : [x EXCEPT !.appearance = b] \in Row
    BY DEF Row
<1>5. \A c \in {"none", "queued", "cut", "refused"} : [x EXCEPT !.clip = c] \in Row
    BY DEF Row
<1>6. [x EXCEPT !.alert = TRUE, !.clip = "queued"] \in Row
    BY DEF Row
<1> QED BY <1>1, <1>2, <1>3, <1>4, <1>5, <1>6

LEMMA InitInv == Init => IndInv
<1> SUFFICES ASSUME Init PROVE IndInv
    OBVIOUS
<1> USE TracksAssumption DEF Init
<1>1. TypeOK
    <2>1. row \in [Rows -> Row]
        BY DEF Row
    <2>2. /\ queue \in Seq(Vehicles) /\ Len(queue) <= QueueMax
        OBVIOUS
    <2>3. /\ pts \in [Vehicles -> 0..(MaxPoints - 1)]
          /\ DOMAIN laps = Vehicles /\ \A v \in Vehicles : laps[v] \in 0..MaxLaps[v]
          /\ DOMAIN attempts = Vehicles /\ \A v \in Vehicles : attempts[v] \in 0..MaxAttempts[v]
        BY DEF Zero
    <2>4. /\ confirmed \in [Vehicles -> {r \in Read : r.locked} \cup {None}]
          /\ plates \in [Vehicles -> Read \cup {None}]
        BY DEF Nothing
    <2>5. flush \in [pc : {"idle", "persist", "check", "raise", "commit", "appearance"},
                   todo : SUBSET Vehicles, cur : Vehicles \cup {None}, done : SUBSET Rows]
        BY DEF Idle
    <2>6. unit \in [Units -> Rows \cup {None}] /\ faults \in 0..MaxFaults
        OBVIOUS
    <2>7. /\ up \in {"running", "stopping", "dead"} /\ voted \subseteq Vehicles
          /\ read \in [v : Vehicles, r : Read] \cup {None}
        OBVIOUS
    <2> HIDE DEF Init
    <2> QED BY <2>1, <2>2, <2>3, <2>4, <2>5, <2>6, <2>7 DEF TypeOK
<1>2. LapsLeft /\ FreshRows /\ FlushInv /\ RaiseVouched
    BY DEF LapsLeft, FreshRows, FlushInv, RaiseVouched, Zero, Idle
<1>3. LockedIsVoted /\ AlertIsVouchedFor /\ StolenInv /\ ClipInv
    BY DEF LockedIsVoted, AlertIsVouchedFor, StolenInv, ClipInv, Nothing
<1> QED BY <1>1, <1>2, <1>3 DEF IndInv

-----------------------------------------------------------------------------
(* A frame *)

LEMMA FrameTypes ==
    ASSUME IndInv, NEW seen \in Seen, NEW gone \in SUBSET Vehicles, Frame(seen, gone)
    PROVE  TypeOK' /\ LapsLeft'
<1> USE TracksAssumption
<1>0. seen \subseteq Vehicles /\ TypeOK /\ LapsLeft /\ flush.pc = "idle"
    BY DEF Seen, IndInv, Frame
<1>1. \A v \in Vehicles : laps[v] \in 0..MaxLaps[v] /\ pts[v] \in 0..(MaxPoints - 1)
                          /\ MaxLaps[v] \in Nat
    BY <1>0 DEF TypeOK
<1>2. \A v \in Flushed(seen, gone) : v \in Vehicles /\ laps[v] < MaxLaps[v]
    BY <1>0, <1>1 DEF Flushed, Ended, Frame, LapsLeft
<1>3. \A v \in Vehicles : pts'[v] \in 0..(MaxPoints - 1) /\ (pts'[v] > 0 => laps'[v] < MaxLaps[v])
    <2> SUFFICES ASSUME NEW v \in Vehicles
                 PROVE  pts'[v] \in 0..(MaxPoints - 1) /\ (pts'[v] > 0 => laps'[v] < MaxLaps[v])
        OBVIOUS
    <2>1. CASE v \in Ended(seen, gone)
        BY <2>1 DEF Frame
    <2>2. CASE v \notin Ended(seen, gone)
        <3>1. v \notin Flushed(seen, gone)
            BY <2>2 DEF Flushed
        <3>2. laps'[v] = laps[v] /\ pts'[v] = IF v \in seen THEN pts[v] + 1 ELSE pts[v]
            BY <2>2, <3>1 DEF Frame
        <3>3. v \in seen => pts[v] + 1 < MaxPoints /\ laps[v] < MaxLaps[v]
            BY <1>1, <2>2 DEF Ended, Frame
        <3> QED BY <1>0, <1>1, <3>2, <3>3 DEF LapsLeft
    <2> QED BY <2>1, <2>2
<1>4. \A v \in Vehicles : laps'[v] \in 0..MaxLaps[v]
    BY <1>1, <1>2 DEF Frame
<1>5. /\ pts' \in [Vehicles -> 0..(MaxPoints - 1)] /\ DOMAIN laps' = Vehicles
    BY <1>3 DEF Frame
<1>6. flush' \in [pc : {"idle", "persist", "check", "raise", "commit", "appearance"},
                  todo : SUBSET Vehicles, cur : Vehicles \cup {None}, done : SUBSET Rows]
    BY <1>0, <1>2 DEF Frame, Idle, TypeOK
<1>7. row' \in [Rows -> Row]
    <2>1. \A r \in Rows : row[r] \in Row /\ [row[r] EXCEPT !.state = "staged"] \in Row
        BY <1>0, RowWith DEF TypeOK
    <2>2. \A r \in Rows : row'[r] \in {row[r], [row[r] EXCEPT !.state = "staged"]}
        BY DEF Frame
    <2>3. row' = [r \in Rows |-> row'[r]]
        BY DEF Frame
    <2> QED BY <2>1, <2>2, <2>3
<1>8. /\ queue' \in Seq(Vehicles) /\ Len(queue') <= QueueMax
      /\ \A v \in Vehicles : attempts'[v] \in 0..MaxAttempts[v]
      /\ DOMAIN attempts' = Vehicles
    <2>1. CASE UNCHANGED anpr
        BY <2>1, <1>0 DEF anpr, TypeOK
    <2>2. CASE ~ UNCHANGED anpr
        <3>1. PICK v \in Vehicles : Enqueue(v)
            BY <1>0, <2>2 DEF Frame
        <3>2. /\ Len(queue) < QueueMax /\ queue' = Append(queue, v)
              /\ attempts' = [attempts EXCEPT ![v] = @ + 1] /\ attempts[v] < MaxAttempts[v]
            BY <2>2, <3>1 DEF Enqueue, Wanted
        <3>3. queue' \in Seq(Vehicles) /\ Len(queue') <= QueueMax
            BY <1>0, <3>2 DEF TypeOK
        <3>4. DOMAIN attempts' = Vehicles
              /\ \A u \in Vehicles : attempts'[u] \in 0..MaxAttempts[u]
            BY <1>0, <3>2 DEF TypeOK
        <3> QED BY <3>3, <3>4
    <2> QED BY <2>1, <2>2
<1>9. UNCHANGED <<up, read, engine, plates, unit, faults>>
    BY DEF Frame
<1>10. TypeOK'
    BY <1>0, <1>4, <1>5, <1>6, <1>7, <1>8, <1>9 DEF TypeOK, engine
<1> QED BY <1>3, <1>10 DEF LapsLeft

LEMMA FrameInv ==
    ASSUME IndInv, NEW seen \in Seen, NEW gone \in SUBSET Vehicles, Frame(seen, gone)
    PROVE  IndInv'
<1>1. TypeOK' /\ LapsLeft'
    BY FrameTypes
<1>2. \A v \in Vehicles : laps[v] \in Nat
                          /\ laps'[v] = IF v \in Flushed(seen, gone) THEN laps[v] + 1 ELSE laps[v]
    BY TracksAssumption DEF IndInv, TypeOK, Frame
<1>3. \A r \in Rows : /\ r[1] \in Vehicles /\ r[2] \in Nat /\ r = <<r[1], r[2]>>
                      /\ row[r].state # "none" => r[2] <= laps[r[1]]
    BY RowOf, TracksAssumption DEF IndInv, FreshRows
<1>4. \A r \in Rows :
        /\ row'[r].stolen = row[r].stolen /\ row'[r].alert = row[r].alert
        /\ row'[r].clip = row[r].clip
        /\ row'[r].state = IF r[1] \in Flushed(seen, gone) /\ r[2] = laps[r[1]] + 1
                           THEN "staged" ELSE row[r].state
    BY DEF Frame, IndInv, TypeOK, Row
<1>5. FreshRows'
    BY <1>2, <1>3, <1>4 DEF FreshRows
<1>6. /\ flush.pc = "idle" /\ flush.todo = {} /\ flush'.pc \in {"idle", "persist"}
      /\ flush'.todo = Flushed(seen, gone) /\ (flush'.pc = "idle" => flush'.todo = {})
    BY DEF Frame, IndInv, FlushInv, TypeOK, Idle
<1>7. FlushInv'
    <2>1. ASSUME NEW v \in Flushed(seen, gone) PROVE Staged(v)'
        <3>1. v \in Vehicles /\ laps'[v] = laps[v] + 1
            BY <1>2 DEF Flushed, Ended, Seen
        <3>2. <<v, laps'[v]>> \in Rows
            BY <1>1, <1>2, <3>1, RowOf, TracksAssumption DEF TypeOK
        <3> QED BY <1>2, <1>4, <3>1, <3>2 DEF Staged
    <2> QED BY <1>6, <2>1 DEF FlushInv
<1>8. StolenInv'
    <2> SUFFICES ASSUME NEW r \in Rows, row'[r].stolen, ~row'[r].alert
                 PROVE  row'[r].state = "lost"
        BY DEF StolenInv
    <2>1. row[r].state = "lost"
        BY <1>4, <1>6 DEF StolenInv, IndInv
    <2> QED BY <1>2, <1>3, <1>4, <2>1
<1>9. ClipInv'
    BY <1>2, <1>3, <1>4 DEF ClipInv, IndInv
<1>10. UNCHANGED <<up, confirmed>>
    BY DEF Frame, engine
<1> QED BY <1>1, <1>4, <1>5, <1>6, <1>7, <1>8, <1>9, <1>10
        DEF IndInv, RaiseVouched, LockedIsVoted, AlertIsVouchedFor, Stolen

-----------------------------------------------------------------------------
(* The flush *)

\* Most steps move neither the points nor the laps, and put no row back.
LEMMA SameBuffers ==
    ASSUME IndInv, UNCHANGED buffers, row' \in [Rows -> Row],
           \A r \in Rows : row'[r].state # "none" => row[r].state # "none"
    PROVE  LapsLeft' /\ FreshRows'
BY DEF buffers, IndInv, LapsLeft, FreshRows

LEMMA SameEngine ==
    ASSUME IndInv, UNCHANGED confirmed, up = "dead" => up' = "dead",
           \A r \in Rows : row'[r].alert => row[r].alert \/ Stolen(r[1])
    PROVE  LockedIsVoted' /\ AlertIsVouchedFor'
<1>1. \A r \in Rows : r[1] \in Vehicles
    BY RowOf
<1>2. \A v \in Vehicles : Stolen(v) => confirmed[v].conf > 1
    BY DEF IndInv, LockedIsVoted, Stolen
<1> QED BY <1>1, <1>2 DEF IndInv, LockedIsVoted, AlertIsVouchedFor, Stolen

LEMMA PersistInv == ASSUME IndInv, NEW v \in Vehicles, Persist(v) PROVE IndInv'
<1> DEFINE cur == <<v, laps[v]>>
<1>0. /\ TypeOK /\ v \in flush.todo /\ Staged(v) /\ flush.pc = "persist"
      /\ UNCHANGED <<up, buffers, anpr, read, engine, unit, faults>>
      /\ flush' = [pc |-> "check", todo |-> flush.todo \ {v}, cur |-> v,
                   done |-> flush.done \cup {cur}]
      /\ plates' = [plates EXCEPT ![v] = None]
    BY DEF IndInv, FlushInv, Persist
<1>1. cur \in Rows
    BY <1>0, StagedIsRow
<1>2. /\ row' \in [Rows -> Row]
      /\ \A r \in Rows : /\ row'[r].state = row[r].state /\ row'[r].stolen = row[r].stolen
                         /\ row'[r].alert = row[r].alert /\ row'[r].clip = row[r].clip
    <2> DEFINE p == IF plates[v] = None THEN None ELSE plates[v].plate
    <2>1. p \in {"Hot", "Plain", None}
        BY <1>0 DEF TypeOK, Read
    <2>2. row' = [row EXCEPT ![cur].plate = p]
        BY DEF Persist
    <2> HIDE DEF p
    <2>3. row \in [Rows -> Row] /\ \A r \in Rows : [row[r] EXCEPT !.plate = p] \in Row
        BY <1>0, <2>1, RowWith DEF TypeOK
    <2>4. row' \in [Rows -> Row]
        BY <1>1, <2>2, <2>3
    <2>5. \A r \in Rows : row'[r] \in {row[r], [row[r] EXCEPT !.plate = p]}
        BY <2>2, <2>3
    <2> QED BY <2>3, <2>4, <2>5 DEF Row
<1>3. TypeOK'
    <2>1. plates' \in [Vehicles -> Read \cup {None}]
        BY <1>0 DEF TypeOK
    <2>2. flush' \in [pc : {"idle", "persist", "check", "raise", "commit", "appearance"},
                      todo : SUBSET Vehicles, cur : Vehicles \cup {None}, done : SUBSET Rows]
        BY <1>0, <1>1 DEF TypeOK
    <2> QED BY <1>0, <1>2, <2>1, <2>2 DEF TypeOK, buffers, anpr, engine
<1>4. LapsLeft' /\ FreshRows'
    BY <1>0, <1>2, SameBuffers
<1>5. LockedIsVoted' /\ AlertIsVouchedFor'
    BY <1>0, <1>2, SameEngine DEF engine
<1>6. FlushInv'
    <2>1. \A u \in flush.todo : <<u, laps[u]>> \in Rows
        BY <1>0, StagedIsRow DEF IndInv, FlushInv, TypeOK
    <2> QED BY <1>0, <1>2, <2>1 DEF IndInv, FlushInv, Staged, buffers
<1> QED BY <1>0, <1>2, <1>3, <1>4, <1>5, <1>6 DEF IndInv, RaiseVouched, StolenInv, ClipInv

\* The track at hand is a vehicle whose row is in the transaction.
LEMMA CurrentIsRow ==
    ASSUME IndInv, flush.pc \in {"check", "raise"}
    PROVE  flush.cur \in Vehicles /\ Current \in Rows /\ row[Current].state = "staged"
BY StagedIsRow DEF IndInv, FlushInv, Staged, Current

LEMMA CheckInv == ASSUME IndInv, Check PROVE IndInv'
<1> DEFINE said == row[Current].plate # None /\ Stolen(flush.cur)
<1>0. /\ TypeOK /\ flush.pc = "check" /\ Current \in Rows /\ flush.cur \in Vehicles
      /\ row[Current].state = "staged"
      /\ row' = [row EXCEPT ![Current].stolen = said]
      /\ UNCHANGED <<up, buffers, anpr, read, engine, plates, faults>>
    BY CurrentIsRow DEF IndInv, Check
<1>1. /\ row' \in [Rows -> Row]
      /\ \A r \in Rows : /\ row'[r].state = row[r].state /\ row'[r].alert = row[r].alert
                         /\ row'[r].clip = row[r].clip
                         /\ r # Current => row'[r].stolen = row[r].stolen
                         /\ r = Current => row'[r].stolen = said
    <2>1. said \in BOOLEAN
        OBVIOUS
    <2> HIDE DEF said
    <2>2. row \in [Rows -> Row] /\ \A r \in Rows : [row[r] EXCEPT !.stolen = said] \in Row
        BY <1>0, <2>1, RowWith DEF TypeOK
    <2>3. row' \in [Rows -> Row]
        BY <1>0, <2>2
    <2>4. \A r \in Rows : row'[r] = IF r = Current THEN [row[r] EXCEPT !.stolen = said] ELSE row[r]
        BY <1>0, <2>2
    <2> QED BY <2>2, <2>3, <2>4 DEF Row
<1>2. unit' \in [Units -> Rows \cup {None}]
    BY <1>0 DEF Check, DispatchNearest, TypeOK
<1>3. \/ /\ Stolen(flush.cur) /\ flush' = [flush EXCEPT !.pc = "raise"]
      \/ /\ ~Stolen(flush.cur) /\ flush' = NextTrack
    BY DEF Check
<1>4. flush' \in [pc : {"idle", "persist", "check", "raise", "commit", "appearance"},
                  todo : SUBSET Vehicles, cur : Vehicles \cup {None}, done : SUBSET Rows]
    BY <1>0, <1>3 DEF TypeOK, NextTrack
<1>5. TypeOK'
    BY <1>0, <1>1, <1>2, <1>4 DEF TypeOK, buffers, anpr, engine
<1>6. LapsLeft' /\ FreshRows'
    BY <1>0, <1>1, SameBuffers
<1>7. LockedIsVoted' /\ AlertIsVouchedFor'
    BY <1>0, <1>1, SameEngine DEF engine
<1>8. FlushInv'
    <2>1. \A u \in flush.todo : <<u, laps[u]>> \in Rows
        BY <1>0, StagedIsRow DEF IndInv, FlushInv, TypeOK
    <2>2. /\ flush'.todo = flush.todo /\ flush'.pc \in {"raise", "persist", "commit"}
          /\ flush'.pc = "raise" => flush'.cur = flush.cur
          /\ flush'.pc = "commit" => flush.todo = {}
        BY <1>0, <1>3 DEF TypeOK, NextTrack
    <2>3. \A u \in flush.todo \cup {flush.cur} : Staged(u)'
        BY <1>0, <1>1, <2>1 DEF IndInv, FlushInv, Staged, buffers, Current
    <2> QED BY <1>0, <2>2, <2>3 DEF FlushInv
<1>9. RaiseVouched' /\ StolenInv'
    <2>1. CASE Stolen(flush.cur)
        <3>1. flush'.pc = "raise" /\ flush'.cur = flush.cur
            BY <1>0, <1>3, <2>1 DEF TypeOK
        <3>2. Current' = Current
            BY <1>0, <3>1 DEF Current, buffers
        <3> QED BY <1>0, <1>1, <2>1, <3>1, <3>2
                DEF IndInv, RaiseVouched, StolenInv, Stolen, engine
    <2>2. CASE ~Stolen(flush.cur)
        <3>1. flush'.pc # "raise"
            BY <1>0, <1>3, <2>2 DEF TypeOK, NextTrack
        <3> QED BY <1>0, <1>1, <2>2, <3>1 DEF IndInv, RaiseVouched, StolenInv
    <2> QED BY <2>1, <2>2
<1> QED BY <1>1, <1>5, <1>6, <1>7, <1>8, <1>9 DEF IndInv, ClipInv

LEMMA RaiseInv == ASSUME IndInv, Raise PROVE IndInv'
<1>0. /\ TypeOK /\ flush.pc = "raise" /\ Current \in Rows /\ flush.cur \in Vehicles
      /\ row[Current].state = "staged" /\ Stolen(flush.cur)
      /\ row' = [row EXCEPT ![Current].alert = TRUE, ![Current].clip = "queued"]
      /\ flush' = NextTrack
      /\ UNCHANGED <<up, buffers, anpr, read, engine, plates, unit, faults>>
    BY CurrentIsRow DEF IndInv, RaiseVouched, Raise
<1>1. /\ row' \in [Rows -> Row]
      /\ \A r \in Rows : /\ row'[r].state = row[r].state /\ row'[r].stolen = row[r].stolen
                         /\ r # Current => row'[r].alert = row[r].alert
                                           /\ row'[r].clip = row[r].clip
                         /\ r = Current => row'[r].alert /\ row'[r].clip = "queued"
    <2>1. row \in [Rows -> Row]
          /\ \A r \in Rows : [row[r] EXCEPT !.alert = TRUE, !.clip = "queued"] \in Row
        BY <1>0, RowWith DEF TypeOK
    <2>2. \A r \in Rows : row'[r] = IF r = Current
                                     THEN [row[r] EXCEPT !.alert = TRUE, !.clip = "queued"]
                                     ELSE row[r]
        BY <1>0, <2>1
    <2>3. row' = [r \in Rows |-> row'[r]]
        BY <1>0, <2>1
    <2>4. row' \in [Rows -> Row]
        BY <2>1, <2>2, <2>3
    <2>5. \A r \in Rows \ {Current} : row'[r] = row[r]
        BY <2>2
    <2>6. /\ row'[Current].state = row[Current].state /\ row'[Current].clip = "queued"
          /\ row'[Current].stolen = row[Current].stolen /\ row'[Current].alert
        <3>1. row'[Current] = [row[Current] EXCEPT !.alert = TRUE, !.clip = "queued"]
            BY <1>0, <2>2
        <3>2. row[Current] \in Row
            BY <1>0, <2>1
        <3> QED BY <3>1, <3>2 DEF Row
    <2> QED BY <2>4, <2>5, <2>6
<1>2. /\ flush' \in [pc : {"idle", "persist", "check", "raise", "commit", "appearance"},
                     todo : SUBSET Vehicles, cur : Vehicles \cup {None}, done : SUBSET Rows]
      /\ flush'.todo = flush.todo /\ flush'.pc \in {"persist", "commit"}
      /\ flush'.pc = "commit" => flush.todo = {}
    BY <1>0 DEF TypeOK, NextTrack
<1>3. TypeOK'
    BY <1>0, <1>1, <1>2 DEF TypeOK, buffers, anpr, engine
<1>4. LapsLeft' /\ FreshRows'
    BY <1>0, <1>1, SameBuffers
<1>5. LockedIsVoted' /\ AlertIsVouchedFor'
    BY <1>0, <1>1, SameEngine DEF engine, Current
<1>6. FlushInv'
    <2>1. \A u \in flush.todo : <<u, laps[u]>> \in Rows
        BY <1>0, StagedIsRow DEF IndInv, FlushInv, TypeOK
    <2>2. \A u \in flush.todo : Staged(u)'
        BY <1>0, <1>1, <2>1 DEF IndInv, FlushInv, Staged, buffers
    <2> QED BY <1>2, <2>2 DEF FlushInv
<1>7. StolenInv' /\ RaiseVouched'
    BY <1>0, <1>1, <1>2 DEF IndInv, StolenInv, RaiseVouched
<1>8. ClipInv'
    BY <1>0, <1>1 DEF IndInv, ClipInv
<1> QED BY <1>3, <1>4, <1>5, <1>6, <1>7, <1>8 DEF IndInv

\* The transaction ends, one way or the other.
LEMMA SettledRows ==
    ASSUME TypeOK, NEW s \in {"saved", "lost"}, row' = Settled(s)
    PROVE  /\ row' \in [Rows -> Row]
           /\ \A r \in Rows : /\ row'[r].stolen = row[r].stolen /\ row'[r].alert = row[r].alert
                              /\ row'[r].clip = row[r].clip
                              /\ row'[r].state = IF row[r].state = "staged" THEN s
                                                 ELSE row[r].state
<1>1. row \in [Rows -> Row] /\ \A r \in Rows : [row[r] EXCEPT !.state = s] \in Row
    BY RowWith DEF TypeOK
<1>2. /\ row' = [r \in Rows |-> row'[r]]
      /\ \A r \in Rows : row'[r] = IF row[r].state = "staged" THEN [row[r] EXCEPT !.state = s]
                                   ELSE row[r]
    BY DEF Settled
<1>3. row' \in [Rows -> Row]
    BY <1>1, <1>2
<1> QED BY <1>1, <1>2, <1>3 DEF Row

LEMMA CommitInv == ASSUME IndInv, Commit PROVE IndInv'
<1>0. /\ TypeOK /\ flush.pc = "commit" /\ row' = Settled("saved")
      /\ flush' = [flush EXCEPT !.pc = "appearance"] /\ flush.todo = {}
      /\ UNCHANGED <<up, buffers, anpr, read, engine, plates, unit, faults>>
    BY DEF IndInv, FlushInv, Commit
<1>1. /\ row' \in [Rows -> Row]
      /\ \A r \in Rows : /\ row'[r].stolen = row[r].stolen /\ row'[r].alert = row[r].alert
                         /\ row'[r].clip = row[r].clip
                         /\ row'[r].state = IF row[r].state = "staged" THEN "saved"
                                            ELSE row[r].state
    BY <1>0, SettledRows
<1>2. flush' \in [pc : {"idle", "persist", "check", "raise", "commit", "appearance"},
                  todo : SUBSET Vehicles, cur : Vehicles \cup {None}, done : SUBSET Rows]
      /\ flush'.todo = {} /\ flush'.pc = "appearance"
    BY <1>0 DEF TypeOK
<1>3. TypeOK'
    BY <1>0, <1>1, <1>2 DEF TypeOK, buffers, anpr, engine
<1>4. LapsLeft' /\ FreshRows'
    BY <1>0, <1>1, SameBuffers
<1>5. LockedIsVoted' /\ AlertIsVouchedFor'
    BY <1>0, <1>1, SameEngine DEF engine
<1>6. FlushInv' /\ RaiseVouched'
    BY <1>2 DEF FlushInv, RaiseVouched
<1>7. StolenInv'
    BY <1>0, <1>1 DEF IndInv, StolenInv
<1>8. ClipInv'
    BY <1>1 DEF IndInv, ClipInv
<1> QED BY <1>3, <1>4, <1>5, <1>6, <1>7, <1>8 DEF IndInv

\* After a flush that failed, or with the process, nothing is at hand.
LEMMA IdleFlush ==
    ASSUME flush' = Idle
    PROVE  FlushInv' /\ RaiseVouched'
           /\ flush' \in [pc : {"idle", "persist", "check", "raise", "commit", "appearance"},
                         todo : SUBSET Vehicles, cur : Vehicles \cup {None},
                         done : SUBSET Rows]
BY DEF Idle, FlushInv, RaiseVouched

\* A transaction that is rolled back leaves no row that says stolen.
LEMMA LostRows ==
    ASSUME IndInv, row' = Settled("lost")
    PROVE  /\ row' \in [Rows -> Row] /\ StolenInv' /\ ClipInv'
           /\ \A r \in Rows : /\ row'[r].alert = row[r].alert
                              /\ row'[r].state # "none" => row[r].state # "none"
<1>1. /\ row' \in [Rows -> Row]
      /\ \A r \in Rows : /\ row'[r].stolen = row[r].stolen /\ row'[r].alert = row[r].alert
                         /\ row'[r].clip = row[r].clip
                         /\ row'[r].state = IF row[r].state = "staged" THEN "lost"
                                            ELSE row[r].state
    BY SettledRows DEF IndInv
<1>2. ASSUME NEW r \in Rows, row'[r].stolen, ~row'[r].alert PROVE row'[r].state = "lost"
    <2>1. row[r].state = "lost" \/ (flush.pc = "raise" /\ r = Current)
        BY <1>1, <1>2 DEF IndInv, StolenInv
    <2> QED BY <1>1, <2>1, CurrentIsRow
<1>3. StolenInv'
    BY <1>2 DEF StolenInv
<1>4. ClipInv'
    BY <1>1 DEF IndInv, ClipInv
<1> QED BY <1>1, <1>3, <1>4

LEMMA FailInv == ASSUME IndInv, Fail PROVE IndInv'
<1>0. /\ TypeOK /\ row' = Settled("lost") /\ flush' = Idle /\ faults' \in 0..MaxFaults
      /\ UNCHANGED <<up, buffers, anpr, read, engine, plates, unit>>
    BY TracksAssumption DEF IndInv, TypeOK, Fail
<1>1. TypeOK'
    BY <1>0, LostRows, IdleFlush DEF TypeOK, buffers, anpr, engine
<1>2. LapsLeft' /\ FreshRows'
    BY <1>0, LostRows, SameBuffers
<1>3. LockedIsVoted' /\ AlertIsVouchedFor'
    BY <1>0, LostRows, SameEngine DEF engine
<1> QED BY <1>0, <1>1, <1>2, <1>3, LostRows, IdleFlush DEF IndInv

LEMMA WriteAppearanceInv == ASSUME IndInv, WriteAppearance PROVE IndInv'
<1>0. /\ TypeOK /\ flush.pc = "appearance" /\ flush' = Idle
      /\ UNCHANGED <<up, buffers, anpr, read, engine, plates, unit, faults>>
    BY DEF IndInv, WriteAppearance
<1>1. /\ row' \in [Rows -> Row]
      /\ \A r \in Rows : /\ row'[r].state = row[r].state /\ row'[r].stolen = row[r].stolen
                         /\ row'[r].alert = row[r].alert /\ row'[r].clip = row[r].clip
    <2>1. PICK ok \in BOOLEAN :
             row' = [r \in Rows |-> IF r \in flush.done THEN [row[r] EXCEPT !.appearance = ok]
                                    ELSE row[r]]
        BY DEF WriteAppearance
    <2>2. row \in [Rows -> Row] /\ \A r \in Rows : [row[r] EXCEPT !.appearance = ok] \in Row
        BY <1>0, RowWith DEF TypeOK
    <2>3. \A r \in Rows : row'[r] \in {row[r], [row[r] EXCEPT !.appearance = ok]}
        BY <2>1
    <2>4. row' \in [Rows -> Row]
        BY <2>1, <2>2
    <2> QED BY <2>2, <2>3, <2>4 DEF Row
<1>2. TypeOK'
    BY <1>0, <1>1, IdleFlush DEF TypeOK, buffers, anpr, engine
<1>3. LapsLeft' /\ FreshRows'
    BY <1>0, <1>1, SameBuffers
<1>4. LockedIsVoted' /\ AlertIsVouchedFor'
    BY <1>0, <1>1, SameEngine DEF engine
<1>5. StolenInv' /\ ClipInv'
    BY <1>0, <1>1 DEF IndInv, StolenInv, ClipInv
<1> QED BY <1>0, <1>2, <1>3, <1>4, <1>5, IdleFlush DEF IndInv

-----------------------------------------------------------------------------
(* The worker, and the rest *)

\* What neither the buffers nor the flush nor the rows are touched by.
LEMMA SameTransaction ==
    ASSUME IndInv, UNCHANGED <<buffers, flush, row>>
    PROVE  /\ LapsLeft' /\ FreshRows' /\ FlushInv' /\ StolenInv' /\ ClipInv'
           /\ row' \in [Rows -> Row]
<1>1. LapsLeft' /\ FreshRows' /\ ClipInv' /\ row' \in [Rows -> Row]
    BY DEF IndInv, TypeOK, LapsLeft, FreshRows, ClipInv, buffers
<1>2. FlushInv'
    BY DEF IndInv, FlushInv, Staged, buffers
<1>3. StolenInv'
    BY DEF IndInv, StolenInv, Current, buffers
<1> QED BY <1>1, <1>2, <1>3

\* The engine may lock a plate while the flush is under way; it changes none.
LEMMA ReadCropInv == ASSUME IndInv, NEW v \in Vehicles, ReadCrop(v) PROVE IndInv'
<1>0. /\ TypeOK /\ queue # <<>> /\ queue' = Tail(queue)
      /\ UNCHANGED <<up, buffers, attempts, plates, flush, row, unit, faults>>
    BY DEF IndInv, ReadCrop
<1>1. /\ read' \in [v : Vehicles, r : Read] \cup {None} /\ voted' \subseteq Vehicles
      /\ \/ UNCHANGED confirmed
         \/ /\ confirmed[v] = None
            /\ \E r \in Read : /\ r.locked /\ r.conf > 1
                                /\ confirmed' = [confirmed EXCEPT ![v] = r]
    <2>1. CASE confirmed[v] # None /\ read' = [v |-> v, r |-> confirmed[v]] /\ UNCHANGED engine
        BY <1>0, <2>1 DEF TypeOK, engine
    <2>2. CASE UNCHANGED <<read, engine>>
        BY <1>0, <2>2 DEF TypeOK, engine
    <2>3. ASSUME NEW plate \in {"Hot", "Plain"}, NEW conf \in 1..3,
                 confirmed[v] = None,
                 read' = [v |-> v, r |-> Result(v, plate, conf)],
                 voted' = IF conf > 1 THEN voted \cup {v} ELSE voted,
                 confirmed' = IF Locks(v, conf)
                              THEN [confirmed EXCEPT ![v] = Result(v, plate, conf)]
                              ELSE confirmed
          PROVE  <1>1!1 /\ <1>1!2
        <3> DEFINE new == Result(v, plate, conf)
        <3>1. new \in Read /\ new.conf = conf /\ new.locked = Locks(v, conf)
            BY DEF Result, Read, Locks
        <3>2. Locks(v, conf) => conf > 1
            BY DEF Locks
        <3> QED BY <1>0, <2>3, <3>1, <3>2 DEF TypeOK
    <2> QED BY <2>1, <2>2, <2>3 DEF ReadCrop
<1>2. confirmed' \in [Vehicles -> {r \in Read : r.locked} \cup {None}]
    BY <1>0, <1>1 DEF TypeOK
<1>3. LockedIsVoted' /\ \A u \in Vehicles : confirmed[u] # None => confirmed'[u] = confirmed[u]
    BY <1>0, <1>1 DEF IndInv, TypeOK, LockedIsVoted
<1>4. AlertIsVouchedFor'
    BY <1>0, <1>3, RowOf DEF IndInv, AlertIsVouchedFor, Stolen
<1>5. RaiseVouched'
    BY <1>0, <1>3 DEF IndInv, FlushInv, RaiseVouched, Stolen
<1>6. queue' \in Seq(Vehicles) /\ Len(queue') <= QueueMax
    BY <1>0, TracksAssumption DEF TypeOK
<1>7. TypeOK'
    BY <1>0, <1>1, <1>2, <1>6 DEF TypeOK, buffers
<1> QED BY <1>0, <1>3, <1>4, <1>5, <1>7, SameTransaction DEF IndInv

LEMMA StoreInv == ASSUME IndInv, Store PROVE IndInv'
<1>0. /\ TypeOK /\ read # None /\ read' = None
      /\ UNCHANGED <<up, buffers, anpr, engine, flush, row, unit, faults>>
    BY DEF IndInv, Store
<1>1. plates' \in [Vehicles -> Read \cup {None}]
    BY <1>0 DEF TypeOK, Store
<1>2. TypeOK'
    BY <1>0, <1>1 DEF TypeOK, buffers, anpr, engine
<1> QED BY <1>0, <1>2, SameTransaction
        DEF IndInv, RaiseVouched, LockedIsVoted, AlertIsVouchedFor, Stolen, engine

LEMMA CaptureInv == ASSUME IndInv, NEW r \in Rows, Capture(r) PROVE IndInv'
<1> DEFINE c == IF row[r].state = "saved" THEN "cut" ELSE "refused"
<1>0. /\ TypeOK /\ row[r].clip = "queued" /\ row' = [row EXCEPT ![r].clip = c]
      /\ UNCHANGED <<up, buffers, anpr, read, engine, plates, flush, unit, faults>>
    BY DEF IndInv, Capture
<1>1. /\ row' \in [Rows -> Row]
      /\ \A x \in Rows : /\ row'[x].state = row[x].state /\ row'[x].stolen = row[x].stolen
                         /\ row'[x].alert = row[x].alert
                         /\ row'[x].clip = IF x = r THEN c ELSE row[x].clip
    <2>1. c \in {"cut", "refused"}
        OBVIOUS
    <2> HIDE DEF c
    <2>2. row \in [Rows -> Row] /\ \A x \in Rows : [row[x] EXCEPT !.clip = c] \in Row
        BY <1>0, <2>1, RowWith DEF TypeOK
    <2>3. \A x \in Rows : row'[x] = IF x = r THEN [row[x] EXCEPT !.clip = c] ELSE row[x]
        BY <1>0, <2>2
    <2>4. row' \in [Rows -> Row]
        BY <1>0, <2>2
    <2> QED BY <2>2, <2>3, <2>4 DEF Row
<1>2. TypeOK'
    BY <1>0, <1>1 DEF TypeOK, buffers, anpr, engine
<1>3. LapsLeft' /\ FreshRows'
    BY <1>0, <1>1, SameBuffers
<1>4. LockedIsVoted' /\ AlertIsVouchedFor'
    BY <1>0, <1>1, SameEngine DEF engine
<1>5. FlushInv'
    <2>1. \A u \in flush.todo \cup {flush.cur} : u \in Vehicles /\ Staged(u) => <<u, laps[u]>> \in Rows
        BY <1>0, StagedIsRow
    <2> QED BY <1>0, <1>1, <2>1 DEF IndInv, TypeOK, FlushInv, Staged, buffers
<1>6. StolenInv' /\ RaiseVouched'
    BY <1>0, <1>1 DEF IndInv, StolenInv, RaiseVouched, Stolen, Current, buffers, engine
<1>7. ClipInv'
    BY <1>0, <1>1 DEF IndInv, ClipInv
<1> QED BY <1>2, <1>3, <1>4, <1>5, <1>6, <1>7 DEF IndInv

LEMMA DieInv == ASSUME IndInv, Die PROVE IndInv'
<1> USE TracksAssumption
<1>0. /\ TypeOK /\ up' = "dead" /\ row' = Settled("lost") /\ Forgotten /\ flush' = Idle
      /\ UNCHANGED <<laps, unit, faults>>
    BY DEF IndInv, Die, Forgotten
<1>1. /\ pts' \in [Vehicles -> 0..(MaxPoints - 1)] /\ \A v \in Vehicles : pts'[v] = 0
      /\ DOMAIN attempts' = Vehicles /\ \A v \in Vehicles : attempts'[v] \in 0..MaxAttempts[v]
    BY <1>0 DEF Forgotten, Zero
<1>2. /\ queue' \in Seq(Vehicles) /\ Len(queue') <= QueueMax
      /\ read' \in [v : Vehicles, r : Read] \cup {None} /\ voted' \subseteq Vehicles
    BY <1>0 DEF Forgotten
<1>3. /\ confirmed' \in [Vehicles -> {r \in Read : r.locked} \cup {None}]
      /\ plates' \in [Vehicles -> Read \cup {None}]
      /\ \A v \in Vehicles : confirmed'[v] = None
    BY <1>0 DEF Forgotten, Nothing
<1>4. TypeOK'
    BY <1>0, <1>1, <1>2, <1>3, LostRows, IdleFlush DEF TypeOK
<1>5. LapsLeft' /\ FreshRows'
    BY <1>0, <1>1, LostRows DEF IndInv, LapsLeft, FreshRows
<1>6. LockedIsVoted' /\ AlertIsVouchedFor'
    BY <1>0, <1>3 DEF LockedIsVoted, AlertIsVouchedFor
<1> QED BY <1>0, <1>4, <1>5, <1>6, LostRows, IdleFlush DEF IndInv

LEMMA NextInv == IndInv /\ [Next]_vars => IndInv'
<1> SUFFICES ASSUME IndInv, [Next]_vars PROVE IndInv'
    OBVIOUS
<1>1. ASSUME NEW seen \in Seen, NEW gone \in SUBSET Vehicles, Frame(seen, gone) PROVE IndInv'
    BY <1>1, FrameInv
<1>2. CASE Flushing
    BY <1>2, PersistInv, CheckInv, RaiseInv, CommitInv, WriteAppearanceInv DEF Flushing
<1>3. CASE Fail
    BY <1>3, FailInv
<1>4. CASE Worker
    BY <1>4, ReadCropInv, StoreInv DEF Worker
<1>5. ASSUME NEW r \in Rows, Capture(r) PROVE IndInv'
    BY <1>5, CaptureInv
<1>6. CASE Stop
    <2>1. up' = "stopping" /\ up # "dead"
          /\ UNCHANGED <<buffers, anpr, read, engine, plates, flush, row, unit, faults>>
        BY <1>6 DEF Stop
    <2>2. TypeOK'
        BY <2>1 DEF IndInv, TypeOK, buffers, anpr, engine
    <2> QED BY <2>1, <2>2, SameTransaction
            DEF IndInv, RaiseVouched, LockedIsVoted, AlertIsVouchedFor, Stolen, engine
<1>7. CASE Die
    BY <1>7, DieInv
<1>8. CASE UNCHANGED vars
    <2>1. UNCHANGED <<up, buffers, anpr, read, engine, plates, flush, row, unit, faults>>
        BY <1>8 DEF vars
    <2>2. TypeOK'
        BY <2>1 DEF IndInv, TypeOK, buffers, anpr, engine
    <2> QED BY <2>1, <2>2, SameTransaction
            DEF IndInv, RaiseVouched, LockedIsVoted, AlertIsVouchedFor, Stolen, engine
<1> QED BY <1>1, <1>2, <1>3, <1>4, <1>5, <1>6, <1>7, <1>8 DEF Next

-----------------------------------------------------------------------------
(* The theorems *)

THEOREM Invariance == Spec => []IndInv
<1>1. Init => IndInv
    BY InitInv
<1>2. IndInv /\ [Next]_vars => IndInv'
    BY NextInv
<1> QED BY <1>1, <1>2, PTL DEF Spec

\* Buffers, the queue of crops, the engine, the flush and the rows keep their types.
THEOREM TypeCorrect == Spec => []TypeOK
<1>1. IndInv => TypeOK
    BY DEF IndInv
<1> QED BY <1>1, Invariance, PTL

\* A stolen-vehicle alert rests on a plate the engine locked on a real vote.
THEOREM AlertsAreVouchedFor == Spec => []AlertIsVouchedFor
<1>1. IndInv => AlertIsVouchedFor
    BY DEF IndInv
<1> QED BY <1>1, Invariance, PTL

\* A saved event that says stolen has its alert, whatever the worker did meanwhile.
THEOREM StolenEventsHaveAlerts == Spec => []StolenEventHasAlert
<1>1. IndInv => StolenEventHasAlert
    <2> SUFFICES ASSUME IndInv, NEW r \in Rows, row[r].state = "saved", row[r].stolen
                 PROVE  row[r].alert
        BY DEF StolenEventHasAlert
    <2> QED BY CurrentIsRow DEF IndInv, StolenInv
<1> QED BY <1>1, Invariance, PTL

\* A clip is cut for an alert that is saved, although its job comes before the commit.
THEOREM ClipsHaveAlerts == Spec => []ClipHasAlert
<1>1. IndInv => ClipHasAlert
    BY DEF IndInv, ClipInv, ClipHasAlert
<1> QED BY <1>1, Invariance, PTL

-----------------------------------------------------------------------------
(* The ledger: a frame's rows appear together and are never changed *)

\* A step that changes nothing of a saved row and cuts no clip is not seen.
LEMMA Unseen ==
    ASSUME \A r \in Rows :
             /\ row'[r].state = "saved" <=> row[r].state = "saved"
             /\ row[r].state = "saved" => /\ row'[r].stolen = row[r].stolen
                                          /\ row'[r].alert = row[r].alert
             /\ row'[r].clip = "cut" <=> row[r].clip = "cut"
    PROVE  UNCHANGED Ledger!ledger
<1>1. {r \in Rows : Saved(r)}' = {r \in Rows : Saved(r)}
    BY DEF Saved
<1>2. {r \in Rows : Saved(r) /\ row[r].stolen}' = {r \in Rows : Saved(r) /\ row[r].stolen}
    BY DEF Saved
<1>3. {r \in Rows : Saved(r) /\ row[r].alert}' = {r \in Rows : Saved(r) /\ row[r].alert}
    BY DEF Saved
<1>4. {r \in Rows : row[r].clip = "cut"}' = {r \in Rows : row[r].clip = "cut"}
    OBVIOUS
<1> QED BY <1>1, <1>2, <1>3, <1>4 DEF Ledger!ledger

\* The row at hand is in the open transaction, and so are those of a frame.
LEMMA FrameUnseen ==
    ASSUME IndInv, NEW seen \in Seen, NEW gone \in SUBSET Vehicles, Frame(seen, gone)
    PROVE  UNCHANGED Ledger!ledger
<1>0. \A v \in Vehicles : laps[v] \in Nat
    BY TracksAssumption DEF IndInv, TypeOK
<1>1. \A r \in Rows : /\ r[1] \in Vehicles /\ r[2] \in Nat /\ laps[r[1]] \in Nat
                      /\ row[r].state = "saved" => r[2] <= laps[r[1]]
    BY <1>0, RowOf, TracksAssumption DEF IndInv, FreshRows
<1>2. \A r \in Rows :
        /\ row'[r].stolen = row[r].stolen /\ row'[r].alert = row[r].alert
        /\ row'[r].clip = row[r].clip
        /\ row'[r].state = IF r[1] \in Flushed(seen, gone) /\ r[2] = laps[r[1]] + 1
                           THEN "staged" ELSE row[r].state
    BY DEF Frame, IndInv, TypeOK, Row
<1>3. \A r \in Rows : row'[r].state = "saved" <=> row[r].state = "saved"
    BY <1>1, <1>2
<1> QED BY <1>2, <1>3, Unseen

LEMMA RowAtHandUnseen ==
    ASSUME IndInv, NEW cur \in Rows, row[cur].state = "staged",
           row' \in [Rows -> Row], row'[cur].state = "staged", row'[cur].clip # "cut",
           \A r \in Rows \ {cur} : row'[r] = row[r]
    PROVE  UNCHANGED Ledger!ledger
<1>1. row[cur].clip # "cut"
    BY DEF IndInv, ClipInv
<1> QED BY <1>1, Unseen

LEMMA FlushingUnseen ==
    ASSUME IndInv, (\E v \in Vehicles : Persist(v)) \/ Check \/ Raise
    PROVE  UNCHANGED Ledger!ledger
<1>0. row \in [Rows -> Row]
    BY DEF IndInv, TypeOK
<1>1. ASSUME NEW v \in Vehicles, Persist(v) PROVE UNCHANGED Ledger!ledger
    <2>1. PICK cur : cur = <<v, laps[v]>>
        OBVIOUS
    <2>2. cur \in Rows /\ row[cur].state = "staged"
        BY <1>1, <2>1, StagedIsRow DEF IndInv, FlushInv, Persist, Staged
    <2>3. PICK p : p = IF plates[v] = None THEN None ELSE plates[v].plate
        OBVIOUS
    <2>4. p \in {"Hot", "Plain", None}
        BY <2>3 DEF IndInv, TypeOK, Read
    <2>5. row' = [row EXCEPT ![cur].plate = p]
        BY <1>1, <2>1, <2>3 DEF Persist
    <2>6. [row[cur] EXCEPT !.plate = p] \in Row
        BY <1>0, <2>2, <2>4, RowWith
    <2>7. /\ row' \in [Rows -> Row] /\ \A r \in Rows \ {cur} : row'[r] = row[r]
          /\ row'[cur].state = "staged" /\ row'[cur].clip = row[cur].clip
        BY <1>0, <2>2, <2>5, <2>6 DEF Row
    <2>8. row'[cur].clip # "cut"
        BY <2>2, <2>7 DEF IndInv, ClipInv
    <2> QED BY <2>2, <2>7, <2>8, RowAtHandUnseen
<1>2. CASE Check
    <2>1. PICK cur \in Rows : cur = Current /\ row[cur].state = "staged"
        BY <1>2, CurrentIsRow DEF Check
    <2>2. PICK said \in BOOLEAN : row' = [row EXCEPT ![cur].stolen = said]
        BY <1>2, <2>1 DEF Check
    <2>3. [row[cur] EXCEPT !.stolen = said] \in Row
        BY <1>0, <2>1, RowWith
    <2>4. /\ row' \in [Rows -> Row] /\ \A r \in Rows \ {cur} : row'[r] = row[r]
          /\ row'[cur].state = "staged" /\ row'[cur].clip = row[cur].clip
        BY <1>0, <2>1, <2>2, <2>3 DEF Row
    <2>5. row'[cur].clip # "cut"
        BY <2>1, <2>4 DEF IndInv, ClipInv
    <2> QED BY <2>1, <2>4, <2>5, RowAtHandUnseen
<1>3. CASE Raise
    <2>1. PICK cur \in Rows : cur = Current /\ row[cur].state = "staged"
        BY <1>3, CurrentIsRow DEF Raise
    <2>2. row' = [row EXCEPT ![cur] = [row[cur] EXCEPT !.alert = TRUE, !.clip = "queued"]]
        BY <1>0, <1>3, <2>1 DEF Raise
    <2>3. [row[cur] EXCEPT !.alert = TRUE, !.clip = "queued"] \in Row
        BY <1>0, <2>1, RowWith
    <2>4. /\ row' \in [Rows -> Row] /\ \A r \in Rows \ {cur} : row'[r] = row[r]
          /\ row'[cur].state = "staged" /\ row'[cur].clip = "queued"
        BY <1>0, <2>1, <2>2, <2>3 DEF Row
    <2> QED BY <2>1, <2>4, RowAtHandUnseen
<1> QED BY <1>1, <1>2, <1>3

\* The commit: all staged rows appear, and the flush is past its last alert.
LEMMA CommitRecords ==
    ASSUME IndInv, Commit
    PROVE  \E R \in SUBSET (Rows \ {r \in Rows : Saved(r)}) :
              \E A \in SUBSET R : \E M \in SUBSET A : Ledger!Record(R, A, M)
<1>1. PICK R, A, M : /\ R = {r \in Rows : row[r].state = "staged"}
                     /\ A = {r \in R : row[r].alert}
                     /\ M = {r \in R : row[r].stolen}
    OBVIOUS
<1>2. \A r \in Rows : /\ row'[r].stolen = row[r].stolen /\ row'[r].alert = row[r].alert
                      /\ row'[r].clip = row[r].clip
                      /\ row'[r].state = IF row[r].state = "staged" THEN "saved"
                                         ELSE row[r].state
    BY SettledRows DEF Commit, IndInv
<1>3. M \subseteq A
    BY <1>1 DEF Commit, IndInv, StolenInv
<1>4. {r \in Rows : Saved(r)}' = {r \in Rows : Saved(r)} \cup R
    BY <1>1, <1>2 DEF Saved
<1>5. {r \in Rows : Saved(r) /\ row[r].alert}' = {r \in Rows : Saved(r) /\ row[r].alert} \cup A
    BY <1>1, <1>2 DEF Saved
<1>6. {r \in Rows : Saved(r) /\ row[r].stolen}' = {r \in Rows : Saved(r) /\ row[r].stolen} \cup M
    BY <1>1, <1>2 DEF Saved
<1>7. {r \in Rows : row[r].clip = "cut"}' = {r \in Rows : row[r].clip = "cut"}
    BY <1>2
<1>8. Ledger!Record(R, A, M)
    BY <1>4, <1>5, <1>6, <1>7 DEF Ledger!Record
<1>9. R \subseteq Rows \ {r \in Rows : Saved(r)} /\ A \subseteq R
    BY <1>1 DEF Saved
<1> QED BY <1>3, <1>8, <1>9

\* What is rolled back was never seen.
LEMMA LostUnseen == ASSUME IndInv, row' = Settled("lost") PROVE UNCHANGED Ledger!ledger
<1>1. \A r \in Rows : /\ row'[r].stolen = row[r].stolen /\ row'[r].alert = row[r].alert
                      /\ row'[r].clip = row[r].clip
                      /\ row'[r].state = IF row[r].state = "staged" THEN "lost"
                                         ELSE row[r].state
    BY SettledRows DEF IndInv
<1> QED BY <1>1, Unseen

LEMMA AppearanceUnseen == ASSUME IndInv, WriteAppearance PROVE UNCHANGED Ledger!ledger
<1>1. \A r \in Rows : /\ row'[r].state = row[r].state /\ row'[r].stolen = row[r].stolen
                      /\ row'[r].alert = row[r].alert /\ row'[r].clip = row[r].clip
    BY DEF WriteAppearance, IndInv, TypeOK, Row
<1> QED BY <1>1, Unseen

\* A clip job that finds its alert cuts the clip; one that does not is not seen.
LEMMA CaptureCuts ==
    ASSUME IndInv, NEW r \in Rows, Capture(r)
    PROVE  Ledger!Cut(r) \/ UNCHANGED Ledger!ledger
<1>1. \A x \in Rows : /\ row'[x].state = row[x].state /\ row'[x].stolen = row[x].stolen
                      /\ row'[x].alert = row[x].alert
                      /\ x # r => row'[x].clip = row[x].clip
    BY DEF Capture, IndInv, TypeOK, Row
<1>2. row[r].clip = "queued" /\ row[r].alert
      /\ row'[r].clip = IF row[r].state = "saved" THEN "cut" ELSE "refused"
    BY DEF Capture, IndInv, TypeOK, Row, ClipInv
<1>3. CASE row[r].state = "saved"
    <2>1. {x \in Rows : Saved(x)}' = {x \in Rows : Saved(x)}
        BY <1>1 DEF Saved
    <2>2. {x \in Rows : Saved(x) /\ row[x].stolen}' = {x \in Rows : Saved(x) /\ row[x].stolen}
        BY <1>1 DEF Saved
    <2>3. {x \in Rows : Saved(x) /\ row[x].alert}' = {x \in Rows : Saved(x) /\ row[x].alert}
        BY <1>1 DEF Saved
    <2>4. {x \in Rows : row[x].clip = "cut"}' = {x \in Rows : row[x].clip = "cut"} \cup {r}
        BY <1>1, <1>2, <1>3
    <2>5. r \in {x \in Rows : Saved(x) /\ row[x].alert} \ {x \in Rows : row[x].clip = "cut"}
        BY <1>2, <1>3 DEF Saved
    <2> QED BY <2>1, <2>2, <2>3, <2>4, <2>5 DEF Ledger!Cut
<1>4. CASE row[r].state # "saved"
    BY <1>1, <1>2, <1>4, Unseen
<1> QED BY <1>3, <1>4

LEMMA NextLedger == IndInv /\ [Next]_vars => [Ledger!LedgerNext]_(Ledger!ledger)
<1> SUFFICES ASSUME IndInv, [Next]_vars PROVE [Ledger!LedgerNext]_(Ledger!ledger)
    OBVIOUS
<1>1. CASE \E seen \in Seen, gone \in SUBSET Vehicles : Frame(seen, gone)
    BY <1>1, FrameUnseen
<1>2. CASE Flushing
    <2>1. CASE Commit
        BY <2>1, CommitRecords DEF Ledger!LedgerNext
    <2> QED BY <1>2, <2>1, FlushingUnseen, AppearanceUnseen DEF Flushing
<1>3. CASE Fail \/ Die
    BY <1>3, LostUnseen DEF Fail, Die
<1>4. CASE \E r \in Rows : Capture(r)
    BY <1>4, CaptureCuts DEF Ledger!LedgerNext
<1>5. CASE Worker \/ Stop \/ UNCHANGED vars
    <2>1. row' = row
        BY <1>5 DEF Worker, ReadCrop, Store, Stop, vars
    <2> QED BY <2>1, Unseen
<1> QED BY <1>1, <1>2, <1>3, <1>4, <1>5 DEF Next

\* The tables keep the ledger's promise: rows, marks and alerts of a frame appear
\* together and never change, and clips are cut for alerts that can be seen.
THEOREM RecordsAreKept == Spec => RecordKept
<1>1. Init => Ledger!LedgerInit
    BY DEF Init, Ledger!LedgerInit, Saved
<1>2. IndInv /\ [Next]_vars => [Ledger!LedgerNext]_(Ledger!ledger)
    BY NextLedger
<1> QED BY <1>1, <1>2, Invariance, PTL DEF Spec, RecordKept, Ledger!LedgerSpec

=============================================================================
