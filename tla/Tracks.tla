------------------------------- MODULE Tracks -------------------------------
(***************************************************************************)
(* From a vehicle in view to a stolen-vehicle alert, for one camera of the *)
(* pipeline (backend/services/live_24x7_pipeline.py): the inference thread *)
(* buffers the points of each track and flushes tracks that went stale or  *)
(* grew long, one transaction for all of a frame; the ANPR worker reads    *)
(* plates from queued crops beside it (backend/services/anpr_engine.py);   *)
(* two evidence threads cut clips; and the patrol units are those of       *)
(* backend/services/cad_dispatch.py, in this process's memory.             *)
(*                                                                         *)
(* A plate is Hot, on the stolen list, or Plain. A read has a confidence   *)
(* of 1 (not counted as a vote), 2 (a vote) or 3 (locks the plate at       *)
(* once). A track that is flushed and still in view starts another lap,    *)
(* with a row of its own. Track ids are not reused, so that what the       *)
(* pipeline and the engine forget when they hold too many of them is left  *)
(* out. The settings are those of start_top10_live.ps1 (ANPR in a thread)  *)
(* and the engine's defaults (no report gate, no appearance reset).        *)
(***************************************************************************)
EXTENDS Naturals, Sequences, FiniteSets, FiniteSetsExt

CONSTANTS
    Vehicles,    \* track ids
    Units,       \* patrol units
    None,
    MinPoints,   \* points of a track that is stored at all (4)
    MaxPoints,   \* TRACK_MAX_POINTS (60)
    QueueMax,    \* maxsize of _anpr_queue (300)
    MaxAttempts, \* max_attempts of a vehicle (18 or 24); one that grows gets more
    MaxLaps,     \* bound on the rows of one track
    MaxFaults    \* bound on transactions that fail

ASSUME TracksAssumption ==
    /\ None \notin Vehicles \cup Units
    /\ MinPoints \in Nat /\ MaxPoints \in Nat /\ 0 < MinPoints /\ MinPoints <= MaxPoints
    /\ QueueMax \in Nat \ {0} /\ MaxAttempts \in [Vehicles -> Nat]
    /\ MaxLaps \in [Vehicles -> Nat] /\ MaxFaults \in Nat

VARIABLES
    up,        \* running; stopping, once stop() was called; dead
    pts,       \* _track_buffers: the points of a track, 0 when it has no buffer
    laps,      \* how often a track has been flushed into a row
    queue,     \* _anpr_queue: the tracks of the crops
    attempts,  \* _anpr_enqueued_counts
    read,      \* what the worker has got for a crop and not stored yet
    voted,     \* the tracks with one vote
    confirmed, \* _confirmed_plates of the engine
    plates,    \* _track_plates of the pipeline: the best read of a track
    flush,     \* the inference thread inside _flush_completed_tracks
    row,       \* the rows of a track, with what is known of their alert
    unit,      \* the row whose alert a unit was sent for
    faults

buffers == <<pts, laps>>
anpr == <<queue, attempts>>
engine == <<voted, confirmed>>
vars == <<up, buffers, anpr, read, engine, plates, flush, row, unit, faults>>

Read == [plate : {"Hot", "Plain"}, conf : 1..3, locked : BOOLEAN]
Rows == UNION {{v} \X (1..MaxLaps[v]) : v \in Vehicles}
Idle == [pc |-> "idle", todo |-> {}, cur |-> None, done |-> {}]

Row == [state : {"none", "staged", "saved", "lost"},  \* staged: chosen for a transaction
        plate : {"Hot", "Plain", None},  \* VehicleTrack.plate_text
        stolen : BOOLEAN,                \* an ANPREvent says is_stolen
        alert : BOOLEAN,                 \* a STOLEN_VEHICLE_WATCHLIST_HIT was added
        clip : {"none", "queued", "cut", "refused"},
        appearance : BOOLEAN]            \* a TrackAppearance was stored

TypeOK ==
    /\ up \in {"running", "stopping", "dead"}
    /\ pts \in [Vehicles -> 0..(MaxPoints - 1)]
    /\ DOMAIN laps = Vehicles /\ \A v \in Vehicles : laps[v] \in 0..MaxLaps[v]
    /\ queue \in Seq(Vehicles) /\ Len(queue) <= QueueMax
    /\ \A v \in Vehicles : attempts[v] \in 0..MaxAttempts[v]
    /\ DOMAIN attempts = Vehicles
    /\ read \in [v : Vehicles, r : Read] \cup {None}
    /\ voted \subseteq Vehicles
    /\ confirmed \in [Vehicles -> {r \in Read : r.locked} \cup {None}]
    /\ plates \in [Vehicles -> Read \cup {None}]
    /\ flush \in [pc : {"idle", "persist", "check", "raise", "commit", "appearance"},
                  todo : SUBSET Vehicles, cur : Vehicles \cup {None}, done : SUBSET Rows]
    /\ row \in [Rows -> Row]
    /\ unit \in [Units -> Rows \cup {None}]
    /\ faults \in 0..MaxFaults

Zero == [v \in Vehicles |-> 0]
Nothing == [v \in Vehicles |-> None]

Init ==
    /\ up = "running"
    /\ pts = Zero /\ laps = Zero
    /\ queue = <<>> /\ attempts = Zero
    /\ read = None
    /\ voted = {} /\ confirmed = Nothing
    /\ plates = Nothing
    /\ flush = Idle
    /\ row = [r \in Rows |-> [state |-> "none", plate |-> None, stolen |-> FALSE,
                              alert |-> FALSE, clip |-> "none", appearance |-> FALSE]]
    /\ unit = [u \in Units |-> None]
    /\ faults = 0

\* What the flush asks of the engine.
Stolen(v) == confirmed[v] # None /\ confirmed[v].plate = "Hot"

-----------------------------------------------------------------------------
(* The inference thread: a frame *)

\* _enqueue_anpr_crop. A vehicle may be too small to be queued; a full queue
\* drops the crop, and a dropped crop is no attempt.
Wanted(v) == ~(plates[v] # None /\ plates[v].locked) /\ attempts[v] < MaxAttempts[v]

Enqueue(v) ==
    \/ UNCHANGED anpr
    \/ /\ Wanted(v) /\ Len(queue) < QueueMax
       /\ queue' = Append(queue, v)
       /\ attempts' = [attempts EXCEPT ![v] = @ + 1]

\* The tracks of `gone` have not been seen for TRACK_STALE_SECONDS when this
\* frame ends. Every track that is gone or long leaves the buffers, and those
\* that have enough points are stored.
Ended(seen, gone) == gone \cup {v \in seen : pts[v] + 1 >= MaxPoints}

Flushed(seen, gone) ==
    {v \in Ended(seen, gone) : (IF v \in seen THEN pts[v] + 1 ELSE pts[v]) >= MinPoints}

Frame(seen, gone) ==
    /\ up = "running" /\ flush.pc = "idle"
    /\ \A v \in seen : laps[v] < MaxLaps[v]
    /\ gone \subseteq {v \in Vehicles \ seen : pts[v] > 0}
    /\ pts' = [v \in Vehicles |-> IF v \in Ended(seen, gone) THEN 0
                                  ELSE IF v \in seen THEN pts[v] + 1 ELSE pts[v]]
    /\ laps' = [v \in Vehicles |-> IF v \in Flushed(seen, gone) THEN laps[v] + 1 ELSE laps[v]]
    /\ flush' = IF Flushed(seen, gone) = {} THEN flush
                ELSE [Idle EXCEPT !.pc = "persist", !.todo = Flushed(seen, gone)]
    /\ row' = [r \in Rows |-> IF r[1] \in Flushed(seen, gone) /\ r[2] = laps[r[1]] + 1
                              THEN [row[r] EXCEPT !.state = "staged"] ELSE row[r]]
    /\ IF seen = {} THEN UNCHANGED anpr ELSE \E v \in seen : Enqueue(v)
    /\ UNCHANGED <<up, read, engine, plates, unit, faults>>

-----------------------------------------------------------------------------
(* The inference thread: _flush_completed_tracks and _persist_vehicle_track *)

Current == <<flush.cur, laps[flush.cur]>>

\* Seeded fault: the row is committed to get its id, where a flush would do.
PersistCommits(v) ==
    /\ flush.pc = "persist" /\ v \in flush.todo
    /\ row' = [row EXCEPT ![<<v, laps[v]>>].plate = IF plates[v] = None THEN None
                                                    ELSE plates[v].plate,
                          ![<<v, laps[v]>>].state = "saved"]
    /\ plates' = [plates EXCEPT ![v] = None]
    /\ flush' = [pc |-> "check", todo |-> flush.todo \ {v}, cur |-> v,
                 done |-> flush.done \cup {<<v, laps[v]>>}]
    /\ UNCHANGED <<up, buffers, anpr, read, engine, unit, faults>>

\* A row is added and takes the best read out of _track_plates.
Persist(v) ==
    /\ flush.pc = "persist" /\ v \in flush.todo
    /\ row' = [row EXCEPT ![<<v, laps[v]>>].plate = IF plates[v] = None THEN None
                                                    ELSE plates[v].plate]
    /\ plates' = [plates EXCEPT ![v] = None]
    /\ flush' = [pc |-> "check", todo |-> flush.todo \ {v}, cur |-> v,
                 done |-> flush.done \cup {<<v, laps[v]>>}]
    /\ UNCHANGED <<up, buffers, anpr, read, engine, unit, faults>>

NextTrack == [flush EXCEPT !.pc = IF flush.todo = {} THEN "commit" ELSE "persist",
                           !.cur = None]

\* dispatch_nearest: any free unit, since nearness is data, or none when the
\* positions are older than 60 seconds, which nothing in this process renews.
\* A unit is not freed here.
FreeUnits == {u \in Units : unit[u] = None}

DispatchNearest(r) ==
    \/ UNCHANGED unit
    \/ \E u \in FreeUnits : unit' = [unit EXCEPT ![u] = r]

\* Seeded fault: the plate is looked up after the events, on the plate of the row.
CheckByRow ==
    /\ flush.pc = "check"
    /\ row' = [row EXCEPT ![Current].stolen = row[Current].plate = "Hot"]
    /\ IF Stolen(flush.cur)
       THEN DispatchNearest(Current) /\ flush' = [flush EXCEPT !.pc = "raise"]
       ELSE UNCHANGED unit /\ flush' = NextTrack
    /\ UNCHANGED <<up, buffers, anpr, read, engine, plates, faults>>

\* Seeded fault: the watchlist is looked at only for a row that has a plate.
CheckOnlyWithPlate ==
    /\ flush.pc = "check"
    /\ row' = [row EXCEPT ![Current].stolen = row[Current].plate # None /\ Stolen(flush.cur)]
    /\ IF Stolen(flush.cur) /\ row[Current].plate # None
       THEN DispatchNearest(Current) /\ flush' = [flush EXCEPT !.pc = "raise"]
       ELSE UNCHANGED unit /\ flush' = NextTrack
    /\ UNCHANGED <<up, buffers, anpr, read, engine, plates, faults>>

\* confirmed_plate is looked up once; a stolen one marks the event of the plate
\* in the row, whatever that is, and gets a unit before it gets an alert.
Check ==
    /\ flush.pc = "check"
    /\ row' = [row EXCEPT ![Current].stolen = row[Current].plate # None /\ Stolen(flush.cur)]
    /\ IF Stolen(flush.cur)
       THEN DispatchNearest(Current) /\ flush' = [flush EXCEPT !.pc = "raise"]
       ELSE UNCHANGED unit /\ flush' = NextTrack
    /\ UNCHANGED <<up, buffers, anpr, read, engine, plates, faults>>

\* The alert is added and flushed, its clip queued, and the dashboards told.
Raise ==
    /\ flush.pc = "raise"
    /\ row' = [row EXCEPT ![Current].alert = TRUE, ![Current].clip = "queued"]
    /\ flush' = NextTrack
    /\ UNCHANGED <<up, buffers, anpr, read, engine, plates, unit, faults>>

Settled(s) == [r \in Rows |-> IF row[r].state = "staged" THEN [row[r] EXCEPT !.state = s]
                              ELSE row[r]]

Commit ==
    /\ flush.pc = "commit"
    /\ row' = Settled("saved")
    /\ flush' = [flush EXCEPT !.pc = "appearance"]
    /\ UNCHANGED <<up, buffers, anpr, read, engine, plates, unit, faults>>

\* Any statement fails, a lock that is not given for instance: all rows of the
\* frame are rolled back. Units, clips and messages are not.
Fail ==
    /\ flush.pc \in {"persist", "check", "raise", "commit"} /\ faults < MaxFaults
    /\ row' = Settled("lost")
    /\ flush' = Idle
    /\ faults' = faults + 1
    /\ UNCHANGED <<up, buffers, anpr, read, engine, plates, unit>>

\* _write_appearance: one more transaction, which may fail on its own.
WriteAppearance ==
    /\ flush.pc = "appearance"
    /\ \E ok \in BOOLEAN :
          row' = [r \in Rows |-> IF r \in flush.done THEN [row[r] EXCEPT !.appearance = ok]
                                 ELSE row[r]]
    /\ flush' = Idle
    /\ UNCHANGED <<up, buffers, anpr, read, engine, plates, unit, faults>>

-----------------------------------------------------------------------------
(* The ANPR worker *)

\* Seeded fault: a read below MIN_VOTE_CONFIDENCE counts for a lock.
LocksWeak(v, conf) == conf = 3 \/ v \in voted

\* _process_vehicle_track_impl. A locked plate is returned as it is. The first
\* vote locks when it is good, the second whatever it says: two votes agree by
\* half with either, and fewer than three are not weighted.
Locks(v, conf) == conf = 3 \/ (conf = 2 /\ v \in voted)

Result(v, plate, conf) == [plate |-> plate, conf |-> conf, locked |-> Locks(v, conf)]

ReadCrop(v) ==
    /\ up # "dead" /\ read = None /\ queue # <<>> /\ v = Head(queue)
    /\ queue' = Tail(queue)
    /\ \/ confirmed[v] # None /\ read' = [v |-> v, r |-> confirmed[v]] /\ UNCHANGED engine
       \/ confirmed[v] = None /\ UNCHANGED <<read, engine>>
       \/ /\ confirmed[v] = None
          /\ \E plate \in {"Hot", "Plain"}, conf \in 1..3 :
                /\ read' = [v |-> v, r |-> Result(v, plate, conf)]
                /\ voted' = IF conf > 1 THEN voted \cup {v} ELSE voted
                /\ confirmed' = IF Locks(v, conf)
                                THEN [confirmed EXCEPT ![v] = Result(v, plate, conf)]
                                ELSE confirmed
    /\ UNCHANGED <<up, buffers, attempts, plates, flush, row, unit, faults>>

\* Later, under _track_plates_lock: the better read stays.
Better(r, best) == best = None \/ r.conf > best.conf

Store ==
    /\ up # "dead" /\ read # None
    /\ plates' = IF Better(read.r, plates[read.v]) THEN [plates EXCEPT ![read.v] = read.r]
                 ELSE plates
    /\ read' = None
    /\ UNCHANGED <<up, buffers, anpr, engine, flush, row, unit, faults>>

-----------------------------------------------------------------------------
(* Clips, units and the end *)

\* _capture_sync in the evidence pool: a session of its own sees an alert only
\* when it is committed, and a job that sees none is not repeated.
Capture(r) ==
    /\ up # "dead" /\ row[r].clip = "queued"
    /\ row' = [row EXCEPT ![r].clip = IF row[r].state = "saved" THEN "cut" ELSE "refused"]
    /\ UNCHANGED <<up, buffers, anpr, read, engine, plates, flush, unit, faults>>

\* stop(): the frame at hand is finished, and the buffers are left as they are.
Stop ==
    /\ up = "running" /\ up' = "stopping"
    /\ UNCHANGED <<buffers, anpr, read, engine, plates, flush, row, unit, faults>>

Forgotten ==
    /\ pts' = Zero /\ queue' = <<>> /\ attempts' = Zero
    /\ read' = None /\ voted' = {} /\ confirmed' = Nothing /\ plates' = Nothing
    /\ flush' = Idle

\* The process ends: killed, or because stop() waits for its threads only so
\* long. What is not committed is lost, with what was in memory. The units are
\* where they were sent.
Die ==
    /\ up # "dead" /\ up' = "dead"
    /\ row' = Settled("lost")
    /\ Forgotten
    /\ UNCHANGED <<laps, unit, faults>>

Flushing == up # "dead" /\ ((\E v \in Vehicles : Persist(v)) \/ Check \/ Raise \/ Commit
                            \/ WriteAppearance)
Worker == (\E v \in Vehicles : ReadCrop(v)) \/ Store
\* A frame shows one vehicle at most: of two, frames alternate.
Seen == {s \in SUBSET Vehicles : Cardinality(s) <= 1}

Next ==
    \/ \E seen \in Seen, gone \in SUBSET Vehicles : Frame(seen, gone)
    \/ Flushing \/ (up # "dead" /\ Fail)
    \/ Worker
    \/ \E r \in Rows : Capture(r)
    \/ Stop \/ Die

Spec == Init /\ [][Next]_vars

\* The camera keeps giving frames, and every vehicle is out of view for
\* TRACK_STALE_SECONDS at times. Threads run.
FairSpec ==
    /\ Spec
    /\ \A v \in Vehicles : SF_vars(Frame({}, {v}))
    /\ WF_vars(Flushing) /\ WF_vars(Worker)

-----------------------------------------------------------------------------
(* Properties *)

\* A vehicle is called stolen, and a unit sent, only on a plate that the
\* engine locked, and never on a read too weak to be a vote.
AlertIsVouchedFor ==
    up # "dead" => \A r \in Rows : row[r].alert => Stolen(r[1]) /\ confirmed[r[1]].conf > 1

\* An ANPR event that says stolen comes with an alert in the same
\* transaction: the worker, which may confirm the plate while the track is
\* being stored, never comes between the two.
StolenEventHasAlert ==
    \A r \in Rows : row[r].state = "saved" /\ row[r].stolen => row[r].alert

\* A clip is evidence of an alert that is in the table, although its job was
\* queued before the transaction that may still fail.
ClipHasAlert == \A r \in Rows : row[r].clip = "cut" => row[r].state = "saved" /\ row[r].alert

\* While the camera gives frames, a vehicle whose stolen plate is locked
\* before its track is flushed gets a saved alert, whether or not the worker
\* has stored the plate for the row by then; unless the transaction fails or
\* the pipeline is stopped.
StolenIsAlerted ==
    \A r \in Rows :
        (up = "running" /\ Stolen(r[1]) /\ pts[r[1]] >= MinPoints /\ laps[r[1]] + 1 = r[2])
        ~> (\/ row[r].state = "saved" /\ row[r].alert
            \/ row[r].state = "lost" \/ up # "running")

=============================================================================
