---------------------------- MODULE CameraHealth ----------------------------
(***************************************************************************)
(* Camera status: the heartbeat loop of every server process               *)
(* (backend/services/camera_heartbeat.py) against the maintenance flag     *)
(* (PATCH /cameras/{id}/maintenance in backend/routers/v1/cameras.py).     *)
(*                                                                         *)
(* A cycle loads the camera rows once, awaits the probes, and writes what  *)
(* it concluded from the rows it loaded. SQLAlchemy writes the columns     *)
(* whose value differs from the loaded one and no others. log_audit        *)
(* flushes, and what a flush wrote is locked until the commit: a cycle     *)
(* that found a plain camera changed keeps its lock while the portal's     *)
(* cameras are probed one after another. In SQLite that is the database's  *)
(* only write lock, and waiting for it times out. In PostgreSQL it is the  *)
(* rows, here all plain cameras (every cycle writes each of them), and     *)
(* nothing limits the wait.                                                *)
(*                                                                         *)
(* A PATCH handler is a coroutine with no await: from its read to its      *)
(* commit, waiting for the lock included, it keeps its process's event     *)
(* loop, so the heartbeat of that process cannot resume. Probes run in     *)
(* threads and go on.                                                      *)
(***************************************************************************)
EXTENDS Naturals

CONSTANTS
    Cameras,
    Portal,      \* the cameras behind corp8.cloud, probed as one slow batch
    Servers,     \* server processes, each with a heartbeat loop
    Installations, \* which of the two there are, in one installation or another
    None,
    Database,    \* "sqlite", the default, or "postgres", as deployed
    Threshold,   \* FAILURE_THRESHOLD
    MaxFailures, \* the failure counter is not told apart beyond this
    MaxPatches,  \* bound on PATCH requests
    MaxFaults    \* bound on cycles lost to an exception

ASSUME CameraHealthAssumption ==
    /\ Cameras # {} /\ Portal \subseteq Cameras
    /\ None \notin Servers
    /\ Installations \subseteq [servers : SUBSET Servers, cameras : SUBSET Cameras]
    /\ Database \in {"sqlite", "postgres"}
    /\ Threshold \in Nat \ {0}
    /\ MaxFailures \in Nat /\ MaxFailures > Threshold
    /\ MaxPatches \in Nat /\ MaxFaults \in Nat

VARIABLES
    installed,  \* the installation, which nothing here changes
    camera,     \* the cameras table
    reachable,  \* the world: would a probe of the plain camera succeed now
    cycle,      \* locals of each heartbeat loop
    patch,      \* locals of each process's PATCH handler
    writer,     \* the process whose cycle holds the lock
    breaker,    \* _corp8_circuit_open_until lies in the future
    patches, faults,
    streak,     \* history: failed checks in a row, in the order of commits
    raced,      \* history: cameras whose flag changed while a cycle was running
    overlapped  \* history: see CounterMatchesStatus

vars == <<installed, camera, reachable, cycle, patch, writer, breaker, patches,
          faults, streak, raced, overlapped>>

Plain == installed.cameras \ Portal
Batch == installed.cameras \cap Portal

Camera == [status : {"ONLINE", "OFFLINE", "MAINTENANCE", "UNREACHABLE"},
           maintenance : BOOLEAN,
           failures : 0..MaxFailures]

\* failed: the probe was answered, and the feed is not there; errored: the request
\* raised; none: not probed, for want of a session among other reasons.
Result == {"none", "ok", "failed", "errored"}

Cycle == [pc : {"sleep", "probe", "batch", "refused"},
          loaded : [Cameras -> Camera],
          result : [Cameras -> Result]]

Patch == [pc : {"idle", "flush"}, id : Cameras, mode : BOOLEAN,
          loaded : Camera]

NewCamera == [status |-> "ONLINE", maintenance |-> FALSE, failures |-> 0]
Unprobed == [c \in Cameras |-> "none"]
NoRows == [c \in Cameras |-> NewCamera]
Asleep == [pc |-> "sleep", loaded |-> NoRows, result |-> Unprobed]
NoPatch == [pc |-> "idle", id |-> CHOOSE c \in Cameras : TRUE, mode |-> FALSE,
            loaded |-> NewCamera]

Init ==
    /\ installed \in Installations
    /\ camera = [c \in Cameras |-> NewCamera]
    /\ reachable \in [Cameras -> BOOLEAN]
    /\ \A c \in Cameras : reachable[c] => c \in Plain
    /\ cycle = [p \in Servers |-> Asleep]
    /\ patch = [p \in Servers |-> NoPatch]
    /\ writer = None
    /\ breaker = [p \in Servers |-> FALSE]
    /\ patches = 0 /\ faults = 0
    /\ streak = [c \in Cameras |-> 0]
    /\ raced = {} /\ overlapped = FALSE

Upto(bound, n) == IF n < bound THEN n ELSE bound

-----------------------------------------------------------------------------
(* _apply_result *)

\* Seeded fault: recovery does not reset the counter.
RecoveredKeeping(row) == [row EXCEPT !.status = "ONLINE"]

\* Seeded fault: only a camera known to be offline recovers.
RecoveredSticky(row) ==
    [row EXCEPT !.status = IF @ = "UNREACHABLE" THEN @ ELSE "ONLINE",
                !.failures = 0]

\* One success is enough.
Recovered(row) == [row EXCEPT !.status = "ONLINE", !.failures = 0]

\* Seeded fault: one failure too few.
FailedEager(row) ==
    LET n == Upto(MaxFailures, row.failures + 1) IN
    [row EXCEPT !.failures = n,
                !.status = IF n + 1 >= Threshold THEN "OFFLINE" ELSE @]

\* Seeded fault: only an ONLINE camera goes OFFLINE.
FailedOnlineOnly(row) ==
    LET n == Upto(MaxFailures, row.failures + 1) IN
    [row EXCEPT !.failures = n,
                !.status = IF n >= Threshold /\ @ = "ONLINE" THEN "OFFLINE" ELSE @]

Failed(row) ==
    LET n == Upto(MaxFailures, row.failures + 1) IN
    [row EXCEPT !.failures = n,
                !.status = IF n >= Threshold THEN "OFFLINE" ELSE @]

\* Seeded fault: maintenance is not looked at.
AppliedAlways(row, result) ==
    IF result = "ok" THEN Recovered(row) ELSE Failed(row)

\* The row the cycle wants, from the row it loaded: a camera in maintenance
\* keeps its status and its counter.
Applied(row, result) ==
    IF row.maintenance THEN row
    ELSE IF result = "ok" THEN Recovered(row) ELSE Failed(row)

\* The UPDATE: the columns that differ from the loaded row. A failure always
\* changes the counter, also where the model no longer counts.
Updated(row, loaded, result) ==
    LET new == Applied(loaded, result)
        counted == ~loaded.maintenance /\ (result # "ok" \/ loaded.failures # 0)
    IN  IF result = "none" THEN row
        ELSE [row EXCEPT
                !.status = IF new.status # loaded.status THEN new.status ELSE @,
                !.failures = IF counted THEN new.failures ELSE @]

-----------------------------------------------------------------------------
(* A heartbeat cycle *)

LoopFree(p) == patch[p].pc = "idle"
LockFree(p) == writer \in {None, p}
Probed(p, cams) == \A c \in cams : cycle[p].result[c] # "none"
Changes(p) ==
    \E c \in Plain : LET row == cycle[p].loaded[c] IN
        Applied(row, cycle[p].result[c]).status # row.status

Load(p) ==
    /\ p \in installed.servers /\ cycle[p].pc = "sleep" /\ LoopFree(p)
    /\ cycle' = [cycle EXCEPT ![p] = [Asleep EXCEPT !.pc = "probe",
                                                    !.loaded = camera]]
    /\ overlapped' = (overlapped \/ \E q \in Servers : cycle[q].pc # "sleep")
    /\ UNCHANGED <<installed, camera, reachable, patch, writer, breaker,
                   patches, faults, streak, raced>>

\* check_camera_health: each plain camera in a thread of its own.
Probe(p, c) ==
    /\ cycle[p].pc = "probe" /\ c \in Plain
    /\ cycle[p].result[c] = "none"
    /\ cycle' = [cycle EXCEPT ![p].result[c] = IF reachable[c] THEN "ok"
                                                               ELSE "failed"]
    /\ UNCHANGED <<installed, camera, reachable, patch, writer, breaker,
                   patches, faults, streak, raced, overlapped>>

\* The plain results are applied, which flushes if a status changed, and the
\* batch is handed to a thread. Whether its interval has passed is left open.
BeginBatch(p) ==
    /\ cycle[p].pc = "probe" /\ LoopFree(p) /\ Probed(p, Plain)
    /\ Batch # {} /\ ~breaker[p]
    /\ IF Changes(p) THEN writer = None /\ writer' = p
                     ELSE UNCHANGED writer
    /\ cycle' = [cycle EXCEPT ![p].pc = "batch"]
    /\ UNCHANGED <<installed, camera, reachable, patch, breaker, patches,
                   faults, streak, raced, overlapped>>

\* Corp8Session.probe: the playlist or an error page; ok = False also for a
\* request that raised. (When it gets no session it raises, and no result is kept.)
PortalProbe(p, c) ==
    /\ cycle[p].pc = "batch" /\ c \in Batch
    /\ cycle[p].result[c] = "none"
    /\ \E result \in {"ok", "failed", "errored"} :
          cycle' = [cycle EXCEPT ![p].result[c] = result]
    /\ UNCHANGED <<installed, camera, reachable, patch, writer, breaker,
                   patches, faults, streak, raced, overlapped>>

\* HTTP 403: the breaker opens and the rest of the batch is not probed.
PortalRefused(p) ==
    /\ cycle[p].pc = "batch" /\ ~Probed(p, Batch)
    /\ cycle' = [cycle EXCEPT ![p].pc = "refused"]
    /\ breaker' = [breaker EXCEPT ![p] = TRUE]
    /\ UNCHANGED <<installed, camera, reachable, patch, writer, patches,
                   faults, streak, raced, overlapped>>

BreakerCloses(p) ==
    /\ breaker[p] /\ cycle[p].pc # "refused"
    /\ breaker' = [breaker EXCEPT ![p] = FALSE]
    /\ UNCHANGED <<installed, camera, reachable, cycle, patch, writer, patches,
                   faults, streak, raced, overlapped>>

\* Without a batch, or after it (what is not probed by then was skipped): the
\* rest is applied, and everything commits.
Commit(p) ==
    /\ \/ cycle[p].pc = "probe" /\ Probed(p, Plain)
       \/ cycle[p].pc \in {"batch", "refused"}
    /\ LoopFree(p) /\ LockFree(p)
    /\ LET run == cycle[p] IN
       /\ camera' = [c \in Cameras |->
                       Updated(camera[c], run.loaded[c], run.result[c])]
       /\ streak' = [c \in Cameras |->
                       CASE run.result[c] = "none" -> streak[c]
                         [] run.result[c] = "ok" -> 0
                         [] OTHER -> Upto(Threshold, streak[c] + 1)]
    /\ cycle' = [cycle EXCEPT ![p] = Asleep]
    /\ writer' = None
    /\ overlapped' = (overlapped \/ \E q \in Servers : patch[q].pc = "flush")
    /\ UNCHANGED <<installed, reachable, patch, breaker, patches, faults,
                   raced>>

\* An exception, "database is locked" among them: the cycle is rolled back.
CycleFault(p) ==
    /\ cycle[p].pc # "sleep" /\ LoopFree(p) /\ faults < MaxFaults
    /\ faults' = faults + 1
    /\ cycle' = [cycle EXCEPT ![p] = Asleep]
    /\ writer' = IF writer = p THEN None ELSE writer
    /\ UNCHANGED <<installed, camera, reachable, patch, breaker, patches,
                   streak, raced, overlapped>>

-----------------------------------------------------------------------------
(* PATCH /cameras/{id}/maintenance *)

PatchRead(p, c, mode) ==
    /\ p \in installed.servers /\ c \in installed.cameras
    /\ LoopFree(p) /\ patches < MaxPatches
    /\ patches' = patches + 1
    /\ patch' = [patch EXCEPT ![p] = [pc |-> "flush", id |-> c, mode |-> mode,
                                      loaded |-> camera[c]]]
    /\ overlapped' = (overlapped \/ \E q \in Servers : patch[q].pc = "flush")
    /\ UNCHANGED <<installed, camera, reachable, cycle, writer, breaker,
                   faults, streak, raced>>

Blocked(c) == writer # None /\ (Database = "sqlite" \/ c \in Plain)

\* log_audit flushes, and the commit follows. Setting the flag parks the
\* camera; clearing it leaves the status open until a heartbeat.
PatchCommit(p) ==
    /\ patch[p].pc = "flush" /\ ~Blocked(patch[p].id)
    /\ LET c == patch[p].id
           loaded == patch[p].loaded
           status == IF patch[p].mode THEN "MAINTENANCE" ELSE "UNREACHABLE"
       IN  IF patch[p].mode # loaded.maintenance
           THEN /\ camera' = [camera EXCEPT
                      ![c].maintenance = patch[p].mode,
                      ![c].status = IF status # loaded.status THEN status ELSE @]
                /\ raced' = IF \E q \in Servers : cycle[q].pc # "sleep"
                            THEN raced \cup {c} ELSE raced
           ELSE UNCHANGED <<camera, raced>>
    /\ patch' = [patch EXCEPT ![p] = NoPatch]
    /\ UNCHANGED <<installed, reachable, cycle, writer, breaker, patches,
                   faults, streak, overlapped>>

\* busy_timeout runs out while a cycle holds the lock: HTTP 500, no change.
PatchTimeout(p) ==
    /\ patch[p].pc = "flush" /\ Blocked(patch[p].id) /\ Database = "sqlite"
    /\ patch' = [patch EXCEPT ![p] = NoPatch]
    /\ UNCHANGED <<installed, camera, reachable, cycle, writer, breaker,
                   patches, faults, streak, raced, overlapped>>

-----------------------------------------------------------------------------
FeedChanges(c) ==
    /\ c \in Plain
    /\ reachable' = [reachable EXCEPT ![c] = ~@]
    /\ UNCHANGED <<installed, camera, cycle, patch, writer, breaker, patches,
                   faults, streak, raced, overlapped>>

CycleStep(p) ==
    \/ Load(p) \/ BeginBatch(p) \/ PortalRefused(p) \/ Commit(p)
    \/ \E c \in Cameras : Probe(p, c) \/ PortalProbe(p, c)
PatchStep(p) == PatchCommit(p) \/ PatchTimeout(p)

Next ==
    \/ \E p \in Servers :
          CycleStep(p) \/ CycleFault(p) \/ BreakerCloses(p) \/ PatchStep(p)
    \/ \E p \in Servers, c \in Cameras, mode \in BOOLEAN : PatchRead(p, c, mode)
    \/ \E c \in Cameras : FeedChanges(c)

Spec == Init /\ [][Next]_vars

\* The loop runs forever and its probes have timeouts; a handler gets the lock
\* or gives up. Nothing is assumed of the feeds, the administrator, the portal.
Fairness == \A p \in Servers : WF_vars(CycleStep(p)) /\ WF_vars(PatchStep(p))
FairSpec == Spec /\ Fairness

-----------------------------------------------------------------------------
(* Properties *)

TypeOK ==
    /\ installed \in Installations
    /\ camera \in [Cameras -> Camera]
    /\ reachable \in [Cameras -> BOOLEAN]
    /\ cycle \in [Servers -> Cycle]
    /\ patch \in [Servers -> Patch]
    /\ writer \in Servers \cup {None}
    /\ breaker \in [Servers -> BOOLEAN]
    /\ patches \in 0..MaxPatches /\ faults \in 0..MaxFaults
    /\ streak \in [Cameras -> 0..Threshold]
    /\ raced \subseteq Cameras /\ overlapped \in BOOLEAN

\* The flag and the status say the same, through any number of flag changes and
\* any number of servers' cycles, as long as no flag changed inside a cycle.
MaintenanceShown ==
    \A c \in Cameras \ raced :
        camera[c].maintenance <=> camera[c].status = "MAINTENANCE"

\* Counter and status stay together, even when a cycle writes from rows that an
\* administrator has changed since it loaded them, as long as cycles of two
\* processes, or a PATCH with another PATCH or a commit, have not overlapped.
CounterMatchesStatus ==
    ~overlapped => \A c \in Cameras :
        /\ camera[c].status = "ONLINE" => camera[c].failures < Threshold
        /\ camera[c].status = "OFFLINE" => camera[c].failures >= Threshold

\* The debounce: until then, and whichever processes checked it, a camera goes from
\* ONLINE to OFFLINE only after Threshold checks in a row that did not succeed.
\* That a request which raised is one of them is what ErrorsNeverFlip denies.
FlipNeedsConsecutiveFailures ==
    [][\A c \in Cameras :
          ~overlapped'
          /\ camera[c].status = "ONLINE" /\ camera'[c].status = "OFFLINE"
              => streak'[c] >= Threshold]_vars

\* "A skipped or errored check never flips a camera to OFFLINE. Only an actual
\* completed probe result changes status" (camera_heartbeat.py:88). The code does
\* not keep to it: the probe answers for a request that raised.
ErrorsNeverFlip ==
    [][\A c \in Portal, p \in Servers :
          cycle[p].pc # "sleep" /\ cycle'[p].pc = "sleep"
          /\ camera[c].status # "OFFLINE" /\ camera'[c].status = "OFFLINE"
              => cycle[p].result[c] = "failed"]_vars

Settles(c, up, status) ==
    <>[](c \in Plain /\ reachable[c] = up /\ ~camera[c].maintenance)
        => <>[](camera[c].status = status)

\* A camera whose feed stays readable is ONLINE in the end, whatever went wrong
\* before, and one whose feed stays dead is OFFLINE. (A portal camera is only
\* checked when the portal lets it be, so nothing is promised of those.)
RecoveredIsShown == \A c \in Cameras : Settles(c, TRUE, "ONLINE")
DeadIsShown == \A c \in Cameras : Settles(c, FALSE, "OFFLINE")

=============================================================================
