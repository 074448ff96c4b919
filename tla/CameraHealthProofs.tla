------------------------- MODULE CameraHealthProofs -------------------------
(***************************************************************************)
(* Proofs about CameraHealth, for any cameras, any threshold, any number   *)
(* of flag changes and lost cycles, and both databases.                    *)
(*                                                                         *)
(* A cycle writes from rows it loaded before it probed. What saves it is a *)
(* relation between the loaded row and the row as it is by then: a camera  *)
(* whose flag did not change is still in, or still out of, maintenance,    *)
(* with any number of server processes; and until transactions overlap     *)
(* nobody else counts, so that the counter is the loaded one, and the row  *)
(* is the loaded row unless an administrator parked it or took it back.    *)
(***************************************************************************)
EXTENDS CameraHealth, TLAPS

Running(p) == cycle[p].pc # "sleep"
Flushing(p) == patch[p].pc = "flush"

-----------------------------------------------------------------------------
(* What a cycle writes *)

Statuses == {"ONLINE", "OFFLINE", "MAINTENANCE", "UNREACHABLE"}

\* The row a cycle leaves, from the row it finds and the row it loaded.
Becomes(row, loaded, result, new) ==
    /\ new \in Camera
    /\ new.maintenance <=> row.maintenance
    /\ result = "none" \/ loaded.maintenance => new = row
    /\ result = "ok" /\ ~loaded.maintenance =>
          /\ new.status = IF loaded.status = "ONLINE" THEN row.status ELSE "ONLINE"
          /\ new.failures = IF loaded.failures = 0 THEN row.failures ELSE 0
    /\ result \in {"failed", "errored"} /\ ~loaded.maintenance =>
          /\ new.failures = Upto(MaxFailures, loaded.failures + 1)
          /\ new.status = IF new.failures >= Threshold /\ loaded.status # "OFFLINE"
                          THEN "OFFLINE" ELSE row.status

LEMMA UpdatedRow ==
    ASSUME NEW row \in Camera, NEW loaded \in Camera, NEW result \in Result
    PROVE  Becomes(row, loaded, result, Updated(row, loaded, result))
<1> DEFINE new == Updated(row, loaded, result)
<1>0. new = Updated(row, loaded, result)
    OBVIOUS
<1> HIDE DEF new
<1> SUFFICES Becomes(row, loaded, result, new)
    BY <1>0
<1> USE <1>0 DEF Becomes
<1>1. /\ row.status \in Statuses /\ row.failures \in 0..MaxFailures
      /\ loaded.status \in Statuses /\ loaded.failures \in 0..MaxFailures
    BY DEF Camera, Statuses
<1>2. CASE result = "none" \/ loaded.maintenance
    <2>1. new = row
        <3>1. CASE result = "none"
            BY <3>1 DEF Updated
        <3>2. CASE result # "none" /\ loaded.maintenance
            <4>1. new = [row EXCEPT !.status = row.status, !.failures = row.failures]
                BY <3>2 DEF Updated, Applied
            <4> QED BY <4>1 DEF Camera
        <3> QED BY <1>2, <3>1, <3>2
    <2> QED BY <1>2, <2>1 DEF Result
<1>3. CASE result = "ok" /\ ~loaded.maintenance
    <2>1. PICK status, failures :
            /\ status = IF loaded.status = "ONLINE" THEN row.status ELSE "ONLINE"
            /\ failures = IF loaded.failures = 0 THEN row.failures ELSE 0
        OBVIOUS
    <2>2. status \in Statuses /\ failures \in 0..MaxFailures
        BY <1>1, <2>1, CameraHealthAssumption DEF Statuses
    <2>3. PICK up : up = [loaded EXCEPT !.status = "ONLINE", !.failures = 0]
        OBVIOUS
    <2>4. up.status = "ONLINE" /\ up.failures = 0
        BY <2>3 DEF Camera
    <2>5. Applied(loaded, result) = up
        BY <1>3, <2>3 DEF Applied, Recovered
    <2>6. new = [row EXCEPT !.status = status, !.failures = failures]
        BY <1>3, <2>1, <2>4, <2>5 DEF Updated
    <2>7. /\ new \in Camera /\ new.status = status /\ new.failures = failures
          /\ new.maintenance <=> row.maintenance
        BY <2>2, <2>6 DEF Camera, Statuses
    <2>8. /\ new.status = IF loaded.status = "ONLINE" THEN row.status ELSE "ONLINE"
          /\ new.failures = IF loaded.failures = 0 THEN row.failures ELSE 0
        BY <2>1, <2>7
    <2>9. ~(result = "none" \/ loaded.maintenance) /\ result \notin {"failed", "errored"}
        BY <1>3
    <2> QED BY <2>7, <2>8, <2>9
<1>4. CASE result \in {"failed", "errored"} /\ ~loaded.maintenance
    <2>1. PICK n, status :
            /\ n = Upto(MaxFailures, loaded.failures + 1)
            /\ status = IF n >= Threshold /\ loaded.status # "OFFLINE" THEN "OFFLINE" ELSE row.status
        OBVIOUS
    <2>2. n \in 0..MaxFailures /\ status \in Statuses
        BY <1>1, <2>1, CameraHealthAssumption DEF Statuses, Upto
    <2>3. PICK down :
            down = [loaded EXCEPT !.failures = n,
                                  !.status = IF n >= Threshold THEN "OFFLINE" ELSE loaded.status]
        OBVIOUS
    <2>4. down.failures = n /\ down.status = IF n >= Threshold THEN "OFFLINE" ELSE loaded.status
        BY <2>3 DEF Camera
    <2>5. Applied(loaded, result) = down
        BY <1>4, <2>1, <2>3 DEF Applied, Failed
    <2>6. new = [row EXCEPT !.status = status, !.failures = n]
        BY <1>4, <2>1, <2>4, <2>5 DEF Updated
    <2>7. /\ new \in Camera /\ new.status = status /\ new.failures = n
          /\ new.maintenance <=> row.maintenance
        BY <2>2, <2>6 DEF Camera, Statuses
    <2>8. /\ new.failures = Upto(MaxFailures, loaded.failures + 1)
          /\ new.status = IF new.failures >= Threshold /\ loaded.status # "OFFLINE"
                          THEN "OFFLINE" ELSE row.status
        BY <2>1, <2>7
    <2>9. ~(result = "none" \/ loaded.maintenance) /\ result # "ok"
        BY <1>4
    <2> QED BY <2>7, <2>8, <2>9
<1> QED BY <1>2, <1>3, <1>4 DEF Result

-----------------------------------------------------------------------------
(* Types *)

\* A running cycle has rows and results.
LEMMA Loaded ==
    ASSUME TypeOK, NEW p \in Servers, NEW c \in Cameras
    PROVE  /\ cycle[p].pc \in {"sleep", "probe", "batch", "refused"}
           /\ cycle[p].loaded \in [Cameras -> Camera] /\ cycle[p].loaded[c] \in Camera
           /\ cycle[p].result \in [Cameras -> Result] /\ cycle[p].result[c] \in Result
           /\ camera[c] \in Camera
BY DEF TypeOK, Cycle

\* What a commit makes of each row.
LEMMA CommitRows ==
    ASSUME TypeOK, NEW p \in Servers, Commit(p)
    PROVE  /\ camera' \in [Cameras -> Camera]
           /\ \A c \in Cameras :
                 camera'[c] = Updated(camera[c], cycle[p].loaded[c], cycle[p].result[c])
<1>1. \A c \in Cameras :
        camera'[c] = Updated(camera[c], cycle[p].loaded[c], cycle[p].result[c])
    BY DEF Commit
<1>2. \A c \in Cameras : camera'[c] \in Camera
    <2> TAKE c \in Cameras
    <2> QED BY <1>1, Loaded, UpdatedRow DEF Becomes
<1>3. camera' = [c \in Cameras |-> camera'[c]]
    BY DEF Commit
<1> QED BY <1>1, <1>2, <1>3

LEMMA AsleepCycle ==
    /\ NewCamera \in Camera /\ Asleep \in Cycle
    /\ Asleep.pc = "sleep" /\ Asleep.result = [c \in Cameras |-> "none"]
<1>1. NewCamera \in Camera
    BY CameraHealthAssumption DEF NewCamera, Camera
<1>2. NoRows \in [Cameras -> Camera] /\ Unprobed \in [Cameras -> Result]
    BY <1>1 DEF NoRows, Unprobed, Result
<1> HIDE DEF NoRows, Unprobed
<1> QED BY <1>1, <1>2 DEF Asleep, Cycle, Unprobed

LEMMA NoPatchTyped == NoPatch \in Patch /\ NoPatch.pc = "idle"
<1>1. (CHOOSE c \in Cameras : TRUE) \in Cameras
    BY CameraHealthAssumption
<1> QED BY <1>1, AsleepCycle DEF NoPatch, Patch

LEMMA InitTypes == Init => TypeOK
<1> SUFFICES ASSUME Init PROVE TypeOK
    OBVIOUS
<1>1. /\ installed \in Installations /\ reachable \in [Cameras -> BOOLEAN]
      /\ writer = None /\ raced = {} /\ overlapped = FALSE
      /\ patches \in 0..MaxPatches /\ faults \in 0..MaxFaults
    BY CameraHealthAssumption DEF Init
<1>2. /\ camera \in [Cameras -> Camera] /\ cycle \in [Servers -> Cycle]
      /\ patch \in [Servers -> Patch] /\ breaker \in [Servers -> BOOLEAN]
      /\ streak \in [Cameras -> 0..Threshold]
    BY AsleepCycle, NoPatchTyped, CameraHealthAssumption DEF Init
<1> QED BY <1>1, <1>2 DEF TypeOK

\* A new value of one process's cycle.
LEMMA CycleTyped ==
    ASSUME TypeOK, NEW p \in Servers, NEW new \in Cycle, cycle' = [cycle EXCEPT ![p] = new]
    PROVE  /\ cycle' \in [Servers -> Cycle] /\ cycle'[p] = new
           /\ \A q \in Servers \ {p} : cycle'[q] = cycle[q]
BY DEF TypeOK

LEMMA LoadStep ==
    ASSUME TypeOK, NEW p \in Servers, Load(p)
    PROVE  /\ cycle' \in [Servers -> Cycle]
           /\ cycle'[p].pc = "probe" /\ cycle'[p].loaded = camera
           /\ \A q \in Servers \ {p} : cycle'[q] = cycle[q]
<1>1. PICK new : new = [Asleep EXCEPT !.pc = "probe", !.loaded = camera]
    OBVIOUS
<1>2. new \in Cycle /\ new.pc = "probe" /\ new.loaded = camera
    BY <1>1, AsleepCycle DEF Cycle, TypeOK
<1>3. cycle' = [cycle EXCEPT ![p] = new]
    BY <1>1 DEF Load
<1> QED BY <1>2, <1>3, CycleTyped

\* The other steps of a cycle leave what it loaded.
LEMMA ProbeStep ==
    ASSUME TypeOK, NEW p \in Servers, NEW c \in Cameras, Probe(p, c) \/ PortalProbe(p, c)
    PROVE  /\ cycle' \in [Servers -> Cycle]
           /\ cycle[p].pc # "sleep" /\ cycle'[p].loaded = cycle[p].loaded
           /\ \A q \in Servers \ {p} : cycle'[q] = cycle[q]
<1>1. PICK r \in {"ok", "failed", "errored"} : cycle' = [cycle EXCEPT ![p].result[c] = r]
    BY DEF Probe, PortalProbe
<1>2. PICK new : new = [cycle[p] EXCEPT !.result[c] = r]
    OBVIOUS
<1>3. new \in Cycle /\ new.loaded = cycle[p].loaded
    BY <1>2 DEF TypeOK, Cycle, Result
<1>4. cycle' = [cycle EXCEPT ![p] = new]
    BY <1>1, <1>2 DEF TypeOK, Cycle
<1>5. cycle[p].pc # "sleep"
    BY DEF Probe, PortalProbe
<1> QED BY <1>3, <1>4, <1>5, CycleTyped

LEMMA BatchStep ==
    ASSUME TypeOK, NEW p \in Servers, BeginBatch(p) \/ PortalRefused(p)
    PROVE  /\ cycle' \in [Servers -> Cycle]
           /\ cycle[p].pc # "sleep" /\ cycle'[p].loaded = cycle[p].loaded
           /\ \A q \in Servers \ {p} : cycle'[q] = cycle[q]
<1>1. PICK pc \in {"batch", "refused"} : cycle' = [cycle EXCEPT ![p].pc = pc]
    BY DEF BeginBatch, PortalRefused
<1>2. PICK new : new = [cycle[p] EXCEPT !.pc = pc]
    OBVIOUS
<1>3. new \in Cycle /\ new.loaded = cycle[p].loaded
    BY <1>2 DEF TypeOK, Cycle
<1>4. cycle' = [cycle EXCEPT ![p] = new]
    BY <1>1, <1>2 DEF TypeOK, Cycle
<1>5. cycle[p].pc # "sleep"
    BY DEF BeginBatch, PortalRefused
<1> QED BY <1>3, <1>4, <1>5, CycleTyped

LEMMA EndStep ==
    ASSUME TypeOK, NEW p \in Servers, Commit(p) \/ CycleFault(p)
    PROVE  /\ cycle' \in [Servers -> Cycle] /\ cycle'[p].pc = "sleep"
           /\ \A q \in Servers \ {p} : cycle'[q] = cycle[q]
<1>1. cycle' = [cycle EXCEPT ![p] = Asleep]
    BY DEF Commit, CycleFault
<1> QED BY <1>1, AsleepCycle, CycleTyped

LEMMA PatchReadStep ==
    ASSUME TypeOK, NEW p \in Servers, NEW c \in Cameras, NEW mode \in BOOLEAN,
           PatchRead(p, c, mode)
    PROVE  /\ patch' \in [Servers -> Patch]
           /\ patch'[p].id = c /\ patch'[p].loaded = camera[c]
           /\ \A q \in Servers \ {p} : patch'[q] = patch[q]
<1>1. PICK new : new = [pc |-> "flush", id |-> c, mode |-> mode, loaded |-> camera[c]]
    OBVIOUS
<1>2. new \in Patch /\ new.id = c /\ new.loaded = camera[c]
    BY <1>1 DEF Patch, TypeOK
<1>3. patch' = [patch EXCEPT ![p] = new]
    BY <1>1 DEF PatchRead
<1> QED BY <1>2, <1>3 DEF TypeOK

LEMMA PatchEndStep ==
    ASSUME TypeOK, NEW p \in Servers, PatchStep(p)
    PROVE  /\ patch' \in [Servers -> Patch] /\ patch'[p].pc = "idle"
           /\ \A q \in Servers \ {p} : patch'[q] = patch[q]
<1>1. patch' = [patch EXCEPT ![p] = NoPatch]
    BY DEF PatchStep, PatchCommit, PatchTimeout
<1> QED BY <1>1, NoPatchTyped DEF TypeOK

\* A PATCH writes its flag, and a status if that is another than it read.
LEMMA PatchRow ==
    ASSUME TypeOK, NEW p \in Servers, PatchCommit(p),
           NEW c, c = patch[p].id, NEW loaded, loaded = patch[p].loaded
    PROVE  /\ c \in Cameras /\ loaded \in Camera /\ Flushing(p)
           /\ camera' \in [Cameras -> Camera] /\ raced' \subseteq Cameras
           /\ \A d \in Cameras \ {c} : camera'[d] = camera[d]
           /\ \/ camera'[c] = camera[c] /\ raced' = raced
              \/ /\ camera'[c].failures = camera[c].failures
                 /\ raced' = IF \E q \in Servers : Running(q) THEN raced \cup {c} ELSE raced
                 /\ \/ /\ ~loaded.maintenance /\ camera'[c].maintenance
                       /\ \/ camera'[c].status = "MAINTENANCE"
                          \/ /\ loaded.status = "MAINTENANCE"
                             /\ camera'[c].status = camera[c].status
                    \/ /\ loaded.maintenance /\ ~camera'[c].maintenance
                       /\ \/ camera'[c].status = "UNREACHABLE"
                          \/ /\ loaded.status = "UNREACHABLE"
                             /\ camera'[c].status = camera[c].status
<1>1. /\ c \in Cameras /\ loaded \in Camera /\ Flushing(p) /\ patch[p].mode \in BOOLEAN
      /\ loaded.maintenance \in BOOLEAN /\ camera[c] \in Camera
    BY DEF TypeOK, Patch, Camera, PatchCommit, Flushing
<1>2. CASE patch[p].mode = loaded.maintenance
    BY <1>1, <1>2 DEF PatchCommit, TypeOK
<1>3. CASE patch[p].mode # loaded.maintenance
    <2>1. PICK mode, status :
            /\ mode = patch[p].mode /\ mode \in BOOLEAN
            /\ status = IF (IF mode THEN "MAINTENANCE" ELSE "UNREACHABLE") # loaded.status
                        THEN IF mode THEN "MAINTENANCE" ELSE "UNREACHABLE" ELSE camera[c].status
        BY <1>1
    <2>2. PICK new : new = [camera[c] EXCEPT !.maintenance = mode, !.status = status]
        OBVIOUS
    <2>3. status \in Statuses
        BY <1>1, <2>1 DEF Camera, Statuses
    <2>4. /\ new \in Camera /\ new.status = status /\ new.failures = camera[c].failures
          /\ new.maintenance = mode
        BY <1>1, <2>1, <2>2, <2>3 DEF Camera, Statuses
    <2>5. /\ camera' = [camera EXCEPT ![c].maintenance = mode, ![c].status = status]
          /\ raced' = IF \E q \in Servers : Running(q) THEN raced \cup {c} ELSE raced
        BY <1>1, <1>3, <2>1 DEF PatchCommit, Running
    <2>6. camera' = [camera EXCEPT ![c] = new]
        BY <1>1, <2>2, <2>5 DEF TypeOK
    <2>7. /\ camera' \in [Cameras -> Camera] /\ camera'[c] = new
          /\ \A d \in Cameras \ {c} : camera'[d] = camera[d]
        BY <1>1, <2>4, <2>6 DEF TypeOK
    <2>8. CASE mode
        <3>1. ~loaded.maintenance
            BY <1>1, <1>3, <2>1, <2>8
        <3>2. camera'[c].maintenance
            BY <2>4, <2>7, <2>8
        <3>3. camera'[c].status = "MAINTENANCE" \/
              (loaded.status = "MAINTENANCE" /\ camera'[c].status = camera[c].status)
            BY <2>1, <2>4, <2>7, <2>8
        <3> QED BY <1>1, <2>4, <2>5, <2>7, <3>1, <3>2, <3>3 DEF TypeOK
    <2>9. CASE ~mode
        <3>1. loaded.maintenance
            BY <1>1, <1>3, <2>1, <2>9
        <3>2. ~camera'[c].maintenance
            BY <2>4, <2>7, <2>9
        <3>3. camera'[c].status = "UNREACHABLE" \/
              (loaded.status = "UNREACHABLE" /\ camera'[c].status = camera[c].status)
            BY <2>1, <2>4, <2>7, <2>9
        <3> QED BY <1>1, <2>4, <2>5, <2>7, <3>1, <3>2, <3>3 DEF TypeOK
    <2> QED BY <2>8, <2>9
<1> QED BY <1>2, <1>3

LEMMA TypeStep == TypeOK /\ [Next]_vars => TypeOK'
<1> SUFFICES ASSUME TypeOK, [Next]_vars PROVE TypeOK'
    OBVIOUS
<1>1. CASE UNCHANGED vars
    BY <1>1 DEF vars, TypeOK
<1>2. ASSUME NEW p \in Servers, Load(p) PROVE TypeOK'
    BY <1>2, LoadStep DEF Load, TypeOK
<1>3. ASSUME NEW p \in Servers, NEW c \in Cameras, Probe(p, c) \/ PortalProbe(p, c) PROVE TypeOK'
    BY <1>3, ProbeStep DEF Probe, PortalProbe, TypeOK
<1>4. ASSUME NEW p \in Servers, BeginBatch(p) \/ PortalRefused(p) PROVE TypeOK'
    BY <1>4, BatchStep DEF BeginBatch, PortalRefused, TypeOK
<1>5. ASSUME NEW p \in Servers, BreakerCloses(p) PROVE TypeOK'
    BY <1>5 DEF BreakerCloses, TypeOK
<1>6. ASSUME NEW p \in Servers, Commit(p) PROVE TypeOK'
    <2>1. streak' \in [Cameras -> 0..Threshold]
        <3>1. \A c \in Cameras : Upto(Threshold, streak[c] + 1) \in 0..Threshold
            BY CameraHealthAssumption DEF TypeOK, Upto
        <3> QED BY <1>6, <3>1, CameraHealthAssumption DEF Commit, TypeOK
    <2>2. /\ UNCHANGED <<installed, reachable, patch, breaker, patches, faults, raced>>
          /\ writer' = None /\ overlapped' \in BOOLEAN
        BY <1>6 DEF Commit, TypeOK
    <2> QED BY <1>6, <2>1, <2>2, CommitRows, EndStep DEF TypeOK
<1>7. ASSUME NEW p \in Servers, CycleFault(p) PROVE TypeOK'
    <2>1. faults' \in 0..MaxFaults
        BY <1>7, CameraHealthAssumption DEF CycleFault, TypeOK
    <2> QED BY <1>7, <2>1, EndStep DEF CycleFault, TypeOK
<1>8. ASSUME NEW p \in Servers, NEW c \in Cameras, NEW mode \in BOOLEAN, PatchRead(p, c, mode)
      PROVE  TypeOK'
    <2>1. patches' \in 0..MaxPatches
        BY <1>8, CameraHealthAssumption DEF PatchRead, TypeOK
    <2> QED BY <1>8, <2>1, PatchReadStep DEF PatchRead, TypeOK
<1>9. ASSUME NEW p \in Servers, PatchCommit(p) PROVE TypeOK'
    <2>1. camera' \in [Cameras -> Camera] /\ raced' \subseteq Cameras
        BY <1>9, PatchRow
    <2>2. UNCHANGED <<installed, reachable, cycle, writer, breaker, patches, faults, streak,
                      overlapped>>
        BY <1>9 DEF PatchCommit
    <2>3. patch' \in [Servers -> Patch]
        BY <1>9, PatchEndStep DEF PatchStep
    <2> QED BY <2>1, <2>2, <2>3 DEF TypeOK
<1>10. ASSUME NEW p \in Servers, PatchTimeout(p) PROVE TypeOK'
    BY <1>10, PatchEndStep DEF PatchStep, PatchTimeout, TypeOK
<1>11. ASSUME NEW c \in Cameras, FeedChanges(c) PROVE TypeOK'
    BY <1>11 DEF FeedChanges, TypeOK
<1> QED BY <1>1, <1>2, <1>3, <1>4, <1>5, <1>6, <1>7, <1>8, <1>9, <1>10, <1>11
        DEF Next, CycleStep, PatchStep

-----------------------------------------------------------------------------
(* Any number of processes: the flag *)

Shown(row) == row.maintenance <=> row.status = "MAINTENANCE"

\* What a process has loaded says of the flag what the row says.
FlagInv == \A c \in Cameras \ raced :
    /\ Shown(camera[c])
    /\ \A p \in Servers : Running(p) =>
          /\ Shown(cycle[p].loaded[c])
          /\ cycle[p].loaded[c].maintenance <=> camera[c].maintenance
    /\ \A p \in Servers : Flushing(p) /\ patch[p].id = c => Shown(patch[p].loaded)

\* A row that was not raced keeps its flag and shows it.
LEMMA CommitShows ==
    ASSUME TypeOK, FlagInv, NEW p \in Servers, Commit(p), NEW c \in Cameras \ raced
    PROVE  Shown(camera'[c]) /\ (camera'[c].maintenance <=> camera[c].maintenance)
<1>1. PICK row, loaded, result, new :
        /\ row = camera[c] /\ loaded = cycle[p].loaded[c] /\ result = cycle[p].result[c]
        /\ new = camera'[c]
    OBVIOUS
<1>2. row \in Camera /\ loaded \in Camera /\ result \in Result
    BY <1>1, Loaded
<1>3. new = Updated(row, loaded, result)
    BY <1>1, CommitRows
<1>4. /\ row.maintenance <=> row.status = "MAINTENANCE"
      /\ loaded.maintenance <=> loaded.status = "MAINTENANCE"
      /\ loaded.maintenance <=> row.maintenance
    BY <1>1 DEF FlagInv, Shown, Running, Commit
<1>5. Becomes(row, loaded, result, new)
    BY <1>2, <1>3, UpdatedRow
<1>6. new.maintenance <=> row.maintenance
    BY <1>5 DEF Becomes
<1>9. new.status = "MAINTENANCE" <=> row.status = "MAINTENANCE"
    BY <1>2, <1>4, <1>5 DEF Becomes, Result
<1> QED BY <1>1, <1>4, <1>6, <1>9 DEF Shown

LEMMA FlagStep == TypeOK /\ FlagInv /\ [Next]_vars => FlagInv'
<1> SUFFICES ASSUME TypeOK, FlagInv, [Next]_vars PROVE FlagInv'
    OBVIOUS
<1> USE DEF Running, Flushing
<1>1. CASE UNCHANGED vars
    BY <1>1 DEF vars, FlagInv
<1>2. ASSUME NEW p \in Servers, Load(p) PROVE FlagInv'
    BY <1>2, LoadStep DEF Load, FlagInv
<1>3. ASSUME NEW p \in Servers, NEW c \in Cameras, Probe(p, c) \/ PortalProbe(p, c) PROVE FlagInv'
    <2>1. UNCHANGED <<camera, patch, raced>>
        BY <1>3 DEF Probe, PortalProbe
    <2> QED BY <1>3, <2>1, ProbeStep DEF FlagInv
<1>4. ASSUME NEW p \in Servers, BeginBatch(p) \/ PortalRefused(p) PROVE FlagInv'
    <2>1. UNCHANGED <<camera, patch, raced>>
        BY <1>4 DEF BeginBatch, PortalRefused
    <2> QED BY <1>4, <2>1, BatchStep DEF FlagInv
<1>5. ASSUME NEW p \in Servers, BreakerCloses(p) PROVE FlagInv'
    BY <1>5 DEF BreakerCloses, FlagInv
<1>6. ASSUME NEW p \in Servers, Commit(p) PROVE FlagInv'
    <2>1. UNCHANGED <<patch, raced>>
        BY <1>6 DEF Commit
    <2> QED BY <1>6, <2>1, EndStep, CommitShows DEF FlagInv
<1>7. ASSUME NEW p \in Servers, CycleFault(p) PROVE FlagInv'
    <2>1. UNCHANGED <<camera, patch, raced>>
        BY <1>7 DEF CycleFault
    <2> QED BY <1>7, <2>1, EndStep DEF FlagInv
<1>8. ASSUME NEW p \in Servers, NEW d \in Cameras, NEW mode \in BOOLEAN, PatchRead(p, d, mode)
      PROVE  FlagInv'
    <2>1. UNCHANGED <<camera, cycle, raced>>
        BY <1>8 DEF PatchRead
    <2> QED BY <1>8, <2>1, PatchReadStep DEF FlagInv
<1>9. ASSUME NEW p \in Servers, PatchCommit(p) PROVE FlagInv'
    <2>1. PICK c, loaded : c = patch[p].id /\ loaded = patch[p].loaded
        OBVIOUS
    <2>2. /\ c \in Cameras /\ loaded \in Camera /\ Flushing(p) /\ raced' \subseteq Cameras
          /\ \A d \in Cameras \ {c} : camera'[d] = camera[d]
          /\ \/ camera'[c] = camera[c] /\ raced' = raced
             \/ /\ raced' = IF \E q \in Servers : Running(q) THEN raced \cup {c} ELSE raced
                /\ \/ /\ ~loaded.maintenance /\ camera'[c].maintenance
                      /\ camera'[c].status = "MAINTENANCE" \/ loaded.status = "MAINTENANCE"
                   \/ /\ loaded.maintenance /\ ~camera'[c].maintenance
                      /\ camera'[c].status = "UNREACHABLE" \/ loaded.status = "UNREACHABLE"
        BY <1>9, <2>1, PatchRow
    <2>3. cycle' = cycle
        BY <1>9 DEF PatchCommit
    <2>4. patch'[p].pc = "idle" /\ \A q \in Servers \ {p} : patch'[q] = patch[q]
        BY <1>9, PatchEndStep DEF PatchStep
    <2>5. raced \subseteq raced' /\ (camera'[c] = camera[c] \/ c \in raced' \/ ~\E q \in Servers : Running(q))
        BY <2>2
    <2>6. c \notin raced => Shown(loaded)
        BY <2>1, <2>2 DEF FlagInv
    <2>7. c \notin raced' => Shown(camera'[c])
        BY <2>2, <2>5, <2>6 DEF FlagInv, Shown
    <2>8. \A d \in Cameras \ raced' : Shown(camera'[d])
        BY <2>2, <2>5, <2>7 DEF FlagInv
    <2>9. \A d \in Cameras \ raced', q \in Servers : Running(q) =>
            /\ Shown(cycle[q].loaded[d]) /\ camera'[d] = camera[d]
            /\ cycle[q].loaded[d].maintenance <=> camera[d].maintenance
        BY <2>2, <2>5 DEF FlagInv
    <2>10. \A d \in Cameras \ raced', q \in Servers :
            patch'[q].pc = "flush" /\ patch'[q].id = d => Shown(patch'[q].loaded)
        BY <2>4, <2>5 DEF FlagInv
    <2> QED BY <2>3, <2>8, <2>9, <2>10 DEF FlagInv
<1>10. ASSUME NEW p \in Servers, PatchTimeout(p) PROVE FlagInv'
    <2>1. UNCHANGED <<camera, cycle, raced>>
        BY <1>10 DEF PatchTimeout
    <2> QED BY <1>10, <2>1, PatchEndStep DEF PatchStep, FlagInv
<1>11. ASSUME NEW c \in Cameras, FeedChanges(c) PROVE FlagInv'
    BY <1>11 DEF FeedChanges, FlagInv
<1> QED BY <1>1, <1>2, <1>3, <1>4, <1>5, <1>6, <1>7, <1>8, <1>9, <1>10, <1>11
        DEF Next, CycleStep, PatchStep

-----------------------------------------------------------------------------
(* Until transactions overlap: the counter *)

\* Of the processes, one at most runs a cycle and one at most a PATCH.
AloneInv ==
    ~overlapped => \A p, q \in Servers :
        (Running(p) /\ Running(q)) \/ (Flushing(p) /\ Flushing(q)) => p = q

\* A status fits the counter, and the counter of a camera shown ONLINE is not
\* ahead of the checks that failed. (A check that succeeds in maintenance ends
\* the streak and not the count, but such a camera is ONLINE only with count 0.)
Fits(row, failed) ==
    /\ row.status = "OFFLINE" => row.failures >= Threshold
    /\ row.status = "ONLINE" =>
          /\ row.failures < Threshold /\ row.failures <= failed
          /\ row.maintenance => row.failures = 0

Parked(row) == row.status \in {"MAINTENANCE", "UNREACHABLE"}

CountInv == ~overlapped => \A c \in Cameras :
    /\ Fits(camera[c], streak[c])
    /\ \A p \in Servers : Running(p) =>
          /\ Fits(cycle[p].loaded[c], streak[c])
          /\ camera[c].failures = cycle[p].loaded[c].failures
          /\ camera[c] = cycle[p].loaded[c] \/ Parked(camera[c])
    /\ \A p \in Servers : Flushing(p) /\ patch[p].id = c => patch[p].loaded = camera[c]

\* A commit leaves rows that fit, and takes a camera OFFLINE in time.
LEMMA CommitCounts ==
    ASSUME TypeOK, CountInv, ~overlapped, NEW p \in Servers, Commit(p), NEW c \in Cameras
    PROVE  /\ Fits(camera'[c], streak'[c])
           /\ camera[c].status = "ONLINE" /\ camera'[c].status = "OFFLINE"
                 => streak'[c] >= Threshold
<1>1. PICK row, loaded, result, new, n, m :
        /\ row = camera[c] /\ loaded = cycle[p].loaded[c] /\ result = cycle[p].result[c]
        /\ new = camera'[c] /\ n = streak[c] /\ m = streak'[c]
    OBVIOUS
<1>2. row \in Camera /\ loaded \in Camera /\ result \in Result /\ n \in 0..Threshold
    BY <1>1, Loaded DEF TypeOK
<1>3. Becomes(row, loaded, result, new)
    BY <1>1, <1>2, CommitRows, UpdatedRow
<1>4. m = CASE result = "none" -> n [] result = "ok" -> 0 [] OTHER -> Upto(Threshold, n + 1)
    BY <1>1 DEF Commit
<1>5. /\ Fits(row, n) /\ Fits(loaded, n) /\ row.failures = loaded.failures
      /\ row = loaded \/ Parked(row)
    BY <1>1 DEF CountInv, Running, Commit
<1> USE CameraHealthAssumption
<1>6. CASE result = "none"
    <2>1. new = row /\ m = n
        BY <1>3, <1>4, <1>6 DEF Becomes
    <2> QED BY <1>1, <1>5, <2>1
<1>7. CASE result = "ok" /\ loaded.maintenance
    <2>1. new = row /\ m = 0
        BY <1>3, <1>4, <1>7 DEF Becomes
    <2>2. row.status = "ONLINE" => row.failures = 0
        BY <1>5, <1>7 DEF Fits, Parked
    <2>3. Fits(row, 0)
        BY <1>5, <2>2 DEF Fits
    <2> QED BY <1>1, <2>1, <2>3
<1>8. CASE result \in {"failed", "errored"} /\ loaded.maintenance
    <2>1. new = row /\ m = Upto(Threshold, n + 1)
        BY <1>3, <1>4, <1>8 DEF Becomes
    <2>2. row.status = "ONLINE" => row.failures = 0
        BY <1>5, <1>8 DEF Fits, Parked
    <2>3. Fits(row, m)
        BY <1>2, <1>5, <2>1, <2>2 DEF Fits, Upto
    <2> QED BY <1>1, <2>1, <2>3
<1>9. CASE result = "ok" /\ ~loaded.maintenance
    <2>1. new.status = IF loaded.status = "ONLINE" THEN row.status ELSE "ONLINE"
        BY <1>3, <1>9 DEF Becomes
    <2>2. new.failures = IF loaded.failures = 0 THEN row.failures ELSE 0
        BY <1>3, <1>9 DEF Becomes
    <2>3. new.failures = 0 /\ m = 0
        BY <1>2, <1>4, <1>5, <1>9, <2>2 DEF Camera
    <2>4. new.status # "OFFLINE"
        BY <1>5, <2>1 DEF Parked
    <2> QED BY <1>1, <2>3, <2>4 DEF Fits
<1>10. CASE result \in {"failed", "errored"} /\ ~loaded.maintenance
    <2>1. /\ new.failures = Upto(MaxFailures, loaded.failures + 1)
          /\ m = Upto(Threshold, n + 1)
        BY <1>3, <1>4, <1>10 DEF Becomes
    <2>2. new.status = IF new.failures >= Threshold /\ loaded.status # "OFFLINE"
                       THEN "OFFLINE" ELSE row.status
        BY <1>3, <1>10 DEF Becomes
    <2>3. new.maintenance <=> row.maintenance
        BY <1>3 DEF Becomes
    <2>4. loaded.failures \in 0..MaxFailures
        BY <1>2 DEF Camera
    <2>5. new.status = "OFFLINE" => new.failures >= Threshold
        <3>1. CASE new.failures >= Threshold
            BY <3>1
        <3>2. CASE new.failures < Threshold
            <4>1. loaded.failures < Threshold
                BY <2>1, <2>4, <3>2 DEF Upto
            <4> QED BY <1>5, <2>1, <2>2, <2>4, <3>2, <4>1 DEF Fits, Upto, Parked
        <3> QED BY <2>1, <2>4, <3>1, <3>2 DEF Upto
    <2>6. new.status = "ONLINE" => row = loaded /\ row.status = "ONLINE" /\ new.failures < Threshold
        BY <1>5, <2>1, <2>2, <2>4 DEF Parked, Upto
    <2>7. new.status = "ONLINE" => new.failures <= m /\ ~new.maintenance
        BY <1>2, <1>5, <1>10, <2>1, <2>3, <2>4, <2>6 DEF Fits, Upto
    <2>8. row.status = "ONLINE" => row.failures <= n /\ row.failures = loaded.failures
        BY <1>5 DEF Fits
    <2>9. row.status = "ONLINE" /\ new.status = "OFFLINE" => m >= Threshold
        BY <1>2, <2>1, <2>4, <2>5, <2>8 DEF Upto
    <2> QED BY <1>1, <2>5, <2>6, <2>7, <2>9 DEF Fits
<1> QED BY <1>2, <1>6, <1>7, <1>8, <1>9, <1>10 DEF Result

LEMMA AloneStep == TypeOK /\ AloneInv /\ [Next]_vars => AloneInv'
<1> SUFFICES ASSUME TypeOK, AloneInv, [Next]_vars, ~overlapped' PROVE AloneInv'
    BY DEF AloneInv
<1> USE DEF Running, Flushing
<1>1. CASE UNCHANGED vars
    BY <1>1 DEF vars, AloneInv
<1>2. ASSUME NEW p \in Servers, Load(p) PROVE AloneInv'
    BY <1>2, LoadStep DEF Load, AloneInv
<1>3. ASSUME NEW p \in Servers, NEW c \in Cameras, Probe(p, c) \/ PortalProbe(p, c)
      PROVE  AloneInv'
    <2>1. UNCHANGED <<patch, overlapped>>
        BY <1>3 DEF Probe, PortalProbe
    <2> QED BY <1>3, <2>1, ProbeStep DEF AloneInv
<1>4. ASSUME NEW p \in Servers, BeginBatch(p) \/ PortalRefused(p) PROVE AloneInv'
    <2>1. UNCHANGED <<patch, overlapped>>
        BY <1>4 DEF BeginBatch, PortalRefused
    <2> QED BY <1>4, <2>1, BatchStep DEF AloneInv
<1>5. ASSUME NEW p \in Servers, BreakerCloses(p) PROVE AloneInv'
    BY <1>5 DEF BreakerCloses, AloneInv
<1>6. ASSUME NEW p \in Servers, Commit(p) \/ CycleFault(p) PROVE AloneInv'
    <2>1. patch' = patch
        BY <1>6 DEF Commit, CycleFault
    <2>2. CASE Commit(p)
        <3>1. ~overlapped
            BY <2>2 DEF Commit
        <3> QED BY <1>6, <2>1, <3>1, EndStep DEF AloneInv
    <2>3. CASE CycleFault(p)
        <3>1. ~overlapped
            BY <2>3 DEF CycleFault
        <3> QED BY <1>6, <2>1, <3>1, EndStep DEF AloneInv
    <2> QED BY <1>6, <2>2, <2>3
<1>8. ASSUME NEW p \in Servers, NEW d \in Cameras, NEW mode \in BOOLEAN, PatchRead(p, d, mode)
      PROVE  AloneInv'
    <2>1. ~overlapped /\ \A q \in Servers : ~Flushing(q)
        BY <1>8 DEF PatchRead
    <2>2. cycle' = cycle /\ \A q \in Servers \ {p} : patch'[q] = patch[q]
        BY <1>8, PatchReadStep DEF PatchRead
    <2> QED BY <2>1, <2>2 DEF AloneInv
<1>9. ASSUME NEW p \in Servers, PatchStep(p) PROVE AloneInv'
    <2>1. UNCHANGED <<cycle, overlapped>>
        BY <1>9 DEF PatchStep, PatchCommit, PatchTimeout
    <2> QED BY <1>9, <2>1, PatchEndStep DEF AloneInv
<1>11. ASSUME NEW c \in Cameras, FeedChanges(c) PROVE AloneInv'
    BY <1>11 DEF FeedChanges, AloneInv
<1> QED BY <1>1, <1>2, <1>3, <1>4, <1>5, <1>6, <1>8, <1>9, <1>11 DEF Next, CycleStep

LEMMA CountStep == TypeOK /\ AloneInv /\ CountInv /\ [Next]_vars => CountInv'
<1> SUFFICES ASSUME TypeOK, AloneInv, CountInv, [Next]_vars PROVE CountInv'
    OBVIOUS
<1> USE DEF Running, Flushing
<1>1. CASE UNCHANGED vars
    BY <1>1 DEF vars, CountInv
<1>2. ASSUME NEW p \in Servers, Load(p) PROVE CountInv'
    <2>1. UNCHANGED <<camera, patch, streak>> /\ (overlapped => overlapped')
        BY <1>2 DEF Load
    <2> QED BY <1>2, <2>1, LoadStep DEF CountInv
<1>3. ASSUME NEW p \in Servers, NEW c \in Cameras, Probe(p, c) \/ PortalProbe(p, c)
      PROVE  CountInv'
    <2>1. UNCHANGED <<camera, patch, streak, overlapped>>
        BY <1>3 DEF Probe, PortalProbe
    <2> QED BY <1>3, <2>1, ProbeStep DEF CountInv
<1>4. ASSUME NEW p \in Servers, BeginBatch(p) \/ PortalRefused(p) PROVE CountInv'
    <2>1. UNCHANGED <<camera, patch, streak, overlapped>>
        BY <1>4 DEF BeginBatch, PortalRefused
    <2> QED BY <1>4, <2>1, BatchStep DEF CountInv
<1>5. ASSUME NEW p \in Servers, BreakerCloses(p) PROVE CountInv'
    BY <1>5 DEF BreakerCloses, CountInv
<1>6. ASSUME NEW p \in Servers, Commit(p) PROVE CountInv'
    <2> SUFFICES ASSUME ~overlapped' PROVE CountInv'
        BY DEF CountInv
    <2>1. ~overlapped /\ patch' = patch /\ Running(p) /\ \A q \in Servers : ~Flushing(q)
        BY <1>6 DEF Commit
    <2>2. \A q \in Servers : ~Running(q)'
        BY <1>6, <2>1, EndStep DEF AloneInv
    <2> QED BY <1>6, <2>1, <2>2, CommitCounts DEF CountInv
<1>7. ASSUME NEW p \in Servers, CycleFault(p) PROVE CountInv'
    <2>1. UNCHANGED <<camera, patch, streak, overlapped>>
        BY <1>7 DEF CycleFault
    <2> QED BY <1>7, <2>1, EndStep DEF CountInv
<1>8. ASSUME NEW p \in Servers, NEW d \in Cameras, NEW mode \in BOOLEAN, PatchRead(p, d, mode)
      PROVE  CountInv'
    <2>1. UNCHANGED <<camera, cycle, streak>> /\ (overlapped => overlapped')
        BY <1>8 DEF PatchRead
    <2> QED BY <1>8, <2>1, PatchReadStep DEF CountInv
<1>9. ASSUME NEW p \in Servers, PatchCommit(p) PROVE CountInv'
    <2>1. PICK c, loaded : c = patch[p].id /\ loaded = patch[p].loaded
        OBVIOUS
    <2>2. /\ c \in Cameras /\ Flushing(p) /\ \A d \in Cameras \ {c} : camera'[d] = camera[d]
          /\ \/ camera'[c] = camera[c]
             \/ /\ camera'[c].failures = camera[c].failures
                /\ \/ camera'[c].status \in {"MAINTENANCE", "UNREACHABLE"}
                   \/ /\ loaded.status \in {"MAINTENANCE", "UNREACHABLE"}
                      /\ camera'[c].status = camera[c].status
        BY <1>9, <2>1, PatchRow
    <2>0. CASE overlapped
        BY <1>9, <2>0 DEF PatchCommit, CountInv
    <2> SUFFICES ASSUME ~overlapped PROVE CountInv'
        BY <2>0
    <2>3. UNCHANGED <<cycle, streak>> /\ \A q \in Servers : ~Flushing(q)'
        BY <1>9, <2>2, PatchEndStep DEF PatchCommit, PatchStep, AloneInv
    <2>4. loaded = camera[c]
        BY <2>1, <2>2 DEF CountInv
    <2>5. \/ camera'[c] = camera[c]
          \/ camera'[c].failures = camera[c].failures /\ Parked(camera'[c])
        BY <2>2, <2>4 DEF Parked
    <2>6. Parked(camera'[c]) => Fits(camera'[c], streak[c])
        BY DEF Parked, Fits
    <2> QED BY <2>2, <2>3, <2>5, <2>6 DEF CountInv
<1>10. ASSUME NEW p \in Servers, PatchTimeout(p) PROVE CountInv'
    <2>1. UNCHANGED <<camera, cycle, streak, overlapped>>
        BY <1>10 DEF PatchTimeout
    <2> QED BY <1>10, <2>1, PatchEndStep DEF PatchStep, CountInv
<1>11. ASSUME NEW c \in Cameras, FeedChanges(c) PROVE CountInv'
    BY <1>11 DEF FeedChanges, CountInv
<1> QED BY <1>1, <1>2, <1>3, <1>4, <1>5, <1>6, <1>7, <1>8, <1>9, <1>10, <1>11
        DEF Next, CycleStep, PatchStep

LEMMA InitFlagAndCount == Init => FlagInv /\ AloneInv /\ CountInv
<1> SUFFICES ASSUME Init PROVE FlagInv /\ AloneInv /\ CountInv
    OBVIOUS
<1>1. \A c \in Cameras : /\ camera[c].status = "ONLINE" /\ ~camera[c].maintenance
                         /\ camera[c].failures = 0 /\ streak[c] = 0
    BY DEF Init, NewCamera
<1>2. \A p \in Servers : ~Running(p) /\ ~Flushing(p)
    BY AsleepCycle, NoPatchTyped DEF Init, Running, Flushing
<1> QED BY <1>1, <1>2, CameraHealthAssumption DEF FlagInv, AloneInv, CountInv, Shown, Fits

-----------------------------------------------------------------------------
(* The theorems *)

\* Rows, copies and counters keep their types: no status but the four, no
\* counter below zero (models.Camera).
THEOREM TypeCorrect == Spec => []TypeOK
<1> QED BY InitTypes, TypeStep, PTL DEF Spec

\* Flag and status agree, with any number of server processes that check and
\* of administrators who change flags, unless a flag changed inside a cycle
\* (_apply_result against PATCH maintenance).
THEOREM MaintenanceIsShown == Spec => []MaintenanceShown
<1>1. Init => TypeOK /\ FlagInv
    BY InitTypes, InitFlagAndCount
<1>2. TypeOK /\ FlagInv /\ [Next]_vars => TypeOK' /\ FlagInv'
    BY TypeStep, FlagStep
<1>3. FlagInv => MaintenanceShown
    BY DEF FlagInv, Shown, MaintenanceShown
<1> QED BY <1>1, <1>2, <1>3, PTL DEF Spec

LEMMA Counted == Spec => [](TypeOK /\ AloneInv /\ CountInv)
<1>1. Init => TypeOK /\ AloneInv /\ CountInv
    BY InitTypes, InitFlagAndCount
<1>2. TypeOK /\ AloneInv /\ CountInv /\ [Next]_vars => TypeOK' /\ AloneInv' /\ CountInv'
    BY TypeStep, AloneStep, CountStep
<1> QED BY <1>1, <1>2, PTL DEF Spec

\* For any number of processes and every threshold, counter and status agree until
\* cycles, or a PATCH and another transaction, overlap (_apply_result,
\* FAILURE_THRESHOLD).
THEOREM CounterIsTrue == Spec => []CounterMatchesStatus
<1>1. CountInv => CounterMatchesStatus
    BY DEF CountInv, Fits, CounterMatchesStatus
<1> QED BY <1>1, Counted, PTL

\* Until then the debounce holds for every threshold: no camera goes OFFLINE before
\* that many checks have not succeeded one after the other, whichever processes made
\* them.
THEOREM Debounced == Spec => FlipNeedsConsecutiveFailures
<1> DEFINE Flips == \A c \in Cameras :
        ~overlapped' /\ camera[c].status = "ONLINE" /\ camera'[c].status = "OFFLINE"
            => streak'[c] >= Threshold
<1>1. TypeOK /\ CountInv /\ [Next]_vars => [Flips]_vars
    <2> SUFFICES ASSUME TypeOK, CountInv, Next, NEW c \in Cameras, ~overlapped',
                        camera[c].status = "ONLINE", camera'[c].status = "OFFLINE"
                 PROVE  streak'[c] >= Threshold
        OBVIOUS
    <2>1. ASSUME NEW p \in Servers, Commit(p) PROVE streak'[c] >= Threshold
        <3>1. ~overlapped
            BY <2>1 DEF Commit
        <3> QED BY <2>1, <3>1, CommitCounts
    <2>2. ASSUME NEW p \in Servers, PatchCommit(p) PROVE FALSE
        <3>1. PICK d, loaded : d = patch[p].id /\ loaded = patch[p].loaded
            OBVIOUS
        <3>2. camera'[d] = camera[d] \/ camera'[d].status \in {"MAINTENANCE", "UNREACHABLE"}
                                     \/ camera'[d].status = camera[d].status
            BY <2>2, <3>1, PatchRow
        <3>3. \A e \in Cameras \ {d} : camera'[e] = camera[e]
            BY <2>2, <3>1, PatchRow
        <3> QED BY <3>2, <3>3
    <2>3. camera' # camera
        OBVIOUS
    <2>4. \E p \in Servers : Commit(p) \/ PatchCommit(p)
        BY <2>3 DEF Next, CycleStep, PatchStep, Load, Probe, PortalProbe, BeginBatch, PortalRefused,
                    BreakerCloses, CycleFault, PatchRead, PatchTimeout, FeedChanges
    <2> QED BY <2>1, <2>2, <2>4
<1>2. Spec => [][Flips]_vars
    BY <1>1, Counted, PTL DEF Spec
<1> QED BY <1>2 DEF FlipNeedsConsecutiveFailures, Flips

=============================================================================
