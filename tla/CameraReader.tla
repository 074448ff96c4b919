---------------------------- MODULE CameraReader ----------------------------
(***************************************************************************)
(* One CameraReaderThread of the pipeline                                  *)
(* (backend/services/live_24x7_pipeline.py): the choice between the        *)
(* network source of a camera and its local clips, failover, reconnection  *)
(* and the swap back.                                                      *)
(*                                                                         *)
(* A source is "rtsp" (also http and onvif: opened by OpenCV, and probed   *)
(* with a TCP connect), "corp8" (an http source of the portal, decoded by  *)
(* an ffmpeg child), "stream" (any other URL: never probed) or "clips".    *)
(* An OpenCV capture stays open whatever its source does. An ffmpeg        *)
(* capture is open while its process lives, so it opens whether or not the *)
(* portal serves the camera, and is closed by the child's exit.            *)
(*                                                                         *)
(* Time is counted in probe intervals. Of a clip only the position is      *)
(* kept, and of a frame only where it came from.                           *)
(***************************************************************************)
EXTENDS Naturals

CONSTANTS
    Clips,       \* the number of local clips
    ClipLength,  \* frames of a clip
    FailLimit,   \* reads that fail in a row before the stream is given up (15)
    MaxDelay,    \* bound of the reconnect delay
    MaxDoubling  \* the probe interval doubles this often (5)

ASSUME CameraReaderAssumption ==
    /\ Clips \in Nat \ {0} /\ ClipLength \in Nat \ {0}
    /\ FailLimit \in Nat \ {0}
    /\ MaxDelay \in Nat \ {0} /\ MaxDoubling \in Nat

VARIABLES
    kind, strict, readable, \* the source, SENTINEL_STRICT_LIVE, the clips that open
    net,        \* the world: is the host down, up but not serving, or serving
    pc,         \* start, loop, or ended
    running,
    cap,        \* self._cap: none, live, dead (an ffmpeg that exited), clip
    clip,       \* _clip_idx
    pos,        \* frames read of the open clip
    failover,   \* _in_failover
    connected,  \* _is_connected
    failures,   \* _consecutive_failures
    recoveries, \* _failed_recoveries
    since,      \* time since the last probe
    delay, wait \* _reconnect_delay, and what is left of it

config == <<kind, strict, readable>>
counters == <<recoveries, since>>
backoff == <<delay, wait>>
readerVars == <<config, net, pc, running, cap, clip, pos, failover, connected,
                failures, counters, backoff>>

Interval(n) == 2 ^ (IF n < MaxDoubling THEN n ELSE MaxDoubling)
Networked == kind # "clips"
ClipIds == 0..(Clips - 1)

ReaderTypeOK ==
    /\ kind \in {"rtsp", "corp8", "stream", "clips"} /\ strict \in BOOLEAN
    /\ readable \subseteq ClipIds
    /\ net \in {"down", "broken", "up"}
    /\ pc \in {"start", "loop", "ended"} /\ running \in BOOLEAN
    /\ cap \in {"none", "live", "dead", "clip"}
    /\ clip \in ClipIds /\ pos \in 0..ClipLength
    /\ failover \in BOOLEAN /\ connected \in BOOLEAN
    /\ failures \in 0..FailLimit /\ recoveries \in 0..MaxDoubling
    /\ since \in 0..(Interval(MaxDoubling) + 1)
    /\ delay \in 1..MaxDelay /\ wait \in 0..MaxDelay

ReaderInit ==
    /\ kind \in {"rtsp", "corp8", "stream", "clips"} /\ strict \in BOOLEAN
    /\ readable \in SUBSET ClipIds
    /\ net \in {"down", "broken", "up"}
    /\ pc = "start" /\ running = TRUE
    /\ cap = "none" /\ clip = 0 /\ pos = 0
    /\ failover = FALSE /\ connected = FALSE
    /\ failures = 0 /\ recoveries = 0 /\ since = 0
    /\ delay = 1 /\ wait = 0

UpTo(bound, n) == IF n < bound THEN n ELSE bound

-----------------------------------------------------------------------------
(* Opening *)

\* _open_clip: the old capture is released first.
OpenClip(i) ==
    /\ clip' = i
    /\ pos' = 0
    /\ IF i \in readable
       THEN cap' = "clip" /\ connected' = TRUE
       ELSE cap' = "none" /\ connected' = FALSE

NextClip == (clip + 1) % Clips

\* open_corp8_stream attempts ffmpeg whatever its probe of the playlist says.
CanOpen == net = "up" \/ kind = "corp8"
CanFail == net # "up"

\* Seeded fault: the portal's branch, which repeats these assignments, forgets
\* one of them.
OpenedNetworkInFailover ==
    /\ cap' = "live" /\ connected' = TRUE
    /\ failover' = IF kind = "corp8" THEN failover ELSE FALSE
    /\ failures' = 0

\* _open_network_stream, success.
OpenedNetwork ==
    /\ cap' = "live" /\ connected' = TRUE
    /\ failover' = FALSE /\ failures' = 0

\* Failover to the clip the reader was last at.
EnterFailover == failover' = TRUE /\ OpenClip(clip)

-----------------------------------------------------------------------------
(* run *)

StartOpened ==
    /\ pc = "start" /\ pc' = "loop"
    /\ IF Networked
       THEN CanOpen /\ OpenedNetwork /\ UNCHANGED <<clip, pos>>
       ELSE clip \in readable /\ OpenClip(clip) /\ UNCHANGED <<failover, failures>>
    /\ UNCHANGED <<config, net, running, counters, backoff>>

StartFailed ==
    /\ pc = "start" /\ pc' = "loop"
    /\ IF Networked THEN CanFail ELSE clip \notin readable
    /\ IF Networked /\ ~strict
       THEN EnterFailover /\ UNCHANGED failures
       ELSE /\ failures' = UpTo(FailLimit, failures + 1)
            /\ UNCHANGED <<cap, clip, pos, failover, connected>>
    /\ UNCHANGED <<config, net, running, counters, backoff>>

Looping == pc = "loop" /\ running
Closed == cap \in {"none", "dead"}

Longer == UpTo(MaxDelay, 2 * delay)

\* _handle_network_reconnect: all that the loop does while nothing is open.
Reconnected ==
    /\ Looping /\ Closed /\ Networked /\ wait = 0
    /\ CanOpen /\ OpenedNetwork
    /\ delay' = 1 /\ wait' = 1
    /\ UNCHANGED <<config, net, pc, running, clip, pos, counters>>

ReconnectFailed ==
    /\ Looping /\ Closed /\ Networked /\ wait = 0
    /\ CanFail
    /\ failures' = UpTo(FailLimit, failures + 1)
    /\ connected' = IF kind = "corp8" THEN FALSE ELSE connected
    /\ delay' = Longer /\ wait' = delay'
    /\ UNCHANGED <<config, net, pc, running, cap, clip, pos, failover, counters>>

\* Without a network source the loop goes on to the next clip, which may not
\* open either.
SkipClip ==
    /\ Looping /\ Closed /\ ~Networked /\ ~strict
    /\ OpenClip(NextClip)
    /\ UNCHANGED <<config, net, pc, running, failover, failures, counters, backoff>>

End ==
    /\ pc = "loop" /\ ~running
    /\ pc' = "ended" /\ cap' = "none" /\ pos' = 0
    /\ UNCHANGED <<config, net, running, clip, failover, connected, failures,
                   counters, backoff>>

-----------------------------------------------------------------------------
(* _read_live_network_frame *)

ReadsLive == Looping /\ cap = "live" /\ Networked /\ ~failover

LiveFrame ==
    /\ ReadsLive /\ net # "down"
    /\ failures' = 0
    /\ UNCHANGED <<config, net, pc, running, cap, clip, pos, failover, connected,
                   counters, backoff>>

\* No frame, or one that is blank. An ffmpeg that exited has been restarted
\* once by the read; if that brought no frame it is closed, and the loop takes
\* it for a lost connection before the limit is reached.
LiveMiss ==
    /\ ReadsLive /\ net # "up" /\ failures + 1 < FailLimit
    /\ failures' = failures + 1
    /\ cap' \in IF kind = "corp8" THEN {"live", "dead"} ELSE {"live"}
    /\ UNCHANGED <<config, net, pc, running, clip, pos, failover, connected,
                   counters, backoff>>

\* Seeded fault: the lost stream is released and the clips are not opened.
LiveLostDark ==
    /\ ReadsLive /\ net # "up" /\ failures + 1 >= FailLimit
    /\ failures' = FailLimit
    /\ cap' = "none" /\ connected' = FALSE
    /\ UNCHANGED <<config, net, pc, running, clip, pos, failover, counters, backoff>>

LiveLost ==
    /\ ReadsLive /\ net # "up" /\ failures + 1 >= FailLimit
    /\ failures' = FailLimit
    /\ IF strict
       THEN cap' = "none" /\ connected' = FALSE /\ UNCHANGED <<clip, pos, failover>>
       ELSE EnterFailover
    /\ UNCHANGED <<config, net, pc, running, counters, backoff>>

-----------------------------------------------------------------------------
(* _read_clip_frame *)

\* Whatever is open is read as a clip when the mark is set.
ReadsClip == Looping /\ ~Closed /\ (failover \/ ~Networked)

Probes == kind \in {"rtsp", "corp8"} /\ failover
ProbeDue == Probes /\ since > Interval(recoveries)

\* Seeded fault: as before the fix, the recovery releases the clip first.
RecoveryFailsRewinding ==
    /\ ReadsClip /\ ProbeDue /\ net = "broken"
    /\ since' = 0
    /\ recoveries' = UpTo(MaxDoubling, recoveries + 1)
    /\ OpenClip(clip)
    /\ UNCHANGED <<config, net, pc, running, failover, failures, backoff>>

\* The host answers and the stream does not open: the clip stays.
RecoveryFails ==
    /\ ReadsClip /\ ProbeDue /\ net = "broken"
    /\ since' = 0
    /\ recoveries' = UpTo(MaxDoubling, recoveries + 1)
    /\ UNCHANGED <<config, net, pc, running, cap, clip, pos, failover, connected,
                   failures, backoff>>

\* Seeded fault: the probe's answer is discarded, as it used to be.
HotSwapNever ==
    /\ ReadsClip /\ ProbeDue /\ net # "down" /\ CanOpen
    /\ since' = 0
    /\ UNCHANGED <<config, net, pc, running, cap, clip, pos, failover, connected,
                   failures, recoveries, backoff>>

HotSwap ==
    /\ ReadsClip /\ ProbeDue /\ net # "down" /\ CanOpen
    /\ since' = 0 /\ recoveries' = 0
    /\ OpenedNetwork
    /\ delay' = IF kind = "corp8" THEN delay ELSE 1
    /\ UNCHANGED <<config, net, pc, running, clip, pos, wait>>

\* A probe of a host that is down costs no frame. A clip that has ended, or
\* whose rest cannot be read, is left for the next.
ClipFrame ==
    /\ ReadsClip /\ (~ProbeDue \/ net = "down")
    /\ since' = IF ProbeDue THEN 0 ELSE since
    /\ IF pos < ClipLength
       THEN pos' = pos + 1 /\ UNCHANGED <<cap, clip, connected>>
       ELSE OpenClip(NextClip)
    /\ UNCHANGED <<config, net, pc, running, failover, failures, recoveries, backoff>>

-----------------------------------------------------------------------------
(* The world *)

Network ==
    /\ pc # "ended"
    /\ net' \in {"down", "broken", "up"} \ {net}
    /\ UNCHANGED <<config, pc, running, cap, clip, pos, failover, connected,
                   failures, counters, backoff>>

\* ffmpeg exits between two reads.
ChildExits ==
    /\ cap = "live" /\ kind = "corp8" /\ net # "up" /\ pc = "loop"
    /\ cap' = "dead"
    /\ UNCHANGED <<config, net, pc, running, clip, pos, failover, connected,
                   failures, counters, backoff>>

Tick ==
    /\ pc = "loop"
    /\ since' = UpTo(Interval(MaxDoubling) + 1, since + 1)
    /\ wait' = IF wait > 0 THEN wait - 1 ELSE 0
    /\ <<since', wait'>> # <<since, wait>>
    /\ UNCHANGED <<config, net, pc, running, cap, clip, pos, failover, connected,
                   failures, recoveries, delay>>

Stop ==
    /\ running /\ pc # "ended"
    /\ running' = FALSE
    /\ UNCHANGED <<config, net, pc, cap, clip, pos, failover, connected, failures,
                   counters, backoff>>

ReaderEnded == pc = "ended" /\ UNCHANGED readerVars

Step ==
    \/ StartOpened \/ StartFailed
    \/ Reconnected \/ ReconnectFailed \/ SkipClip
    \/ LiveFrame \/ LiveMiss \/ LiveLost
    \/ RecoveryFails \/ HotSwap \/ ClipFrame
    \/ End

ReaderNext == Step \/ Network \/ ChildExits \/ Tick \/ Stop \/ ReaderEnded

ReaderSpec == ReaderInit /\ [][ReaderNext]_readerVars

\* The thread loops while the process lives, and time passes.
ReaderFairness ==
    /\ WF_readerVars(Step) /\ WF_readerVars(Tick)

ReaderFairSpec == ReaderSpec /\ ReaderFairness

-----------------------------------------------------------------------------
(* Properties *)

\* The reader is chosen by the failover mark and stamps what it reads: live
\* frames with the wall clock and no file, clip frames with the file's clock and
\* a position evidence is cut from. So the mark must agree with what is open.
MarkTellsSource ==
    Networked =>
        /\ cap = "clip" => failover
        /\ cap \in {"live", "dead"} => ~failover

\* A clip is read from its start to its end. Neither a probe nor a recovery
\* that fails rewinds it or skips the rest of it, and the next one is the
\* next of the list.
ClipsInSequence ==
    [][ cap = "clip" /\ cap' = "clip" =>
            \/ clip' = clip /\ pos' \in {pos, pos + 1}
            \/ pos = ClipLength /\ clip' = NextClip /\ pos' = 0 ]_readerVars

\* A source that is served for good is read live for good, if it is one the
\* reader probes, or if the reader may not fall back to clips.
HotSwapsBack ==
    (kind \in {"rtsp", "corp8"} \/ strict) /\ Networked
        /\ <>[](running /\ net = "up") => <>[](cap = "live")

\* A camera read by OpenCV whose source is gone for good ends up on its clips,
\* and stays on them, if they can all be read.
FailsOverToClips ==
    kind \in {"rtsp", "stream"} /\ ~strict /\ readable = ClipIds
        /\ <>[](running /\ net = "down") => <>[](cap = "clip")

=============================================================================
