------------------------------- MODULE Portal -------------------------------
(***************************************************************************)
(* The session of the camera portal (backend/services/corp8_session.py)    *)
(* and the ffmpeg children that stream with its cookie                     *)
(* (backend/services/hls_ffmpeg_capture.py).                               *)
(*                                                                         *)
(* The portal accepts one session per address: a login ends the session    *)
(* before it. Every server process keeps a session in memory, guarded by a *)
(* re-entrant lock that is held during a login, and all of them share a    *)
(* file. A capture streams with the cookie it was started with until the   *)
(* portal refuses it, and then asks for a new one by force.                *)
(*                                                                         *)
(* A session is young for 15 seconds, within which a forced refresh is     *)
(* answered with the session at hand, fresh for 30 minutes, and then old.  *)
(* Which sessions exist is not kept: a copy is either of the session the   *)
(* portal accepts now (ok) or of one that it has ended.                    *)
(***************************************************************************)
EXTENDS Naturals

CONSTANTS
    Processes,
    Cameras,
    Home,        \* the process that reads a camera
    File,        \* config/corp8_session_cache.json
    None,
    MaxRestarts, \* MAX_RESTARTS of one capture
    MaxTroubles  \* bound on exhausted sessions, exits and refused logins

ASSUME PortalAssumption ==
    /\ Home \in [Cameras -> Processes]
    /\ File \notin Processes
    /\ None \notin Cameras
    /\ MaxRestarts \in Nat /\ MaxTroubles \in Nat

VARIABLES
    copy,     \* the copies of a session: one per process, and the file
    login,    \* what the holder of a process's lock is doing
    cam,      \* the capture of each camera
    troubles,
    raced     \* history: two processes have been logging in at the same time

vars == <<copy, login, cam, troubles, raced>>

Session == [ok : BOOLEAN, age : {"young", "fresh", "old"}]
NoSession == [ok |-> FALSE, age |-> "none"]
Copy == Session \cup [ok : {FALSE}, age : {"none"}]
Login == [pc : {"free", "post", "store"}, cam : Cameras \cup {None}, ok : BOOLEAN]
Free == [pc |-> "free", cam |-> None, ok |-> FALSE]

\* open, force, cookie, restart: the capture wants a session, see After.
\* probe: it asks the portal for the playlist. on: ffmpeg runs. off: it exited.
Capture == [pc : {"open", "probe", "force", "cookie", "on", "off", "restart"},
            ok : BOOLEAN,  \* of the session it probes or streams with
            restarts : 0..MaxRestarts]

TypeOK ==
    /\ copy \in [Processes \cup {File} -> Copy]
    /\ login \in [Processes -> Login]
    /\ cam \in [Cameras -> Capture]
    /\ troubles \in 0..MaxTroubles
    /\ raced \in BOOLEAN

\* A file of an earlier run may be there.
Init ==
    /\ \E found \in {NoSession, [ok |-> TRUE, age |-> "fresh"],
                     [ok |-> FALSE, age |-> "fresh"]} :
          copy = [p \in Processes \cup {File} |-> IF p = File THEN found ELSE NoSession]
    /\ login = [p \in Processes |-> Free]
    /\ cam = [c \in Cameras |-> [pc |-> "open", ok |-> FALSE, restarts |-> 0]]
    /\ troubles = 0 /\ raced = FALSE

Asking == {c \in Cameras : cam[c].pc \in {"open", "force", "cookie", "restart"}}
Forced(c) == cam[c].pc \in {"force", "restart"}
Streaming == {c \in Cameras : cam[c].pc = "on"}
Settled == \A c \in Cameras : cam[c].pc = "on" /\ cam[c].ok

Trouble == troubles < MaxTroubles /\ troubles' = troubles + 1

-----------------------------------------------------------------------------
(* Corp8Session.session *)

\* What a process sees in the file; one that another process is writing does not
\* parse.
Seen(p) ==
    {copy[File]} \cup
    IF \E q \in Processes \ {p} : login[q].pc = "store" THEN {NoSession} ELSE {}

\* Seeded fault: the guard against repeated logins has no window.
ReusesForever(p, forced) == copy[p].age # "none"

\* The session in memory serves, also a forced request if it is young.
Reuses(p, forced) ==
    copy[p].age \in IF forced THEN {"young"} ELSE {"young", "fresh"}

\* Seeded fault: the file is for starting up and not for a forced refresh.
AdoptsUnforced(forced, seen) == ~forced /\ seen.age \in {"young", "fresh"}

\* Another process has just logged in.
Adopts(forced, seen) ==
    seen.age \in IF forced THEN {"young"} ELSE {"young", "fresh"}

\* What the caller does with the session it gets: the first request of
\* open_corp8_stream is probe's, which asks again by force when the portal
\* refuses the session; the last is for ffmpeg's cookie.
After(c, s) ==
    cam' = [cam EXCEPT ![c] =
        CASE @.pc = "open" -> [pc |-> "probe", ok |-> s.ok, restarts |-> 0]
          [] @.pc = "force" -> [@ EXCEPT !.pc = "cookie"]
          [] OTHER -> [@ EXCEPT !.pc = "on", !.ok = s.ok]]

Reuse(c) ==
    LET p == Home[c] IN
    /\ c \in Asking /\ login[p].pc = "free"
    /\ Reuses(p, Forced(c))
    /\ After(c, copy[p])
    /\ UNCHANGED <<copy, login, troubles, raced>>

Adopt(c) ==
    LET p == Home[c] IN
    /\ c \in Asking /\ login[p].pc = "free" /\ ~Reuses(p, Forced(c))
    /\ \E seen \in Seen(p) :
          /\ Adopts(Forced(c), seen)
          /\ copy' = [copy EXCEPT ![p] = seen]
          /\ After(c, seen)
    /\ UNCHANGED <<login, troubles, raced>>

BeginLogin(c) ==
    LET p == Home[c] IN
    /\ c \in Asking /\ login[p].pc = "free" /\ ~Reuses(p, Forced(c))
    /\ \E seen \in Seen(p) : ~Adopts(Forced(c), seen)
    /\ login' = [login EXCEPT ![p] = [pc |-> "post", cam |-> c, ok |-> FALSE]]
    /\ raced' = (raced \/ \E q \in Processes : login[q].pc # "free")
    /\ UNCHANGED <<copy, cam, troubles>>

Ended(s) == [s EXCEPT !.ok = FALSE]

\* The portal accepts the login, and no other session any more.
PostAccepted(p) ==
    /\ login[p].pc = "post"
    /\ login' = [q \in Processes |->
          IF q = p THEN [login[p] EXCEPT !.pc = "store", !.ok = TRUE]
          ELSE Ended(login[q])]
    /\ copy' = [x \in DOMAIN copy |-> Ended(copy[x])]
    /\ cam' = [c \in Cameras |-> Ended(cam[c])]
    /\ UNCHANGED <<troubles, raced>>

\* Corp8AuthError: the open fails, the probe is inconclusive, or the restart
\* has failed and the reader lets the capture go.
PostRefused(p) ==
    /\ login[p].pc = "post" /\ Trouble
    /\ login' = [login EXCEPT ![p] = Free]
    /\ cam' = [cam EXCEPT ![login[p].cam].pc = IF @ = "force" THEN "cookie" ELSE "open"]
    /\ UNCHANGED <<copy, raced>>

\* The cookies are written for the others, kept, and the lock released.
Store(p) ==
    LET s == [ok |-> login[p].ok, age |-> "young"] IN
    /\ login[p].pc = "store"
    /\ copy' = [copy EXCEPT ![p] = s, ![File] = s]
    /\ After(login[p].cam, s)
    /\ login' = [login EXCEPT ![p] = Free]
    /\ UNCHANGED <<troubles, raced>>

-----------------------------------------------------------------------------
(* open_corp8_stream and FFmpegHLSCapture *)

Goto(c, pc) == cam' = [cam EXCEPT ![c].pc = pc]

\* probe: the playlist is served, or the session was ended.
Probe(c) ==
    /\ cam[c].pc = "probe"
    /\ Goto(c, IF cam[c].ok THEN "cookie" ELSE "force")
    /\ UNCHANGED <<copy, login, troubles, raced>>

\* The portal refuses the next segment.
Refused(c) ==
    /\ cam[c].pc = "on" /\ ~cam[c].ok
    /\ Goto(c, "off")
    /\ UNCHANGED <<copy, login, troubles, raced>>

\* ffmpeg exits for a reason of its own.
Exits(c) ==
    /\ cam[c].pc = "on" /\ cam[c].ok /\ Trouble
    /\ Goto(c, "off")
    /\ UNCHANGED <<copy, login, raced>>

\* _relogin_and_restart
Restart(c) ==
    /\ cam[c].pc = "off" /\ cam[c].restarts < MaxRestarts
    /\ cam' = [cam EXCEPT ![c].pc = "restart", ![c].restarts = @ + 1]
    /\ UNCHANGED <<copy, login, troubles, raced>>

\* The reader notices first, or the restarts are used up: it opens another.
Reopen(c) ==
    /\ cam[c].pc = "off"
    /\ cam' = [cam EXCEPT ![c] = [pc |-> "open", ok |-> FALSE, restarts |-> 0]]
    /\ UNCHANGED <<copy, login, troubles, raced>>

-----------------------------------------------------------------------------
(* The portal, and time *)

\* HTTP 429: the session has had its 45 requests.
Exhausted ==
    /\ Trouble
    /\ \E x \in DOMAIN copy : copy[x].ok
    /\ copy' = [x \in DOMAIN copy |-> Ended(copy[x])]
    /\ cam' = [c \in Cameras |-> Ended(cam[c])]
    /\ UNCHANGED <<login, raced>>

Older(s) == [s EXCEPT !.age = IF @ = "young" THEN "fresh" ELSE "old"]
Age(P) == copy' = [x \in DOMAIN copy |-> IF x \in P THEN Older(copy[x]) ELSE copy[x]]

\* A copy of a session that is over.
AgeEnded(x) ==
    /\ ~copy[x].ok /\ copy[x].age \in {"young", "fresh"}
    /\ Age({x})
    /\ UNCHANGED <<login, cam, troubles, raced>>

\* The session the portal accepts, whatever captures and logins are doing: a
\* login may take 25 seconds and the request of a probe 12.
AgeCurrent ==
    LET current == {x \in DOMAIN copy : copy[x].ok} IN
    /\ \E x \in current : copy[x].age # "old"
    /\ Age(current)
    /\ UNCHANGED <<login, cam, troubles, raced>>

Next ==
    \/ \E c \in Cameras : \/ Reuse(c) \/ Adopt(c) \/ BeginLogin(c) \/ Probe(c)
                          \/ Refused(c) \/ Exits(c) \/ Restart(c) \/ Reopen(c)
    \/ \E p \in Processes : PostAccepted(p) \/ PostRefused(p) \/ Store(p)
    \/ \E x \in Processes \cup {File} : AgeEnded(x)
    \/ Exhausted \/ AgeCurrent

Spec == Init /\ [][Next]_vars

\* Every reader thread goes on, a login is answered, and an ended session grows old.
Fairness ==
    /\ \A c \in Cameras :
          /\ SF_vars(Reuse(c) \/ Adopt(c) \/ BeginLogin(c))
          /\ WF_vars(Probe(c)) /\ WF_vars(Refused(c))
          /\ WF_vars(Restart(c) \/ Reopen(c))
    /\ \A p \in Processes : WF_vars(PostAccepted(p)) /\ WF_vars(Store(p))
    /\ \A x \in Processes \cup {File} : WF_vars(AgeEnded(x))

FairSpec == Spec /\ Fairness

-----------------------------------------------------------------------------
(* Properties *)

\* A login of one process never ends a session of another that is less than 15
\* seconds old, unless two of them have at some time logged in together, which
\* no lock prevents.
NoThrashing ==
    [][ \A p \in Processes, x \in DOMAIN copy :
            ~raced /\ login[p].pc = "post" /\ login'[p].pc = "store" /\ copy[x].ok
                => copy[x].age # "young" ]_vars

\* A login is accepted while there is a session that some copy, some login or
\* some capture holds and that the portal still accepts.
Displaces ==
    /\ \/ \E x \in DOMAIN copy : copy[x].ok
       \/ \E p \in Processes : login[p].ok
       \/ \E c \in Cameras : cam[c].ok
    /\ \E p \in Processes : PostAccepted(p)

\* Whatever sessions are ended, captures exit and logins fail, in the end every
\* camera streams with the session the portal accepts, unless captures go on
\* for ever ending one that is still good, each more than 15 seconds after the
\* login that ended its own.
AllStream == <>[]Settled \/ []<><<Displaces>>_vars

=============================================================================
