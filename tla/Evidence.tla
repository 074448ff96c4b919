------------------------------ MODULE Evidence ------------------------------
(***************************************************************************)
(* The Evidence Lock of one critical alert: cutting its clip, moving it    *)
(* into place, sealing it with a SHA-256, the custody PDF, and the startup *)
(* sweep (backend/services/evidence_capture.py, GET /evidence/{id} in      *)
(* backend/routers/v1/evidence.py).                                        *)
(*                                                                         *)
(* Paths and the row are keyed by the alert id alone, so one alert is      *)
(* modelled, with every capture of it that may run: the task spawned when  *)
(* the alert fires, the on-demand capture of each GET, the pipeline's pool *)
(* and the batch scripts all end in _capture_sync. They run in several     *)
(* processes over one database and one directory, of which only the        *)
(* servers sweep when they start.                                          *)
(*                                                                         *)
(* A file is named by the capture whose writer created it; its content is  *)
(* the number of writes it has seen, so that its digest changes with every *)
(* write. The H.264 transcode, a second file of the same directory written *)
(* before the move, counts as part of writing the clip.                    *)
(***************************************************************************)
EXTENDS Naturals, Sequences

CONSTANTS
    Captures,   \* invocations of _capture_sync for the alert
    Workers,    \* processes that run captures: servers, pipelines, scripts
    Servers,    \* those of them that sweep when they start (main.py)
    None,
    Unique,     \* is evidence.alert_id UNIQUE: in the migrated schema, not in
                \* the one create_all() builds from the models
    MaxCrashes  \* bound on process deaths

ASSUME EvidenceAssumption ==
    /\ Servers \subseteq Workers
    /\ None \notin Captures
    /\ Unique \in BOOLEAN
    /\ MaxCrashes \in Nat

VARIABLES
    rows,       \* the Evidence rows of the alert, oldest first
    alertHash,  \* the alert's copy of the digest
    dir,        \* what is on disk: evidence/.tmp/{id} and evidence/{id}
    content,    \* writes seen by each capture's file
    capture,    \* locals of each capture
    worker,     \* life of each process, and the rows its sweep found
    crashes,    \* process deaths so far
    interfered, \* history: a capture ran beside another, or beside a sweep
    dropped     \* history: since the last sweep a capture gave up its row without
                \* ending it, or died in a process that does not sweep, or the
                \* sweep gave up

vars == <<rows, alertHash, dir, content, capture, worker, crashes, interfered, dropped>>

Digest == Captures \X Nat
DigestOf(file) == <<file, content[file]>>

\* No digest is not a digest.
ASSUME NoneAssumption == None \notin Digest

Row == [status : {"PENDING", "COMPLETE", "FAILED"},
        sha256 : Digest \cup {None}]
NewRow == [status |-> "PENDING", sha256 |-> None]

\* tmp: does .tmp/{id} exist; draft, clip: the files at .tmp/{id}/clip.mp4 and
\* {id}/clip.mp4; draftPdf, pdf, manifest: the digest each document states, the
\* manifest's None after a failed attempt to write it.
Dir == [tmp : BOOLEAN,
        draft : Captures \cup {None},
        clip : Captures \cup {None},
        draftPdf : Digest \cup {None},
        pdf : Digest \cup {None},
        manifest : Digest \cup {None}]

\* row: the row the session loaded or made; seen: its status then, which
\* SQLAlchemy compares with; file: the file this capture's writer has open.
Capture == [pc : {"idle", "fire", "wait", "start", "create", "insert", "cut", "dirs", "open",
                  "write", "move", "hash", "manifest", "commit", "pdf",
                  "movepdf", "complete", "cleanup", "fail", "done"},
            worker : Workers \cup {None},
            row : Nat,
            seen : {"PENDING", "COMPLETE", "FAILED"},
            file : Captures \cup {None},
            sha256 : Digest \cup {None}]

NoCapture == [pc |-> "idle", worker |-> None, row |-> 0, seen |-> "PENDING",
              file |-> None, sha256 |-> None]

Up == [state |-> "up", stale |-> {}]

Init ==
    /\ rows = <<>> /\ alertHash = None
    /\ dir = [tmp |-> FALSE, draft |-> None, clip |-> None, draftPdf |-> None,
              pdf |-> None, manifest |-> None]
    /\ content = [c \in Captures |-> 0]
    /\ capture = [c \in Captures |-> NoCapture]
    /\ worker = [w \in Workers |-> Up]
    /\ crashes = 0
    /\ interfered = FALSE
    /\ dropped = FALSE

Working(c) ==
    capture[c].pc \notin {"idle", "fire", "wait", "start", "create", "insert", "done"}
Sweeping(w) == worker[w].state \in {"sweep", "fail"}

At(c, pc) == capture[c].pc = pc
Goto(c, pc) == capture' = [capture EXCEPT ![c].pc = pc]
Ended == [NoCapture EXCEPT !.pc = "done"]
Return(c) == capture' = [capture EXCEPT ![c] = Ended]

-----------------------------------------------------------------------------
(* Captures begin *)

\* on_alert_fired: create_pending_row finds no row, in one transaction, and
\* inserts it in the next. If there is a row, nothing happens.
Fire(c, w) ==
    /\ At(c, "idle") /\ worker[w].state = "up"
    /\ rows = <<>>
    /\ capture' = [capture EXCEPT ![c].pc = "fire", ![c].worker = w]
    /\ UNCHANGED <<rows, alertHash, dir, content, worker, crashes, interfered, dropped>>

\* A GET of evidence that is not COMPLETE, the pipeline or a script. None of
\* them looks whether a capture is already running.
Request(c, w) ==
    /\ At(c, "idle") /\ worker[w].state = "up"
    /\ rows # <<>> => rows[1].status # "COMPLETE"
    /\ capture' = [capture EXCEPT ![c].pc = "start", ![c].worker = w]
    /\ UNCHANGED <<rows, alertHash, dir, content, worker, crashes, interfered, dropped>>

\* The row the capture keeps: with expire_on_commit off it is never re-read.
Enter(c, r, status) ==
    /\ capture' = [capture EXCEPT ![c].pc = "cut", ![c].row = r, ![c].seen = status]
    /\ interfered' = \/ interfered
                     \/ \E d \in Captures \ {c} : Working(d)
                     \/ \E w \in Workers : Sweeping(w)

\* Seeded fault: the idempotency check is lost.
LoadAlways(c) ==
    /\ At(c, "wait") \/ At(c, "start")
    /\ IF rows = <<>>
       THEN Goto(c, "create") /\ UNCHANGED interfered
       ELSE Enter(c, 1, rows[1].status)
    /\ UNCHANGED <<rows, alertHash, dir, content, worker, crashes, dropped>>

\* Seeded fault: a row that is PENDING is taken for a capture under way.
LoadUnlessPending(c) ==
    /\ At(c, "wait") \/ At(c, "start")
    /\ IF rows = <<>>
       THEN Goto(c, "create") /\ UNCHANGED interfered
       ELSE IF rows[1].status = "FAILED" THEN Enter(c, 1, "FAILED")
       ELSE Return(c) /\ UNCHANGED interfered
    /\ UNCHANGED <<rows, alertHash, dir, content, worker, crashes, dropped>>

\* _capture_sync queries the row, the first if there are several.
Load(c) ==
    /\ At(c, "wait") \/ At(c, "start")
    /\ \/ /\ rows = <<>>
          /\ Goto(c, "create")
          /\ UNCHANGED interfered
       \/ /\ rows # <<>> /\ rows[1].status = "COMPLETE"
          /\ Return(c)
          /\ UNCHANGED interfered
       \/ /\ rows # <<>> /\ rows[1].status # "COMPLETE"
          /\ Enter(c, 1, rows[1].status)
    /\ UNCHANGED <<rows, alertHash, dir, content, worker, crashes, dropped>>

\* create_pending_row inside _capture_sync looks again.
Create(c) ==
    /\ At(c, "create")
    /\ IF rows = <<>> THEN Goto(c, "insert") ELSE Return(c)
    /\ UNCHANGED <<rows, alertHash, dir, content, worker, crashes, interfered, dropped>>

\* The INSERT of create_pending_row. IntegrityError, if the schema raises it,
\* ends the loser of a race without a capture. The winner sleeps out the
\* post-roll, or is a capture already and goes on with its row.
Insert(c) ==
    /\ At(c, "fire") \/ At(c, "insert")
    /\ IF Unique /\ rows # <<>>
       THEN Return(c) /\ UNCHANGED <<rows, interfered, dropped>>
       ELSE /\ rows' = Append(rows, NewRow)
            /\ IF At(c, "fire") THEN Goto(c, "wait") /\ UNCHANGED interfered
                                ELSE Enter(c, Len(rows) + 1, "PENDING")
    /\ UNCHANGED <<alertHash, dir, content, worker, crashes, dropped>>

-----------------------------------------------------------------------------
(* The clip *)

\* The frames at the position the detector recorded, or from the live buffer;
\* there is no other footage, and without frames the capture fails.
Cut(c) ==
    /\ At(c, "cut")
    /\ Goto(c, "dirs") \/ Goto(c, "fail")
    /\ UNCHANGED <<rows, alertHash, dir, content, worker, crashes, interfered, dropped>>

\* The temp directory is emptied, whoever is using it, and made again.
Dirs(c) ==
    /\ At(c, "dirs")
    /\ dir' = [dir EXCEPT !.tmp = TRUE, !.draft = None, !.draftPdf = None]
    /\ Goto(c, "open")
    /\ UNCHANGED <<rows, alertHash, content, worker, crashes, interfered, dropped>>

\* The writer creates the file, or truncates the one that is there. Without
\* the directory it writes no frames.
Open(c) ==
    /\ At(c, "open")
    /\ IF dir.tmp
       THEN LET file == IF dir.draft = None THEN c ELSE dir.draft IN
            /\ dir' = [dir EXCEPT !.draft = file]
            /\ content' = [content EXCEPT ![file] = @ + 1]
            /\ capture' = [capture EXCEPT ![c].pc = "write", ![c].file = file]
       ELSE /\ Goto(c, "fail")
            /\ UNCHANGED <<dir, content>>
    /\ UNCHANGED <<rows, alertHash, worker, crashes, interfered, dropped>>

\* The last frames and the index reach the open file, wherever it is by now, or
\* the writer raises.
Write(c) ==
    /\ At(c, "write")
    /\ content' = [content EXCEPT ![capture[c].file] = @ + 1]
    /\ \E pc \in {"move", "fail"} :
          capture' = [capture EXCEPT ![c].pc = pc, ![c].file = None]
    /\ UNCHANGED <<rows, alertHash, dir, worker, crashes, interfered, dropped>>

\* os.replace(.tmp/{id}/clip.mp4, {id}/clip.mp4): raises if it is gone.
Move(c) ==
    /\ At(c, "move")
    /\ IF dir.draft # None
       THEN /\ dir' = [dir EXCEPT !.clip = dir.draft, !.draft = None]
            /\ Goto(c, "hash")
       ELSE /\ Goto(c, "fail")
            /\ UNCHANGED dir
    /\ UNCHANGED <<rows, alertHash, content, worker, crashes, interfered, dropped>>

\* Seeded fault: the digest is taken over the clip of an earlier attempt.
HashFirst(c) ==
    /\ At(c, "hash")
    /\ capture' = [capture EXCEPT ![c].pc = "manifest",
                                  ![c].sha256 = IF rows[1].sha256 = None
                                                THEN DigestOf(dir.clip)
                                                ELSE rows[1].sha256]
    /\ UNCHANGED <<rows, alertHash, dir, content, worker, crashes, interfered, dropped>>

\* hash_file over the clip in its final place, which may not be readable.
Hash(c) ==
    /\ At(c, "hash")
    /\ \/ capture' = [capture EXCEPT ![c].pc = "manifest",
                                     ![c].sha256 = DigestOf(dir.clip)]
       \/ Goto(c, "fail")
    /\ UNCHANGED <<rows, alertHash, dir, content, worker, crashes, interfered, dropped>>

\* manifest.json names the digest; a failure to write it is only logged.
Manifest(c) ==
    /\ At(c, "manifest")
    /\ \E digest \in {capture[c].sha256, None} :
          dir' = [dir EXCEPT !.manifest = digest]
    /\ Goto(c, "commit")
    /\ UNCHANGED <<rows, alertHash, content, worker, crashes, interfered, dropped>>

-----------------------------------------------------------------------------
(* The row *)

\* First commit: the clip's path, digest and times, still not COMPLETE.
Commit(c) ==
    /\ At(c, "commit")
    /\ rows' = [rows EXCEPT ![capture[c].row].sha256 = capture[c].sha256]
    /\ Goto(c, "pdf")
    /\ UNCHANGED <<alertHash, dir, content, worker, crashes, interfered, dropped>>

\* The custody PDF states the digest. Any failure leaves the row without one.
Pdf(c) ==
    /\ At(c, "pdf")
    /\ \/ /\ dir.tmp
          /\ dir' = [dir EXCEPT !.draftPdf = capture[c].sha256]
          /\ Goto(c, "movepdf")
       \/ /\ Goto(c, "complete")
          /\ UNCHANGED dir
    /\ UNCHANGED <<rows, alertHash, content, worker, crashes, interfered, dropped>>

MovePdf(c) ==
    /\ At(c, "movepdf")
    /\ IF dir.draftPdf # None
       THEN /\ dir' = [dir EXCEPT !.pdf = dir.draftPdf, !.draftPdf = None]
            /\ Goto(c, "complete")
       ELSE /\ Goto(c, "fail")
            /\ UNCHANGED dir
    /\ UNCHANGED <<rows, alertHash, content, worker, crashes, interfered, dropped>>

\* Second commit: COMPLETE, and the alert gets its copy of the digest. The alert
\* is queried before it, which may raise.
Complete(c) ==
    /\ At(c, "complete")
    /\ \/ /\ rows' = [rows EXCEPT ![capture[c].row].status = "COMPLETE"]
          /\ alertHash' = capture[c].sha256
          /\ Goto(c, "cleanup")
       \/ /\ Goto(c, "fail")
          /\ UNCHANGED <<rows, alertHash>>
    /\ UNCHANGED <<dir, content, worker, crashes, interfered, dropped>>

\* A capture that is expected to end the row.
Answers(c) ==
    \/ At(c, "wait")
    \/ Working(c) /\ ~At(c, "cleanup") /\ capture[c].seen = "PENDING"

\* A commit that raises. The INSERT adds no row. After the others the session
\* takes no query until it is rolled back, so the handler's own query of the row
\* raises too, which is passed over; and _fail only rolls back. The row stays as
\* it is.
CommitRaises(c) ==
    /\ capture[c].pc \in {"fire", "insert", "commit", "complete", "fail"}
    /\ Return(c)
    /\ dropped' = (dropped \/ Answers(c))
    /\ UNCHANGED <<rows, alertHash, dir, content, worker, crashes, interfered>>

Cleanup(c) ==
    /\ At(c, "cleanup")
    /\ dir' = [dir EXCEPT !.tmp = FALSE, !.draft = None, !.draftPdf = None]
    /\ Return(c)
    /\ UNCHANGED <<rows, alertHash, content, worker, crashes, interfered, dropped>>

\* _fail: the UPDATE carries the status only if the session loaded another one.
Fail(c) ==
    /\ At(c, "fail")
    /\ rows' = IF capture[c].seen = "FAILED" THEN rows
               ELSE [rows EXCEPT ![capture[c].row].status = "FAILED"]
    /\ Return(c)
    /\ UNCHANGED <<alertHash, dir, content, worker, crashes, interfered, dropped>>

-----------------------------------------------------------------------------
(* Processes *)

\* A process dies with every capture it runs. A server will sweep.
Crash(w) ==
    /\ worker[w].state # "down" /\ crashes < MaxCrashes
    /\ crashes' = crashes + 1
    /\ worker' = [worker EXCEPT ![w] = [state |-> "down", stale |-> {}]]
    /\ capture' = [c \in Captures |-> IF capture[c].worker = w
                                      THEN Ended
                                      ELSE capture[c]]
    /\ dropped' = \/ dropped
                  \/ w \notin Servers /\ \E c \in Captures : capture[c].worker = w /\ Answers(c)
    /\ UNCHANGED <<rows, alertHash, dir, content, interfered>>

\* A pipeline or a script that is started again captures without a sweep.
Respawn(w) ==
    /\ worker[w].state = "down"
    /\ worker' = [worker EXCEPT ![w].state = "up"]
    /\ UNCHANGED <<rows, alertHash, dir, content, capture, crashes, interfered, dropped>>

\* sweep_stale_pending removes every temp directory, then looks for PENDING rows.
Restart(w) ==
    /\ worker[w].state = "down"
    /\ worker' = [worker EXCEPT ![w].state = "sweep"]
    /\ dir' = [dir EXCEPT !.tmp = FALSE, !.draft = None, !.draftPdf = None]
    /\ interfered' = (interfered \/ \E c \in Captures : Working(c))
    /\ UNCHANGED <<rows, alertHash, content, capture, crashes, dropped>>

Pending == {r \in 1..Len(rows) : rows[r].status = "PENDING"}

\* Seeded fault: no sweep.
SweepNothing(w) ==
    /\ worker[w].state = "sweep"
    /\ worker' = [worker EXCEPT ![w].state = "up"]
    /\ UNCHANGED <<rows, alertHash, dir, content, capture, crashes, interfered, dropped>>

SweepRead(w) ==
    /\ worker[w].state = "sweep"
    /\ worker' = [worker EXCEPT
          ![w] = IF Pending = {} THEN Up ELSE [state |-> "fail", stale |-> Pending]]
    /\ dropped' = FALSE
    /\ UNCHANGED <<rows, alertHash, dir, content, capture, crashes, interfered>>

\* It fails the rows it found PENDING, whatever they are by now.
SweepWrite(w) ==
    /\ worker[w].state = "fail"
    /\ rows' = [r \in 1..Len(rows) |-> IF r \in worker[w].stale
                                        THEN [rows[r] EXCEPT !.status = "FAILED"]
                                        ELSE rows[r]]
    /\ worker' = [worker EXCEPT ![w] = Up]
    /\ UNCHANGED <<alertHash, dir, content, capture, crashes, interfered, dropped>>

\* A sweep that raises is rolled back, and the server starts all the same.
SweepRaises(w) ==
    /\ worker[w].state \in {"sweep", "fail"}
    /\ worker' = [worker EXCEPT ![w] = Up]
    /\ dropped' = TRUE
    /\ UNCHANGED <<rows, alertHash, dir, content, capture, crashes, interfered>>

-----------------------------------------------------------------------------
CaptureStep(c) ==
    \/ Insert(c) \/ Load(c) \/ Create(c) \/ Cut(c) \/ Dirs(c) \/ Open(c) \/ Write(c)
    \/ Move(c) \/ Hash(c) \/ Manifest(c) \/ Commit(c) \/ Pdf(c) \/ MovePdf(c)
    \/ Complete(c) \/ CommitRaises(c) \/ Cleanup(c) \/ Fail(c)
ServerStep(w) == Restart(w) \/ SweepRead(w) \/ SweepWrite(w) \/ SweepRaises(w)

Next ==
    \/ \E c \in Captures, w \in Workers : Fire(c, w) \/ Request(c, w)
    \/ \E c \in Captures : CaptureStep(c)
    \/ \E w \in Workers : Crash(w)
    \/ \E w \in Servers : ServerStep(w)
    \/ \E w \in Workers \ Servers : Respawn(w)

Spec == Init /\ [][Next]_vars

\* A capture runs to its end unless its process dies, and the supervisor of a
\* server starts it again. Nobody need ask for the evidence.
Fairness ==
    /\ \A c \in Captures : WF_vars(CaptureStep(c))
    /\ \A w \in Servers : WF_vars(ServerStep(w))

FairSpec == Spec /\ Fairness

-----------------------------------------------------------------------------
(* Properties *)

TypeOK ==
    /\ rows \in Seq(Row) /\ alertHash \in Digest \cup {None}
    /\ dir \in Dir
    /\ content \in [Captures -> Nat]
    /\ capture \in [Captures -> Capture]
    /\ worker \in [Workers -> [state : {"up", "down", "sweep", "fail"},
                               stale : SUBSET (1..Len(rows))]]
    /\ crashes \in Nat
    /\ interfered \in BOOLEAN /\ dropped \in BOOLEAN

Sealed == rows # <<>> /\ rows[1].status = "COMPLETE"

\* The seal of COMPLETE evidence is the digest of the clip on disk, whatever
\* crashes, retries and earlier attempts came before, as long as no two
\* captures, and no capture and another process's sweep, ran side by side.
SealMatchesClip ==
    Sealed /\ ~interfered =>
        dir.clip # None /\ rows[1].sha256 = DigestOf(dir.clip)

\* Then the alert's copy of the hash, which POST /alerts/{id}/verify compares
\* with the clip, and the provenance manifest, if it could be written, state the
\* same digest.
SealIsOneDigest ==
    Sealed /\ ~interfered =>
        alertHash = rows[1].sha256 /\ dir.manifest \in {rows[1].sha256, None}

\* Sealed evidence stays sealed, and its clip is never replaced or written to.
SealIsFinal ==
    [][Sealed /\ ~interfered' =>
         Sealed' /\ dir'.clip = dir.clip /\ content'[dir.clip] = content[dir.clip]]_vars

\* A row that says "processing" is somebody's: of a capture that will end it, or
\* of a server that is down or sweeping and will fail it, also when captures
\* overlap, a pipeline's with a server's; unless, since the last sweep, a commit
\* raised or a process died that does not sweep.
Processing == rows # <<>> /\ rows[1].status = "PENDING"
TakesUp(w) == \/ worker[w].state \in {"down", "sweep"}
              \/ worker[w].state = "fail" /\ 1 \in worker[w].stale
PendingIsAnswered ==
    Unique /\ Processing /\ ~dropped =>
        (\E c \in Captures : Answers(c)) \/ \E w \in Servers : TakesUp(w)

\* With the same exceptions, the row that is read is not "processing" forever:
\* PENDING ends, also when the server that was to finish it dies, and when two
\* captures made a row each.
PendingEnds == Processing ~> (~Processing \/ dropped)

=============================================================================
