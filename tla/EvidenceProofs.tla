--------------------------- MODULE EvidenceProofs ---------------------------
(***************************************************************************)
(* Proofs about Evidence, for any number of captures, processes and        *)
(* crashes, in the migrated schema (Unique).                               *)
(*                                                                         *)
(* The seal is made step by step: the clip is put in its place, its digest *)
(* is taken, written to the manifest, the row and the alert, and then the  *)
(* row is COMPLETE. It holds in the end because what one step relies on    *)
(* lasts until the next, as long as nobody else works on the alert: each   *)
(* place of a capture tells which of the digests agree already.            *)
(***************************************************************************)
EXTENDS EvidenceRefinement, SequenceTheorems, TLAPS

Pcs == {"idle", "fire", "wait", "start", "create", "insert", "cut", "dirs", "open",
        "write", "move", "hash", "manifest", "commit", "pdf",
        "movepdf", "complete", "cleanup", "fail", "done"}

-----------------------------------------------------------------------------
(* The inductive invariant *)

\* The types of everything but the history of what was dropped.
Types ==
    /\ rows \in Seq(Row) /\ alertHash \in Digest \cup {None}
    /\ dir \in Dir
    /\ content \in [Captures -> Nat]
    /\ capture \in [Captures -> Capture]
    /\ worker \in [Workers -> [state : {"up", "down", "sweep", "fail"},
                               stale : SUBSET (1..Len(rows))]]
    /\ crashes \in Nat
    /\ interfered \in BOOLEAN

\* The clip is in its place; its digest is taken; the manifest has it, if
\* anything; the row has it.
Placed == {"hash", "manifest", "commit", "pdf", "movepdf", "complete", "cleanup"}
Hashed == {"manifest", "commit", "pdf", "movepdf", "complete"}
Listed == {"commit", "pdf", "movepdf", "complete"}
Stored == {"pdf", "movepdf", "complete"}

\* What a capture knows of the row, and, if nobody interfered, of the files.
Knows(c) == Working(c) =>
    /\ rows # <<>> /\ capture[c].row = 1
    /\ capture[c].pc \in Placed => dir.clip # None
    /\ ~interfered =>
          /\ ~At(c, "cleanup") => /\ rows[1].status = capture[c].seen
                                  /\ rows[1].status # "COMPLETE"
          /\ capture[c].pc \in Hashed => capture[c].sha256 = DigestOf(dir.clip)
          /\ capture[c].pc \in Listed => dir.manifest \in {capture[c].sha256, None}
          /\ capture[c].pc \in Stored => rows[1].sha256 = capture[c].sha256

KnowInv == \A c \in Captures : Knows(c)

\* Unless something interfered, one capture works at a time, and none beside a sweep.
AloneInv == ~interfered =>
    /\ \A c, d \in Captures : Working(c) /\ Working(d) => c = d
    /\ \A c \in Captures, w \in Workers : ~(Working(c) /\ Sweeping(w))

\* A sweep has no sealed row in its hands.
SweepInv == ~interfered => \A w \in Workers :
    worker[w].state = "fail" => \A r \in worker[w].stale : rows[r].status # "COMPLETE"

Seal ==
    /\ dir.clip # None /\ rows[1].sha256 = DigestOf(dir.clip)
    /\ alertHash = rows[1].sha256 /\ dir.manifest \in {rows[1].sha256, None}
SealInv == Sealed /\ ~interfered => Seal

IndInv ==
    /\ Types /\ Len(rows) <= 1
    /\ KnowInv /\ AloneInv /\ SweepInv /\ SealInv

-----------------------------------------------------------------------------
(* Rows and locals *)

LEMMA TheRow ==
    ASSUME Types, Len(rows) <= 1, rows # <<>>
    PROVE  Len(rows) = 1 /\ rows[1] \in Row
<1>1. rows \in Seq(Row)
    BY DEF Types
<1>2. Len(rows) \in Nat \ {0}
    BY <1>1, EmptySeq
<1>3. \A n \in Nat \ {0} : n <= 1 => n = 1
    OBVIOUS
<1>4. Len(rows) = 1
    BY <1>2, <1>3, Zenon
<1> QED BY <1>1, <1>4

LEMMA RowChanges ==
    ASSUME Types, Len(rows) <= 1, rows # <<>>, NEW new \in Row, rows' = [rows EXCEPT ![1] = new]
    PROVE  rows' \in Seq(Row) /\ Len(rows') = 1 /\ rows'[1] = new /\ rows' # <<>>
<1>1. Len(rows) = 1
    BY TheRow
<1>2. rows' \in Seq(Row) /\ Len(rows') = 1 /\ rows'[1] = new
    BY <1>1 DEF Types
<1> QED BY <1>2

LEMMA Changes ==
    ASSUME Types, NEW c \in Captures, NEW new \in Capture, capture' = [capture EXCEPT ![c] = new]
    PROVE  /\ capture' \in [Captures -> Capture] /\ capture'[c] = new
           /\ \A d \in Captures \ {c} : capture'[d] = capture[d]
BY DEF Types

LEMMA Going ==
    ASSUME Types, NEW c \in Captures, NEW pc \in Pcs, Goto(c, pc)
    PROVE  /\ capture' \in [Captures -> Capture] /\ capture'[c].pc = pc
           /\ capture'[c].row = capture[c].row /\ capture'[c].seen = capture[c].seen
           /\ capture'[c].sha256 = capture[c].sha256
           /\ \A d \in Captures \ {c} : capture'[d] = capture[d]
<1>1. PICK new : new = [capture[c] EXCEPT !.pc = pc]
    OBVIOUS
<1>2. /\ new \in Capture /\ new.pc = pc /\ new.row = capture[c].row
      /\ new.seen = capture[c].seen /\ new.sha256 = capture[c].sha256
    BY <1>1 DEF Types, Capture, Pcs
<1>3. capture' = [capture EXCEPT ![c] = new]
    BY <1>1 DEF Goto, Types
<1> QED BY <1>2, <1>3, Changes

LEMMA EndedLocals == Ended \in Capture /\ Ended.pc = "done"
BY DEF Ended, NoCapture, Capture

LEMMA Returning ==
    ASSUME Types, NEW c \in Captures, Return(c)
    PROVE  /\ capture' \in [Captures -> Capture] /\ capture'[c].pc = "done"
           /\ ~Working(c)' /\ Knows(c)'
           /\ \A d \in Captures \ {c} : capture'[d] = capture[d]
<1>1. capture' = [capture EXCEPT ![c] = Ended]
    BY DEF Return
<1>2. /\ capture' \in [Captures -> Capture] /\ capture'[c].pc = "done"
      /\ \A d \in Captures \ {c} : capture'[d] = capture[d]
    BY <1>1, EndedLocals, Changes
<1> QED BY <1>2 DEF Working, Knows

LEMMA InitInv == Init => IndInv
<1> SUFFICES ASSUME Init PROVE IndInv
    OBVIOUS
<1>1. NoCapture \in Capture /\ NoCapture.pc = "idle"
    BY DEF NoCapture, Capture
<1>2. rows = <<>> /\ Len(rows) = 0 /\ rows \in Seq(Row)
    BY DEF Init
<1>3. dir \in Dir
    BY DEF Init, Dir
<1>4. worker \in [Workers -> [state : {"up", "down", "sweep", "fail"}, stale : SUBSET (1..Len(rows))]]
    BY <1>2 DEF Init, Up
<1>5. Types
    BY <1>1, <1>2, <1>3, <1>4 DEF Init, Types
<1>6. \A c \in Captures : ~Working(c)
    BY <1>1 DEF Init, Working
<1>7. \A w \in Workers : worker[w].state = "up"
    BY DEF Init, Up
<1> QED BY <1>2, <1>5, <1>6, <1>7
        DEF IndInv, KnowInv, Knows, AloneInv, SweepInv, SealInv, Sealed

-----------------------------------------------------------------------------
(* A capture at work *)

\* A step of a capture at work: the others, and the sweeps, have nothing at
\* stake, or somebody interfered before.
LEMMA WorkStep ==
    ASSUME IndInv, NEW c \in Captures, Working(c),
           Types', Len(rows') = 1, rows' # <<>>, dir.clip # None => dir'.clip # None,
           UNCHANGED <<worker, interfered>>,
           \A d \in Captures \ {c} : capture'[d] = capture[d],
           Knows(c)', SealInv'
    PROVE  IndInv'
<1>1. \A d \in Captures \ {c} : Working(d)' = Working(d)
    BY DEF Working
<1>2. \A w \in Workers : Sweeping(w)' = Sweeping(w)
    BY DEF Sweeping
<1>3. AloneInv'
    BY <1>1, <1>2 DEF IndInv, AloneInv
<1>4. SweepInv'
    BY DEF IndInv, AloneInv, SweepInv, Sweeping
<1>5. KnowInv'
    <2> SUFFICES ASSUME NEW d \in Captures \ {c}, Working(d) PROVE Knows(d)'
        BY <1>1 DEF KnowInv, Knows
    <2>1. interfered'
        BY DEF IndInv, AloneInv
    <2>2. Knows(d)
        BY DEF IndInv, KnowInv
    <2> QED BY <2>1, <2>2 DEF Knows
<1> QED BY <1>3, <1>4, <1>5 DEF IndInv

\* What holds of the row while a capture works.
LEMMA AtWork ==
    ASSUME IndInv, NEW c \in Captures, Working(c)
    PROVE  /\ Types /\ Len(rows) = 1 /\ Len(rows) <= 1 /\ rows # <<>> /\ rows[1] \in Row
           /\ capture[c].row = 1
           /\ Knows(c) /\ (~interfered /\ ~At(c, "cleanup") => ~Sealed)
<1>1. Types /\ Knows(c) /\ rows # <<>> /\ Len(rows) <= 1
    BY DEF IndInv, KnowInv, Knows
<1> QED BY <1>1, TheRow DEF Knows, Sealed

\* Steps that leave the rows and what the documents say.
LEMMA QuietStep ==
    ASSUME IndInv, NEW c \in Captures, Working(c), ~At(c, "cleanup"),
           UNCHANGED <<rows, alertHash, worker, crashes, interfered>>,
           dir' \in Dir, content' \in [Captures -> Nat], capture' \in [Captures -> Capture],
           dir.clip # None => dir'.clip # None,
           \A d \in Captures \ {c} : capture'[d] = capture[d],
           Knows(c)'
    PROVE  IndInv'
<1>1. /\ Types /\ Len(rows) = 1 /\ rows # <<>>
      /\ ~interfered => ~Sealed
    BY AtWork
<1>2. Types'
    BY <1>1 DEF Types
<1>3. SealInv'
    BY <1>1 DEF SealInv, Sealed
<1> QED BY <1>1, <1>2, <1>3, WorkStep

LEMMA CutInv == ASSUME IndInv, NEW c \in Captures, Cut(c) PROVE IndInv'
<1>1. /\ Working(c) /\ At(c, "cut")
      /\ UNCHANGED <<rows, alertHash, dir, content, worker, crashes, interfered>>
    BY DEF Cut, Working, At
<1>2. Types /\ Knows(c)
    BY <1>1, AtWork
<1>3. PICK pc \in {"dirs", "fail"} : Goto(c, pc)
    BY DEF Cut
<1>4. /\ capture' \in [Captures -> Capture] /\ capture'[c].pc = pc
      /\ capture'[c].row = capture[c].row /\ capture'[c].seen = capture[c].seen
      /\ \A d \in Captures \ {c} : capture'[d] = capture[d]
    BY <1>2, <1>3, Going DEF Pcs
<1>5. Knows(c)'
    BY <1>1, <1>2, <1>4 DEF Knows, At, Placed, Hashed, Listed, Stored
<1> QED BY <1>1, <1>2, <1>4, <1>5, QuietStep DEF Types, At

LEMMA DirsInv == ASSUME IndInv, NEW c \in Captures, Dirs(c) PROVE IndInv'
<1>1. /\ Working(c) /\ At(c, "dirs") /\ Goto(c, "open")
      /\ dir' = [dir EXCEPT !.tmp = TRUE, !.draft = None, !.draftPdf = None]
      /\ UNCHANGED <<rows, alertHash, content, worker, crashes, interfered>>
    BY DEF Dirs, Working, At
<1>2. Types /\ Knows(c)
    BY <1>1, AtWork
<1>3. /\ capture' \in [Captures -> Capture] /\ capture'[c].pc = "open"
      /\ capture'[c].row = capture[c].row /\ capture'[c].seen = capture[c].seen
      /\ \A d \in Captures \ {c} : capture'[d] = capture[d]
    BY <1>1, <1>2, Going DEF Pcs
<1>4. dir' \in Dir /\ dir'.clip = dir.clip
    BY <1>1, <1>2 DEF Types, Dir
<1>5. Knows(c)'
    BY <1>1, <1>2, <1>3 DEF Knows, At, Placed, Hashed, Listed, Stored
<1> QED BY <1>1, <1>2, <1>3, <1>4, <1>5, QuietStep DEF Types, At

LEMMA OpenInv == ASSUME IndInv, NEW c \in Captures, Open(c) PROVE IndInv'
<1>1. Working(c) /\ At(c, "open") /\ UNCHANGED <<rows, alertHash, worker, crashes, interfered>>
    BY DEF Open, Working, At
<1>2. Types /\ Knows(c)
    BY <1>1, AtWork
<1>3. CASE dir.tmp
    <2>1. PICK file : file = IF dir.draft = None THEN c ELSE dir.draft
        OBVIOUS
    <2>2. file \in Captures
        BY <1>2, <2>1 DEF Types, Dir
    <2>3. dir' \in Dir /\ dir'.clip = dir.clip
        BY <1>2, <1>3, <2>1, <2>2 DEF Open, Types, Dir
    <2>4. content' \in [Captures -> Nat]
        BY <1>2, <1>3, <2>1, <2>2 DEF Open, Types
    <2>5. PICK new : new = [capture[c] EXCEPT !.pc = "write", !.file = file]
        OBVIOUS
    <2>6. /\ new \in Capture /\ new.pc = "write" /\ new.row = capture[c].row
          /\ new.seen = capture[c].seen
        BY <1>2, <2>2, <2>5 DEF Types, Capture
    <2>7. capture' = [capture EXCEPT ![c] = new]
        BY <1>2, <1>3, <2>1, <2>5 DEF Open, Types
    <2>8. /\ capture' \in [Captures -> Capture] /\ capture'[c] = new
          /\ \A d \in Captures \ {c} : capture'[d] = capture[d]
        BY <1>2, <2>6, <2>7, Changes
    <2>9. Knows(c)'
        BY <1>1, <1>2, <2>6, <2>8 DEF Knows, At, Placed, Hashed, Listed, Stored
    <2> QED BY <1>1, <2>3, <2>4, <2>8, <2>9, QuietStep DEF At
<1>4. CASE ~dir.tmp
    <2>1. Goto(c, "fail") /\ UNCHANGED <<dir, content>>
        BY <1>4 DEF Open
    <2>2. /\ capture' \in [Captures -> Capture] /\ capture'[c].pc = "fail"
          /\ capture'[c].row = capture[c].row /\ capture'[c].seen = capture[c].seen
          /\ \A d \in Captures \ {c} : capture'[d] = capture[d]
        BY <1>2, <2>1, Going DEF Pcs
    <2>3. Knows(c)'
        BY <1>1, <1>2, <2>2 DEF Knows, At, Placed, Hashed, Listed, Stored
    <2> QED BY <1>1, <1>2, <2>1, <2>2, <2>3, QuietStep DEF Types, At
<1> QED BY <1>3, <1>4

LEMMA WriteInv == ASSUME IndInv, NEW c \in Captures, Write(c) PROVE IndInv'
<1>1. Working(c) /\ At(c, "write") /\ UNCHANGED <<rows, alertHash, dir, worker, crashes, interfered>>
    BY DEF Write, Working, At
<1>2. Types /\ Knows(c)
    BY <1>1, AtWork
<1>3. PICK pc \in {"move", "fail"} : capture' = [capture EXCEPT ![c].pc = pc, ![c].file = None]
    BY DEF Write
<1>4. content' \in [Captures -> Nat]
    <2>1. PICK f : f = capture[c].file
        OBVIOUS
    <2>2. content' = [content EXCEPT ![f] = content[f] + 1] /\ content \in [Captures -> Nat]
        BY <1>2, <2>1 DEF Write, Types
    <2>3. \A d \in Captures : content[d] \in Nat /\ content'[d] = IF d = f THEN content[d] + 1 ELSE content[d]
        BY <2>2
    <2>4. \A d \in Captures : content'[d] \in Nat
        BY <2>3
    <2>5. content' = [d \in Captures |-> content'[d]]
        BY <2>2
    <2> QED BY <2>4, <2>5
<1>5. PICK new : new = [capture[c] EXCEPT !.pc = pc, !.file = None]
    OBVIOUS
<1>6. new \in Capture /\ new.pc = pc /\ new.row = capture[c].row /\ new.seen = capture[c].seen
    BY <1>2, <1>5 DEF Types, Capture
<1>7. capture' = [capture EXCEPT ![c] = new]
    BY <1>2, <1>3, <1>5 DEF Types
<1>8. /\ capture' \in [Captures -> Capture] /\ capture'[c] = new
      /\ \A d \in Captures \ {c} : capture'[d] = capture[d]
    BY <1>2, <1>6, <1>7, Changes
<1>9. Knows(c)'
    BY <1>1, <1>2, <1>6, <1>8 DEF Knows, At, Placed, Hashed, Listed, Stored
<1> QED BY <1>1, <1>2, <1>4, <1>8, <1>9, QuietStep DEF Types, At

LEMMA MoveInv == ASSUME IndInv, NEW c \in Captures, Move(c) PROVE IndInv'
<1>1. Working(c) /\ At(c, "move") /\ UNCHANGED <<rows, alertHash, content, worker, crashes, interfered>>
    BY DEF Move, Working, At
<1>2. Types /\ Knows(c)
    BY <1>1, AtWork
<1>3. PICK pc \in {"hash", "fail"} :
        /\ Goto(c, pc) /\ dir' \in Dir /\ (dir.clip # None => dir'.clip # None)
        /\ pc = "hash" => dir'.clip # None
    <2>1. CASE dir.draft # None
        <3>1. dir' = [dir EXCEPT !.clip = dir.draft, !.draft = None] /\ Goto(c, "hash")
            BY <2>1 DEF Move
        <3>2. dir' \in Dir /\ dir'.clip = dir.draft
            BY <1>2, <3>1 DEF Types, Dir
        <3> QED BY <2>1, <3>1, <3>2
    <2>2. CASE dir.draft = None
        BY <1>2, <2>2 DEF Move, Types
    <2> QED BY <2>1, <2>2
<1>4. /\ capture' \in [Captures -> Capture] /\ capture'[c].pc = pc
      /\ capture'[c].row = capture[c].row /\ capture'[c].seen = capture[c].seen
      /\ \A d \in Captures \ {c} : capture'[d] = capture[d]
    BY <1>2, <1>3, Going DEF Pcs
<1>5. Knows(c)'
    BY <1>1, <1>2, <1>3, <1>4 DEF Knows, At, Placed, Hashed, Listed, Stored
<1> QED BY <1>1, <1>2, <1>3, <1>4, <1>5, QuietStep DEF Types, At

\* The digest is that of the clip in its place.
LEMMA HashInv == ASSUME IndInv, NEW c \in Captures, Hash(c) PROVE IndInv'
<1>1. /\ Working(c) /\ At(c, "hash")
      /\ UNCHANGED <<rows, alertHash, dir, content, worker, crashes, interfered>>
    BY DEF Hash, Working, At
<1>2. Types /\ Knows(c) /\ dir.clip # None
    BY <1>1, AtWork DEF Knows, At, Placed
<1>3. CASE Goto(c, "fail")
    <2>1. /\ capture' \in [Captures -> Capture] /\ capture'[c].pc = "fail"
          /\ capture'[c].row = capture[c].row /\ capture'[c].seen = capture[c].seen
          /\ \A d \in Captures \ {c} : capture'[d] = capture[d]
        BY <1>2, <1>3, Going DEF Pcs
    <2>2. Knows(c)'
        BY <1>1, <1>2, <2>1 DEF Knows, At, Placed, Hashed, Listed, Stored
    <2> QED BY <1>1, <1>2, <2>1, <2>2, QuietStep DEF Types, At
<1>4. CASE capture' = [capture EXCEPT ![c].pc = "manifest", ![c].sha256 = DigestOf(dir.clip)]
    <2>1. PICK digest : digest = DigestOf(dir.clip)
        OBVIOUS
    <2>2. digest \in Digest
        BY <1>2, <2>1 DEF Types, Dir, DigestOf, Digest
    <2>3. PICK new : new = [capture[c] EXCEPT !.pc = "manifest", !.sha256 = digest]
        OBVIOUS
    <2>4. /\ new \in Capture /\ new.pc = "manifest" /\ new.row = capture[c].row
          /\ new.seen = capture[c].seen /\ new.sha256 = digest
        BY <1>2, <2>2, <2>3 DEF Types, Capture
    <2>5. capture' = [capture EXCEPT ![c] = new]
        BY <1>2, <1>4, <2>1, <2>3 DEF Types
    <2>6. /\ capture' \in [Captures -> Capture] /\ capture'[c] = new
          /\ \A d \in Captures \ {c} : capture'[d] = capture[d]
        BY <1>2, <2>4, <2>5, Changes
    <2>7. DigestOf(dir.clip)' = digest
        BY <1>1, <2>1 DEF DigestOf
    <2>8. Knows(c)'
        BY <1>1, <1>2, <2>4, <2>6, <2>7 DEF Knows, At, Placed, Hashed, Listed, Stored
    <2> QED BY <1>1, <1>2, <2>6, <2>8, QuietStep DEF Types, At
<1> QED BY <1>3, <1>4 DEF Hash

LEMMA ManifestInv == ASSUME IndInv, NEW c \in Captures, Manifest(c) PROVE IndInv'
<1>1. /\ Working(c) /\ At(c, "manifest") /\ Goto(c, "commit")
      /\ UNCHANGED <<rows, alertHash, content, worker, crashes, interfered>>
    BY DEF Manifest, Working, At
<1>2. Types /\ Knows(c)
    BY <1>1, AtWork
<1>3. PICK digest \in {capture[c].sha256, None} : dir' = [dir EXCEPT !.manifest = digest]
    BY DEF Manifest
<1>4. digest \in Digest \cup {None}
    BY <1>2 DEF Types, Capture
<1>5. dir' \in Dir /\ dir'.clip = dir.clip /\ dir'.manifest = digest
    BY <1>2, <1>3, <1>4 DEF Types, Dir
<1>6. /\ capture' \in [Captures -> Capture] /\ capture'[c].pc = "commit"
      /\ capture'[c].row = capture[c].row /\ capture'[c].seen = capture[c].seen
      /\ capture'[c].sha256 = capture[c].sha256
      /\ \A d \in Captures \ {c} : capture'[d] = capture[d]
    BY <1>1, <1>2, Going DEF Pcs
<1>7. DigestOf(dir.clip)' = DigestOf(dir.clip)
    BY <1>1, <1>5 DEF DigestOf
<1>8. Knows(c)'
    BY <1>1, <1>2, <1>5, <1>6, <1>7 DEF Knows, At, Placed, Hashed, Listed, Stored
<1> QED BY <1>1, <1>2, <1>5, <1>6, <1>8, QuietStep DEF Types, At

\* A commit writes the row; what it leaves COMPLETE is sealed.
LEMMA RowStep ==
    ASSUME IndInv, NEW c \in Captures, Working(c),
           NEW new \in Row, rows' = [rows EXCEPT ![1] = new],
           alertHash' \in Digest \cup {None}, capture' \in [Captures -> Capture],
           UNCHANGED <<dir, content, worker, crashes, interfered>>,
           \A d \in Captures \ {c} : capture'[d] = capture[d],
           Knows(c)', ~interfered /\ new.status = "COMPLETE" => Seal'
    PROVE  IndInv'
<1>1. Types /\ Len(rows) = 1 /\ rows # <<>> /\ Len(rows) <= 1
    BY AtWork
<1>2. rows' \in Seq(Row) /\ Len(rows') = 1 /\ rows'[1] = new /\ rows' # <<>>
    BY <1>1, RowChanges
<1>3. Types'
    BY <1>1, <1>2 DEF Types
<1>4. SealInv'
    BY <1>2 DEF SealInv, Sealed
<1> QED BY <1>2, <1>3, <1>4, WorkStep

LEMMA CommitInv == ASSUME IndInv, NEW c \in Captures, Commit(c) PROVE IndInv'
<1>1. /\ Working(c) /\ At(c, "commit") /\ Goto(c, "pdf")
      /\ UNCHANGED <<alertHash, dir, content, worker, crashes, interfered>>
    BY DEF Commit, Working, At
<1>2. /\ Types /\ Knows(c) /\ Len(rows) = 1 /\ Len(rows) <= 1 /\ rows # <<>> /\ rows[1] \in Row
      /\ capture[c].row = 1
    BY <1>1, AtWork
<1>3. PICK new : new = [rows[1] EXCEPT !.sha256 = capture[c].sha256]
    OBVIOUS
<1>4. new \in Row /\ new.status = rows[1].status /\ new.sha256 = capture[c].sha256
    BY <1>2, <1>3 DEF Types, Capture, Row
<1>5. rows' = [rows EXCEPT ![1] = new]
    BY <1>2, <1>3 DEF Commit
<1>6. /\ capture' \in [Captures -> Capture] /\ capture'[c].pc = "pdf"
      /\ capture'[c].row = capture[c].row /\ capture'[c].seen = capture[c].seen
      /\ capture'[c].sha256 = capture[c].sha256
      /\ \A d \in Captures \ {c} : capture'[d] = capture[d]
    BY <1>1, <1>2, Going DEF Pcs
<1>7. rows'[1] = new /\ rows' # <<>> /\ DigestOf(dir.clip)' = DigestOf(dir.clip)
    BY <1>1, <1>2, <1>4, <1>5, RowChanges DEF DigestOf
<1>8. Knows(c)'
    BY <1>1, <1>2, <1>4, <1>6, <1>7 DEF Knows, At, Placed, Hashed, Listed, Stored
<1>9. ~interfered => new.status # "COMPLETE"
    BY <1>1, <1>2, <1>4 DEF Knows, At
<1>10. alertHash' \in Digest \cup {None}
    BY <1>1, <1>2 DEF Types
<1> QED BY <1>1, <1>4, <1>5, <1>6, <1>8, <1>9, <1>10, RowStep

LEMMA PdfInv == ASSUME IndInv, NEW c \in Captures, Pdf(c) \/ MovePdf(c) PROVE IndInv'
<1>1. /\ Working(c) /\ ~At(c, "cleanup") /\ capture[c].pc \in {"pdf", "movepdf"}
      /\ UNCHANGED <<rows, alertHash, content, worker, crashes, interfered>>
    BY DEF Pdf, MovePdf, Working, At
<1>2. Types /\ Knows(c)
    BY <1>1, AtWork
<1>3. PICK pc \in {"movepdf", "complete", "fail"} :
        /\ Goto(c, pc) /\ dir' \in Dir /\ dir'.clip = dir.clip /\ dir'.manifest = dir.manifest
    BY <1>2 DEF Pdf, MovePdf, Types, Dir, Capture
<1>4. /\ capture' \in [Captures -> Capture] /\ capture'[c].pc = pc
      /\ capture'[c].row = capture[c].row /\ capture'[c].seen = capture[c].seen
      /\ capture'[c].sha256 = capture[c].sha256
      /\ \A d \in Captures \ {c} : capture'[d] = capture[d]
    BY <1>2, <1>3, Going DEF Pcs
<1>5. DigestOf(dir.clip)' = DigestOf(dir.clip)
    BY <1>1, <1>3 DEF DigestOf
<1>6. Knows(c)'
    BY <1>1, <1>2, <1>3, <1>4, <1>5 DEF Knows, At, Placed, Hashed, Listed, Stored
<1> QED BY <1>1, <1>2, <1>3, <1>4, <1>6, QuietStep DEF Types

\* The seal: clip, row, manifest and alert agree.
LEMMA CompleteInv == ASSUME IndInv, NEW c \in Captures, Complete(c) PROVE IndInv'
<1>1. /\ Working(c) /\ At(c, "complete")
      /\ UNCHANGED <<dir, content, worker, crashes, interfered>>
    BY DEF Complete, Working, At
<1>2. /\ Types /\ Knows(c) /\ Len(rows) = 1 /\ Len(rows) <= 1 /\ rows # <<>> /\ rows[1] \in Row
      /\ capture[c].row = 1
    BY <1>1, AtWork
<1>3. CASE Goto(c, "fail") /\ UNCHANGED <<rows, alertHash>>
    <2>1. /\ capture' \in [Captures -> Capture] /\ capture'[c].pc = "fail"
          /\ capture'[c].row = capture[c].row /\ capture'[c].seen = capture[c].seen
          /\ \A d \in Captures \ {c} : capture'[d] = capture[d]
        BY <1>2, <1>3, Going DEF Pcs
    <2>2. Knows(c)'
        BY <1>1, <1>2, <1>3, <2>1 DEF Knows, At, Placed, Hashed, Listed, Stored
    <2> QED BY <1>1, <1>2, <1>3, <2>1, <2>2, QuietStep DEF Types, At
<1>4. CASE /\ rows' = [rows EXCEPT ![capture[c].row].status = "COMPLETE"]
           /\ alertHash' = capture[c].sha256 /\ Goto(c, "cleanup")
    <2>3. PICK new : new = [rows[1] EXCEPT !.status = "COMPLETE"]
        OBVIOUS
    <2>4. new \in Row /\ new.sha256 = rows[1].sha256
        BY <1>2, <2>3 DEF Row
    <2>5. rows' = [rows EXCEPT ![1] = new]
        BY <1>2, <1>4, <2>3
    <2>6. /\ capture' \in [Captures -> Capture] /\ capture'[c].pc = "cleanup"
          /\ capture'[c].row = capture[c].row
          /\ \A d \in Captures \ {c} : capture'[d] = capture[d]
        BY <1>2, <1>4, Going DEF Pcs
    <2>7. rows'[1] = new /\ rows' # <<>> /\ DigestOf(dir.clip)' = DigestOf(dir.clip)
        BY <1>1, <1>2, <2>4, <2>5, RowChanges DEF DigestOf
    <2>8. Knows(c)'
        BY <1>1, <1>2, <2>6, <2>7 DEF Knows, At, Placed, Hashed, Listed, Stored
    <2>9. ~interfered => Seal'
        <3>1. ~interfered =>
                /\ dir.clip # None /\ capture[c].sha256 = DigestOf(dir.clip)
                /\ dir.manifest \in {capture[c].sha256, None} /\ rows[1].sha256 = capture[c].sha256
            BY <1>1, <1>2 DEF Knows, At, Placed, Hashed, Listed, Stored
        <3> QED BY <1>1, <1>4, <2>4, <2>7, <3>1 DEF Seal
    <2>10. alertHash' \in Digest \cup {None}
        BY <1>2, <1>4 DEF Types, Capture
    <2> QED BY <1>1, <1>4, <2>4, <2>5, <2>6, <2>8, <2>9, <2>10, RowStep
<1> QED BY <1>3, <1>4 DEF Complete

\* The capture is done: only what is temporary goes.
LEMMA CleanupInv == ASSUME IndInv, NEW c \in Captures, Cleanup(c) PROVE IndInv'
<1>1. /\ Working(c) /\ At(c, "cleanup") /\ Return(c)
      /\ dir' = [dir EXCEPT !.tmp = FALSE, !.draft = None, !.draftPdf = None]
      /\ UNCHANGED <<rows, alertHash, content, worker, crashes, interfered>>
    BY DEF Cleanup, Working, At
<1>2. Types /\ Len(rows) = 1 /\ rows # <<>>
    BY <1>1, AtWork
<1>3. dir' \in Dir /\ dir'.clip = dir.clip /\ dir'.manifest = dir.manifest
    BY <1>1, <1>2 DEF Types, Dir
<1>4. /\ capture' \in [Captures -> Capture] /\ Knows(c)'
      /\ \A d \in Captures \ {c} : capture'[d] = capture[d]
    BY <1>1, <1>2, Returning
<1>5. Types'
    BY <1>1, <1>2, <1>3, <1>4 DEF Types
<1>6. SealInv'
    BY <1>1, <1>3 DEF IndInv, SealInv, Sealed, Seal, DigestOf
<1> QED BY <1>1, <1>2, <1>3, <1>4, <1>5, <1>6, WorkStep

LEMMA FailInv == ASSUME IndInv, NEW c \in Captures, Fail(c) PROVE IndInv'
<1>1. /\ Working(c) /\ At(c, "fail") /\ Return(c)
      /\ UNCHANGED <<alertHash, dir, content, worker, crashes, interfered>>
    BY DEF Fail, Working, At
<1>2. /\ Types /\ Knows(c) /\ Len(rows) = 1 /\ rows # <<>> /\ rows[1] \in Row
      /\ capture[c].row = 1
    BY <1>1, AtWork
<1>3. /\ capture' \in [Captures -> Capture] /\ Knows(c)'
      /\ \A d \in Captures \ {c} : capture'[d] = capture[d]
    BY <1>1, <1>2, Returning
<1>4. PICK status \in {"PENDING", "COMPLETE", "FAILED"} :
        /\ rows' = [rows EXCEPT ![1] = [rows[1] EXCEPT !.status = status]]
        /\ ~interfered => status # "COMPLETE"
    <2>1. CASE capture[c].seen = "FAILED"
        <3>1. PICK status : status = rows[1].status
            OBVIOUS
        <3>2. status \in {"PENDING", "COMPLETE", "FAILED"} /\ rows[1] = [rows[1] EXCEPT !.status = status]
            BY <1>2, <3>1 DEF Row
        <3>3. rows' = rows /\ rows = [rows EXCEPT ![1] = rows[1]]
            BY <1>2, <2>1 DEF Fail, Types
        <3>4. ~interfered => status # "COMPLETE"
            BY <1>1, <1>2, <3>1 DEF Knows, At
        <3> QED BY <3>2, <3>3, <3>4
    <2>2. CASE capture[c].seen # "FAILED"
        <3>1. rows' = [rows EXCEPT ![1] = [rows[1] EXCEPT !.status = "FAILED"]]
            BY <1>2, <2>2 DEF Fail
        <3> QED BY <3>1
    <2> QED BY <2>1, <2>2
<1>5. PICK new : new = [rows[1] EXCEPT !.status = status]
    OBVIOUS
<1>6. new \in Row /\ new.status = status /\ rows' = [rows EXCEPT ![1] = new]
    BY <1>2, <1>4, <1>5 DEF Row
<1>7. alertHash' \in Digest \cup {None}
    BY <1>1, <1>2 DEF Types
<1> QED BY <1>1, <1>3, <1>4, <1>6, <1>7, RowStep

-----------------------------------------------------------------------------
(* Captures that begin *)

\* A step of a capture that is not at work, and is not afterwards.
LEMMA IdleStep ==
    ASSUME IndInv, NEW c \in Captures, ~Working(c), ~Working(c)',
           UNCHANGED <<rows, alertHash, dir, content, worker, crashes, interfered>>,
           capture' \in [Captures -> Capture],
           \A d \in Captures \ {c} : capture'[d] = capture[d]
    PROVE  IndInv'
<1>1. Types' /\ Len(rows') <= 1
    BY DEF IndInv, Types
<1>2. \A d \in Captures : Working(d)' => d # c /\ Working(d) /\ capture'[d] = capture[d]
    BY DEF Working
<1>3. KnowInv'
    BY <1>2 DEF IndInv, KnowInv, Knows, At, DigestOf
<1>4. AloneInv'
    BY <1>2 DEF IndInv, AloneInv, Sweeping
<1>5. SweepInv' /\ SealInv'
    BY DEF IndInv, SweepInv, SealInv, Sealed, Seal, DigestOf
<1> QED BY <1>1, <1>3, <1>4, <1>5 DEF IndInv

\* A new value of the locals that only says where the capture is.
LEMMA Waits ==
    ASSUME Types, NEW c \in Captures, NEW pc \in {"wait", "create", "insert"}, Goto(c, pc)
    PROVE  /\ capture' \in [Captures -> Capture] /\ ~Working(c)'
           /\ \A d \in Captures \ {c} : capture'[d] = capture[d]
BY Going DEF Pcs, Working

\* A capture whose commit raised is done, and leaves everything as it is.
LEMMA CommitRaisesInv == ASSUME IndInv, NEW c \in Captures, CommitRaises(c) PROVE IndInv'
<1>1. /\ Return(c) /\ ~At(c, "cleanup") /\ Types
      /\ UNCHANGED <<rows, alertHash, dir, content, worker, crashes, interfered>>
    BY DEF CommitRaises, At, IndInv
<1>2. /\ capture' \in [Captures -> Capture] /\ ~Working(c)' /\ Knows(c)'
      /\ \A d \in Captures \ {c} : capture'[d] = capture[d]
    BY <1>1, Returning
<1>3. CASE Working(c)
    BY <1>1, <1>2, <1>3, QuietStep DEF Types
<1>4. CASE ~Working(c)
    BY <1>1, <1>2, <1>4, IdleStep
<1> QED BY <1>3, <1>4

LEMMA BeginInv ==
    ASSUME IndInv, NEW c \in Captures, NEW w \in Workers, Fire(c, w) \/ Request(c, w)
    PROVE  IndInv'
<1>1. /\ ~Working(c) /\ UNCHANGED <<rows, alertHash, dir, content, worker, crashes, interfered>>
    BY DEF Fire, Request, At, Working
<1>2. PICK pc \in {"fire", "start"} : capture' = [capture EXCEPT ![c].pc = pc, ![c].worker = w]
    BY DEF Fire, Request
<1>3. Types
    BY DEF IndInv
<1>4. PICK new : new = [capture[c] EXCEPT !.pc = pc, !.worker = w]
    OBVIOUS
<1>5. new \in Capture /\ new.pc = pc
    BY <1>3, <1>4 DEF Types, Capture
<1>6. capture' = [capture EXCEPT ![c] = new]
    BY <1>2, <1>3, <1>4 DEF Types
<1>7. /\ capture' \in [Captures -> Capture] /\ capture'[c] = new
      /\ \A d \in Captures \ {c} : capture'[d] = capture[d]
    BY <1>3, <1>5, <1>6, Changes
<1> QED BY <1>1, <1>5, <1>7, IdleStep DEF Working

\* A capture enters its work on a row that is not COMPLETE.
LEMMA EnterInv ==
    ASSUME IndInv, NEW c \in Captures, ~Working(c), Enter(c, 1, rows'[1].status),
           rows' \in Seq(Row), Len(rows') = 1, rows' # <<>>, rows'[1].status # "COMPLETE",
           Len(rows) = 0 \/ rows' = rows,
           UNCHANGED <<alertHash, dir, content, worker, crashes>>
    PROVE  IndInv'
<1>1. Types /\ rows'[1] \in Row
    BY DEF IndInv
<1>2. PICK status, new : /\ status = rows'[1].status
                         /\ new = [capture[c] EXCEPT !.pc = "cut", !.row = 1, !.seen = status]
    OBVIOUS
<1>3. new \in Capture /\ new.pc = "cut" /\ new.row = 1 /\ new.seen = rows'[1].status
    <2>1. status \in {"PENDING", "COMPLETE", "FAILED"} /\ capture[c] \in Capture
        BY <1>1, <1>2 DEF Types, Row
    <2> QED BY <1>2, <2>1 DEF Capture
<1>4. capture' = [capture EXCEPT ![c] = new]
    BY <1>1, <1>2 DEF Enter, Types
<1>5. /\ capture' \in [Captures -> Capture] /\ capture'[c] = new
      /\ \A d \in Captures \ {c} : capture'[d] = capture[d]
    BY <1>1, <1>3, <1>4, Changes
<1>6. interfered' \in BOOLEAN
    BY DEF Enter
<1>7. ~interfered' => /\ ~interfered
                      /\ \A d \in Captures \ {c} : ~Working(d)
                      /\ \A w \in Workers : ~Sweeping(w)
    BY DEF Enter
<1>8. worker' \in [Workers -> [state : {"up", "down", "sweep", "fail"}, stale : SUBSET (1..Len(rows'))]]
    <2>1. \A n \in 1..Len(rows) : n \in 1..Len(rows')
        <3>1. CASE Len(rows) = 0
            BY <3>1
        <3>2. CASE rows' = rows
            BY <3>2
        <3> QED BY <3>1, <3>2
    <2> QED BY <1>1, <2>1 DEF Types
<1>9. Types'
    BY <1>1, <1>5, <1>6, <1>8 DEF Types
<1>10. \A d \in Captures \ {c} : Working(d)' <=> Working(d)
    BY <1>5 DEF Working
<1>11. \A w \in Workers : Sweeping(w)' <=> Sweeping(w)
    BY DEF Sweeping
<1>12. AloneInv'
    BY <1>7, <1>10, <1>11 DEF AloneInv
<1>13. SweepInv'
    BY <1>7 DEF SweepInv, Sweeping
<1>14. SealInv'
    BY DEF SealInv, Sealed
<1>15. KnowInv'
    <2>1. Knows(c)'
        BY <1>3, <1>5 DEF Knows, At, Placed, Hashed, Listed, Stored
    <2>2. ASSUME NEW d \in Captures \ {c}, Working(d) PROVE Knows(d)'
        <3>1. interfered'
            BY <1>7, <2>2
        <3>2. Knows(d)
            BY DEF IndInv, KnowInv
        <3> QED BY <1>5, <2>2, <3>1, <3>2 DEF Knows
    <2> QED BY <1>10, <2>1, <2>2 DEF KnowInv, Knows
<1> QED BY <1>9, <1>12, <1>13, <1>14, <1>15 DEF IndInv

LEMMA LoadInv == ASSUME IndInv, NEW c \in Captures, Load(c) PROVE IndInv'
<1>1. ~Working(c) /\ UNCHANGED <<rows, alertHash, dir, content, worker, crashes>>
    BY DEF Load, Working, At
<1>2. Types /\ Len(rows) <= 1
    BY DEF IndInv
<1>3. CASE Goto(c, "create") /\ UNCHANGED interfered
    BY <1>1, <1>2, <1>3, Waits, IdleStep
<1>4. CASE Return(c) /\ UNCHANGED interfered
    BY <1>1, <1>2, <1>4, Returning, IdleStep
<1>5. CASE rows # <<>> /\ rows[1].status # "COMPLETE" /\ Enter(c, 1, rows[1].status)
    <2>1. rows \in Seq(Row) /\ Len(rows) = 1
        BY <1>2, <1>5, TheRow DEF Types
    <2> QED BY <1>1, <1>5, <2>1, EnterInv
<1> QED BY <1>3, <1>4, <1>5 DEF Load

LEMMA CreateInv == ASSUME IndInv, NEW c \in Captures, Create(c) PROVE IndInv'
<1>1. ~Working(c) /\ UNCHANGED <<rows, alertHash, dir, content, worker, crashes, interfered>>
    BY DEF Create, Working, At
<1>2. Types
    BY DEF IndInv
<1>3. CASE Goto(c, "insert")
    BY <1>1, <1>2, <1>3, Waits, IdleStep
<1>4. CASE Return(c)
    BY <1>1, <1>2, <1>4, Returning, IdleStep
<1> QED BY <1>3, <1>4 DEF Create

\* The first row of the alert, and the only one.
LEMMA InsertInv == ASSUME IndInv, Unique, NEW c \in Captures, Insert(c) PROVE IndInv'
<1>1. ~Working(c) /\ UNCHANGED <<alertHash, dir, content, worker, crashes>>
    BY DEF Insert, Working, At
<1>2. Types
    BY DEF IndInv
<1>3. CASE rows # <<>>
    BY <1>1, <1>2, <1>3, Returning, IdleStep DEF Insert
<1>4. CASE rows = <<>>
    <2>1. NewRow \in Row /\ NewRow.status = "PENDING"
        BY DEF NewRow, Row
    <2>2. rows' = Append(rows, NewRow) /\ Len(rows) = 0
        BY <1>4 DEF Insert
    <2>3. rows' \in Seq(Row) /\ Len(rows') = 1 /\ rows'[1] = NewRow /\ rows' # <<>>
        BY <1>2, <1>4, <2>1, <2>2 DEF Types
    <2>4. CASE Goto(c, "wait") /\ UNCHANGED interfered
        <3>1. /\ capture' \in [Captures -> Capture] /\ ~Working(c)'
              /\ \A d \in Captures \ {c} : capture'[d] = capture[d]
            BY <1>2, <2>4, Waits
        <3>2. worker' \in [Workers -> [state : {"up", "down", "sweep", "fail"},
                                       stale : SUBSET (1..Len(rows'))]]
              /\ \A w \in Workers : worker[w].stale = {}
            <4>1. \A n \in 1..Len(rows) : FALSE
                BY <2>2
            <4> QED BY <1>1, <1>2, <4>1 DEF Types
        <3>3. Types'
            BY <1>1, <1>2, <2>3, <2>4, <3>1, <3>2 DEF Types
        <3>4. \A d \in Captures : ~Working(d) /\ ~Working(d)'
            BY <1>1, <1>4, <3>1 DEF IndInv, KnowInv, Knows, Working
        <3>5. KnowInv' /\ AloneInv'
            BY <3>4 DEF KnowInv, Knows, AloneInv
        <3>6. SweepInv' /\ SealInv'
            BY <1>1, <2>1, <2>3, <3>2 DEF SweepInv, SealInv, Sealed
        <3> QED BY <2>3, <3>3, <3>5, <3>6 DEF IndInv
    <2>5. CASE Enter(c, Len(rows) + 1, "PENDING")
        BY <1>1, <2>1, <2>2, <2>3, <2>5, EnterInv
    <2> QED BY <1>4, <2>4, <2>5 DEF Insert
<1> QED BY <1>3, <1>4

-----------------------------------------------------------------------------
(* Processes *)

LEMMA CrashInv == ASSUME IndInv, NEW w \in Workers, Crash(w) PROVE IndInv'
<1>1. /\ Types /\ UNCHANGED <<rows, alertHash, dir, content, interfered>>
      /\ worker' = [worker EXCEPT ![w] = [state |-> "down", stale |-> {}]]
    BY DEF IndInv, Crash
<1>2. /\ \A v \in Workers : worker'[v].state = "down" \/ worker'[v] = worker[v]
      /\ worker' \in [Workers -> [state : {"up", "down", "sweep", "fail"},
                                  stale : SUBSET (1..Len(rows))]]
    BY <1>1 DEF Types
<1>3. /\ capture' \in [Captures -> Capture]
      /\ \A c \in Captures : capture'[c] = capture[c] \/ capture'[c].pc = "done"
    BY <1>1, EndedLocals DEF Crash, Types
<1>4. Types'
    BY <1>1, <1>2, <1>3 DEF Types, Crash
<1>5. \A c \in Captures : Working(c)' => Working(c) /\ capture'[c] = capture[c]
    BY <1>3 DEF Working
<1>6. KnowInv'
    BY <1>1, <1>5 DEF IndInv, KnowInv, Knows, At, DigestOf
<1>7. AloneInv' /\ SweepInv'
    BY <1>1, <1>2, <1>5 DEF IndInv, AloneInv, SweepInv, Sweeping
<1>8. SealInv'
    BY <1>1 DEF IndInv, SealInv, Sealed, Seal, DigestOf
<1> QED BY <1>1, <1>4, <1>6, <1>7, <1>8 DEF IndInv

\* The sweep of a starting process clears the temporary directory.
LEMMA RestartInv == ASSUME IndInv, NEW w \in Workers, Restart(w) PROVE IndInv'
<1>1. /\ Types /\ worker' = [worker EXCEPT ![w].state = "sweep"]
      /\ dir' = [dir EXCEPT !.tmp = FALSE, !.draft = None, !.draftPdf = None]
      /\ interfered' = (interfered \/ \E c \in Captures : Working(c))
      /\ UNCHANGED <<rows, alertHash, content, capture, crashes>>
    BY DEF IndInv, Restart
<1>2. dir' \in Dir /\ dir'.clip = dir.clip /\ dir'.manifest = dir.manifest
    BY <1>1 DEF Types, Dir
<1>3. /\ worker' \in [Workers -> [state : {"up", "down", "sweep", "fail"},
                                  stale : SUBSET (1..Len(rows))]]
      /\ \A v \in Workers : worker'[v].state = "fail" => worker'[v] = worker[v]
    BY <1>1 DEF Types
<1>4. Types'
    BY <1>1, <1>2, <1>3 DEF Types
<1>5. ~interfered' => ~interfered /\ \A c \in Captures : ~Working(c)
    BY <1>1
<1>6. \A c \in Captures : Working(c)' <=> Working(c)
    BY <1>1 DEF Working
<1>7. KnowInv'
    BY <1>1, <1>2, <1>5, <1>6 DEF IndInv, KnowInv, Knows
<1>8. AloneInv'
    BY <1>5, <1>6 DEF AloneInv
<1>9. SweepInv' /\ SealInv'
    BY <1>1, <1>2, <1>3, <1>5 DEF IndInv, SweepInv, SealInv, Sealed, Seal, DigestOf
<1> QED BY <1>1, <1>4, <1>7, <1>8, <1>9 DEF IndInv

LEMMA SweepReadInv == ASSUME IndInv, NEW w \in Workers, SweepRead(w) PROVE IndInv'
<1>1. /\ Types /\ worker[w].state = "sweep"
      /\ worker' = [worker EXCEPT
            ![w] = IF Pending = {} THEN Up ELSE [state |-> "fail", stale |-> Pending]]
      /\ UNCHANGED <<rows, alertHash, dir, content, capture, crashes, interfered>>
    BY DEF IndInv, SweepRead
<1>2. /\ worker' \in [Workers -> [state : {"up", "down", "sweep", "fail"},
                                  stale : SUBSET (1..Len(rows))]]
      /\ \A v \in Workers : worker'[v].state = "fail" =>
            \/ worker'[v] = worker[v]
            \/ \A r \in worker'[v].stale : rows[r].status # "COMPLETE"
      /\ \A v \in Workers : Sweeping(v)' => Sweeping(v)
    BY <1>1 DEF Types, Pending, Up, Sweeping
<1>3. Types'
    BY <1>1, <1>2 DEF Types
<1>4. \A c \in Captures : Working(c)' <=> Working(c)
    BY <1>1 DEF Working
<1>5. KnowInv' /\ AloneInv'
    BY <1>1, <1>2, <1>4 DEF IndInv, KnowInv, Knows, At, DigestOf, AloneInv
<1>6. SweepInv' /\ SealInv'
    BY <1>1, <1>2 DEF IndInv, SweepInv, SealInv, Sealed, Seal, DigestOf
<1> QED BY <1>1, <1>3, <1>5, <1>6 DEF IndInv

LEMMA SweepWriteInv == ASSUME IndInv, NEW w \in Workers, SweepWrite(w) PROVE IndInv'
<1>1. /\ Types /\ Sweeping(w) /\ Len(rows) <= 1
      /\ rows' = [r \in 1..Len(rows) |-> IF r \in worker[w].stale
                                         THEN [rows[r] EXCEPT !.status = "FAILED"]
                                         ELSE rows[r]]
      /\ worker' = [worker EXCEPT ![w] = Up]
      /\ UNCHANGED <<alertHash, dir, content, capture, crashes, interfered>>
    BY DEF IndInv, SweepWrite, Sweeping
<1>2. \A r \in 1..Len(rows) : /\ rows[r] \in Row
                              /\ [rows[r] EXCEPT !.status = "FAILED"] \in Row
    <2>1. \A r \in 1..Len(rows) : rows[r] \in Row
        BY <1>1 DEF Types
    <2>2. \A x \in Row : [x EXCEPT !.status = "FAILED"] \in Row
        BY DEF Row
    <2> QED BY <2>1, <2>2
<1>3. rows' \in Seq(Row) /\ Len(rows') = Len(rows)
    <2>1. rows' \in [1..Len(rows) -> Row]
        BY <1>1, <1>2
    <2>2. Len(rows) \in Nat
        BY <1>1 DEF Types
    <2> QED BY <2>1, <2>2
<1>4. rows # <<>> => rows' # <<>>
    BY <1>1, <1>3, TheRow
<1>5. \A r \in 1..Len(rows) : rows'[r] = rows[r] \/ rows'[r].status = "FAILED"
    BY <1>1, <1>2 DEF Row
<1>6. /\ worker' \in [Workers -> [state : {"up", "down", "sweep", "fail"},
                                  stale : SUBSET (1..Len(rows))]]
      /\ \A v \in Workers : worker'[v].state = "fail" => worker'[v] = worker[v]
      /\ \A v \in Workers : Sweeping(v)' => Sweeping(v)
    BY <1>1 DEF Types, Up, Sweeping
<1>7. Types'
    BY <1>1, <1>3, <1>6 DEF Types
<1>8. \A c \in Captures : Working(c)' <=> Working(c)
    BY <1>1 DEF Working
<1>9. ~interfered => \A c \in Captures : ~Working(c)
    BY <1>1 DEF IndInv, AloneInv
<1>10. KnowInv'
    BY <1>1, <1>4, <1>8, <1>9 DEF IndInv, KnowInv, Knows
<1>11. AloneInv'
    BY <1>1, <1>6, <1>8 DEF IndInv, AloneInv
<1>12. SweepInv'
    <2> SUFFICES ASSUME ~interfered, NEW v \in Workers, worker'[v].state = "fail",
                        NEW r \in worker'[v].stale
                 PROVE  rows'[r].status # "COMPLETE"
        BY <1>1 DEF SweepInv
    <2>1. r \in 1..Len(rows) /\ rows[r].status # "COMPLETE"
        BY <1>1, <1>6 DEF IndInv, SweepInv, Types
    <2> QED BY <1>5, <2>1
<1>13. SealInv'
    <2> SUFFICES ASSUME Sealed', ~interfered PROVE Seal'
        BY <1>1 DEF SealInv
    <2>1. rows # <<>> /\ rows'[1] = rows[1]
        <3>1. rows # <<>>
            BY <1>3, EmptySeq DEF Sealed
        <3>2. 1 \in 1..Len(rows)
            BY <1>1, <3>1, TheRow
        <3> QED BY <1>5, <3>1, <3>2 DEF Sealed
    <2> QED BY <1>1, <2>1 DEF IndInv, SealInv, Sealed, Seal, DigestOf
<1> QED BY <1>1, <1>3, <1>7, <1>10, <1>11, <1>12, <1>13 DEF IndInv

\* A server whose sweep raised, and a process that does not sweep, just start.
LEMMA StartInv ==
    ASSUME IndInv, NEW w \in Workers, SweepRaises(w) \/ Respawn(w) PROVE IndInv'
<1>1. /\ Types /\ UNCHANGED <<rows, alertHash, dir, content, capture, crashes, interfered>>
      /\ \/ worker' = [worker EXCEPT ![w] = Up]
         \/ worker' = [worker EXCEPT ![w].state = "up"]
    BY DEF IndInv, SweepRaises, Respawn
<1>2. /\ worker' \in [Workers -> [state : {"up", "down", "sweep", "fail"},
                                  stale : SUBSET (1..Len(rows))]]
      /\ \A v \in Workers : worker'[v].state = "up" \/ worker'[v] = worker[v]
    BY <1>1 DEF Types, Up
<1>3. Types'
    BY <1>1, <1>2 DEF Types
<1>4. \A c \in Captures : Working(c)' <=> Working(c)
    BY <1>1 DEF Working
<1>5. KnowInv' /\ AloneInv'
    BY <1>1, <1>2, <1>4 DEF IndInv, KnowInv, Knows, At, DigestOf, AloneInv, Sweeping
<1>6. SweepInv' /\ SealInv'
    BY <1>1, <1>2 DEF IndInv, SweepInv, SealInv, Sealed, Seal, DigestOf
<1> QED BY <1>1, <1>3, <1>5, <1>6 DEF IndInv

LEMMA NextInv == Unique /\ IndInv /\ [Next]_vars => IndInv'
<1> SUFFICES ASSUME Unique, IndInv, [Next]_vars PROVE IndInv'
    OBVIOUS
<1>1. CASE UNCHANGED vars
    <2>1. Types' /\ Len(rows') <= 1
        BY <1>1 DEF vars, IndInv, Types
    <2>2. KnowInv' /\ AloneInv' /\ SweepInv' /\ SealInv'
        BY <1>1 DEF vars, IndInv, KnowInv, Knows, AloneInv, SweepInv, SealInv, Sealed, Seal,
                    Working, Sweeping, At, DigestOf
    <2> QED BY <2>1, <2>2 DEF IndInv
<1>2. ASSUME NEW c \in Captures, NEW w \in Workers, Fire(c, w) \/ Request(c, w) PROVE IndInv'
    BY <1>2, BeginInv
<1>3. ASSUME NEW c \in Captures, CaptureStep(c) PROVE IndInv'
    BY <1>3, InsertInv, LoadInv, CreateInv, CutInv, DirsInv, OpenInv, WriteInv, MoveInv, HashInv,
       ManifestInv, CommitInv, PdfInv, CompleteInv, CommitRaisesInv, CleanupInv, FailInv DEF CaptureStep
<1>4. ASSUME NEW w \in Workers, ServerStep(w) \/ Respawn(w) \/ Crash(w) PROVE IndInv'
    BY <1>4, RestartInv, SweepReadInv, SweepWriteInv, StartInv, CrashInv DEF ServerStep
<1> QED BY <1>1, <1>2, <1>3, <1>4, EvidenceAssumption DEF Next

-----------------------------------------------------------------------------
(* What is sealed *)

\* An overlap is not forgotten.
LEMMA OverlapLasts == ASSUME [Next]_vars, interfered PROVE interfered'
BY DEF Next, vars, Fire, Request, CaptureStep, Insert, Load, Enter, Create, Cut, Dirs, Open, Write,
       Move, Hash, Manifest, Commit, Pdf, MovePdf, Complete, CommitRaises, Cleanup, Fail,
       ServerStep, Restart, SweepRead, SweepWrite, SweepRaises, Respawn, Crash

LEMMA DroppedType == ASSUME [Next]_vars, dropped \in BOOLEAN PROVE dropped' \in BOOLEAN
BY DEF Next, vars, Fire, Request, CaptureStep, Insert, Load, Enter, Create, Cut, Dirs, Open, Write,
       Move, Hash, Manifest, Commit, Pdf, MovePdf, Complete, CommitRaises, Cleanup, Fail,
       ServerStep, Restart, SweepRead, SweepWrite, SweepRaises, Respawn, Crash

\* Nobody works on sealed evidence but to tidy up.
LEMMA SealedRests ==
    ASSUME Unique, IndInv, Next, Sealed, ~interfered'
    PROVE  /\ UNCHANGED <<rows, alertHash, content>>
           /\ dir'.clip = dir.clip /\ dir'.manifest = dir.manifest
<1> DEFINE Rests == /\ UNCHANGED <<rows, alertHash, content>>
                    /\ dir'.clip = dir.clip /\ dir'.manifest = dir.manifest
<1>0. Types
    BY DEF IndInv
<1>1. ASSUME NEW c \in Captures, Working(c), ~At(c, "cleanup"), CaptureStep(c) PROVE FALSE
    <2>1. ~interfered
        BY OverlapLasts
    <2> QED BY <1>1, <2>1, AtWork
<1>2. ASSUME NEW c \in Captures, Insert(c) \/ Load(c) \/ Create(c) \/ CommitRaises(c) PROVE Rests
    BY <1>2 DEF Insert, Load, Create, CommitRaises, Sealed
<1>3. ASSUME NEW c \in Captures, Cleanup(c) PROVE Rests
    BY <1>0, <1>3 DEF Cleanup, Types, Dir
<1>4. ASSUME NEW c \in Captures, CaptureStep(c) PROVE Rests
    <2>1. CASE ~(Insert(c) \/ Load(c) \/ Create(c) \/ CommitRaises(c) \/ Cleanup(c))
        <3>1. Working(c) /\ ~At(c, "cleanup")
            BY <1>4, <2>1 DEF CaptureStep, Cut, Dirs, Open, Write, Move, Hash, Manifest, Commit,
                              Pdf, MovePdf, Complete, Fail, Working, At
        <3> QED BY <1>1, <1>4, <3>1
    <2> QED BY <1>2, <1>3, <2>1
<1>5. ASSUME NEW c \in Captures, NEW w \in Workers, Fire(c, w) \/ Request(c, w) PROVE Rests
    BY <1>5 DEF Fire, Request
<1>6. ASSUME NEW w \in Workers,
             Crash(w) \/ Restart(w) \/ SweepRead(w) \/ SweepRaises(w) \/ Respawn(w)
      PROVE  Rests
    BY <1>0, <1>6 DEF Crash, Restart, SweepRead, SweepRaises, Respawn, Types, Dir
<1>7. ASSUME NEW w \in Workers, SweepWrite(w) PROVE Rests
    <2>1. ~interfered /\ worker[w].state = "fail" /\ UNCHANGED <<alertHash, dir, content>>
        BY <1>7 DEF SweepWrite
    <2>2. Len(rows) = 1 /\ rows[1].status = "COMPLETE" /\ rows \in Seq(Row)
        BY TheRow DEF IndInv, Sealed, Types
    <2>3. 1 \notin worker[w].stale
        BY <2>1, <2>2 DEF IndInv, SweepInv
    <2>4. rows' = [r \in 1..1 |-> rows[r]]
        BY <1>7, <2>2, <2>3 DEF SweepWrite
    <2>5. rows' = rows
        BY <2>2, <2>4
    <2> QED BY <2>1, <2>5
<1> QED BY <1>4, <1>5, <1>6, <1>7, EvidenceAssumption DEF Next, ServerStep

\* Only a completion seals, and only a completion gives the alert its hash.
LEMMA CompletionSeals ==
    ASSUME Unique, IndInv, [Next]_vars, ~Sealed, ~interfered'
    PROVE  \/ ~Sealed' /\ UNCHANGED alertHash
           \/ Sealed' /\ UNCHANGED <<dir, content>>
<1> DEFINE Quiet == ~Sealed' /\ UNCHANGED alertHash
<1>0. Types /\ Len(rows) <= 1 /\ ~interfered
    BY OverlapLasts DEF IndInv
<1>1. CASE UNCHANGED <<rows, alertHash>>
    BY <1>1 DEF Sealed
<1>2. ASSUME NEW c \in Captures, Complete(c), ~UNCHANGED <<rows, alertHash>>
      PROVE  Sealed' /\ UNCHANGED <<dir, content>>
    <2>1. Working(c)
        BY <1>2 DEF Complete, Working, At
    <2>2. /\ rows \in Seq(Row) /\ rows # <<>> /\ Len(rows) = 1 /\ rows[1] \in Row
          /\ capture[c].row = 1
        BY <2>1, AtWork DEF Types
    <2>3. PICK new : new = [rows[1] EXCEPT !.status = "COMPLETE"]
        OBVIOUS
    <2>4. new \in Row /\ new.status = "COMPLETE" /\ rows' = [rows EXCEPT ![1] = new]
        BY <1>2, <2>2, <2>3 DEF Complete, Row
    <2>5. rows' # <<>> /\ rows'[1] = new
        BY <1>0, <2>2, <2>4, RowChanges
    <2> QED BY <1>2, <2>4, <2>5 DEF Complete, Sealed
<1>3. ASSUME NEW c \in Captures, Insert(c) PROVE Quiet
    <2>1. CASE rows # <<>>
        BY <1>3, <2>1 DEF Insert, Sealed
    <2>2. CASE rows = <<>>
        <3>1. rows' = <<NewRow>> /\ UNCHANGED alertHash
            BY <1>3, <2>2 DEF Insert
        <3>2. rows'[1].status = "PENDING"
            BY <3>1 DEF NewRow
        <3> QED BY <3>1, <3>2 DEF Sealed
    <2> QED BY <2>1, <2>2
<1>4. ASSUME NEW c \in Captures, Commit(c) \/ Fail(c) PROVE Quiet
    <2>1. Working(c) /\ ~At(c, "cleanup") /\ UNCHANGED alertHash
        BY <1>4 DEF Commit, Fail, Working, At
    <2>2. /\ rows \in Seq(Row) /\ rows # <<>> /\ Len(rows) = 1 /\ rows[1] \in Row
          /\ capture[c].row = 1 /\ rows[1].status # "COMPLETE"
          /\ capture[c].sha256 \in Digest \cup {None}
        BY <1>0, <2>1, AtWork DEF Types, Capture, Sealed
    <2>3. CASE rows' = rows
        BY <2>1, <2>2, <2>3 DEF Sealed
    <2>4. CASE rows' # rows
        <3>1. PICK new : \/ new = [rows[1] EXCEPT !.sha256 = capture[c].sha256] /\ Commit(c)
                         \/ new = [rows[1] EXCEPT !.status = "FAILED"] /\ Fail(c)
            BY <1>4
        <3>2. new \in Row /\ new.status # "COMPLETE"
            BY <2>2, <3>1 DEF Row
        <3>3. rows' = [rows EXCEPT ![1] = new]
            BY <2>2, <2>4, <3>1 DEF Commit, Fail
        <3>4. rows'[1] = new
            BY <1>0, <2>2, <3>2, <3>3, RowChanges
        <3> QED BY <2>1, <3>2, <3>4 DEF Sealed
    <2> QED BY <2>3, <2>4
<1>5. ASSUME NEW w \in Workers, SweepWrite(w) PROVE Quiet
    <2>1. UNCHANGED alertHash
        BY <1>5 DEF SweepWrite
    <2>2. ASSUME Sealed' PROVE FALSE
        <3>1. rows' = [r \in 1..Len(rows) |-> IF r \in worker[w].stale
                                              THEN [rows[r] EXCEPT !.status = "FAILED"]
                                              ELSE rows[r]]
            BY <1>5 DEF SweepWrite
        <3>2. CASE rows = <<>>
            <4>1. rows' \in [1..0 -> Row]
                BY <3>1, <3>2
            <4>2. rows' = <<>>
                BY <4>1
            <4> QED BY <2>2, <4>2 DEF Sealed
        <3>3. CASE rows # <<>>
            <4>1. Len(rows) = 1 /\ rows[1] \in Row
                BY <1>0, <3>3, TheRow
            <4>2. rows'[1] = rows[1] \/ rows'[1] = [rows[1] EXCEPT !.status = "FAILED"]
                BY <3>1, <4>1
            <4>3. rows'[1].status # "COMPLETE"
                BY <3>3, <4>1, <4>2 DEF Row, Sealed
            <4> QED BY <2>2, <4>3 DEF Sealed
        <3> QED BY <3>2, <3>3
    <2> QED BY <2>1, <2>2
<1>6. ASSUME NEW c \in Captures, CaptureStep(c),
             ~(Complete(c) \/ Insert(c) \/ Commit(c) \/ Fail(c))
      PROVE  UNCHANGED <<rows, alertHash>>
    BY <1>6 DEF CaptureStep, Load, Create, Cut, Dirs, Open, Write, Move, Hash, Manifest,
                Pdf, MovePdf, CommitRaises, Cleanup
<1>7. ASSUME \/ \E c \in Captures, w \in Workers : Fire(c, w) \/ Request(c, w)
             \/ \E w \in Workers : \/ Restart(w) \/ SweepRead(w) \/ SweepRaises(w)
                                  \/ Respawn(w) \/ Crash(w)
             \/ UNCHANGED vars
      PROVE  UNCHANGED <<rows, alertHash>>
    BY <1>7 DEF Fire, Request, Restart, SweepRead, SweepRaises, Respawn, Crash, vars
<1> QED BY <1>1, <1>2, <1>3, <1>4, <1>5, <1>6, <1>7, EvidenceAssumption DEF Next, ServerStep

\* What is stated of the clip is a digest, or nothing.
Stated ==
    /\ (IF dir.clip = None THEN None ELSE DigestOf(dir.clip)) \in Digest \cup {None}
    /\ dir.manifest \in Digest \cup {None} /\ alertHash \in Digest \cup {None}
    /\ (IF Sealed THEN rows[1].sha256 ELSE None) \in Digest \cup {None}

LEMMA Statements == Types => Stated
<1> SUFFICES ASSUME Types PROVE Stated
    OBVIOUS
<1>1. dir.clip # None => DigestOf(dir.clip) \in Digest
    <2>1. dir.clip \in Captures \cup {None} /\ content \in [Captures -> Nat]
        BY DEF Types, Dir
    <2> QED BY <2>1 DEF DigestOf, Digest
<1>2. dir.manifest \in Digest \cup {None} /\ alertHash \in Digest \cup {None}
    BY DEF Types, Dir
<1>3. Sealed => rows[1].sha256 \in Digest \cup {None}
    <2>1. Sealed => rows[1] \in Row
        <3>1. rows \in Seq(Row)
            BY DEF Types
        <3>2. rows # <<>> => Len(rows) \in Nat \ {0}
            BY <3>1, EmptySeq
        <3> QED BY <3>1, <3>2 DEF Sealed
    <2> QED BY <2>1 DEF Row
<1> QED BY <1>1, <1>2, <1>3 DEF Stated

LEMMA LockStep ==
    ASSUME Unique, IndInv, IndInv', [Next]_vars
    PROVE  [Lock!LockNext]_(Lock!seals)
<1> DEFINE clip == IF dir.clip = None THEN None ELSE DigestOf(dir.clip)
           seal == IF Sealed THEN rows[1].sha256 ELSE None
<1>1. Types /\ Types'
    BY DEF IndInv
<1>2. /\ clip' \in Lock!Stated /\ dir'.manifest \in Lock!Stated
      /\ alertHash' \in Lock!Stated /\ seal' \in Lock!Stated
    <2>1. Stated'
        BY <1>1, Statements, PTL
    <2> QED BY <2>1 DEF Stated, Lock!Stated
<1>3. CASE interfered'
    <2>1. Lock!Overlap
        BY <1>2, <1>3 DEF Lock!Overlap
    <2> QED BY <2>1 DEF Lock!LockNext
<1>4. CASE ~interfered' /\ Sealed
    <2>1. CASE UNCHANGED vars
        BY <2>1 DEF vars, Lock!seals, Sealed, DigestOf
    <2>2. CASE Next
        <3>1. /\ UNCHANGED <<rows, alertHash, content, interfered>>
              /\ dir'.clip = dir.clip /\ dir'.manifest = dir.manifest
            BY <1>1, <1>4, <2>2, SealedRests, OverlapLasts DEF Types
        <3>2. clip' = clip /\ seal' = seal
            BY <3>1 DEF DigestOf, Sealed
        <3> QED BY <3>1, <3>2 DEF Lock!seals
    <2> QED BY <2>1, <2>2
<1>5. CASE ~interfered' /\ ~Sealed
    <2>1. ~interfered
        BY <1>5, OverlapLasts
    <2>2. interfered' = interfered /\ seal = None
        BY <1>1, <1>5, <2>1 DEF Types
    <2>3. CASE ~Sealed' /\ UNCHANGED alertHash
        <3>1. Lock!Work
            BY <1>2, <2>2, <2>3 DEF Lock!Work
        <3> QED BY <3>1 DEF Lock!LockNext
    <2>4. CASE Sealed' /\ UNCHANGED <<dir, content>>
        <3>1. Seal'
            BY <1>5, <2>4 DEF IndInv, SealInv
        <3>2. /\ dir.clip # None /\ rows'[1].sha256 = DigestOf(dir.clip)
              /\ alertHash' = rows'[1].sha256 /\ dir.manifest \in {rows'[1].sha256, None}
            BY <2>4, <3>1 DEF Seal, DigestOf
        <3>3. clip' = clip /\ clip = DigestOf(dir.clip) /\ seal' = rows'[1].sha256
            BY <2>4, <3>2 DEF DigestOf
        <3>4. clip # None
            <4>1. DigestOf(dir.clip) \in Digest
                BY <1>1, <3>2 DEF Types, Dir, DigestOf, Digest
            <4> QED BY <3>3, <4>1, NoneAssumption
        <3>5. Lock!Seal
            BY <2>2, <2>4, <3>2, <3>3, <3>4 DEF Lock!Seal
        <3> QED BY <3>5 DEF Lock!LockNext
    <2> QED BY <1>5, <2>3, <2>4, CompletionSeals
<1> QED BY <1>3, <1>4, <1>5

-----------------------------------------------------------------------------
(* Who answers for a PENDING row *)

\* A step of one capture: it still answers for the row, or the row is not PENDING.
LEMMA AnswerStep ==
    ASSUME PendingIsAnswered, NEW c \in Captures, UNCHANGED worker, ~dropped' => ~dropped,
           \A d \in Captures \ {c} : capture'[d] = capture[d],
           Processing' => Processing, Processing' /\ ~dropped' /\ Answers(c) => Answers(c)'
    PROVE  PendingIsAnswered'
<1> SUFFICES ASSUME Unique, Processing', ~dropped'
             PROVE  (\E d \in Captures : Answers(d)') \/ \E w \in Servers : TakesUp(w)'
    BY DEF PendingIsAnswered
<1>1. \A w \in Servers : TakesUp(w)' = TakesUp(w)
    BY DEF TakesUp
<1>2. \A d \in Captures : Answers(d) => Answers(d)'
    BY DEF Answers, Working, At
<1> QED BY <1>1, <1>2 DEF PendingIsAnswered

\* A capture at work goes on, until it ends with the row.
LEMMA AtWorkAnswers ==
    ASSUME IndInv, PendingIsAnswered, NEW c \in Captures, CaptureStep(c), Working(c)
    PROVE  PendingIsAnswered'
<1>1. /\ Types /\ Len(rows) = 1 /\ Len(rows) <= 1 /\ rows # <<>> /\ rows[1] \in Row
      /\ capture[c].row = 1
    BY AtWork
<1>2. UNCHANGED worker /\ (~dropped' => ~dropped)
    <2>1. CASE CommitRaises(c)
        BY <2>1 DEF CommitRaises
    <2>2. CASE ~CommitRaises(c)
        <3>1. UNCHANGED <<worker, dropped>>
            BY <2>2 DEF CaptureStep, Insert, Load, Create, Cut, Dirs, Open, Write, Move, Hash,
                        Manifest, Commit, Pdf, MovePdf, Complete, Cleanup, Fail
        <3> QED BY <3>1
    <2> QED BY <2>1, <2>2
<1>3. ASSUME NEW pc \in Pcs \ {"idle", "fire", "wait", "start", "create", "insert", "done", "cleanup"},
             Goto(c, pc), Processing' => Processing
      PROVE  PendingIsAnswered'
    <2>1. /\ capture'[c].pc = pc /\ capture'[c].seen = capture[c].seen
          /\ \A d \in Captures \ {c} : capture'[d] = capture[d]
        BY <1>1, <1>3, Going
    <2>2. Answers(c) => Answers(c)'
        BY <2>1 DEF Answers, Working, At
    <2> QED BY <1>2, <1>3, <2>1, <2>2, AnswerStep
<1>4. ASSUME NEW new \in Capture, capture' = [capture EXCEPT ![c] = new], UNCHANGED rows,
             new.pc \in {"write", "move", "fail", "manifest"},
             new.seen = capture[c].seen \/ new.seen = rows[1].status
      PROVE  PendingIsAnswered'
    <2>1. capture'[c] = new /\ \A d \in Captures \ {c} : capture'[d] = capture[d]
        BY <1>1, <1>4, Changes
    <2>2. Processing /\ Answers(c) => Answers(c)'
        BY <1>4, <2>1 DEF Answers, Working, At, Processing
    <2>3. Processing' = Processing
        BY <1>4 DEF Processing
    <2> QED BY <1>2, <2>1, <2>2, <2>3, AnswerStep
<1>5. CASE Cut(c) \/ Dirs(c) \/ Move(c) \/ Manifest(c) \/ Pdf(c) \/ MovePdf(c)
    <2>1. PICK pc \in {"dirs", "fail", "open", "hash", "commit", "movepdf", "complete"} : Goto(c, pc)
        BY <1>5 DEF Cut, Dirs, Move, Manifest, Pdf, MovePdf
    <2>2. UNCHANGED rows
        BY <1>5 DEF Cut, Dirs, Move, Manifest, Pdf, MovePdf
    <2> QED BY <1>3, <2>1, <2>2 DEF Pcs, Processing
<1>6. CASE Open(c)
    <2>1. UNCHANGED rows
        BY <1>6 DEF Open
    <2>2. CASE dir.tmp
        <3>1. PICK file : file = IF dir.draft = None THEN c ELSE dir.draft
            OBVIOUS
        <3>2. file \in Captures
            BY <1>1, <3>1 DEF Types, Dir
        <3>3. PICK new : new = [capture[c] EXCEPT !.pc = "write", !.file = file]
            OBVIOUS
        <3>4. new \in Capture /\ new.pc = "write" /\ new.seen = capture[c].seen
            BY <1>1, <3>2, <3>3 DEF Types, Capture
        <3>5. capture' = [capture EXCEPT ![c] = new]
            BY <1>1, <1>6, <2>2, <3>1, <3>3 DEF Open, Types
        <3> QED BY <1>4, <2>1, <3>4, <3>5
    <2>3. CASE ~dir.tmp
        <3>1. Goto(c, "fail")
            BY <1>6, <2>3 DEF Open
        <3> QED BY <1>3, <2>1, <3>1 DEF Pcs, Processing
    <2> QED BY <2>2, <2>3
<1>7. CASE Write(c)
    <2>1. PICK pc \in {"move", "fail"} : capture' = [capture EXCEPT ![c].pc = pc, ![c].file = None]
        BY <1>7 DEF Write
    <2>2. PICK new : new = [capture[c] EXCEPT !.pc = pc, !.file = None]
        OBVIOUS
    <2>3. new \in Capture /\ new.pc = pc /\ new.seen = capture[c].seen
        BY <1>1, <2>2 DEF Types, Capture
    <2>4. capture' = [capture EXCEPT ![c] = new] /\ UNCHANGED rows
        BY <1>1, <1>7, <2>1, <2>2 DEF Write, Types
    <2> QED BY <1>4, <2>3, <2>4
<1>8. CASE Hash(c)
    <2>1. UNCHANGED rows /\ At(c, "hash") /\ Working(c)
        BY <1>8 DEF Hash
    <2>2. CASE Goto(c, "fail")
        BY <1>3, <2>1, <2>2 DEF Pcs, Processing
    <2>3. CASE ~Goto(c, "fail")
        <3>1. PICK digest : digest = DigestOf(dir.clip)
            OBVIOUS
        <3>2. digest \in Digest
            <4>1. Knows(c)
                BY AtWork
            <4>2. dir.clip \in Captures
                BY <1>1, <2>1, <4>1 DEF Knows, At, Placed, Types, Dir
            <4> QED BY <1>1, <3>1, <4>2 DEF Types, DigestOf, Digest
        <3>3. PICK new : new = [capture[c] EXCEPT !.pc = "manifest", !.sha256 = digest]
            OBVIOUS
        <3>4. new \in Capture /\ new.pc = "manifest" /\ new.seen = capture[c].seen
            BY <1>1, <3>2, <3>3 DEF Types, Capture
        <3>5. capture' = [capture EXCEPT ![c] = new]
            BY <1>1, <1>8, <2>3, <3>1, <3>3 DEF Hash, Types
        <3> QED BY <1>4, <2>1, <3>4, <3>5
    <2> QED BY <2>2, <2>3
<1>9. CASE CommitRaises(c)
    <2>1. Return(c) /\ (~dropped' => ~Answers(c)) /\ UNCHANGED rows
        BY <1>9 DEF CommitRaises
    <2>2. \A d \in Captures \ {c} : capture'[d] = capture[d]
        BY <1>1, <2>1, Returning
    <2> QED BY <1>2, <2>1, <2>2, AnswerStep DEF Processing
<1>10. CASE Commit(c)
    <2>1. PICK digest, new : /\ digest = capture[c].sha256
                             /\ new = [rows[1] EXCEPT !.sha256 = digest]
        OBVIOUS
    <2>2. new \in Row /\ new.status = rows[1].status
        <3>1. digest \in Digest \cup {None}
            BY <1>1, <2>1 DEF Types, Capture
        <3> QED BY <1>1, <2>1, <3>1 DEF Row
    <2>3. rows' = [rows EXCEPT ![1] = new] /\ Goto(c, "pdf")
        BY <1>1, <1>10, <2>1 DEF Commit
    <2>4. Processing' => Processing
        BY <1>1, <2>2, <2>3, RowChanges DEF Processing
    <2> QED BY <1>3, <2>3, <2>4 DEF Pcs
<1>11. CASE Complete(c) /\ ~Goto(c, "fail")
    <2>1. PICK new : new = [rows[1] EXCEPT !.status = "COMPLETE"]
        OBVIOUS
    <2>2. new \in Row /\ new.status = "COMPLETE"
        BY <1>1, <2>1 DEF Row
    <2>3. rows' = [rows EXCEPT ![1] = new]
        BY <1>1, <1>11, <2>1 DEF Complete
    <2>4. ~Processing'
        BY <1>1, <2>2, <2>3, RowChanges DEF Processing
    <2> QED BY <2>4 DEF PendingIsAnswered
<1>15. CASE Complete(c) /\ Goto(c, "fail")
    <2>1. ~Processing' \/ UNCHANGED rows
        <3>1. CASE UNCHANGED rows
            BY <3>1
        <3>2. CASE ~UNCHANGED rows
            <4>1. PICK new : new = [rows[1] EXCEPT !.status = "COMPLETE"]
                OBVIOUS
            <4>2. new \in Row /\ new.status = "COMPLETE"
                BY <1>1, <4>1 DEF Row
            <4>3. rows' = [rows EXCEPT ![1] = new]
                BY <1>1, <1>15, <3>2, <4>1 DEF Complete
            <4> QED BY <1>1, <4>2, <4>3, RowChanges DEF Processing
        <3> QED BY <3>1, <3>2
    <2> QED BY <1>3, <1>15, <2>1 DEF Pcs, Processing
<1>12. CASE Cleanup(c)
    <2>1. Return(c) /\ ~Answers(c) /\ UNCHANGED rows
        BY <1>12 DEF Cleanup, Answers, At
    <2>2. \A d \in Captures \ {c} : capture'[d] = capture[d]
        BY <1>1, <2>1, Returning
    <2> QED BY <1>2, <2>1, <2>2, AnswerStep DEF Processing
<1>13. CASE Fail(c)
    <2>1. Return(c) /\ ~At(c, "wait") /\ ~At(c, "cleanup")
        BY <1>13 DEF Fail, At
    <2>2. \A d \in Captures \ {c} : capture'[d] = capture[d]
        BY <1>1, <2>1, Returning
    <2>3. CASE capture[c].seen = "FAILED"
        <3>1. UNCHANGED rows /\ ~Answers(c)
            BY <1>13, <2>1, <2>3 DEF Fail, Answers
        <3> QED BY <1>2, <2>2, <3>1, AnswerStep DEF Processing
    <2>4. CASE capture[c].seen # "FAILED"
        <3>1. PICK new : new = [rows[1] EXCEPT !.status = "FAILED"]
            OBVIOUS
        <3>2. new \in Row /\ new.status = "FAILED"
            BY <1>1, <3>1 DEF Row
        <3>3. rows' = [rows EXCEPT ![1] = new]
            BY <1>1, <1>13, <2>4, <3>1 DEF Fail
        <3>4. ~Processing'
            BY <1>1, <3>2, <3>3, RowChanges DEF Processing
        <3> QED BY <3>4 DEF PendingIsAnswered
    <2> QED BY <2>3, <2>4
<1>14. ~(Insert(c) \/ Load(c) \/ Create(c))
    BY DEF Insert, Load, Create, Working, At
<1> QED BY <1>5, <1>6, <1>7, <1>8, <1>9, <1>10, <1>11, <1>12, <1>13, <1>14, <1>15 DEF CaptureStep

\* A capture that makes or finds a PENDING row answers for it.
LEMMA EnterAnswers ==
    ASSUME Types, NEW c \in Captures, NEW r \in Nat, NEW status \in {"PENDING", "FAILED"},
           Enter(c, r, status)
    PROVE  /\ capture'[c].pc = "cut" /\ capture'[c].seen = status
           /\ \A d \in Captures \ {c} : capture'[d] = capture[d]
<1>1. PICK new : new = [capture[c] EXCEPT !.pc = "cut", !.row = r, !.seen = status]
    OBVIOUS
<1>2. new \in Capture /\ new.pc = "cut" /\ new.seen = status
    BY <1>1 DEF Types, Capture
<1>3. capture' = [capture EXCEPT ![c] = new]
    BY <1>1 DEF Enter, Types
<1> QED BY <1>2, <1>3, Changes

LEMMA BeginAnswers ==
    ASSUME Unique, IndInv, PendingIsAnswered, NEW c \in Captures,
           Insert(c) \/ Load(c) \/ Create(c)
    PROVE  PendingIsAnswered'
<1>1. Types /\ Len(rows) <= 1 /\ UNCHANGED <<worker, dropped>>
    BY DEF IndInv, Insert, Load, Create
<1>2. ASSUME Answers(c)' PROVE PendingIsAnswered'
    BY <1>2 DEF PendingIsAnswered
<1>3. CASE Create(c)
    <2>1. UNCHANGED rows /\ ~Answers(c) /\ \A d \in Captures \ {c} : capture'[d] = capture[d]
        BY <1>1, <1>3, Returning, Waits DEF Create, Answers, Working, At
    <2> QED BY <1>1, <2>1, AnswerStep DEF Processing
<1>4. CASE Load(c)
    <2>1. UNCHANGED rows
        BY <1>4 DEF Load
    <2>2. CASE ~Processing
        BY <2>1, <2>2 DEF PendingIsAnswered, Processing
    <2>3. CASE Processing
        <3>1. Enter(c, 1, "PENDING")
            BY <1>4, <2>3 DEF Load, Processing
        <3>2. capture'[c].pc = "cut" /\ capture'[c].seen = "PENDING"
            BY <1>1, <3>1, EnterAnswers
        <3> QED BY <1>2, <3>2 DEF Answers, Working, At
    <2> QED BY <2>2, <2>3
<1>5. CASE Insert(c)
    <2>1. CASE rows # <<>>
        <3>1. Return(c) /\ UNCHANGED rows /\ ~Answers(c)
            BY <1>5, <2>1 DEF Insert, Answers, Working, At
        <3>2. \A d \in Captures \ {c} : capture'[d] = capture[d]
            BY <1>1, <3>1, Returning
        <3> QED BY <1>1, <3>1, <3>2, AnswerStep DEF Processing
    <2>2. CASE rows = <<>> /\ At(c, "fire")
        <3>1. Goto(c, "wait")
            BY <1>5, <2>2 DEF Insert
        <3>2. capture'[c].pc = "wait"
            BY <1>1, <3>1, Going DEF Pcs
        <3> QED BY <1>2, <3>2 DEF Answers, At
    <2>3. CASE rows = <<>> /\ ~At(c, "fire")
        <3>1. Enter(c, Len(rows) + 1, "PENDING") /\ Len(rows) + 1 \in Nat
            BY <1>5, <2>3 DEF Insert
        <3>2. capture'[c].pc = "cut" /\ capture'[c].seen = "PENDING"
            BY <1>1, <3>1, EnterAnswers
        <3> QED BY <1>2, <3>2 DEF Answers, Working, At
    <2> QED BY <2>1, <2>2, <2>3
<1> QED BY <1>3, <1>4, <1>5

LEMMA AnswerNext ==
    ASSUME Unique, IndInv, PendingIsAnswered, [Next]_vars
    PROVE  PendingIsAnswered'
<1>0. Types /\ Len(rows) <= 1
    BY DEF IndInv
<1>1. CASE UNCHANGED vars
    BY <1>1 DEF vars, PendingIsAnswered, Processing, Answers, TakesUp, Working, At
<1>2. ASSUME NEW c \in Captures, NEW w \in Workers, Fire(c, w) \/ Request(c, w)
      PROVE  PendingIsAnswered'
    <2>1. At(c, "idle") /\ UNCHANGED <<rows, worker, dropped>>
        BY <1>2 DEF Fire, Request
    <2>2. \A d \in Captures \ {c} : capture'[d] = capture[d]
        BY <1>0, <1>2 DEF Fire, Request, Types
    <2>3. ~Answers(c)
        BY <2>1 DEF Answers, Working, At
    <2> QED BY <2>1, <2>2, <2>3, AnswerStep DEF Processing
<1>3. ASSUME NEW c \in Captures, CaptureStep(c) PROVE PendingIsAnswered'
    <2>1. CASE Working(c)
        BY <1>3, <2>1, AtWorkAnswers
    <2>2. CASE ~Working(c) /\ CommitRaises(c)
        <3>1. Return(c) /\ UNCHANGED <<rows, worker>> /\ (~dropped' => ~dropped /\ ~Answers(c))
            BY <2>2 DEF CommitRaises
        <3>2. \A d \in Captures \ {c} : capture'[d] = capture[d]
            BY <1>0, <3>1, Returning
        <3> QED BY <3>1, <3>2, AnswerStep DEF Processing
    <2>3. CASE ~Working(c) /\ ~CommitRaises(c)
        <3>1. Insert(c) \/ Load(c) \/ Create(c)
            BY <1>3, <2>3 DEF CaptureStep, Cut, Dirs, Open, Write, Move, Hash, Manifest, Commit, Pdf,
                              MovePdf, Complete, Cleanup, Fail, Working, At
        <3> QED BY <3>1, BeginAnswers
    <2> QED BY <2>1, <2>2, <2>3
<1>4. ASSUME NEW w \in Servers, TakesUp(w)' PROVE PendingIsAnswered'
    BY <1>4 DEF PendingIsAnswered
<1>5. ASSUME NEW w \in Servers, Crash(w) \/ Restart(w) PROVE PendingIsAnswered'
    <2>1. w \in Workers /\ worker \in [Workers -> [state : {"up", "down", "sweep", "fail"},
                                                  stale : SUBSET (1..Len(rows))]]
        BY <1>0, EvidenceAssumption DEF Types
    <2>2. \/ worker' = [worker EXCEPT ![w] = [state |-> "down", stale |-> {}]]
          \/ worker' = [worker EXCEPT ![w].state = "sweep"]
        BY <1>5 DEF Crash, Restart
    <2>3. worker'[w].state \in {"down", "sweep"}
        BY <2>1, <2>2
    <2> QED BY <1>4, <2>3 DEF TakesUp
<1>8. ASSUME NEW w \in Workers \ Servers, Crash(w) PROVE PendingIsAnswered'
    <2>1. UNCHANGED rows /\ \A v \in Servers : worker'[v] = worker[v]
        BY <1>0, <1>8, EvidenceAssumption DEF Crash, Types
    <2>5. ~dropped' => ~dropped /\ \A c \in Captures : Answers(c) => capture[c].worker # w
        BY <1>8 DEF Crash
    <2>2. \A c \in Captures : capture[c].worker # w => capture'[c] = capture[c]
        BY <1>0, <1>8 DEF Crash, Types
    <2>3. ~dropped' => \A c \in Captures : Answers(c) => Answers(c)'
        BY <2>2, <2>5 DEF Answers, Working, At
    <2>4. \A v \in Servers : TakesUp(v) => TakesUp(v)'
        BY <2>1 DEF TakesUp
    <2> QED BY <2>1, <2>3, <2>4, <2>5 DEF PendingIsAnswered, Processing
<1>9. ASSUME NEW w \in Workers \ Servers, Respawn(w) PROVE PendingIsAnswered'
    <2>1. UNCHANGED <<rows, capture, dropped>> /\ \A v \in Servers : worker'[v] = worker[v]
        BY <1>0, <1>9, EvidenceAssumption DEF Respawn, Types
    <2> QED BY <2>1 DEF PendingIsAnswered, Processing, Answers, TakesUp, Working, At
<1>10. ASSUME NEW w \in Servers, SweepRaises(w) PROVE PendingIsAnswered'
    BY <1>10 DEF SweepRaises, PendingIsAnswered
<1>6. ASSUME NEW w \in Servers, SweepRead(w) PROVE PendingIsAnswered'
    <2>1. CASE ~Processing
        BY <1>6, <2>1 DEF SweepRead, PendingIsAnswered, Processing
    <2>2. CASE Processing
        <3>1. 1 \in Pending
            <4>1. Len(rows) = 1
                BY <1>0, <2>2, TheRow DEF Processing
            <4> QED BY <2>2, <4>1 DEF Pending, Processing
        <3>2. worker'[w] = [state |-> "fail", stale |-> Pending]
            BY <1>0, <1>6, <3>1, EvidenceAssumption DEF SweepRead, Types
        <3>3. worker'[w].state = "fail" /\ 1 \in worker'[w].stale
            BY <3>1, <3>2
        <3> QED BY <1>4, <3>3 DEF TakesUp
    <2> QED BY <2>1, <2>2
<1>7. ASSUME NEW w \in Servers, SweepWrite(w) PROVE PendingIsAnswered'
    <2> SUFFICES ASSUME Processing', ~dropped'
                 PROVE  (\E c \in Captures : Answers(c)') \/ \E v \in Servers : TakesUp(v)'
        BY DEF PendingIsAnswered
    <2>1. rows' = [r \in 1..Len(rows) |-> IF r \in worker[w].stale
                                          THEN [rows[r] EXCEPT !.status = "FAILED"]
                                          ELSE rows[r]]
        BY <1>7 DEF SweepWrite
    <2>2. rows # <<>>
        <3>1. CASE rows = <<>>
            <4>1. rows' \in [1..0 -> Row]
                BY <2>1, <3>1
            <4>2. rows' = <<>>
                BY <4>1
            <4> QED BY <4>2 DEF Processing
        <3> QED BY <3>1
    <2>3. Len(rows) = 1 /\ rows[1] \in Row
        BY <1>0, <2>2, TheRow
    <2>4. 1 \notin worker[w].stale /\ rows'[1] = rows[1]
        <3>1. CASE 1 \in worker[w].stale
            <4>1. rows'[1] = [rows[1] EXCEPT !.status = "FAILED"]
                BY <2>1, <2>3, <3>1
            <4>2. rows'[1].status = "FAILED"
                BY <2>3, <4>1 DEF Row
            <4> QED BY <4>2 DEF Processing
        <3> QED BY <2>1, <2>3, <3>1
    <2>5. Processing
        BY <2>2, <2>4 DEF Processing
    <2>6. UNCHANGED <<capture, dropped>> /\ \A v \in Servers \ {w} : worker'[v] = worker[v]
        BY <1>0, <1>7, EvidenceAssumption DEF SweepWrite, Types
    <2>7. ~TakesUp(w)
        BY <1>7, <2>4 DEF SweepWrite, TakesUp
    <2> QED BY <2>5, <2>6, <2>7 DEF PendingIsAnswered, Answers, TakesUp, Working, At
<1> QED BY <1>1, <1>2, <1>3, <1>5, <1>6, <1>7, <1>8, <1>9, <1>10 DEF Next, ServerStep

-----------------------------------------------------------------------------
(* The theorems *)

\* What a row, a directory, a capture and a sweep hold have their types, where
\* an alert has one row.
THEOREM TypeCorrect == Unique => (Spec => []TypeOK)
<1> SUFFICES ASSUME Unique PROVE Spec => []TypeOK
    OBVIOUS
<1> DEFINE Flag == dropped \in BOOLEAN
<1>1. IndInv /\ Flag => TypeOK
    BY DEF IndInv, Types, TypeOK
<1>2. IndInv /\ [Next]_vars => IndInv'
    BY NextInv
<1>3. Init => Flag
    BY DEF Init
<1>4. Flag /\ [Next]_vars => Flag'
    BY DroppedType
<1>5. Init /\ [][Next]_vars => []IndInv
    BY <1>2, InitInv, PTL
<1>6. Init /\ [][Next]_vars => []Flag
    <2> HIDE DEF Flag
    <2> QED BY <1>3, <1>4, PTL
<1>7. []IndInv /\ []Flag => []TypeOK
    <2> HIDE DEF Flag
    <2> QED BY <1>1, PTL
<1> QED BY <1>5, <1>6, <1>7 DEF Spec

\* Where the schema allows an alert one row, the digest in a COMPLETE row is
\* that of the clip in its place (_capture_sync), after any number of attempts,
\* failures, crashes and sweeps that did not overlap.
THEOREM SealIsTheClip == Unique => (Spec => []SealMatchesClip)
<1> SUFFICES ASSUME Unique PROVE Spec => []SealMatchesClip
    OBVIOUS
<1>1. IndInv => SealMatchesClip
    BY DEF IndInv, SealInv, Seal, SealMatchesClip
<1>2. IndInv /\ [Next]_vars => IndInv'
    BY NextInv
<1> QED BY <1>1, <1>2, InitInv, PTL DEF Spec

\* Then the alert's hash and the manifest of _capture_sync state that digest too.
THEOREM DocumentsAgree == Unique => (Spec => []SealIsOneDigest)
<1> SUFFICES ASSUME Unique PROVE Spec => []SealIsOneDigest
    OBVIOUS
<1>1. IndInv => SealIsOneDigest
    BY DEF IndInv, SealInv, Seal, SealIsOneDigest
<1>2. IndInv /\ [Next]_vars => IndInv'
    BY NextInv
<1> QED BY <1>1, <1>2, InitInv, PTL DEF Spec

\* A PENDING row is somebody's (_capture_sync, _fail, sweep_stale_pending): when
\* servers die, and when captures of servers and pipelines overlap, a capture
\* will end it, or a server is about to sweep it; unless a commit raised or a
\* process died that does not sweep, since the last sweep read. That the capture
\* or the sweep runs to its end is left to fairness.
THEOREM PendingIsSomebodys == Spec => []PendingIsAnswered
<1>1. CASE Unique
    <2>1. Init => PendingIsAnswered
        BY DEF Init, PendingIsAnswered, Processing
    <2>2. IndInv /\ PendingIsAnswered /\ [Next]_vars => IndInv' /\ PendingIsAnswered'
        BY <1>1, NextInv, AnswerNext
    <2> QED BY <2>1, <2>2, InitInv, PTL DEF Spec
<1>2. CASE ~Unique
    <2>1. PendingIsAnswered
        BY <1>2 DEF PendingIsAnswered
    <2> QED BY <2>1, PTL
<1> QED BY <1>1, <1>2

\* No later request, retry or sweep takes a seal back or touches its clip.
THEOREM SealStays == Unique => (Spec => SealIsFinal)
<1> SUFFICES ASSUME Unique PROVE Spec => SealIsFinal
    OBVIOUS
<1> DEFINE Stays == Sealed /\ ~interfered' =>
        Sealed' /\ dir'.clip = dir.clip /\ content'[dir.clip] = content[dir.clip]
<1>1. IndInv /\ [Next]_vars => [Stays]_vars
    BY SealedRests DEF Sealed
<1>2. IndInv /\ [Next]_vars => IndInv'
    BY NextInv
<1>3. Spec => [][Stays]_vars
    BY <1>1, <1>2, InitInv, PTL DEF Spec
<1> QED BY <1>3 DEF SealIsFinal, Stays

\* The row, the alert and the directory keep the promise of EvidenceSeal: every
\* step of a capture, a retry, a crash or a sweep works on what is not sealed
\* yet, or seals it, or changes nothing that is stated (_capture_sync, _fail,
\* sweep_stale_pending), as long as captures do not overlap.
THEOREM LockIsKept == Unique => (Spec => SealKept)
<1> SUFFICES ASSUME Unique PROVE Spec => SealKept
    OBVIOUS
<1>1. Init => Lock!LockInit
    BY DEF Init, Lock!LockInit, Sealed
<1>2. IndInv /\ [Next]_vars => IndInv'
    BY NextInv
<1>3. IndInv /\ IndInv' /\ [Next]_vars => [Lock!LockNext]_(Lock!seals)
    BY LockStep
<1> QED BY InitInv, <1>1, <1>2, <1>3, PTL DEF Spec, SealKept, Lock!LockSpec

=============================================================================
