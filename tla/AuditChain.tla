----------------------------- MODULE AuditChain -----------------------------
(***************************************************************************)
(* The hash-chained audit log: AuditService.log_event appends a row that   *)
(* names the hash of the row before it, verify_integrity follows the chain *)
(* in batches from a checkpoint (backend/services/audit_service.py). The   *)
(* same table takes the plain rows of log_audit, which carry no hash       *)
(* (backend/services/audit_logger.py).                                     *)
(*                                                                         *)
(* A payload stands for its SHA-256. log_event reads the last row in one   *)
(* transaction and inserts in the next, so appends of several server       *)
(* processes interleave between the two. A row that is no longer there     *)
(* when the verifier comes is the damage it has to notice.                 *)
(***************************************************************************)
EXTENDS Naturals, Sequences

CONSTANTS
    Writers,    \* callers of log_event that run side by side
    Payloads,
    Genesis, None,
    BatchSize,  \* rows per verification
    MaxRows     \* bound on rows ever written

ASSUME AuditChainAssumption ==
    /\ {Genesis, None} \cap Payloads = {} /\ Genesis # None
    /\ BatchSize \in Nat \ {0}
    /\ MaxRows \in Nat

VARIABLES
    log,        \* audit_log in the order of ids
    nextId,
    writer,     \* what each log_event has read
    checkpoint, \* the audit_checkpoint row
    verifier,   \* what verify_integrity is about to write
    gap,        \* history: the row that followed the one lost, 0 if none is lost
    forked      \* history: the chained rows that do not follow their predecessor

vars == <<log, nextId, writer, checkpoint, verifier, gap, forked>>

Row == [id : Nat, hash : Payloads \cup {None},
        prev : Payloads \cup {Genesis, None}]
Checkpoint == [last : Nat, status : {"ok", "broken"}]

NotReading == [pc |-> "idle", prev |-> None]
NotVerifying == [pc |-> "idle", last |-> 0, status |-> "ok"]

Init ==
    /\ log = <<>> /\ nextId = 1
    /\ writer = [w \in Writers |-> NotReading]
    /\ checkpoint = [last |-> 0, status |-> "ok"]
    /\ verifier = NotVerifying
    /\ gap = 0 /\ forked = {}

-----------------------------------------------------------------------------
(* Writing *)

Append1(row) ==
    /\ nextId <= MaxRows
    /\ log' = Append(log, row)
    /\ nextId' = nextId + 1

\* log_event, first half: the hash of the last row. A row without one, like no
\* row at all, starts the chain again.
LogRead(w) ==
    /\ writer[w].pc = "idle"
    /\ LET last == IF log = <<>> THEN None ELSE log[Len(log)].hash IN
       writer' = [writer EXCEPT ![w] =
                    [pc |-> "insert", prev |-> IF last = None THEN Genesis ELSE last]]
    /\ UNCHANGED <<log, nextId, checkpoint, verifier, gap, forked>>

\* log_event, second half.
LogInsert(w, payload) ==
    /\ writer[w].pc = "insert"
    /\ Append1([id |-> nextId, hash |-> payload, prev |-> writer[w].prev])
    /\ writer' = [writer EXCEPT ![w] = NotReading]
    /\ forked' = IF log # <<>> /\ log[Len(log)].hash \notin {None, writer[w].prev}
                 THEN forked \cup {nextId}
                 ELSE forked
    /\ UNCHANGED <<checkpoint, verifier, gap>>

\* log_audit
LogAudit ==
    /\ Append1([id |-> nextId, hash |-> None, prev |-> None])
    /\ UNCHANGED <<writer, checkpoint, verifier, gap, forked>>

-----------------------------------------------------------------------------
(* verify_integrity *)

Rows(id) == {i \in 1..Len(log) : log[i].id = id}

\* Seeded fault: a batch starts without looking at the row before it.
SeedNothing(id) == None

\* The hash of the row at the checkpoint, if that row is there.
Seed(id) == IF Rows(id) = {} THEN None ELSE log[CHOOSE i \in Rows(id) : TRUE].hash

\* The rows are in the order of their ids: this many are up to the checkpoint.
Verified == CHOOSE n \in 0..Len(log) :
                \A i \in 1..Len(log) : i <= n <=> log[i].id <= checkpoint.last

\* The rows after it, BatchSize of them at most.
Batch == SubSeq(log, Verified + 1, IF Verified + BatchSize < Len(log)
                                   THEN Verified + BatchSize ELSE Len(log))

\* Seeded fault: a row without a hash is passed over instead of ending the chain.
ExpectedAcross(batch, seed, i) ==
    LET hashed == {j \in 1..(i - 1) : batch[j].hash # None} IN
    IF hashed = {} THEN seed
    ELSE batch[CHOOSE j \in hashed : \A k \in hashed : k <= j].hash

\* prev_expected_hash when the loop reaches row i of the batch.
Expected(batch, seed, i) == IF i = 1 THEN seed ELSE batch[i - 1].hash

\* Seeded fault: a row that starts a chain is not compared with anything.
BrokenLinkButGenesis(batch, seed, i) ==
    LET expected == Expected(batch, seed, i) IN
    expected # None /\ batch[i].prev \notin {None, Genesis, expected}

BrokenLink(batch, seed, i) ==
    LET expected == Expected(batch, seed, i) IN
    expected # None /\ batch[i].prev # None /\ batch[i].prev # expected

VerifyRead ==
    /\ verifier.pc = "idle" /\ Batch # <<>>
    /\ LET batch == Batch  seed == IF checkpoint.last > 0
                                   THEN Seed(checkpoint.last) ELSE None IN
       verifier' = [pc |-> "write", last |-> batch[Len(batch)].id,
                    status |-> IF \E i \in 1..Len(batch) : BrokenLink(batch, seed, i)
                               THEN "broken" ELSE "ok"]
    /\ UNCHANGED <<log, nextId, writer, checkpoint, gap, forked>>

VerifyWrite ==
    /\ verifier.pc = "write"
    /\ checkpoint' = [last |-> verifier.last, status |-> verifier.status]
    /\ verifier' = NotVerifying
    /\ UNCHANGED <<log, nextId, writer, gap, forked>>

-----------------------------------------------------------------------------
\* One unverified row is lost between two chained rows that show it.
Lose(i) ==
    /\ gap = 0 /\ verifier.pc = "idle"
    /\ i \in 2..(Len(log) - 1) /\ log[i].id > checkpoint.last
    /\ log[i - 1].hash # None /\ log[i + 1].prev # None
    /\ log[i - 1].hash # log[i + 1].prev
    /\ log' = SubSeq(log, 1, i - 1) \o SubSeq(log, i + 1, Len(log))
    /\ gap' = log[i + 1].id
    /\ UNCHANGED <<nextId, writer, checkpoint, verifier, forked>>

Next ==
    \/ \E w \in Writers : LogRead(w)
    \/ \E w \in Writers, payload \in Payloads : LogInsert(w, payload)
    \/ LogAudit
    \/ VerifyRead \/ VerifyWrite
    \/ \E i \in 1..Len(log) : Lose(i)

Spec == Init /\ [][Next]_vars

-----------------------------------------------------------------------------
(* Properties *)

TypeOK ==
    /\ log \in Seq(Row) /\ nextId \in 1..(MaxRows + 1)
    /\ \A i, j \in 1..Len(log) : i < j => log[i].id < log[j].id
    /\ writer \in [Writers -> [pc : {"idle", "insert"},
                               prev : Payloads \cup {Genesis, None}]]
    /\ checkpoint \in Checkpoint
    /\ verifier \in [pc : {"idle", "write"}, last : Nat, status : {"ok", "broken"}]
    /\ gap \in Nat

\* An alarm has a cause: a verification reports broken links only if a row was
\* lost or two calls of log_event overlapped and forked the chain, whatever plain
\* rows others mix in and however the batches fall. With one caller at a time
\* an alarm means a lost row.
AlarmHasCause == checkpoint.status = "broken" => gap # 0 \/ forked # {}

\* A lost row is reported by the verification that passes it, also when the row
\* before it was the last of an earlier batch.
LossIsReported ==
    [][checkpoint.last < gap /\ checkpoint'.last >= gap
         => checkpoint'.status = "broken"]_vars

\* So is a fork: two overlapping appends are not told from tampering.
ForkIsReported ==
    [][\A id \in forked : checkpoint.last < id /\ checkpoint'.last >= id
         => checkpoint'.status = "broken"]_vars

=============================================================================
