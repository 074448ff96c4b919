-------------------------- MODULE AuditChainProofs --------------------------
(***************************************************************************)
(* Proofs about AuditChain, for any number of writers, rows and batches of *)
(* any size.                                                               *)
(*                                                                         *)
(* What the verifier finds is a link between two neighbours of the table,  *)
(* wherever the seams between its batches fall. So the argument is about   *)
(* neighbours: where one of them does not name the other, a row was lost   *)
(* there or a fork was inserted there, and the other way round; and a      *)
(* verification reports exactly the broken neighbours it passes.           *)
(***************************************************************************)
EXTENDS AuditChain, SequenceTheorems, TLAPS

-----------------------------------------------------------------------------
(* The inductive invariant *)

\* The row names another hash than that of its neighbour.
Broken(k) == /\ log[k - 1].hash # None /\ log[k].prev # None
             /\ log[k].prev # log[k - 1].hash

OrderInv == /\ \A i \in 1..Len(log) : log[i].id \in 1..(nextId - 1)
            /\ forked \subseteq 1..(nextId - 1)

WriterInv == \A w \in Writers : writer[w].pc = "insert" => writer[w].prev # None

\* The verified rows come first, and the last of them is at the checkpoint: no
\* row that was verified is lost.
Splits(n) == \A i \in 1..Len(log) : i <= n <=> log[i].id <= checkpoint.last
SplitInv == /\ \E n \in 0..Len(log) : Splits(n)
            /\ checkpoint.last < nextId
            /\ checkpoint.last # 0 => \E i \in 1..Len(log) : log[i].id = checkpoint.last

\* Broken neighbours have a cause, ...
CauseInv == \A k \in 2..Len(log) : Broken(k) => log[k].id \in forked \cup {gap}

\* ... and a cause leaves broken neighbours, around its place: the row of a fork
\* may itself be the one that is lost.
MarkInv == \A f \in forked \cup ({gap} \ {0}) :
    \E k \in 2..Len(log) : Broken(k) /\ log[k - 1].id < f /\ f <= log[k].id

\* The verifier's verdict is about the rows from the checkpoint to the one it
\* has read last, also when others have written since.
VerifierInv == verifier.pc = "write" =>
    \E m \in 1..Len(log) :
        /\ log[m].id = verifier.last
        /\ verifier.status = "broken" <=>
              \E k \in 2..m : log[k].id > checkpoint.last /\ Broken(k)

IndInv ==
    /\ TypeOK /\ OrderInv /\ WriterInv /\ SplitInv
    /\ CauseInv /\ MarkInv /\ VerifierInv /\ AlarmHasCause

-----------------------------------------------------------------------------
(* The table *)

\* What a row that is appended changes: neighbours stay neighbours.
LEMMA Appended ==
  ASSUME TypeOK, OrderInv, NEW row \in Row, row.id = nextId, Append1(row)
  PROVE  /\ log' \in Seq(Row) /\ Len(log') = Len(log) + 1
         /\ \A i \in 1..Len(log) : log'[i] = log[i]
         /\ log'[Len(log) + 1] = row
         /\ \A i, j \in 1..Len(log') : i < j => log'[i].id < log'[j].id
         /\ nextId' = nextId + 1 /\ nextId' \in 1..(MaxRows + 1)
         /\ \A i \in 1..Len(log') : log'[i].id \in 1..(nextId' - 1)
  <1>1. /\ log' \in Seq(Row) /\ Len(log') = Len(log) + 1
        /\ \A i \in 1..Len(log) : log'[i] = log[i]
        /\ log'[Len(log) + 1] = row
    BY AppendProperties DEF Append1, TypeOK
  <1>2. nextId' = nextId + 1 /\ nextId' \in 1..(MaxRows + 1) /\ nextId \in Nat \ {0}
    BY AuditChainAssumption DEF Append1, TypeOK
  <1>3. Len(log) \in Nat
    BY DEF TypeOK
  <1>4. \A i \in 1..Len(log') : i \in 1..Len(log) \/ i = Len(log) + 1
    BY <1>1, <1>3
  <1>5. ASSUME NEW i \in 1..Len(log') PROVE log'[i].id \in 1..(nextId' - 1)
    <2>1. CASE i \in 1..Len(log)
      <3>1. log'[i].id = log[i].id /\ log[i].id \in 1..(nextId - 1)
        BY <2>1, <1>1 DEF OrderInv
      <3> QED
        BY <3>1, <1>2
    <2>2. CASE i = Len(log) + 1
      <3>1. log'[i].id = nextId
        BY <2>2, <1>1
      <3> QED
        BY <3>1, <1>2
    <2> QED
      BY <1>4, <2>1, <2>2
  <1>6. ASSUME NEW i \in 1..Len(log'), NEW j \in 1..Len(log'), i < j
        PROVE  log'[i].id < log'[j].id
    <2>1. i \in 1..Len(log)
      BY <1>1, <1>3, <1>6
    <2>2. log'[i].id = log[i].id /\ log[i].id \in 1..(nextId - 1)
      BY <2>1, <1>1 DEF OrderInv
    <2>3. CASE j \in 1..Len(log)
      BY <1>1, <1>6, <2>1, <2>3 DEF TypeOK
    <2>4. CASE j = Len(log) + 1
      BY <1>1, <1>2, <2>2, <2>4
    <2> QED
      BY <1>4, <2>3, <2>4
  <1> QED
    BY <1>1, <1>2, <1>5, <1>6

\* What a row that is lost changes: the rows after it move up.
LEMMA Lost ==
  ASSUME TypeOK, NEW i \in 2..(Len(log) - 1),
         log' = SubSeq(log, 1, i - 1) \o SubSeq(log, i + 1, Len(log))
  PROVE  /\ log' \in Seq(Row) /\ Len(log') = Len(log) - 1
         /\ \A j \in 1..(i - 1) : log'[j] = log[j]
         /\ \A j \in i..(Len(log) - 1) : log'[j] = log[j + 1]
  <1> DEFINE a == SubSeq(log, 1, i - 1)  b == SubSeq(log, i + 1, Len(log))
  <1>1. Len(log) \in Nat /\ i \in Nat /\ log \in Seq(Row)
    BY DEF TypeOK
  <1>2. /\ a \in Seq(Row) /\ Len(a) = i - 1
        /\ \A j \in 1..(i - 1) : a[j] = log[j]
    BY <1>1, SubSeqProperties
  <1>3. /\ b \in Seq(Row) /\ Len(b) = Len(log) - i
        /\ \A j \in 1..(Len(log) - i) : b[j] = log[i + j]
    BY <1>1, SubSeqProperties
  <1> HIDE DEF a, b
  <1>4. /\ a \o b \in Seq(Row) /\ Len(a \o b) = Len(log) - 1
        /\ \A j \in 1..(Len(log) - 1) :
              (a \o b)[j] = IF j <= i - 1 THEN a[j] ELSE b[j - (i - 1)]
    <2>1. /\ a \o b \in Seq(Row) /\ Len(a \o b) = Len(a) + Len(b)
          /\ \A j \in 1..(Len(a) + Len(b)) :
                (a \o b)[j] = IF j <= Len(a) THEN a[j] ELSE b[j - Len(a)]
      BY <1>2, <1>3, ConcatProperties
    <2>2. Len(a) + Len(b) = Len(log) - 1
      BY <1>1, <1>2, <1>3
    <2> QED
      BY <2>1, <2>2, <1>2
  <1>5. log' = a \o b
    BY DEF a, b
  <1>6. ASSUME NEW j \in i..(Len(log) - 1) PROVE log'[j] = log[j + 1]
    <2>1. /\ j \in 1..(Len(log) - 1) /\ ~(j <= i - 1)
          /\ j - (i - 1) \in 1..(Len(log) - i) /\ i + (j - (i - 1)) = j + 1
      BY <1>1
    <2> QED
      BY <1>3, <1>4, <1>5, <2>1
  <1> QED
    BY <1>1, <1>2, <1>4, <1>5, <1>6

\* A broken link a batch meets is a pair of broken neighbours of the table: the
\* seed is the hash of the row before the batch, whatever the batch before was.
LEMMA Passing ==
  ASSUME IndInv, Batch # <<>>,
         NEW seed, seed = IF checkpoint.last > 0 THEN Seed(checkpoint.last) ELSE None
  PROVE  \E m \in 1..Len(log) :
           /\ log[m].id = Batch[Len(Batch)].id
           /\ (\E i \in 1..Len(Batch) : BrokenLink(Batch, seed, i)) <=>
              \E k \in 2..m : log[k].id > checkpoint.last /\ Broken(k)
  <1> DEFINE n == Verified
             m == IF n + BatchSize < Len(log) THEN n + BatchSize ELSE Len(log)
  <1>1. n \in 0..Len(log) /\ Splits(n)
    BY DEF IndInv, SplitInv, Splits, Verified
  <1>2. /\ Len(log) \in Nat /\ log \in Seq(Row) /\ checkpoint.last \in Nat
        /\ \A i \in 1..Len(log) : log[i].id \in Nat \ {0}
    BY DEF IndInv, TypeOK, OrderInv, Checkpoint
  <1>3. BatchSize \in Nat \ {0}
    BY AuditChainAssumption
  <1>4. Batch = SubSeq(log, n + 1, m)
    BY DEF Batch
  <1> HIDE DEF n
  <1>5. n < Len(log)
    <2> SUFFICES ASSUME n = Len(log) PROVE FALSE
      BY <1>1, <1>2
    <2>1. m = Len(log)
      BY <1>2, <1>3
    <2> QED
      BY <1>2, <1>4, <2>1, SubSeqEmpty
  <1>6. m \in (n + 1)..Len(log)
    BY <1>1, <1>2, <1>3, <1>5
  <1> HIDE DEF m
  <1>7. /\ Len(Batch) = m - n
        /\ \A i \in 1..(m - n) : Batch[i] = log[n + i]
    BY <1>1, <1>2, <1>4, <1>6, SubSeqProperties
  <1>8. Batch[Len(Batch)] = log[m]
    BY <1>1, <1>2, <1>6, <1>7
  <1>9. n = 0 => seed = None
    BY <1>1, <1>2 DEF IndInv, SplitInv, Splits
  <1>10. ASSUME n > 0 PROVE seed = log[n].hash
    <2>1. log[n].id <= checkpoint.last /\ n \in 1..Len(log) /\ checkpoint.last > 0
      BY <1>1, <1>2, <1>10 DEF Splits
    <2>2. PICK i \in 1..Len(log) : log[i].id = checkpoint.last
      BY <2>1, <1>2 DEF IndInv, SplitInv
    <2>3. i <= n
      BY <2>2, <1>1, <1>2 DEF Splits
    <2>4. i = n
      BY <2>1, <2>2, <2>3, <1>2 DEF IndInv, TypeOK
    <2>5. \A j \in Rows(checkpoint.last) : j = n
      BY <2>1, <2>2, <2>4, <1>2 DEF Rows, IndInv, TypeOK
    <2>6. n \in Rows(checkpoint.last)
      BY <2>1, <2>2, <2>4 DEF Rows
    <2>7. Seed(checkpoint.last) = log[n].hash
      BY <2>5, <2>6 DEF Seed
    <2> QED
      BY <2>1, <2>7
  <1>11. ASSUME NEW i \in 1..Len(Batch)
         PROVE  BrokenLink(Batch, seed, i) <=> n + i # 1 /\ Broken(n + i)
    <2>1. /\ n + i \in 1..Len(log) /\ Batch[i] = log[n + i] /\ i \in Nat
          /\ n + i # 1 => (n + i) - 1 \in 1..Len(log)
      BY <1>1, <1>2, <1>6, <1>7
    <2>2. CASE i = 1 /\ n = 0
      BY <2>1, <2>2, <1>9 DEF BrokenLink, Expected, Broken
    <2>3. CASE i = 1 /\ n > 0
      <3>1. n + i # 1 /\ (n + i) - 1 = n /\ seed = log[n].hash
        BY <2>3, <1>10, <1>1
      <3> QED
        BY <2>1, <2>3, <3>1 DEF BrokenLink, Expected, Broken
    <2>4. CASE i # 1
      <3>1. i - 1 \in 1..(m - n) /\ n + (i - 1) = (n + i) - 1 /\ n + i # 1
        BY <1>1, <1>2, <1>6, <1>7, <2>1, <2>4
      <3>2. Batch[i - 1] = log[(n + i) - 1]
        BY <3>1, <1>7
      <3>3. Expected(Batch, seed, i) = log[(n + i) - 1].hash
        BY <2>4, <3>2 DEF Expected
      <3>4. Broken(n + i) <=> /\ log[(n + i) - 1].hash # None /\ log[n + i].prev # None
                              /\ log[n + i].prev # log[(n + i) - 1].hash
        BY DEF Broken
      <3> QED
        BY <2>1, <3>1, <3>3, <3>4 DEF BrokenLink
    <2> QED
      BY <2>2, <2>3, <2>4, <1>1
  <1>12. ASSUME NEW i \in 1..Len(Batch), BrokenLink(Batch, seed, i)
         PROVE  \E k \in 2..m : log[k].id > checkpoint.last /\ Broken(k)
    <2>1. n + i \in 2..m /\ ~(n + i <= n) /\ n + i \in 1..Len(log)
      BY <1>1, <1>2, <1>6, <1>7, <1>11, <1>12
    <2>2. log[n + i].id > checkpoint.last
      BY <2>1, <1>1, <1>2 DEF Splits
    <2> QED
      BY <2>1, <2>2, <1>11, <1>12
  <1>13. ASSUME NEW k \in 2..m, log[k].id > checkpoint.last, Broken(k)
         PROVE  \E i \in 1..Len(Batch) : BrokenLink(Batch, seed, i)
    <2>1. k \in 1..Len(log) /\ ~(k <= n)
      BY <1>1, <1>2, <1>6, <1>13 DEF Splits
    <2>2. k - n \in 1..Len(Batch) /\ n + (k - n) = k /\ k # 1
      BY <2>1, <1>1, <1>2, <1>6, <1>7
    <2> QED
      BY <2>2, <1>11, <1>13
  <1> QED
    BY <1>1, <1>2, <1>6, <1>8, <1>12, <1>13

-----------------------------------------------------------------------------
(* The steps *)

LEMMA InitInv == Init => IndInv
  <1> SUFFICES ASSUME Init PROVE IndInv
    OBVIOUS
  <1>1. Len(log) = 0 /\ log \in Seq(Row)
    BY DEF Init
  <1>2. TypeOK
    BY <1>1, AuditChainAssumption DEF Init, TypeOK, NotReading, NotVerifying, Checkpoint
  <1>3. OrderInv /\ WriterInv /\ SplitInv
    BY <1>1 DEF Init, OrderInv, WriterInv, SplitInv, Splits, NotReading
  <1>4. CauseInv /\ MarkInv /\ VerifierInv /\ AlarmHasCause
    BY <1>1 DEF Init, CauseInv, MarkInv, VerifierInv, AlarmHasCause, NotVerifying
  <1> QED
    BY <1>2, <1>3, <1>4 DEF IndInv

\* What a writer does to the invariant: its row joins the chain, or is a fork.
LEMMA AppendInv ==
  ASSUME IndInv, NEW row \in Row, row.id = nextId, Append1(row),
         UNCHANGED <<checkpoint, verifier, gap>>,
         forked' = IF /\ log # <<>> /\ row.prev # None
                      /\ log[Len(log)].hash \notin {None, row.prev}
                   THEN forked \cup {nextId} ELSE forked,
         writer' \in [Writers -> [pc : {"idle", "insert"},
                                  prev : Payloads \cup {Genesis, None}]],
         WriterInv'
  PROVE  IndInv'
  <1>1. TypeOK /\ OrderInv
    BY DEF IndInv
  <1>2. /\ log' \in Seq(Row) /\ Len(log') = Len(log) + 1
        /\ \A i \in 1..Len(log) : log'[i] = log[i]
        /\ log'[Len(log) + 1] = row
        /\ \A i, j \in 1..Len(log') : i < j => log'[i].id < log'[j].id
        /\ nextId' = nextId + 1 /\ nextId' \in 1..(MaxRows + 1)
        /\ \A i \in 1..Len(log') : log'[i].id \in 1..(nextId' - 1)
    BY <1>1, Appended
  <1>3. /\ Len(log) \in Nat /\ nextId \in Nat /\ checkpoint.last \in Nat
        /\ \A k \in 2..Len(log) : k \in 1..Len(log) /\ k - 1 \in 1..Len(log)
    BY <1>1 DEF TypeOK, Checkpoint
  <1>4. TypeOK'
    BY <1>1, <1>2 DEF TypeOK
  <1>5. OrderInv'
    BY <1>1, <1>2, <1>3 DEF OrderInv
  <1>6. \A k \in 2..Len(log) : Broken(k)' <=> Broken(k)
    BY <1>2, <1>3 DEF Broken
  <1>7. ASSUME log # <<>>, NEW k, k = Len(log) + 1
        PROVE  Broken(k)' <=> /\ row.prev # None
                              /\ log[Len(log)].hash \notin {None, row.prev}
    <2>1. Len(log) \in 1..Len(log) /\ k - 1 = Len(log)
      BY <1>1, <1>3, <1>7, EmptySeq DEF TypeOK
    <2>2. log'[k - 1] = log[Len(log)] /\ log'[k] = row
      BY <2>1, <1>2, <1>7
    <2> QED
      BY <2>2 DEF Broken
  <1>8. SplitInv'
    <2>1. PICK n \in 0..Len(log) : Splits(n)
      BY DEF IndInv, SplitInv
    <2>2. checkpoint.last < nextId
      BY DEF IndInv, SplitInv
    <2>3. Splits(n)'
      <3> SUFFICES ASSUME NEW i \in 1..Len(log')
                   PROVE  i <= n <=> log'[i].id <= checkpoint.last
        BY DEF Splits
      <3>1. CASE i \in 1..Len(log)
        BY <2>1, <3>1, <1>2 DEF Splits
      <3>2. CASE i = Len(log) + 1
        BY <2>1, <2>2, <3>2, <1>2, <1>3
      <3> QED
        BY <3>1, <3>2, <1>2, <1>3
    <2>4. n \in 0..Len(log') /\ checkpoint'.last < nextId'
      BY <1>2, <1>3, <2>2
    <2>5. checkpoint'.last # 0 => \E i \in 1..Len(log') : log'[i].id = checkpoint'.last
      <3> SUFFICES ASSUME checkpoint.last # 0
                   PROVE  \E i \in 1..Len(log') : log'[i].id = checkpoint.last
        OBVIOUS
      <3>1. PICK i \in 1..Len(log) : log[i].id = checkpoint.last
        BY DEF IndInv, SplitInv
      <3> QED
        BY <3>1, <1>2, <1>3
    <2> QED
      BY <2>3, <2>4, <2>5 DEF SplitInv
  <1>9. CauseInv'
    <2> SUFFICES ASSUME NEW k \in 2..Len(log'), Broken(k)'
                 PROVE  log'[k].id \in forked' \cup {gap}
      BY DEF CauseInv
    <2>1. CASE k \in 2..Len(log)
      BY <2>1, <1>2, <1>3, <1>6 DEF IndInv, CauseInv
    <2>2. CASE k = Len(log) + 1
      <3>1. log # <<>>
        BY <2>2, <1>3
      <3> QED
        BY <2>2, <3>1, <1>2, <1>7
    <2> QED
      BY <2>1, <2>2, <1>2, <1>3
  <1>10. MarkInv'
    <2> SUFFICES ASSUME NEW f \in forked' \cup ({gap} \ {0})
                 PROVE  \E k \in 2..Len(log') :
                           Broken(k)' /\ log'[k - 1].id < f /\ f <= log'[k].id
      BY DEF MarkInv
    <2>1. CASE f \in forked \cup ({gap} \ {0})
      <3>1. PICK k \in 2..Len(log) : Broken(k) /\ log[k - 1].id < f /\ f <= log[k].id
        BY <2>1 DEF IndInv, MarkInv
      <3>2. k \in 2..Len(log') /\ log'[k - 1] = log[k - 1] /\ log'[k] = log[k]
        BY <1>2, <1>3
      <3> QED
        BY <3>1, <3>2, <1>6
    <2>2. CASE f \notin forked \cup ({gap} \ {0})
      <3>1. /\ f = nextId /\ log # <<>> /\ row.prev # None
            /\ log[Len(log)].hash \notin {None, row.prev}
        BY <2>2
      <3> DEFINE k == Len(log) + 1
      <3>2. Len(log) \in 1..Len(log) /\ k \in 2..Len(log') /\ k - 1 = Len(log)
        BY <3>1, <1>1, <1>2, <1>3, EmptySeq DEF TypeOK
      <3>3. log'[k].id = nextId /\ log'[k - 1].id < nextId
        BY <3>2, <1>1, <1>2, <1>3 DEF OrderInv
      <3>4. k = Len(log) + 1
        OBVIOUS
      <3> HIDE DEF k
      <3> SUFFICES ASSUME NEW j, j = k PROVE Broken(j)'
        BY <3>1, <3>2, <3>3, <1>3
      <3> QED
        BY <3>1, <3>4, <1>7
    <2> QED
      BY <2>1, <2>2
  <1>11. VerifierInv'
    <2> SUFFICES ASSUME verifier.pc = "write"
                 PROVE  \E m \in 1..Len(log') :
                          /\ log'[m].id = verifier.last
                          /\ verifier.status = "broken" <=>
                                \E k \in 2..m : log'[k].id > checkpoint.last /\ Broken(k)'
      BY DEF VerifierInv
    <2>1. PICK m \in 1..Len(log) :
            /\ log[m].id = verifier.last
            /\ verifier.status = "broken" <=>
                  \E k \in 2..m : log[k].id > checkpoint.last /\ Broken(k)
      BY DEF IndInv, VerifierInv
    <2>2. m \in 1..Len(log') /\ \A k \in 2..m : k \in 2..Len(log) /\ k \in 1..Len(log)
      BY <1>2, <1>3
    <2> QED
      BY <2>1, <2>2, <1>2, <1>6
  <1>12. AlarmHasCause'
    BY DEF IndInv, AlarmHasCause
  <1> QED
    BY <1>4, <1>5, <1>8, <1>9, <1>10, <1>11, <1>12 DEF IndInv

LEMMA LogReadInv == ASSUME IndInv, NEW w \in Writers, LogRead(w) PROVE IndInv'
  <1>1. writer' = [writer EXCEPT ![w] = writer'[w]] /\ writer'[w].prev # None
        /\ writer'[w] \in [pc : {"idle", "insert"}, prev : Payloads \cup {Genesis, None}]
    <2> DEFINE last == IF log = <<>> THEN None ELSE log[Len(log)].hash
    <2>1. last \in Payloads \cup {None}
      <3>1. log # <<>> => log[Len(log)] \in Row
        BY EmptySeq DEF IndInv, TypeOK
      <3> QED
        BY <3>1 DEF Row
    <2>2. writer' = [writer EXCEPT ![w] =
                       [pc |-> "insert", prev |-> IF last = None THEN Genesis ELSE last]]
      BY DEF LogRead
    <2> HIDE DEF last
    <2> QED
      BY <2>1, <2>2, AuditChainAssumption DEF IndInv, TypeOK
  <1>2. TypeOK' /\ WriterInv'
    BY <1>1 DEF IndInv, TypeOK, WriterInv, LogRead
  <1> QED
    BY <1>2 DEF IndInv, LogRead, OrderInv, SplitInv, Splits, CauseInv, MarkInv,
                VerifierInv, AlarmHasCause, Broken

LEMMA LogInsertInv ==
  ASSUME IndInv, NEW w \in Writers, NEW payload \in Payloads, LogInsert(w, payload)
  PROVE  IndInv'
  <1> DEFINE row == [id |-> nextId, hash |-> payload, prev |-> writer[w].prev]
  <1>1. row \in Row /\ row.id = nextId /\ row.prev # None /\ row.prev = writer[w].prev
    BY DEF IndInv, TypeOK, WriterInv, LogInsert, Row
  <1>2. Append1(row) /\ UNCHANGED <<checkpoint, verifier, gap>>
    BY DEF LogInsert
  <1>3. forked' = IF /\ log # <<>> /\ row.prev # None
                     /\ log[Len(log)].hash \notin {None, row.prev}
                  THEN forked \cup {nextId} ELSE forked
    BY <1>1 DEF LogInsert
  <1>4. /\ writer' \in [Writers -> [pc : {"idle", "insert"},
                                    prev : Payloads \cup {Genesis, None}]]
        /\ WriterInv'
    BY DEF IndInv, TypeOK, WriterInv, LogInsert, NotReading
  <1> HIDE DEF row
  <1> QED
    BY <1>1, <1>2, <1>3, <1>4, AppendInv

LEMMA LogAuditInv == ASSUME IndInv, LogAudit PROVE IndInv'
  <1> DEFINE row == [id |-> nextId, hash |-> None, prev |-> None]
  <1>1. row \in Row /\ row.id = nextId /\ row.prev = None
    BY DEF IndInv, TypeOK, Row
  <1>2. Append1(row) /\ UNCHANGED <<checkpoint, verifier, gap>> /\ forked' = forked
    BY DEF LogAudit
  <1>3. /\ writer' \in [Writers -> [pc : {"idle", "insert"},
                                    prev : Payloads \cup {Genesis, None}]]
        /\ WriterInv'
    BY DEF IndInv, TypeOK, WriterInv, LogAudit
  <1> HIDE DEF row
  <1> QED
    BY <1>1, <1>2, <1>3, AppendInv

LEMMA VerifyReadInv == ASSUME IndInv, VerifyRead PROVE IndInv'
  <1> DEFINE seed == IF checkpoint.last > 0 THEN Seed(checkpoint.last) ELSE None
  <1>1. PICK m \in 1..Len(log) :
          /\ log[m].id = Batch[Len(Batch)].id
          /\ (\E i \in 1..Len(Batch) : BrokenLink(Batch, seed, i)) <=>
             \E k \in 2..m : log[k].id > checkpoint.last /\ Broken(k)
    BY Passing DEF VerifyRead
  <1>2. verifier' = [pc |-> "write", last |-> Batch[Len(Batch)].id,
                     status |-> IF \E i \in 1..Len(Batch) : BrokenLink(Batch, seed, i)
                                THEN "broken" ELSE "ok"]
    BY DEF VerifyRead
  <1> HIDE DEF seed
  <1>3. VerifierInv'
    <2>1. UNCHANGED <<log, checkpoint>> /\ \A k \in 2..m : Broken(k)' <=> Broken(k)
      BY DEF VerifyRead, Broken
    <2>2. verifier'.last = log[m].id
      BY <1>1, <1>2
    <2>3. verifier'.status = "broken" <=>
            \E k \in 2..m : log[k].id > checkpoint.last /\ Broken(k)
      BY <1>1, <1>2
    <2> QED
      BY <2>1, <2>2, <2>3 DEF VerifierInv
  <1>4. Batch[Len(Batch)].id \in Nat
    BY <1>1 DEF IndInv, OrderInv
  <1>5. TypeOK'
    BY <1>2, <1>4 DEF IndInv, TypeOK, VerifyRead
  <1> QED
    BY <1>3, <1>5 DEF IndInv, VerifyRead, OrderInv, WriterInv, SplitInv, Splits, CauseInv,
                      MarkInv, AlarmHasCause, Broken

LEMMA VerifyWriteInv == ASSUME IndInv, VerifyWrite PROVE IndInv'
  <1>1. PICK m \in 1..Len(log) :
          /\ log[m].id = verifier.last
          /\ verifier.status = "broken" <=>
                \E k \in 2..m : log[k].id > checkpoint.last /\ Broken(k)
    BY DEF IndInv, VerifierInv, VerifyWrite
  <1>2. /\ checkpoint' = [last |-> verifier.last, status |-> verifier.status]
        /\ checkpoint'.last = log[m].id /\ verifier'.pc = "idle"
    BY <1>1 DEF VerifyWrite, NotVerifying
  <1>3. TypeOK'
    BY DEF IndInv, TypeOK, VerifyWrite, NotVerifying, Checkpoint
  <1>4. SplitInv'
    <2>1. Splits(m)'
      BY <1>1, <1>2 DEF IndInv, TypeOK, OrderInv, Splits, VerifyWrite
    <2>2. log[m].id < nextId /\ m \in 0..Len(log)
      BY DEF IndInv, TypeOK, OrderInv
    <2> QED
      BY <2>1, <2>2, <1>2 DEF SplitInv, VerifyWrite
  <1>5. AlarmHasCause'
    <2> SUFFICES ASSUME verifier.status = "broken" PROVE gap # 0 \/ forked # {}
      BY <1>2 DEF AlarmHasCause, VerifyWrite
    <2>1. PICK k \in 2..m : Broken(k)
      BY <1>1
    <2>2. k \in 2..Len(log) /\ k \in 1..Len(log)
      BY DEF IndInv, TypeOK
    <2>3. log[k].id \in forked \cup {gap} /\ log[k].id # 0
      BY <2>1, <2>2 DEF IndInv, CauseInv, OrderInv
    <2> QED
      BY <2>3
  <1>6. VerifierInv'
    BY <1>2 DEF VerifierInv
  <1> QED
    BY <1>3, <1>4, <1>5, <1>6 DEF IndInv, VerifyWrite, OrderInv, WriterInv, CauseInv, MarkInv,
                                  Broken

\* A row is lost between neighbours that do not fit: the pair that takes their
\* place is broken, and stands for every fork and gap that was marked there.
LEMMA LoseInv == ASSUME IndInv, NEW i \in 1..Len(log), Lose(i) PROVE IndInv'
  <1>1. /\ gap = 0 /\ verifier.pc = "idle" /\ i \in 2..(Len(log) - 1)
        /\ log[i].id > checkpoint.last /\ gap' = log[i + 1].id
        /\ log[i - 1].hash # None /\ log[i + 1].prev # None
        /\ log[i - 1].hash # log[i + 1].prev
        /\ UNCHANGED <<nextId, writer, checkpoint, verifier, forked>>
    BY DEF Lose
  <1>2. /\ log' \in Seq(Row) /\ Len(log') = Len(log) - 1
        /\ \A j \in 1..(i - 1) : log'[j] = log[j]
        /\ \A j \in i..(Len(log) - 1) : log'[j] = log[j + 1]
    BY <1>1, Lost DEF IndInv, Lose
  <1>3. /\ Len(log) \in Nat /\ nextId \in Nat /\ checkpoint.last \in Nat /\ i \in Nat
        /\ \A j \in 1..Len(log) : log[j].id \in 1..(nextId - 1)
        /\ \A j, k \in 1..Len(log) : j < k => log[j].id < log[k].id
    BY DEF IndInv, TypeOK, OrderInv, Checkpoint
  <1> DEFINE Was(j) == IF j < i THEN j ELSE j + 1
  <1>4. \A j \in 1..Len(log') : Was(j) \in 1..Len(log) /\ log'[j] = log[Was(j)]
    BY <1>1, <1>2, <1>3
  <1>5. \A j, k \in 1..Len(log') : j < k => Was(j) < Was(k)
    BY <1>2, <1>3
  <1> HIDE DEF Was
  <1>6. TypeOK' /\ OrderInv'
    <2>1. \A j \in 1..Len(log') : log'[j].id \in 1..(nextId - 1)
      BY <1>3, <1>4
    <2>2. \A j, k \in 1..Len(log') : j < k => log'[j].id < log'[k].id
      BY <1>3, <1>4, <1>5
    <2>3. gap' \in Nat
      BY <1>1, <1>3
    <2>4. TypeOK'
      BY <1>1, <1>2, <2>2, <2>3 DEF IndInv, TypeOK
    <2> QED
      BY <1>1, <2>1, <2>4 DEF IndInv, OrderInv
  <1>7. SplitInv'
    <2>1. PICK n \in 0..Len(log) : Splits(n)
      BY DEF IndInv, SplitInv
    <2>2. n < i
      BY <2>1, <1>1, <1>3 DEF Splits
    <2>3. \A j \in 1..Len(log') : j <= n <=> Was(j) <= n
      BY <2>1, <2>2, <1>2, <1>3 DEF Was
    <2>4. Splits(n)' /\ n \in 0..Len(log')
      <3>1. ASSUME NEW j \in 1..Len(log') PROVE j <= n <=> log'[j].id <= checkpoint.last
        <4>1. Was(j) <= n <=> log[Was(j)].id <= checkpoint.last
          BY <2>1, <1>4 DEF Splits
        <4> QED
          BY <4>1, <2>3, <1>4
      <3>2. n \in 0..Len(log')
        BY <2>2, <1>1, <1>2, <1>3
      <3> QED
        BY <3>1, <3>2, <1>1 DEF Splits
    <2>5. checkpoint.last # 0 => \E j \in 1..Len(log') : log'[j].id = checkpoint.last
      <3> SUFFICES ASSUME checkpoint.last # 0
                   PROVE  \E j \in 1..Len(log') : log'[j].id = checkpoint.last
        OBVIOUS
      <3>1. PICK j \in 1..Len(log) : log[j].id = checkpoint.last
        BY DEF IndInv, SplitInv
      <3>2. j < i
        <4>1. ~(i < j) /\ j # i
          BY <3>1, <1>1, <1>3
        <4> QED
          BY <4>1, <1>3
      <3>3. j \in 1..Len(log') /\ log'[j] = log[j]
        BY <3>2, <1>1, <1>2, <1>3
      <3> QED
        BY <3>1, <3>3
    <2> QED
      BY <2>4, <2>5, <1>1 DEF IndInv, SplitInv
  <1>8. /\ \A k \in 2..(i - 1) : /\ Broken(k)' <=> Broken(k)
                                 /\ log'[k] = log[k] /\ log'[k - 1] = log[k - 1]
        /\ \A k \in (i + 1)..(Len(log) - 1) :
              /\ Broken(k)' <=> Broken(k + 1)
              /\ log'[k] = log[k + 1] /\ log'[k - 1] = log[k]
    <2>1. ASSUME NEW k \in 2..(i - 1)
          PROVE  k \in 1..(i - 1) /\ k - 1 \in 1..(i - 1)
      BY <1>1, <1>3
    <2>2. ASSUME NEW k \in (i + 1)..(Len(log) - 1)
          PROVE  /\ k \in i..(Len(log) - 1) /\ k - 1 \in i..(Len(log) - 1)
                 /\ (k - 1) + 1 = k /\ (k + 1) - 1 = k
      BY <1>1, <1>3
    <2> QED
      BY <2>1, <2>2, <1>2 DEF Broken
  <1>9. Broken(i)' /\ log'[i] = log[i + 1] /\ log'[i - 1] = log[i - 1]
    <2>1. i \in i..(Len(log) - 1) /\ i - 1 \in 1..(i - 1)
      BY <1>1, <1>3
    <2>2. log'[i] = log[i + 1] /\ log'[i - 1] = log[i - 1]
      BY <2>1, <1>2
    <2> QED
      BY <2>2, <1>1 DEF Broken
  <1>10. CauseInv'
    <2> SUFFICES ASSUME NEW k \in 2..Len(log'), Broken(k)'
                 PROVE  log'[k].id \in forked \cup {gap'}
      BY <1>1 DEF CauseInv
    <2>1. \A j \in 2..Len(log) : Broken(j) => log[j].id \in forked
      <3>1. \A j \in 2..Len(log) : j \in 1..Len(log)
        BY <1>3
      <3> QED
        BY <3>1, <1>1, <1>3 DEF IndInv, CauseInv
    <2>2. CASE k \in 2..(i - 1)
      <3>1. k \in 2..Len(log) /\ Broken(k) /\ log'[k] = log[k]
        BY <2>2, <1>1, <1>3, <1>8
      <3> QED
        BY <3>1, <2>1
    <2>3. CASE k = i
      BY <2>3, <1>1, <1>9
    <2>4. CASE k \in (i + 1)..(Len(log) - 1)
      <3>1. k + 1 \in 2..Len(log) /\ Broken(k + 1) /\ log'[k] = log[k + 1]
        BY <2>4, <1>1, <1>3, <1>8
      <3> QED
        BY <3>1, <2>1
    <2> QED
      BY <2>2, <2>3, <2>4, <1>1, <1>2, <1>3
  <1>11. MarkInv'
    <2> SUFFICES ASSUME NEW f \in forked \cup {gap'}
                 PROVE  \E k \in 2..Len(log') :
                           Broken(k)' /\ log'[k - 1].id < f /\ f <= log'[k].id
      BY <1>1 DEF MarkInv
    <2>1. i \in 2..Len(log') /\ i - 1 \in 1..Len(log) /\ i + 1 \in 1..Len(log)
      BY <1>1, <1>2, <1>3
    <2>2. log[i - 1].id < log[i].id /\ log[i].id < log[i + 1].id
      BY <2>1, <1>1, <1>3
    <2>3. CASE f = gap'
      BY <2>1, <2>2, <2>3, <1>1, <1>3, <1>9
    <2>4. CASE f \in forked
      <3>1. PICK k \in 2..Len(log) : Broken(k) /\ log[k - 1].id < f /\ f <= log[k].id
        BY <2>4 DEF IndInv, MarkInv
      <3>2. f \in Nat
        BY <2>4 DEF IndInv, OrderInv
      <3>3. CASE k < i
        <4>1. k \in 2..(i - 1) /\ k \in 2..Len(log')
          BY <3>3, <1>1, <1>2, <1>3
        <4>2. Broken(k)' /\ log'[k] = log[k] /\ log'[k - 1] = log[k - 1]
          BY <4>1, <3>1, <1>8
        <4> QED
          BY <4>1, <4>2, <3>1
      <3>4. CASE k = i
        <4>1. log[i - 1].id < f /\ f <= log[i].id
          BY <3>1, <3>4
        <4>2. f <= log[i + 1].id
          BY <4>1, <3>2, <2>1, <2>2, <1>3
        <4> QED
          BY <4>1, <4>2, <2>1, <1>9
      <3>5. CASE k = i + 1
        <4>1. k - 1 = i
          BY <3>5, <1>3
        <4>2. log[i].id < f /\ f <= log[i + 1].id
          BY <3>1, <3>5, <4>1
        <4>3. log[i - 1].id < f
          <5>1. /\ log[i - 1].id \in Nat /\ log[i].id \in Nat
                /\ log[i - 1].id < log[i].id
            BY <2>1, <2>2, <1>3
          <5> QED
            BY <5>1, <4>2, <3>2
        <4> QED
          BY <4>2, <4>3, <2>1, <1>9
      <3>6. CASE k > i + 1
        <4> DEFINE j == k - 1
        <4>1. j \in (i + 1)..(Len(log) - 1) /\ j + 1 = k /\ j \in 2..Len(log')
          BY <3>6, <1>1, <1>2, <1>3
        <4>2. Broken(j + 1) /\ log[j].id < f /\ f <= log[j + 1].id
          BY <4>1, <3>1
        <4> HIDE DEF j
        <4> QED
          BY <4>1, <4>2, <1>8
      <3> QED
        BY <3>3, <3>4, <3>5, <3>6, <1>3
    <2> QED
      BY <2>3, <2>4
  <1>12. WriterInv' /\ VerifierInv' /\ AlarmHasCause'
    <2>1. gap' # 0
      BY <1>1, <1>3
    <2> QED
      BY <2>1, <1>1 DEF IndInv, WriterInv, VerifierInv, AlarmHasCause
  <1> QED
    BY <1>6, <1>7, <1>10, <1>11, <1>12 DEF IndInv

LEMMA NextInv == IndInv /\ [Next]_vars => IndInv'
  <1> SUFFICES ASSUME IndInv, [Next]_vars PROVE IndInv'
    OBVIOUS
  <1>1. CASE \E w \in Writers : LogRead(w)
    BY <1>1, LogReadInv
  <1>2. CASE \E w \in Writers, payload \in Payloads : LogInsert(w, payload)
    BY <1>2, LogInsertInv
  <1>3. CASE LogAudit
    BY <1>3, LogAuditInv
  <1>4. CASE VerifyRead
    BY <1>4, VerifyReadInv
  <1>5. CASE VerifyWrite
    BY <1>5, VerifyWriteInv
  <1>6. CASE \E i \in 1..Len(log) : Lose(i)
    BY <1>6, LoseInv
  <1>7. CASE UNCHANGED vars
    BY <1>7 DEF vars, IndInv, TypeOK, OrderInv, WriterInv, SplitInv, Splits, CauseInv,
                MarkInv, VerifierInv, AlarmHasCause, Broken
  <1> QED
    BY <1>1, <1>2, <1>3, <1>4, <1>5, <1>6, <1>7 DEF Next

-----------------------------------------------------------------------------
(* Theorems *)

LEMMA Invariant == Spec => []IndInv
  <1> QED
    BY InitInv, NextInv, PTL DEF Spec

\* The types and the order of the table: verify_integrity and log_event keep ids
\* ascending whatever is lost.
THEOREM TypeCorrect == Spec => []TypeOK
  <1>1. IndInv => TypeOK
    BY DEF IndInv
  <1> QED
    BY <1>1, Invariant, PTL

\* verify_integrity calls the chain broken only if a row was lost or two calls of
\* log_event overlapped, for any batch size and any plain rows in between.
THEOREM AlarmsHaveCauses == Spec => []AlarmHasCause
  <1>1. IndInv => AlarmHasCause
    BY DEF IndInv
  <1> QED
    BY <1>1, Invariant, PTL

\* Broken neighbours at or around a place f that the checkpoint passes are in the
\* batch that passes it, and break it.
LEMMA Passed ==
  ASSUME IndInv, [Next]_vars, NEW f \in forked \cup ({gap} \ {0}),
         checkpoint.last < f, checkpoint'.last >= f
  PROVE  checkpoint'.status = "broken"
  <1>1. f \in Nat /\ checkpoint.last \in Nat
    BY DEF IndInv, TypeOK, OrderInv, Checkpoint
  <1>2. VerifyWrite
    <2>1. checkpoint' = checkpoint => FALSE
      BY <1>1
    <2> QED
      BY <2>1 DEF Next, vars, LogRead, LogInsert, LogAudit, VerifyRead, Lose
  <1>3. PICK m \in 1..Len(log) :
          /\ log[m].id = verifier.last
          /\ verifier.status = "broken" <=>
                \E k \in 2..m : log[k].id > checkpoint.last /\ Broken(k)
    BY <1>2 DEF IndInv, VerifierInv, VerifyWrite
  <1>4. PICK k \in 2..Len(log) : Broken(k) /\ log[k - 1].id < f /\ f <= log[k].id
    BY DEF IndInv, MarkInv
  <1>5. /\ Len(log) \in Nat /\ k \in 1..Len(log) /\ k - 1 \in 1..Len(log)
        /\ \A j \in 1..Len(log) : log[j].id \in Nat
        /\ \A i, j \in 1..Len(log) : i < j => log[i].id < log[j].id
    BY DEF IndInv, TypeOK, OrderInv
  <1>6. f <= log[m].id
    BY <1>2, <1>3 DEF VerifyWrite
  <1>7. k - 1 < m
    <2> SUFFICES ASSUME ~(k - 1 < m) PROVE FALSE
      OBVIOUS
    <2>1. m = k - 1 \/ m < k - 1
      BY <1>5
    <2>2. log[m].id <= log[k - 1].id
      BY <2>1, <1>5
    <2> QED
      BY <2>2, <1>1, <1>4, <1>5, <1>6
  <1>8. k \in 2..m /\ log[k].id > checkpoint.last
    BY <1>1, <1>4, <1>5, <1>7
  <1>9. verifier.status = "broken"
    BY <1>3, <1>4, <1>8
  <1> QED
    BY <1>2, <1>9 DEF VerifyWrite

\* The verification that passes the place of a lost row reports it, wherever the
\* seam between two batches falls and whoever writes while it runs.
THEOREM LossesAreReported == Spec => LossIsReported
  <1>1. IndInv /\ [Next]_vars =>
          (checkpoint.last < gap /\ checkpoint'.last >= gap
             => checkpoint'.status = "broken")
    <2> SUFFICES ASSUME IndInv, [Next]_vars, checkpoint.last < gap, checkpoint'.last >= gap
                 PROVE  checkpoint'.status = "broken"
      OBVIOUS
    <2>1. gap # 0
      BY DEF IndInv, TypeOK, Checkpoint
    <2> QED
      BY <2>1, Passed
  <1> QED
    BY <1>1, Invariant, PTL DEF Spec, LossIsReported

\* The same of the place where two overlapping appends forked the chain, also when
\* the row of the fork is the one that was lost.
THEOREM ForksAreReported == Spec => ForkIsReported
  <1>1. IndInv /\ [Next]_vars =>
          \A id \in forked : checkpoint.last < id /\ checkpoint'.last >= id
                                => checkpoint'.status = "broken"
    BY Passed
  <1> QED
    BY <1>1, Invariant, PTL DEF Spec, ForkIsReported

=============================================================================
